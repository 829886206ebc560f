------------------------- MODULE PipeFusionAsyncProofs -------------------------
(***************************************************************************)
(* IInv is an invariant of PipeFusionAsync for any number of stages, steps *)
(* and patches, and any transport.                                         *)
(***************************************************************************)
EXTENDS PipeFusionAsyncInv, TLAPS, SequenceTheorems

LEMMA RingFacts ==
    ASSUME NEW i \in Stages
    PROVE  /\ next_rank(i) \in Stages /\ prev_rank(i) \in Stages
           /\ prev_rank(next_rank(i)) = i /\ next_rank(prev_rank(i)) = i
           /\ next_rank(i) # i /\ prev_rank(i) # i
           /\ First \in Stages /\ Last \in Stages /\ First # Last
           /\ i \in Nat
BY StagesAssumption DEF Stages, next_rank, prev_rank, First, Last

\* Everything the local parts of the invariant say of stage k is unchanged.
Frame(k) ==
    /\ pc'[k] = pc[k] /\ io'[k] = io[k] /\ step'[k] = step[k] /\ patch'[k] = patch[k]
    /\ pipeline_patch_idx'[k] = pipeline_patch_idx[k] /\ recv_task'[k] = recv_task[k]
    /\ receiving_tasks'[k] = receiving_tasks[k] /\ primed'[k] = primed[k]
    /\ recv_shape'[k] = recv_shape[k] /\ send_shape'[k] = send_shape[k]
    /\ recv_buffer'[k] = recv_buffer[k] /\ posted'[k] = posted[k]
    /\ patch_latents'[k] = patch_latents[k] /\ (k = Last => previous' = previous)
    /\ incoming_condition'[k] = incoming_condition[k]
    /\ outgoing_condition'[k] = outgoing_condition[k] /\ outbound'[k] = outbound[k]

LEMMA FrameCtl == ASSUME NEW k \in Stages, Frame(k), Ctl(k) PROVE Ctl(k)'
BY DEF Frame, Ctl, InStep, PrimedWhen, needs_receive, has_next_receive, final_patch,
       CallsRecvNext, PrefetchesBeforeSend

LEMMA FramePos ==
    ASSUME NEW k \in Stages, Frame(k)
    PROVE  /\ Want(k)' = Want(k) /\ Outstanding(k)' = Outstanding(k)
           /\ RecvPos(k)' = RecvPos(k) /\ SendPos(k)' = SendPos(k)
           /\ ToSend(k)' = ToSend(k) /\ Progress(k)' = Progress(k)
           /\ InRecvNext(k)' = InRecvNext(k)
<1>1. Cursor(k)' = Cursor(k) /\ StepStart(k)' = StepStart(k)
  BY DEF Frame, Cursor, StepStart
<1>2. InStep(k)' = InStep(k) /\ Sent(k)' = Sent(k)
  BY DEF Frame, InStep, Sent
<1>3. Want(k)' = Want(k)
  BY <1>1, <1>2 DEF Frame, Want
<1>4. Outstanding(k)' = Outstanding(k) /\ InRecvNext(k)' = InRecvNext(k)
  BY DEF Frame, Outstanding, InRecvNext
<1>5. RecvPos(k)' = RecvPos(k)
  BY <1>3, <1>4 DEF Frame, RecvPos
<1>6. ToSend(k)' = ToSend(k)
  BY <1>1, <1>2 DEF Frame, ToSend
<1>7. SendPos(k)' = SendPos(k)
  BY <1>6 DEF Frame, SendPos
<1>8. Progress(k)' = Progress(k)
  BY DEF Frame, Progress, final_patch
<1> QED
  BY <1>3, <1>4, <1>5, <1>6, <1>7, <1>8

LEMMA FrameRecv == ASSUME NEW k \in Stages, Frame(k), Recv(k) PROVE Recv(k)'
BY FramePos DEF Frame, Recv, ShapeWanted, DataWanted, ShapeKnown

LEMMA FrameBuffers == ASSUME NEW k \in Stages, Frame(k), Buffers(k) PROVE Buffers(k)'
BY FramePos DEF Frame, Buffers, ConditionLive, Computed, final_patch, needs_receive,
                Cursor, StepStart

LEMMA FrameLatents == ASSUME NEW k \in Stages, Frame(k), Latents(k) PROVE Latents(k)'
BY FramePos DEF Frame, Latents

LEMMA FrameSend == ASSUME NEW k \in Stages, Frame(k), Send(k) PROVE Send(k)'
BY FramePos DEF Frame, Send, ShapeSent, InStep, Computed

-----------------------------------------------------------------------------
(* The messages of a link: a send appends at the sender's position, a       *)
(* delivery takes the message at the receiver's.                            *)

LEMMA NextTaskLater ==
    ASSUME NEW w \in WorkItem
    PROVE  NextTask(w) \in WorkItem /\ Earlier(w, NextTask(w))
BY PatchesAssumption DEF WorkItem, NextTask, Earlier, Patches

LEMMA AfterLater ==
    ASSUME NEW j, NEW pos \in Position
    PROVE  After(j, pos) \in Position /\ EarlierPos(pos, After(j, pos))
<1>1. CASE pos.kind = "shape"
  BY <1>1 DEF After, EarlierPos, Position
<1>2. CASE pos.kind = "data"
  <2>1. pos.work \in WorkItem
    BY DEF Position
  <2>2. NextTask(pos.work) \in WorkItem /\ Earlier(pos.work, NextTask(pos.work))
    BY <2>1, NextTaskLater
  <2> QED
    BY <1>2, <2>2 DEF After, Start, EarlierPos, Position
<1> QED
  BY <1>1, <1>2 DEF Position

LEMMA EarlierPosTransitive ==
    ASSUME NEW a \in Position, NEW b \in Position, NEW c \in Position,
           EarlierPos(a, b), EarlierPos(b, c)
    PROVE  EarlierPos(a, c)
BY DEF EarlierPos, Earlier, Position, WorkItem, Patches

LEMMA MessagePos ==
    ASSUME NEW m \in Message
    PROVE  PosOf(m) \in Position /\ WorkOf(m) \in WorkItem
BY DEF PosOf, WorkOf, Message, Payload, Image, Position, WorkItem

LEMMA LinkAppend ==
    ASSUME NEW j, NEW msgs \in Seq(Message), NEW from, NEW to \in Position,
           NEW m \in Message, LinkOK(j, msgs, from, to),
           PosOf(m) = to, m.body = Body(j, WorkOf(m))
    PROVE  LinkOK(j, Append(msgs, m), from, After(j, to))
<1> DEFINE new == Append(msgs, m)
<1>1. new # <<>> /\ Len(new) = Len(msgs) + 1 /\ Len(msgs) \in Nat
  OBVIOUS
<1>2. new[Len(msgs) + 1] = m /\ \A k \in 1 .. Len(msgs) : new[k] = msgs[k]
  OBVIOUS
<1>3. ASSUME NEW k \in 1 .. Len(new)
      PROVE  /\ new[k].body = Body(j, WorkOf(new[k]))
             /\ EarlierPos(PosOf(new[k]), After(j, to))
             /\ After(j, PosOf(new[k])) =
                    IF k < Len(new) THEN PosOf(new[k + 1]) ELSE After(j, to)
  <2>1. After(j, to) \in Position /\ EarlierPos(to, After(j, to))
    BY AfterLater
  <2>2. CASE k = Len(msgs) + 1
    BY <1>1, <1>2, <2>1, <2>2
  <2>3. CASE k \in 1 .. Len(msgs)
    <3>1. new[k] = msgs[k] /\ msgs[k] \in Message
      BY <1>2, <2>3
    <3>2. /\ msgs[k].body = Body(j, WorkOf(msgs[k]))
          /\ EarlierPos(PosOf(msgs[k]), to)
          /\ After(j, PosOf(msgs[k])) = IF k < Len(msgs) THEN PosOf(msgs[k + 1]) ELSE to
      BY <2>3 DEF LinkOK
    <3>3. EarlierPos(PosOf(msgs[k]), After(j, to))
      BY <2>1, <3>1, <3>2, MessagePos, EarlierPosTransitive
    <3>4. CASE k < Len(msgs)
      <4>1. new[k + 1] = msgs[k + 1]
        BY <1>2, <2>3, <3>4, <1>1
      <4> QED
        BY <1>1, <3>1, <3>2, <3>3, <3>4, <4>1
    <3>5. CASE k = Len(msgs)
      BY <1>1, <1>2, <3>1, <3>2, <3>3, <3>5
    <3> QED
      BY <2>3, <3>4, <3>5, <1>1
  <2> QED
    BY <1>1, <2>2, <2>3
<1>4. from = PosOf(new[1])
  <2>1. CASE msgs = <<>>
    BY <1>1, <1>2, <2>1 DEF LinkOK
  <2>2. CASE msgs # <<>>
    <3>1. 1 \in 1 .. Len(msgs)
      BY <1>1, <2>2
    <3> QED
      BY <1>2, <2>2, <3>1 DEF LinkOK
  <2> QED
    BY <2>1, <2>2
<1> HIDE DEF new
<1> QED
  BY <1>1, <1>3, <1>4 DEF LinkOK, new

LEMMA SeqEmpty ==
    ASSUME NEW S, NEW s \in Seq(S)
    PROVE  s = <<>> <=> Len(s) = 0
BY EmptySeq

LEMMA LinkTail ==
    ASSUME NEW j, NEW msgs \in Seq(Message), NEW from, NEW to,
           LinkOK(j, msgs, from, to), msgs # <<>>
    PROVE  /\ LinkOK(j, Tail(msgs), After(j, from), to)
           /\ Head(msgs) \in Message /\ PosOf(Head(msgs)) = from
           /\ Head(msgs).body = Body(j, WorkOf(Head(msgs)))
           /\ EarlierPos(from, to)
<1> DEFINE new == Tail(msgs)
<1>1. new \in Seq(Message) /\ Len(new) = Len(msgs) - 1 /\ Len(msgs) \in Nat /\ Len(msgs) > 0
  OBVIOUS
<1>2. \A k \in 1 .. Len(new) : new[k] = msgs[k + 1]
  OBVIOUS
<1>3. Head(msgs) = msgs[1] /\ msgs[1] \in Message /\ 1 \in 1 .. Len(msgs)
  BY <1>1
<1>4. from = PosOf(msgs[1])
  BY DEF LinkOK
<1>5. ASSUME NEW k \in 1 .. Len(new)
      PROVE  /\ new[k].body = Body(j, WorkOf(new[k]))
             /\ EarlierPos(PosOf(new[k]), to)
             /\ After(j, PosOf(new[k])) = IF k < Len(new) THEN PosOf(new[k + 1]) ELSE to
  <2>1. k + 1 \in 1 .. Len(msgs) /\ new[k] = msgs[k + 1]
    BY <1>1, <1>2
  <2>2. /\ msgs[k + 1].body = Body(j, WorkOf(msgs[k + 1]))
        /\ EarlierPos(PosOf(msgs[k + 1]), to)
        /\ After(j, PosOf(msgs[k + 1])) =
                IF k + 1 < Len(msgs) THEN PosOf(msgs[k + 1 + 1]) ELSE to
    BY <2>1 DEF LinkOK
  <2>3. k < Len(new) => new[k + 1] = msgs[k + 1 + 1]
    BY <1>1, <1>2
  <2> QED
    BY <1>1, <2>1, <2>2, <2>3
<1>6. Len(new) = 0 <=> new = <<>>
  <2> HIDE DEF new
  <2> QED
    BY <1>1, SeqEmpty
<1>7. After(j, PosOf(msgs[1])) = IF 1 < Len(msgs) THEN PosOf(msgs[1 + 1]) ELSE to
  BY <1>3 DEF LinkOK
<1>8. 1 < Len(msgs) => new[1] = msgs[1 + 1]
  BY <1>1, <1>2
<1> HIDE DEF new
<1>9. After(j, from) = IF new = <<>> THEN to ELSE PosOf(new[1])
  BY <1>1, <1>4, <1>6, <1>7, <1>8
<1> QED
  BY <1>3, <1>4, <1>5, <1>9 DEF LinkOK, new

-----------------------------------------------------------------------------
(* A step of one stage *)

LEMMA LinksKept ==
    ASSUME NEW i \in Stages, IInv, \A k \in Stages \ {i} : Frame(k),
           RecvPos(i)' = RecvPos(i), SendPos(i)' = SendPos(i), link' = link
    PROVE  \A k \in Stages : Link(k)'
<1>1. \A k \in Stages : RecvPos(k)' = RecvPos(k) /\ SendPos(k)' = SendPos(k)
  BY FramePos
<1> QED
  BY <1>1, RingFacts DEF IInv, Link, LinkOK, prev_rank, Last, First

LEMMA StageStep ==
    ASSUME NEW i \in Stages, IInv, \A k \in Stages \ {i} : Frame(k), TypeOK',
           Ctl(i)', Recv(i)', Buffers(i)', Latents(i)', Send(i)',
           \A k \in Stages : Link(k)'
    PROVE  IInv'
BY FrameCtl, FrameRecv, FrameBuffers, FrameLatents, FrameSend DEF IInv

LEMMA Types ==
    ASSUME NEW i \in Stages, TypeOK
    PROVE  /\ step[i] \in Nat /\ step[i] <= NumSteps
           /\ patch[i] \in Patches /\ patch[i] \in Nat /\ patch[i] < NumPatches
           /\ recv_task[i] \in [step : 0 .. NumSteps, patch : Patches]
           /\ NumSteps \in Nat /\ NumPatches \in Nat
BY StepsAssumption, PatchesAssumption DEF TypeOK, Patches

LEMMA BeginStepInv ==
    ASSUME NEW i \in Stages, IInv, BeginStep(i)
    PROVE  IInv'
<1> USE DEF IInv, BeginStep
<1>1. TypeOK'
  BY PatchesAssumption DEF TypeOK, group, network, Patches
<1>2. \A k \in Stages \ {i} : Frame(k)
  BY DEF TypeOK, Frame, group, network
<1>3. Ctl(i)'
  <2>1. /\ pc[i] = "step" /\ pc'[i] = "receive" /\ step'[i] = step[i] /\ patch'[i] = 0
        /\ io'[i] = io[i] /\ primed'[i] = primed[i] /\ step[i] < NumSteps /\ step[i] \in Nat
        /\ pipeline_patch_idx'[i] = pipeline_patch_idx[i]
    BY StepsAssumption DEF TypeOK
  <2>2. io[i] # "sync"
    BY <2>1 DEF Ctl, CallsRecvNext
  <2>3. pipeline_patch_idx[i] = 0
    BY <2>1 DEF Ctl, InStep
  <2>4. primed[i] <=> 0 < step[i]
    BY <2>1 DEF Ctl, PrimedWhen
  <2>5. PrimedWhen(i)' <=> 0 < step[i]
    BY <2>1 DEF PrimedWhen, needs_receive
  <2>6. primed'[i] <=> PrimedWhen(i)'
    BY <2>1, <2>4, <2>5
  <2> QED
    BY <2>1, <2>2, <2>3, <2>6 DEF Ctl, InStep
<1>4. Want(i)' = Want(i) /\ Outstanding(i)' = Outstanding(i) /\ InRecvNext(i)' = InRecvNext(i)
  BY DEF TypeOK, Want, Outstanding, InRecvNext, InStep, Cursor, StepStart, Ctl, group
<1>5. ToSend(i)' = ToSend(i) /\ Progress(i)' = Progress(i)
  BY DEF TypeOK, ToSend, InStep, Sent, Cursor, StepStart, Ctl, group, Progress
<1>6. Recv(i)'
  BY <1>4 DEF TypeOK, Recv, ShapeWanted, DataWanted, ShapeKnown, group, network
<1>7. Buffers(i)'
  BY <1>4 DEF TypeOK, Buffers, ConditionLive, Computed, group, network
<1>8. Latents(i)'
  BY <1>5 DEF TypeOK, Latents
<1>9. Send(i)'
  BY <1>5 DEF TypeOK, Send, ShapeSent, InStep, Computed, group
<1>10. RecvPos(i)' = RecvPos(i) /\ SendPos(i)' = SendPos(i) /\ link' = link
  BY <1>4, <1>5 DEF TypeOK, RecvPos, SendPos, group, network
<1>11. \A k \in Stages : Link(k)'
  BY <1>2, <1>10, LinksKept
<1> QED
  BY <1>1, <1>2, <1>3, <1>6, <1>7, <1>8, <1>9, <1>11, StageStep

LEMMA ReceiveInv ==
    ASSUME NEW i \in Stages, IInv, Receive(i)
    PROVE  IInv'
<1> USE DEF IInv
<1>1. /\ pc[i] = "receive" /\ io[i] = "idle"
      /\ pc'[i] = IF needs_receive(i) THEN "get" ELSE "prepare"
      /\ step'[i] = step[i] /\ patch'[i] = patch[i] /\ io'[i] = io[i] /\ primed'[i] = primed[i]
      /\ pipeline_patch_idx'[i] = pipeline_patch_idx[i] /\ outbound'[i] = outbound[i]
      /\ ~needs_receive(i) \/ primed[i]
  BY DEF Receive, TypeOK, schedule
<1>0. /\ step[i] < NumSteps /\ pipeline_patch_idx[i] = patch[i]
      /\ primed[i] <=> needs_receive(i) /\ ~(step[i] = 0 /\ patch[i] = 0)
      /\ ~needs_receive(i) => i = First /\ step[i] = 0
  BY <1>1, Types DEF Ctl, InStep, PrimedWhen, needs_receive
<1>2. TypeOK'
  <2>1. pc' \in [Stages -> {"step", "receive", "get", "prepare", "compute",
                          "prefetch_before_send", "send", "prefetch_after_send",
                          "advance", "done", "failed"}]
    BY DEF Receive, TypeOK
  <2> QED
    BY <2>1 DEF Receive, TypeOK, group, network, schedule
<1>3. \A k \in Stages \ {i} : Frame(k)
  BY DEF Receive, TypeOK, Frame, group, network, schedule
<1>4. Ctl(i)'
  BY <1>0, <1>1 DEF Ctl, InStep, PrimedWhen, needs_receive
<1>5. Want(i)' = Want(i)
  <2>1. CASE needs_receive(i)
    BY <1>1, <2>1 DEF Want, InStep, Cursor
  <2>2. CASE ~needs_receive(i)
    BY <1>0, <1>1, <2>2, Types DEF Want, InStep, Cursor, FirstRound, NextTask, Patches
  <2> QED
    BY <2>1, <2>2
<1>6. Outstanding(i)' <=> Outstanding(i)
  BY <1>0, <1>1 DEF Outstanding
<1>7. ~InRecvNext(i) /\ ~InRecvNext(i)'
  BY <1>1 DEF InRecvNext
<1>8. ToSend(i)' = ToSend(i) /\ Progress(i)' = Progress(i)
  BY <1>1 DEF ToSend, InStep, Sent, Cursor, Progress
<1>9. Recv(i)'
  BY <1>5, <1>6, <1>7 DEF Receive, TypeOK, Recv, ShapeWanted, DataWanted, ShapeKnown, group, network
<1>10. Buffers(i)'
  BY <1>0, <1>1, <1>5, <1>6 DEF Receive, Buffers, ConditionLive, Computed, needs_receive, final_patch,
       network, schedule, StepStart, Cursor
<1>11. Latents(i)'
  BY <1>1, <1>8 DEF Receive, Latents, schedule
<1>12. Send(i)'
  BY <1>1, <1>8 DEF Receive, Send, ShapeSent, InStep, Computed, group, schedule
<1>13. RecvPos(i)' = RecvPos(i) /\ SendPos(i)' = SendPos(i) /\ link' = link
  BY <1>1, <1>5, <1>6, <1>7, <1>8 DEF Receive, RecvPos, SendPos, group, network
<1>14. \A k \in Stages : Link(k)'
  BY <1>3, <1>13, LinksKept
<1> QED
  BY <1>2, <1>3, <1>4, <1>9, <1>10, <1>11, <1>12, <1>14, StageStep

LEMMA GetRecvDataInv ==
    ASSUME NEW i \in Stages, IInv, GetRecvData(i)
    PROVE  IInv'
<1> USE DEF IInv
<1>1. /\ pc[i] = "get" /\ io[i] # "sync" /\ io'[i] = io[i]
      /\ step'[i] = step[i] /\ patch'[i] = patch[i]
      /\ pipeline_patch_idx'[i] = pipeline_patch_idx[i] /\ outbound'[i] = outbound[i]
  BY DEF GetRecvData, schedule, Ctl, CallsRecvNext
<1>0. step[i] < NumSteps /\ needs_receive(i) /\ pipeline_patch_idx[i] = patch[i]
  BY <1>1 DEF Ctl, InStep
<1>2. Outstanding(i) /\ Want(i) = Cursor(i) /\ step[i] >= FirstRound(i)
  BY <1>0, <1>1, Types DEF Outstanding, Want, InStep, Cursor, needs_receive, FirstRound
<1>3. receiving_tasks[i] = <<patch[i]>> /\ recv_task[i] = NextTask(Cursor(i))
  BY <1>2 DEF Recv, Cursor
<1>4. posted[i] = <<>>
  <2>1. SUFFICES ASSUME DataWanted(i) PROVE FALSE
    BY <1>1 DEF Recv, InRecvNext
  <2>2. 1 \in 1 .. Len(posted[i]) /\ posted[i][1].kind = "data"
    BY <2>1 DEF DataWanted
  <2> QED
    BY <2>2, <1>3 DEF GetRecvData
<1>5. /\ pc' = [pc EXCEPT ![i] = "prepare"]
      /\ primed' = [primed EXCEPT ![i] = FALSE]
      /\ receiving_tasks' = [receiving_tasks EXCEPT ![i] = Tail(@)]
  BY <1>3 DEF GetRecvData
<1>6. pc'[i] = "prepare" /\ primed'[i] = FALSE /\ receiving_tasks'[i] = <<>>
  BY <1>3, <1>5 DEF TypeOK
<1>7. TypeOK'
  <2>1. receiving_tasks' \in [Stages -> Seq(Patches)]
    <3>1. Tail(receiving_tasks[i]) \in Seq(Patches)
      BY <1>3 DEF TypeOK
    <3> QED
      BY <1>5, <3>1 DEF TypeOK
  <2> QED
    BY <1>5, <2>1 DEF GetRecvData, TypeOK, network, schedule
<1>8. \A k \in Stages \ {i} : Frame(k)
  BY <1>5 DEF GetRecvData, TypeOK, Frame, network, schedule
<1>9. Ctl(i)'
  BY <1>0, <1>1, <1>6 DEF Ctl, InStep, PrimedWhen
<1>10. Want(i)' = NextTask(Cursor(i))
  BY <1>1, <1>2, <1>6, Types DEF Want, InStep, Cursor, NextTask, FirstRound
<1>11. ~Outstanding(i)' /\ ~InRecvNext(i) /\ ~InRecvNext(i)'
  BY <1>1, <1>6 DEF Outstanding, InRecvNext
<1>12. ToSend(i)' = ToSend(i) /\ Progress(i)' = Progress(i)
  BY <1>1, <1>6 DEF ToSend, InStep, Sent, Cursor, Progress
<1>13. Recv(i)'
  BY <1>3, <1>4, <1>6, <1>10, <1>11 DEF GetRecvData, Recv, ShapeKnown, network
<1>14. Buffers(i)'
  BY <1>0, <1>1, <1>2, <1>4, <1>6, <1>11
     DEF GetRecvData, Buffers, ConditionLive, Computed, network, schedule, StepStart, Cursor
<1>15. Latents(i)'
  BY <1>1, <1>6, <1>12 DEF GetRecvData, Latents, schedule
<1>16. Send(i)'
  BY <1>1, <1>6, <1>12 DEF GetRecvData, Send, ShapeSent, InStep, Computed, schedule
<1>17. RecvPos(i)' = RecvPos(i) /\ SendPos(i)' = SendPos(i) /\ link' = link
  BY <1>1, <1>4, <1>6, <1>11, <1>12 DEF GetRecvData, RecvPos, SendPos, network
<1>18. \A k \in Stages : Link(k)'
  BY <1>8, <1>17, LinksKept
<1> QED
  BY <1>7, <1>8, <1>9, <1>13, <1>14, <1>15, <1>16, <1>18, StageStep

LEMMA PreparePatchInv ==
    ASSUME NEW i \in Stages, IInv, PreparePatch(i)
    PROVE  IInv'
<1> USE DEF IInv
<1>1. /\ pc[i] = "prepare" /\ io'[i] = io[i] /\ step'[i] = step[i] /\ patch'[i] = patch[i]
      /\ primed'[i] = primed[i] /\ pipeline_patch_idx'[i] = pipeline_patch_idx[i]
      /\ outbound'[i] = outbound[i] /\ recv_task'[i] = recv_task[i] /\ posted'[i] = posted[i]
      /\ receiving_tasks'[i] = receiving_tasks[i] /\ recv_shape'[i] = recv_shape[i]
      /\ recv_buffer'[i] = recv_buffer[i] /\ patch_latents'[i] = patch_latents[i]
      /\ send_shape'[i] = send_shape[i] /\ outgoing_condition'[i] = outgoing_condition[i]
      /\ link' = link
  BY DEF PreparePatch, schedule, group, network
<1>2. /\ step[i] < NumSteps /\ pipeline_patch_idx[i] = patch[i] /\ ~primed[i]
      /\ io[i] # "sync"
  BY <1>1 DEF Ctl, InStep, PrimedWhen, CallsRecvNext
<1>3. ~Outstanding(i)
  BY <1>1, <1>2 DEF Outstanding
<1>4. recv_task[i] = Want(i)
  BY <1>3 DEF Recv
<1>5. needs_receive(i) => Want(i) = NextTask(Cursor(i)) /\ step[i] >= FirstRound(i)
  BY <1>1, Types DEF Want, InStep, Cursor, NextTask, FirstRound, needs_receive
<1>6. needs_receive(i) => recv_shape[i][patch[i]] = patch[i]
  <2>1. SUFFICES ASSUME needs_receive(i) PROVE ShapeKnown(i, patch[i])
    BY Types DEF Recv
  <2>2. recv_task[i] = NextTask(Cursor(i)) /\ step[i] >= FirstRound(i) /\ FirstRound(i) \in Nat
    BY <1>4, <1>5, <2>1 DEF FirstRound
  <2>3. recv_task[i].step > FirstRound(i) \/ patch[i] < recv_task[i].patch
    BY <2>2, Types DEF NextTask, Cursor
  <2> QED
    BY <2>3 DEF ShapeKnown
<1>7. pc'[i] = "compute"
  <2>1. i # First => needs_receive(i)
    BY DEF needs_receive
  <2>2. i # First /\ ConditionReuse /\ patch[i] > 0 => incoming_condition[i] # None
    BY <1>1, NoneAssumption DEF Buffers, ConditionLive
  <2>3. pc' = [pc EXCEPT ![i] = "compute"]
    BY <1>6, <2>1, <2>2 DEF PreparePatch, IncludesCondition
  <2> QED
    BY <2>3 DEF TypeOK
<1>8. pc' = [pc EXCEPT ![i] = "compute"]
  BY <1>7 DEF PreparePatch, TypeOK
<1>9. TypeOK'
  <2>1. condition_states' \in [Stages -> SUBSET Patches]
    <3>1. condition_states[i] \union {patch[i]} \in SUBSET Patches
      BY Types DEF TypeOK
    <3> QED
      BY <3>1 DEF PreparePatch, TypeOK
  <2>2. previous' \in [Patches -> Image \union {None}]
    BY Types DEF PreparePatch, TypeOK, PreviousLatent
  <2>3. incoming_condition' \in [Stages -> Patches \union {None}]
    BY PatchesAssumption DEF PreparePatch, TypeOK, Patches
  <2> QED
    BY <1>8, <2>1, <2>2, <2>3 DEF PreparePatch, TypeOK, group, network
<1>10. \A k \in Stages \ {i} : Frame(k)
  BY <1>8 DEF PreparePatch, TypeOK, Frame, group, network
<1>11. Ctl(i)'
  BY <1>1, <1>2, <1>7 DEF Ctl, InStep, PrimedWhen
<1>12. Want(i)' = Want(i) /\ ~Outstanding(i)' /\ ~InRecvNext(i) /\ ~InRecvNext(i)'
  BY <1>1, <1>2, <1>7 DEF Want, Outstanding, InRecvNext, InStep, Cursor
<1>13. ToSend(i)' = ToSend(i) /\ Progress(i)' = Progress(i)
  BY <1>1, <1>7 DEF ToSend, InStep, Sent, Cursor, Progress
<1>14. Recv(i)'
  BY <1>1, <1>3, <1>12 DEF Recv, ShapeWanted, DataWanted, ShapeKnown
<1>15. Buffers(i)'
  <2>1. needs_receive(i) => recv_buffer[i][patch[i]] = Body(i, Cursor(i))
    BY <1>1 DEF Buffers
  <2>2. ConditionLive(i)' => incoming_condition'[i] = 0 /\ recv_buffer[i][0] = Body(i, StepStart(i))
    <3>1. SUFFICES ASSUME i # First, ConditionReuse
                   PROVE  incoming_condition'[i] = 0 /\ recv_buffer[i][0] = Body(i, StepStart(i))
      BY DEF ConditionLive
    <3>2. CASE patch[i] = 0
      BY <2>1, <3>1, <3>2 DEF PreparePatch, TypeOK, needs_receive, Cursor, StepStart
    <3>3. CASE patch[i] > 0
      BY <1>1, <3>1, <3>3 DEF PreparePatch, TypeOK, Buffers, ConditionLive
    <3> QED
      BY <3>2, <3>3, Types
  <2> QED
    BY <1>1, <1>7, <1>12, <2>1, <2>2 DEF Buffers, needs_receive, Cursor, StepStart
<1>16. Latents(i)'
  <2>1. Progress(i) = Cursor(i)
    BY <1>1 DEF Progress, Cursor
  <2>2. i = Last => previous'[patch[i]] = [patch |-> patch[i], step |-> step[i], depth |-> 0]
    <3>1. SUFFICES ASSUME i = Last
                   PROVE  previous'[patch[i]] = [patch |-> patch[i], step |-> step[i], depth |-> 0]
      OBVIOUS
    <3>2. patch_latents[i][patch[i]] = [patch |-> patch[i], step |-> step[i], depth |-> 0]
      BY <2>1, <3>1, Types DEF Latents, Cursor
    <3> QED
      BY <3>1, <3>2, Types DEF PreparePatch, PreviousLatent, TypeOK
  <2> QED
    BY <1>1, <1>13, <2>2 DEF Latents
<1>17. Send(i)'
  BY <1>1, <1>7, <1>13 DEF Send, ShapeSent, InStep, Computed
<1>18. RecvPos(i)' = RecvPos(i) /\ SendPos(i)' = SendPos(i)
  BY <1>1, <1>3, <1>7, <1>12, <1>13 DEF RecvPos, SendPos
<1>19. \A k \in Stages : Link(k)'
  BY <1>1, <1>10, <1>18, LinksKept
<1> QED
  BY <1>9, <1>10, <1>11, <1>14, <1>15, <1>16, <1>17, <1>19, StageStep

\* What a stage computes: its input is the payload meant for it.
LEMMA Inputs ==
    ASSUME NEW i \in Stages, IInv, pc[i] = "compute"
    PROVE  /\ InputImage(i) = [patch |-> patch[i], step |-> step[i], depth |-> i]
           /\ i # Last => InputCondition(i) = [step |-> step[i], depth |-> i]
           /\ i # First => InputCondition(i) = [step |-> step[i], depth |-> i]
<1> USE DEF IInv
<1>1. CASE needs_receive(i)
  <2>1. recv_buffer[i][patch[i]] = Body(i, Cursor(i))
    BY <1>1 DEF Buffers
  <2>2. InputImage(i) = [patch |-> patch[i], step |-> step[i], depth |-> i]
    BY <1>1, <2>1 DEF InputImage, Body, Cursor
  <2>3. i # First => InputCondition(i) = [step |-> step[i], depth |-> i]
    <3>1. ASSUME i # First, ConditionReuse, patch[i] > 0
          PROVE  InputCondition(i) = [step |-> step[i], depth |-> i]
      <4>1. incoming_condition[i] = 0 /\ recv_buffer[i][0] = Body(i, StepStart(i))
        BY <3>1 DEF Buffers, ConditionLive
      <4> QED
        BY <3>1, <4>1 DEF InputCondition, ConditionSegment, Body, StepStart, IncludesCondition
    <3>2. ASSUME i # First, ~(ConditionReuse /\ patch[i] > 0)
          PROVE  InputCondition(i) = [step |-> step[i], depth |-> i]
      BY <2>1, <3>2 DEF InputCondition, ConditionSegment, Body, Cursor, IncludesCondition
    <3> QED
      BY <3>1, <3>2
  <2> QED
    BY <2>2, <2>3 DEF InputCondition, First
<1>2. CASE ~needs_receive(i)
  <2>1. i = First /\ step[i] = 0
    BY <1>2, Types DEF needs_receive
  <2>2. Progress(i) = Cursor(i)
    BY DEF Progress, Cursor
  <2>3. patch_latents[i][patch[i]] = [patch |-> patch[i], step |-> 0, depth |-> 0]
    BY <2>1, <2>2, Types DEF Latents, Cursor
  <2> QED
    BY <1>2, <2>1, <2>3 DEF InputImage, InputCondition, First
<1> QED
  BY <1>1, <1>2

LEMMA ComputePatchInv ==
    ASSUME NEW i \in Stages, IInv, ComputePatch(i)
    PROVE  IInv'
<1> USE DEF IInv
<1> DEFINE image == [patch |-> patch[i], step |-> step[i], depth |-> i + 1]
           made == [step |-> step[i], depth |-> i + 1]
           updated == [patch |-> patch[i], step |-> step[i] + 1, depth |-> 0]
<1>1. /\ pc[i] = "compute" /\ io'[i] = io[i] /\ step'[i] = step[i] /\ patch'[i] = patch[i]
      /\ primed'[i] = primed[i] /\ pipeline_patch_idx'[i] = pipeline_patch_idx[i]
      /\ recv_task'[i] = recv_task[i] /\ posted'[i] = posted[i]
      /\ receiving_tasks'[i] = receiving_tasks[i] /\ recv_shape'[i] = recv_shape[i]
      /\ recv_buffer'[i] = recv_buffer[i] /\ incoming_condition'[i] = incoming_condition[i]
      /\ send_shape'[i] = send_shape[i] /\ previous' = previous /\ link' = link
  BY DEF ComputePatch, group, network
<1>2. /\ step[i] < NumSteps /\ pipeline_patch_idx[i] = patch[i] /\ ~primed[i]
      /\ io[i] # "sync"
  BY <1>1 DEF Ctl, InStep, PrimedWhen, CallsRecvNext
<1>3. i # Last => Forward(InputImage(i)) = image
  BY <1>1, Inputs DEF Forward
<1>4. i # Last => Forward(InputCondition(i)) = made
  BY <1>1, Inputs DEF Forward
<1>5. i # Last => (ConditionReuse /\ patch[i] > 0 => outgoing_condition[i] = made)
  BY <1>1 DEF Send, InStep
<1>6. i = Last => SchedulerStep(previous[patch[i]]) = updated
  <2>1. i = Last =>
            previous[patch[i]] = [patch |-> patch[i], step |-> step[i], depth |-> 0]
    BY <1>1 DEF Latents
  <2> QED
    BY <2>1 DEF SchedulerStep
<1>7. /\ step[i] \in 0 .. NumSteps /\ step[i] + 1 \in 0 .. NumSteps /\ patch[i] \in Patches
      /\ i \in 0 .. NumStages /\ (i # Last => i + 1 \in 0 .. NumStages)
      /\ 0 \in 0 .. NumStages
  BY <1>2, Types, StagesAssumption DEF Stages, Last
<1>8. made # None /\ (i # Last => made \in Condition) /\ (i # Last => image \in Image) /\ updated \in Image
  <2>1. i + 1 \in 0 .. NumStages
    BY StagesAssumption DEF Stages
  <2>2. made \in Condition
    BY <1>7, <2>1 DEF Condition
  <2> QED
    BY <1>7, <2>1, <2>2, NoneAssumption DEF Image
<1> DEFINE next_out == IF i = Last
                       THEN IF FeedsBack(i) THEN [image |-> updated, cond |-> None] ELSE None
                       ELSE [image |-> image,
                             cond |-> IF IncludesCondition(patch[i]) THEN made ELSE None]
<1>9. /\ pc' = [pc EXCEPT ![i] = "prefetch_before_send"]
      /\ patch_latents' = [patch_latents EXCEPT ![i][patch[i]] =
                                IF i = Last THEN updated ELSE image]
      /\ outbound' = [outbound EXCEPT ![i] = next_out]
      /\ outgoing_condition' = IF ConditionReuse /\ i # Last
                               THEN [outgoing_condition EXCEPT ![i] = made]
                               ELSE outgoing_condition
  <2>1. CASE i = Last
    BY <1>6, <2>1 DEF ComputePatch
  <2>2. CASE i # Last
    <3>1. patch[i] = 0 \/ patch[i] > 0
      BY Types
    <3>2. ConditionReuse => (IF patch[i] = 0 THEN Forward(InputCondition(i))
                             ELSE outgoing_condition[i]) = made
      BY <1>4, <1>5, <2>2, <3>1
    <3> HIDE DEF made, image, updated
    <3> QED
      BY <1>3, <1>4, <1>8, <2>2, <3>2 DEF ComputePatch
  <2> QED
    BY <2>1, <2>2
<1>10. /\ pc'[i] = "prefetch_before_send" /\ outbound'[i] = next_out
       /\ patch_latents'[i] = [patch_latents[i] EXCEPT ![patch[i]] =
                                    IF i = Last THEN updated ELSE image]
       /\ ConditionReuse /\ i # Last => outgoing_condition'[i] = made
  <2> HIDE DEF next_out, made, updated, image
  <2> QED
    BY <1>9 DEF TypeOK
<1>11. TypeOK'
  <2>1. next_out \in Payload \union {None}
    <3> HIDE DEF made, updated, image
    <3> QED
      BY <1>8 DEF Payload
  <2>2. outbound' \in [Stages -> Payload \union {None}]
    <3> HIDE DEF next_out
    <3> QED
      BY <1>9, <2>1 DEF TypeOK
  <2>3. patch_latents' \in [Stages -> [Patches -> Image \union {None}]]
    <3> HIDE DEF updated, image
    <3>1. (IF i = Last THEN updated ELSE image) \in Image
      BY <1>8
    <3> QED
      BY <1>7, <1>9, <3>1 DEF TypeOK
  <2>4. outgoing_condition' \in [Stages -> Condition \union {None}]
    <3> HIDE DEF made
    <3> QED
      BY <1>8, <1>9 DEF TypeOK
  <2>5. pc' \in [Stages -> {"step", "receive", "get", "prepare", "compute",
                          "prefetch_before_send", "send", "prefetch_after_send",
                          "advance", "done", "failed"}]
    BY <1>9 DEF TypeOK
  <2> QED
    BY <2>2, <2>3, <2>4, <2>5 DEF ComputePatch, TypeOK, group, network
<1>12. \A k \in Stages \ {i} : Frame(k)
  <2> HIDE DEF next_out, made, updated, image
  <2> QED
    BY <1>9 DEF ComputePatch, TypeOK, Frame, group, network
<1>13. Ctl(i)'
  BY <1>1, <1>2, <1>10 DEF Ctl, InStep, PrimedWhen
<1>14. Want(i)' = Want(i) /\ ~Outstanding(i) /\ ~Outstanding(i)' /\ ~InRecvNext(i) /\ ~InRecvNext(i)'
  BY <1>1, <1>2, <1>10 DEF Want, Outstanding, InRecvNext, InStep, Cursor
<1>15. ToSend(i)' = ToSend(i)
  BY <1>1, <1>10 DEF ToSend, InStep, Sent, Cursor
<1>16. Recv(i)'
  BY <1>1, <1>14 DEF Recv, ShapeWanted, DataWanted, ShapeKnown
<1>17. Buffers(i)'
  BY <1>1, <1>10, <1>14 DEF Buffers, ConditionLive, StepStart
<1>18. Latents(i)'
  <2>1. Progress(i).step = step[i] /\ Progress(i).patch = patch[i]
    BY <1>1 DEF Progress
  <2>2. Progress(i)' = IF patch[i] = NumPatches - 1 THEN [step |-> step[i] + 1, patch |-> 0]
                       ELSE [step |-> step[i], patch |-> patch[i] + 1]
    BY <1>1, <1>10 DEF Progress, final_patch
  <2>3. \A p \in Patches : patch_latents'[i][p] =
                IF p = patch[i] THEN IF i = Last THEN updated ELSE image
                ELSE patch_latents[i][p]
    <3> HIDE DEF updated, image
    <3> QED
      BY <1>10 DEF TypeOK
  <2>4. ASSUME i = Last, NEW p \in Patches
        PROVE  patch_latents'[i][p] =
                    [patch |-> p, depth |-> 0,
                     step |-> IF p < Progress(i)'.patch THEN Progress(i)'.step + 1
                              ELSE Progress(i)'.step]
    <3>1. patch_latents[i][p] = [patch |-> p, depth |-> 0,
                     step |-> IF p < patch[i] THEN step[i] + 1 ELSE step[i]]
      BY <2>1, <2>4 DEF Latents
    <3>2. p \in Nat /\ p < NumPatches /\ patch[i] \in Nat /\ patch[i] < NumPatches
      BY Types, PatchesAssumption DEF Patches
    <3>3. CASE patch[i] = NumPatches - 1
      BY <2>2, <2>3, <2>4, <3>1, <3>2, <3>3, Types
    <3>4. CASE patch[i] # NumPatches - 1
      BY <2>2, <2>3, <2>4, <3>1, <3>2, <3>4, Types
    <3> QED
      BY <3>3, <3>4
  <2>5. ASSUME i = First, Progress(i)'.step = 0, NEW p \in Patches, p >= Progress(i)'.patch
        PROVE  patch_latents'[i][p] = [patch |-> p, step |-> 0, depth |-> 0]
    <3>1. step[i] = 0 /\ patch[i] # NumPatches - 1 /\ Progress(i)'.patch = patch[i] + 1
      BY <2>2, <2>5, Types
    <3>2. p # patch[i] /\ p >= patch[i]
      BY <2>5, <3>1, Types DEF Patches
    <3>3. patch_latents[i][p] = [patch |-> p, step |-> 0, depth |-> 0]
      BY <2>1, <2>5, <3>1, <3>2 DEF Latents
    <3> QED
      BY <2>3, <3>2, <3>3
  <2> QED
    BY <1>10, <2>4, <2>5 DEF Latents
<1>19. Send(i)'
  <2>1. i = Last /\ step[i] # NumSteps - 1 =>
            next_rank(i) = First /\ ToSend(i) = [step |-> step[i] + 1, patch |-> patch[i]]
    BY <1>1, <1>2, Types DEF next_rank, ToSend, InStep, Sent, Cursor
  <2>2. i # Last => next_rank(i) = i + 1 /\ i + 1 # First /\ ToSend(i) = Cursor(i)
    BY <1>1, <1>2, Types, StagesAssumption DEF next_rank, ToSend, InStep, Sent, Cursor, Stages, First
  <2>3. next_out = IF i = Last /\ step[i] = NumSteps - 1 THEN None
                   ELSE Body(next_rank(i), ToSend(i))
    <3>1. CASE i = Last /\ step[i] = NumSteps - 1
      BY <3>1, Types DEF FeedsBack
    <3>2. CASE i = Last /\ step[i] # NumSteps - 1
      BY <1>2, <2>1, <3>2, Types DEF FeedsBack, Body, First
    <3>3. CASE i # Last
      BY <2>2, <3>3 DEF Body, Cursor
    <3> QED
      BY <3>1, <3>2, <3>3
  <2>4. next_rank(i)' = next_rank(i)
    BY DEF next_rank
  <2> HIDE DEF next_out
  <2> QED
    BY <1>1, <1>10, <1>15, <2>3 DEF Send, ShapeSent
<1>20. RecvPos(i)' = RecvPos(i) /\ SendPos(i)' = SendPos(i)
  BY <1>1, <1>10, <1>14, <1>15 DEF RecvPos, SendPos
<1>21. \A k \in Stages : Link(k)'
  BY <1>1, <1>12, <1>20, LinksKept
<1> HIDE DEF IInv
<1> QED
  BY <1>11, <1>12, <1>13, <1>16, <1>17, <1>18, <1>19, <1>21, StageStep

Round == [step : 0 .. NumSteps, patch : Patches]

LEMMA ToSendType ==
    ASSUME NEW i \in Stages, TypeOK
    PROVE  ToSend(i) \in Round /\ ToSend(i) \in WorkItem
<1> DEFINE w == IF ~InStep(i) THEN StepStart(i)
                ELSE IF Sent(i) THEN NextTask(Cursor(i)) ELSE Cursor(i)
           v == IF i = Last THEN [step |-> w.step + 1, patch |-> w.patch] ELSE w
<1>1. w \in WorkItem
  BY Types, PatchesAssumption DEF WorkItem, StepStart, Cursor, NextTask, Patches
<1>2. v \in WorkItem
  <2> HIDE DEF w
  <2> QED
    BY <1>1 DEF WorkItem
<1>3. ToSend(i) = IF v.step >= NumSteps THEN [step |-> NumSteps, patch |-> 0] ELSE v
  BY DEF ToSend
<1> HIDE DEF v
<1> QED
  BY <1>2, <1>3, StepsAssumption, PatchesAssumption DEF WorkItem, Round, Patches

LEMMA BodyType ==
    ASSUME NEW j \in Stages, NEW w \in Round
    PROVE  Body(j, w) \in Payload /\ Body(j, w) # None
<1>1. j \in 0 .. NumStages
  BY StagesAssumption DEF Stages
<1>2. [patch |-> w.patch, step |-> w.step, depth |-> j] \in Image
  BY <1>1 DEF Image, Round
<1>3. [step |-> w.step, depth |-> j] \in Condition
  BY <1>1 DEF Condition, Round
<1>4. Body(j, w) \in Payload
  BY <1>2, <1>3 DEF Body, Payload
<1> QED
  BY <1>4, NoneAssumption

LEMMA SkipCallInv ==
    ASSUME NEW i \in Stages, IInv, SkipCall(i)
    PROVE  IInv'
<1> USE DEF IInv
<1> DEFINE to == IF pc[i] = "prefetch_before_send" THEN "send"
                 ELSE IF pc[i] = "send" THEN "prefetch_after_send" ELSE "advance"
<1>1. /\ pc[i] \in {"prefetch_before_send", "send", "prefetch_after_send"}
      /\ pc' = [pc EXCEPT ![i] = to] /\ pc'[i] = to
      /\ io'[i] = io[i] /\ step'[i] = step[i] /\ patch'[i] = patch[i]
      /\ primed'[i] = primed[i] /\ pipeline_patch_idx'[i] = pipeline_patch_idx[i]
      /\ recv_task'[i] = recv_task[i] /\ posted'[i] = posted[i] /\ outbound'[i] = outbound[i]
      /\ receiving_tasks'[i] = receiving_tasks[i] /\ recv_shape'[i] = recv_shape[i]
      /\ recv_buffer'[i] = recv_buffer[i] /\ incoming_condition'[i] = incoming_condition[i]
      /\ patch_latents'[i] = patch_latents[i] /\ outgoing_condition'[i] = outgoing_condition[i]
      /\ send_shape'[i] = send_shape[i] /\ previous' = previous /\ link' = link
  BY DEF SkipCall, TypeOK, group, network, schedule
<1>2. step[i] < NumSteps /\ pipeline_patch_idx[i] = patch[i] /\ io[i] # "sync"
  BY <1>1 DEF SkipCall, Ctl, InStep, CallsRecvNext
<1>3. PrimedWhen(i)' <=> PrimedWhen(i)
  BY <1>1 DEF SkipCall, PrimedWhen, PrefetchesBeforeSend, final_patch, has_next_receive
<1>4. TypeOK'
  <2>1. pc' \in [Stages -> {"step", "receive", "get", "prepare", "compute",
                          "prefetch_before_send", "send", "prefetch_after_send",
                          "advance", "done", "failed"}]
    BY <1>1 DEF TypeOK
  <2> QED
    BY <2>1 DEF SkipCall, TypeOK, group, network, schedule
<1>5. \A k \in Stages \ {i} : Frame(k)
  BY <1>1 DEF SkipCall, TypeOK, Frame, group, network, schedule
<1>6. Ctl(i)'
  BY <1>1, <1>2, <1>3 DEF Ctl, InStep
<1>7. /\ Want(i)' = Want(i) /\ (Outstanding(i)' <=> Outstanding(i))
      /\ ~InRecvNext(i) /\ ~InRecvNext(i)'
  BY <1>1, <1>2 DEF Want, Outstanding, InRecvNext, InStep, Cursor
<1>8. pc[i] = "send" => i = Last /\ step[i] = NumSteps - 1
  <2>1. pc[i] = "send" => outbound[i] = None
    BY DEF SkipCall
  <2>2. Body(next_rank(i), ToSend(i)) # None
    BY BodyType, ToSendType, RingFacts
  <2> QED
    BY <2>1, <2>2 DEF Send
<1>9. ToSend(i)' = ToSend(i)
  <2>1. CASE pc[i] # "send"
    BY <1>1, <2>1 DEF ToSend, InStep, Sent, Cursor
  <2>2. CASE pc[i] = "send"
    BY <1>1, <1>8, <2>2, Types DEF ToSend, InStep, Sent, Cursor, NextTask
  <2> QED
    BY <2>1, <2>2
<1>10. Progress(i)' = Progress(i)
  BY <1>1 DEF Progress, final_patch
<1>11. Recv(i)'
  BY <1>1, <1>7 DEF Recv, ShapeWanted, DataWanted, ShapeKnown
<1>12. Buffers(i)'
  BY <1>1, <1>7 DEF Buffers, ConditionLive, Computed, final_patch, StepStart
<1>13. Latents(i)'
  BY <1>1, <1>10 DEF Latents
<1>14. Send(i)'
  BY SMTT(30), <1>1, <1>2, <1>9 DEF Send, ShapeSent, InStep, Computed
<1>15. RecvPos(i)' = RecvPos(i) /\ SendPos(i)' = SendPos(i)
  <2> HIDE DEF to
  <2> QED
    BY <1>1, <1>2, <1>7, <1>9 DEF RecvPos, SendPos
<1>16. \A k \in Stages : Link(k)'
  BY <1>1, <1>5, <1>15, LinksKept
<1> HIDE DEF IInv
<1> QED
  BY <1>4, <1>5, <1>6, <1>11, <1>12, <1>13, <1>14, <1>16, StageStep

LEMMA AdvancePatchInv ==
    ASSUME NEW i \in Stages, IInv, AdvancePatch(i)
    PROVE  IInv'
<1> USE DEF IInv
<1>1. /\ pc[i] = "advance" /\ io'[i] = io[i] /\ primed'[i] = primed[i]
      /\ recv_task'[i] = recv_task[i] /\ posted'[i] = posted[i] /\ outbound'[i] = outbound[i]
      /\ receiving_tasks'[i] = receiving_tasks[i] /\ recv_shape'[i] = recv_shape[i]
      /\ recv_buffer'[i] = recv_buffer[i] /\ incoming_condition'[i] = incoming_condition[i]
      /\ patch_latents'[i] = patch_latents[i] /\ outgoing_condition'[i] = outgoing_condition[i]
      /\ send_shape'[i] = send_shape[i] /\ previous' = previous /\ link' = link
      /\ pipeline_patch_idx'[i] = next_patch(pipeline_patch_idx[i])
  BY DEF AdvancePatch, TypeOK, group, network, schedule
<1>2. /\ step[i] < NumSteps /\ pipeline_patch_idx[i] = patch[i] /\ io[i] # "sync"
      /\ primed[i] <=> has_next_receive(i)
  BY <1>1 DEF Ctl, InStep, CallsRecvNext, PrimedWhen
<1>3. \/ /\ patch[i] = NumPatches - 1 /\ patch' = patch /\ pipeline_patch_idx'[i] = 0
         /\ step' = [step EXCEPT ![i] = @ + 1] /\ step'[i] = step[i] + 1
         /\ pc' = [pc EXCEPT ![i] = "step"] /\ pc'[i] = "step"
      \/ /\ patch[i] < NumPatches - 1 /\ step' = step /\ pipeline_patch_idx'[i] = patch[i] + 1
         /\ patch' = [patch EXCEPT ![i] = @ + 1] /\ patch'[i] = patch[i] + 1
         /\ pc' = [pc EXCEPT ![i] = "receive"] /\ pc'[i] = "receive"
  <2>1. patch[i] \in Nat /\ patch[i] <= NumPatches - 1 /\ NumPatches \in Nat /\ step[i] \in Nat
    BY Types
  <2>2. CASE patch[i] = NumPatches - 1
    BY <1>1, <1>2, <2>1, <2>2 DEF AdvancePatch, TypeOK, final_patch, next_patch
  <2>3. CASE patch[i] < NumPatches - 1
    BY <1>1, <1>2, <2>1, <2>3 DEF AdvancePatch, TypeOK, final_patch, next_patch
  <2> QED
    BY <2>1, <2>2, <2>3
<1>4. TypeOK'
  <2>1. pc' \in [Stages -> {"step", "receive", "get", "prepare", "compute",
                          "prefetch_before_send", "send", "prefetch_after_send",
                          "advance", "done", "failed"}]
    BY <1>3 DEF TypeOK
  <2>2. step' \in [Stages -> 0 .. NumSteps]
    <3>1. step[i] + 1 \in 0 .. NumSteps
      BY <1>2, Types
    <3> QED
      BY <1>3, <3>1 DEF TypeOK
  <2>3. patch' \in [Stages -> Patches]
    <3>1. patch[i] < NumPatches - 1 => patch[i] + 1 \in Patches
      BY Types DEF Patches
    <3> QED
      BY <1>3, <3>1 DEF TypeOK
  <2>4. pipeline_patch_idx' \in [Stages -> Patches]
    <3>1. next_patch(pipeline_patch_idx[i]) \in Patches
      BY <1>2, Types, PatchesAssumption DEF next_patch, Patches
    <3> QED
      BY <3>1 DEF AdvancePatch, TypeOK
  <2> QED
    BY <2>1, <2>2, <2>3, <2>4 DEF AdvancePatch, TypeOK, group, network, schedule
<1>5. \A k \in Stages \ {i} : Frame(k)
  BY <1>3 DEF AdvancePatch, TypeOK, Frame, group, network, schedule
<1>6. primed[i] <=> PrimedWhen(i)'
  BY <1>1, <1>2, <1>3, Types
     DEF PrimedWhen, has_next_receive, final_patch, needs_receive, Patches
<1>7. Ctl(i)'
  BY <1>1, <1>2, <1>3, <1>6 DEF Ctl, InStep
<1>8. /\ Want(i)' = Want(i) /\ (Outstanding(i)' <=> Outstanding(i))
      /\ ~InRecvNext(i) /\ ~InRecvNext(i)'
  BY <1>1, <1>2, <1>3, Types DEF Want, Outstanding, InRecvNext, InStep, Cursor, StepStart, NextTask
<1>9. ToSend(i)' = ToSend(i)
  BY <1>1, <1>3, Types DEF ToSend, InStep, Sent, Cursor, StepStart, NextTask
<1>10. Progress(i)' = Progress(i)
  BY <1>1, <1>3, Types DEF Progress, final_patch
<1>11. Recv(i)'
  BY <1>1, <1>8 DEF Recv, ShapeWanted, DataWanted, ShapeKnown
<1>12. Buffers(i)'
  <2>1. ConditionLive(i)' => ConditionLive(i) /\ StepStart(i)' = StepStart(i)
    BY <1>1, <1>3, Types DEF ConditionLive, Computed, final_patch, StepStart
  <2> QED
    BY <1>1, <1>3, <1>8, <2>1 DEF Buffers
<1>13. Latents(i)'
  BY ZenonT(40), <1>1, <1>3, <1>10 DEF Latents
<1>14. Send(i)'
  BY <1>1, <1>3, <1>9 DEF Send, ShapeSent, InStep, Computed
<1>15. RecvPos(i)' = RecvPos(i) /\ SendPos(i)' = SendPos(i)
  BY <1>1, <1>2, <1>3, <1>8, <1>9 DEF RecvPos, SendPos
<1>16. \A k \in Stages : Link(k)'
  BY <1>1, <1>5, <1>15, LinksKept
<1> HIDE DEF IInv
<1> QED
  BY <1>4, <1>5, <1>7, <1>11, <1>12, <1>13, <1>14, <1>16, StageStep

LEMMA WaitSendsInv ==
    ASSUME NEW i \in Stages, IInv, WaitSends(i)
    PROVE  IInv'
<1> USE DEF IInv
<1>1. /\ pc[i] = "step" /\ step[i] = NumSteps /\ pc'[i] = "done"
      /\ pc' = [pc EXCEPT ![i] = "done"]
      /\ io'[i] = io[i] /\ step'[i] = step[i] /\ patch'[i] = patch[i]
      /\ primed'[i] = primed[i] /\ pipeline_patch_idx'[i] = pipeline_patch_idx[i]
      /\ recv_task'[i] = recv_task[i] /\ posted'[i] = posted[i] /\ outbound'[i] = outbound[i]
      /\ receiving_tasks'[i] = receiving_tasks[i] /\ recv_shape'[i] = recv_shape[i]
      /\ recv_buffer'[i] = recv_buffer[i] /\ incoming_condition'[i] = incoming_condition[i]
      /\ patch_latents'[i] = patch_latents[i] /\ outgoing_condition'[i] = outgoing_condition[i]
      /\ send_shape'[i] = send_shape[i] /\ previous' = previous /\ link' = link
  BY DEF WaitSends, TypeOK, group, network, schedule
<1>2. TypeOK'
  BY <1>1 DEF WaitSends, TypeOK, group, network, schedule
<1>3. \A k \in Stages \ {i} : Frame(k)
  BY <1>1 DEF WaitSends, TypeOK, Frame, group, network, schedule
<1>4. Ctl(i)'
  BY <1>1, Types DEF Ctl, InStep, PrimedWhen, CallsRecvNext
<1>5. /\ Want(i)' = Want(i) /\ (Outstanding(i)' <=> Outstanding(i))
      /\ (InRecvNext(i)' <=> InRecvNext(i))
  BY <1>1 DEF Want, Outstanding, InRecvNext, InStep, StepStart
<1>6. ToSend(i)' = ToSend(i) /\ Progress(i)' = Progress(i)
  BY <1>1 DEF ToSend, InStep, Sent, StepStart, Progress
<1>7. Recv(i)'
  BY <1>1, <1>5 DEF Recv, ShapeWanted, DataWanted, ShapeKnown
<1>8. Buffers(i)'
  BY <1>1, <1>5 DEF Buffers, ConditionLive, Computed
<1>9. Latents(i)'
  <2>1. pc'[i] # "compute"
    BY <1>1
  <2>2. Latents(i)
    OBVIOUS
  <2> HIDE DEF IInv
  <2> QED
    BY <1>1, <1>6, <2>1, <2>2 DEF Latents
<1>10. Send(i)'
  BY <1>1, <1>6 DEF Send, ShapeSent, InStep, Computed
<1>11. RecvPos(i)' = RecvPos(i) /\ SendPos(i)' = SendPos(i)
  BY <1>1, <1>5, <1>6 DEF RecvPos, SendPos
<1>12. \A k \in Stages : Link(k)'
  BY <1>1, <1>3, <1>11, LinksKept
<1> HIDE DEF IInv
<1> QED
  BY <1>2, <1>3, <1>4, <1>7, <1>8, <1>9, <1>10, <1>12, StageStep

-----------------------------------------------------------------------------
(* The actions that use the links *)

\* recv_next is called with no receive outstanding and a task in the queue.
LEMMA RecvNextCalled ==
    ASSUME NEW i \in Stages, IInv, CallsRecvNext(i)
    PROVE  /\ ~Outstanding(i) /\ receiving_tasks[i] = <<>> /\ recv_task[i] = Want(i)
           /\ recv_task[i].step < NumSteps /\ recv_task[i].step >= FirstRound(i)
           /\ FirstRound(i) \in Nat /\ recv_task[i] \in Round
           /\ ~primed[i] /\ step[i] < NumSteps
<1> USE DEF IInv
<1>1. /\ step[i] < NumSteps /\ step[i] \in Nat /\ patch[i] \in Patches
      /\ pc[i] \in {"receive", "prefetch_before_send", "prefetch_after_send"}
      /\ primed[i] <=> PrimedWhen(i)
  BY Types DEF CallsRecvNext, Ctl, InStep
<1>2. ~primed[i]
  BY <1>1 DEF CallsRecvNext, PrefetchesBeforeSend, PrimedWhen
<1>3. ~Outstanding(i)
  BY <1>1, <1>2 DEF Outstanding
<1>4. receiving_tasks[i] = <<>> /\ recv_task[i] = Want(i)
  BY <1>3 DEF Recv
<1>5. Want(i).step < NumSteps
  <2>1. FirstRound(i) \in {0, 1} /\ (FirstRound(i) = 1 <=> i = First)
    BY DEF FirstRound
  <2>2. CASE pc[i] = "receive"
    <3>1. i # First \/ step[i] > 0
      BY <2>2 DEF CallsRecvNext, needs_receive
    <3> QED
      BY <1>1, <2>1, <2>2, <3>1 DEF Want, InStep, Cursor
  <2>3. CASE pc[i] # "receive"
    <3>1. has_next_receive(i) /\ InStep(i)
      BY <1>1, <2>3 DEF CallsRecvNext, InStep
    <3>2. Want(i) = IF NextTask(Cursor(i)).step < FirstRound(i)
                    THEN [step |-> FirstRound(i), patch |-> 0] ELSE NextTask(Cursor(i))
      BY <1>1, <2>3, <3>1 DEF Want
    <3>3. /\ NextTask(Cursor(i)).step < NumSteps /\ NextTask(Cursor(i)).step >= FirstRound(i)
          /\ NextTask(Cursor(i)).step \in Nat
      BY <1>1, <2>1, <3>1, Types DEF NextTask, Cursor, has_next_receive, final_patch
    <3> QED
      BY <2>1, <3>2, <3>3, Types
  <2> QED
    BY <2>2, <2>3
<1>6. Want(i).step >= FirstRound(i)
  BY Types DEF Want, StepStart, Cursor, NextTask, FirstRound
<1> QED
  BY <1>1, <1>2, <1>3, <1>4, <1>5, <1>6, Types DEF FirstRound, Round

LEMMA RecvNextCheckInv ==
    ASSUME NEW i \in Stages, IInv, RecvNextCheck(i)
    PROVE  IInv'
<1> USE DEF IInv
<1> DEFINE idx == recv_task[i].patch
           request == [kind |-> "shape", idx |-> idx]
<1>1. CallsRecvNext(i) /\ io[i] = "idle" /\ pc[i] # "send"
  BY DEF RecvNextCheck, CallsRecvNext
<1>2. /\ ~Outstanding(i) /\ recv_task[i] = Want(i) /\ FirstRound(i) \in Nat
      /\ recv_task[i].step < NumSteps /\ recv_task[i].step >= FirstRound(i)
      /\ recv_task[i] \in Round /\ idx \in Patches
  BY <1>1, RecvNextCalled DEF Round
<1>3. /\ pc' = pc /\ io' = [io EXCEPT ![i] = "sync"] /\ io'[i] = "sync"
      /\ posted' = IF recv_shape[i][idx] = None
                   THEN [posted EXCEPT ![i] = Append(@, request)] ELSE posted
  <2>1. ~QueueEmpty(i)
    BY <1>2, Types DEF QueueEmpty, Round
  <2> QED
    BY <2>1 DEF RecvNextCheck, TypeOK
<1>4. /\ step'[i] = step[i] /\ patch'[i] = patch[i]
      /\ primed'[i] = primed[i] /\ pipeline_patch_idx'[i] = pipeline_patch_idx[i]
      /\ recv_task'[i] = recv_task[i] /\ outbound'[i] = outbound[i]
      /\ receiving_tasks'[i] = receiving_tasks[i] /\ recv_shape'[i] = recv_shape[i]
      /\ recv_buffer'[i] = recv_buffer[i] /\ incoming_condition'[i] = incoming_condition[i]
      /\ patch_latents'[i] = patch_latents[i] /\ outgoing_condition'[i] = outgoing_condition[i]
      /\ send_shape'[i] = send_shape[i] /\ previous' = previous /\ link' = link
  BY DEF RecvNextCheck, group, schedule
<1>5. posted[i] = <<>> /\ ~InRecvNext(i)
  BY <1>1, <1>2 DEF Recv, InRecvNext
<1>6. ShapeKnown(i, idx) <=> Start(i, recv_task[i]).kind = "data"
  <2>1. idx \in Nat
    BY <1>2, PatchesAssumption DEF Patches
  <2>2. recv_task[i].step \in Nat
    BY <1>2, StepsAssumption DEF Round
  <2> QED
    BY <1>2, <1>5, <2>1, <2>2 DEF ShapeKnown, Start
<1>7. recv_shape[i][idx] = None <=> Start(i, recv_task[i]).kind = "shape"
  <2>1. idx # None
    BY <1>2, NoneAssumption, PatchesAssumption DEF Patches
  <2> QED
    BY <1>2, <1>6, <2>1 DEF Recv, Start
<1>8. posted'[i] = IF Start(i, recv_task[i]).kind = "shape" THEN <<request>> ELSE <<>>
  <2> HIDE DEF request
  <2> QED
    BY <1>3, <1>5, <1>7 DEF TypeOK
<1>9. TypeOK'
  <2>1. request \in Request
    BY <1>2 DEF Request
  <2>2. posted' \in [Stages -> Seq(Request)]
    <3> HIDE DEF request
    <3> QED
      BY <1>3, <2>1 DEF TypeOK
  <2> QED
    BY <1>3, <2>2 DEF RecvNextCheck, TypeOK, group, schedule
<1>10. \A k \in Stages \ {i} : Frame(k)
  BY <1>3 DEF RecvNextCheck, TypeOK, Frame, group, schedule
<1>11. Ctl(i)'
  BY <1>1, <1>3, <1>4 DEF Ctl, InStep, PrimedWhen, needs_receive, has_next_receive, final_patch,
       CallsRecvNext, PrefetchesBeforeSend
<1>12. Want(i)' = Want(i) /\ ~Outstanding(i)' /\ InRecvNext(i)'
  BY <1>1, <1>2, <1>3, <1>4 DEF Want, Outstanding, InRecvNext, InStep, Cursor, StepStart
<1>13. ToSend(i)' = ToSend(i) /\ Progress(i)' = Progress(i)
  BY <1>3, <1>4 DEF ToSend, InStep, Sent, Cursor, StepStart, Progress, final_patch
<1>14. Recv(i)'
  <2>1. \A p \in Patches : ShapeKnown(i, p)' <=> ShapeKnown(i, p)
    <3>1. ASSUME NEW p \in Patches PROVE ShapeKnown(i, p)' <=> ShapeKnown(i, p)
      <4>1. CASE p = idx
        <5>1. ShapeKnown(i, p)' <=> Start(i, recv_task[i]).kind = "data"
          <6>1. idx \in Nat
            BY <1>2, PatchesAssumption DEF Patches
          <6>2. recv_task[i].step \in Nat
            BY <1>2, StepsAssumption DEF Round
          <6> QED
            BY <1>2, <1>4, <1>8, <1>12, <4>1, <6>1, <6>2 DEF ShapeKnown, Start
        <5> QED
          BY <1>6, <4>1, <5>1
      <4>2. CASE p # idx
        BY <1>4, <4>2 DEF ShapeKnown
      <4> QED
        BY <4>1, <4>2
    <3> QED
      BY <3>1
  <2>2. posted'[i] = <<>> \/ ShapeWanted(i)'
    BY <1>4, <1>8 DEF ShapeWanted
  <2> QED
    BY <1>2, <1>4, <1>12, <2>1, <2>2 DEF Recv
<1>15. Buffers(i)'
  BY <1>2, <1>3, <1>4, <1>12
     DEF Buffers, ConditionLive, Computed, final_patch, StepStart, Cursor, needs_receive
<1>16. Latents(i)'
  BY <1>3, <1>4, <1>13 DEF Latents
<1>17. Send(i)'
  BY <1>1, <1>3, <1>4, <1>13 DEF Send, ShapeSent, InStep, Computed
<1>18. SendPos(i)' = SendPos(i)
  BY <1>1, <1>3, <1>13 DEF SendPos
<1>19. RecvPos(i)' = RecvPos(i)
  <2>1. RecvPos(i) = Start(i, recv_task[i])
    BY <1>2, <1>5 DEF RecvPos
  <2> QED
    BY <1>4, <1>8, <1>12, <2>1 DEF RecvPos, Start
<1>20. \A k \in Stages : Link(k)'
  BY <1>4, <1>10, <1>18, <1>19, LinksKept
<1> HIDE DEF IInv
<1> QED
  BY <1>9, <1>10, <1>11, <1>14, <1>15, <1>16, <1>17, <1>20, StageStep

LEMMA RecvNextPostInv ==
    ASSUME NEW i \in Stages, IInv, RecvNextPost(i)
    PROVE  IInv'
<1> USE DEF IInv
<1> DEFINE idx == recv_task[i].patch
           request == [kind |-> "data", idx |-> idx]
<1>1. /\ CallsRecvNext(i) /\ io[i] = "sync" /\ InRecvNext(i)
      /\ pc[i] \in {"receive", "prefetch_before_send", "prefetch_after_send"}
  BY DEF RecvNextPost, CallsRecvNext, InRecvNext
<1>2. /\ ~Outstanding(i) /\ recv_task[i] = Want(i) /\ FirstRound(i) \in Nat
      /\ recv_task[i].step < NumSteps /\ recv_task[i].step >= FirstRound(i)
      /\ recv_task[i] \in Round /\ idx \in Patches /\ receiving_tasks[i] = <<>>
      /\ ~primed[i] /\ step[i] < NumSteps
  BY <1>1, RecvNextCalled DEF Round
<1>3. posted[i] = <<>>
  <2>1. ShapeKnown(i, idx)
    BY <1>2 DEF RecvNextPost, Recv
  <2>2. idx \in Nat /\ recv_task[i].step \in Nat
    BY <1>2, StepsAssumption, PatchesAssumption DEF Round, Patches
  <2>3. SUFFICES ASSUME ShapeWanted(i) PROVE FALSE
    BY <1>1 DEF Recv
  <2>4. Start(i, recv_task[i]).kind = "shape" /\ posted[i] # <<>>
    BY <2>3 DEF ShapeWanted
  <2> QED
    BY <1>2, <2>1, <2>2, <2>4 DEF ShapeKnown, Start
<1>4. /\ io' = [io EXCEPT ![i] = "idle"] /\ io'[i] = "idle"
      /\ recv_task' = [recv_task EXCEPT ![i] = NextTask(@)]
      /\ recv_task'[i] = NextTask(recv_task[i])
      /\ posted' = [posted EXCEPT ![i] = <<request>>] /\ posted'[i] = <<request>>
      /\ receiving_tasks' = [receiving_tasks EXCEPT ![i] = <<idx>>]
      /\ receiving_tasks'[i] = <<idx>>
      /\ primed' = [primed EXCEPT ![i] = (pc[i] # "receive")]
      /\ primed'[i] = (pc[i] # "receive")
      /\ pc' = [pc EXCEPT ![i] = AfterRecvNext[pc[i]]] /\ pc'[i] = AfterRecvNext[pc[i]]
  <2> HIDE DEF request
  <2> QED
    BY <1>2, <1>3 DEF RecvNextPost, TypeOK, request
<1>5. \/ pc[i] = "receive" /\ pc'[i] = "get" /\ ~primed'[i]
      \/ pc[i] = "prefetch_before_send" /\ pc'[i] = "send" /\ primed'[i]
      \/ pc[i] = "prefetch_after_send" /\ pc'[i] = "advance" /\ primed'[i]
  <2>1. /\ AfterRecvNext["receive"] = "get" /\ AfterRecvNext["prefetch_before_send"] = "send"
        /\ AfterRecvNext["prefetch_after_send"] = "advance"
    BY DEF AfterRecvNext
  <2>2. primed'[i] <=> pc[i] # "receive"
    BY <1>4
  <2> QED
    BY <1>1, <1>4, <2>1, <2>2
<1>6. /\ step'[i] = step[i] /\ patch'[i] = patch[i]
      /\ pipeline_patch_idx'[i] = pipeline_patch_idx[i]
      /\ outbound'[i] = outbound[i] /\ recv_shape'[i] = recv_shape[i]
      /\ recv_buffer'[i] = recv_buffer[i] /\ incoming_condition'[i] = incoming_condition[i]
      /\ patch_latents'[i] = patch_latents[i] /\ outgoing_condition'[i] = outgoing_condition[i]
      /\ send_shape'[i] = send_shape[i] /\ previous' = previous /\ link' = link
  BY DEF RecvNextPost, schedule
<1>7. TypeOK'
  <2>1. NextTask(recv_task[i]) \in [step : 0 .. NumSteps, patch : Patches]
    BY <1>2, Types, PatchesAssumption DEF NextTask, Round, Patches
  <2>2. recv_task' \in [Stages -> [step : 0 .. NumSteps, patch : Patches]]
    BY <1>4, <2>1 DEF TypeOK
  <2>3. posted' \in [Stages -> Seq(Request)]
    <3>1. <<request>> \in Seq(Request)
      BY <1>2 DEF Request
    <3> HIDE DEF request
    <3> QED
      BY <1>4, <3>1 DEF TypeOK
  <2>4. receiving_tasks' \in [Stages -> Seq(Patches)]
    <3>1. <<idx>> \in Seq(Patches)
      BY <1>2
    <3> HIDE DEF idx
    <3> QED
      BY <1>4, <3>1 DEF TypeOK
  <2>5. pc' \in [Stages -> {"step", "receive", "get", "prepare", "compute",
                          "prefetch_before_send", "send", "prefetch_after_send",
                          "advance", "done", "failed"}]
    BY <1>1, <1>4 DEF TypeOK, AfterRecvNext
  <2>6. primed' \in [Stages -> BOOLEAN]
    <3>1. (pc[i] # "receive") \in BOOLEAN
      OBVIOUS
    <3> QED
      BY <1>4, <3>1 DEF TypeOK
  <2> HIDE DEF idx, request
  <2> QED
    BY <1>4, <2>2, <2>3, <2>4, <2>5, <2>6 DEF RecvNextPost, TypeOK, schedule
<1>8. \A k \in Stages \ {i} : Frame(k)
  <2> HIDE DEF idx, request
  <2> QED
    BY <1>4 DEF RecvNextPost, TypeOK, Frame, schedule
<1>9. PrimedWhen(i)' <=> primed'[i]
  <2>1. pc[i] = "receive" => needs_receive(i) /\ step[i] = 0 /\ patch[i] = 0
    BY <1>2 DEF RecvNextPost, CallsRecvNext, Ctl, PrimedWhen
  <2>2. pc[i] = "prefetch_before_send" => final_patch(i) /\ has_next_receive(i)
    BY DEF RecvNextPost, CallsRecvNext, PrefetchesBeforeSend
  <2>3. pc[i] = "prefetch_after_send" => has_next_receive(i)
    BY DEF RecvNextPost, CallsRecvNext, PrefetchesBeforeSend
  <2>4. /\ final_patch(i)' <=> final_patch(i)
        /\ has_next_receive(i)' <=> has_next_receive(i)
        /\ needs_receive(i)' <=> needs_receive(i)
    BY <1>6 DEF final_patch, has_next_receive, needs_receive
  <2> QED
    BY <1>5, <1>6, <2>1, <2>2, <2>3, <2>4 DEF PrimedWhen
<1>10. Ctl(i)'
  <2>1. pc'[i] = "get" => needs_receive(i)'
    BY <1>5, <1>6 DEF RecvNextPost, CallsRecvNext, needs_receive
  <2>2. pipeline_patch_idx[i] = patch[i]
    BY <1>1 DEF Ctl, InStep
  <2> QED
    BY <1>2, <1>4, <1>5, <1>6, <1>9, <2>1, <2>2 DEF Ctl, InStep
<1>11. Want(i)' = Want(i) /\ Outstanding(i)' /\ ~InRecvNext(i)'
  BY <1>4, <1>5, <1>6 DEF Want, Outstanding, InRecvNext, InStep, Cursor, StepStart
<1>12. ToSend(i)' = ToSend(i) /\ Progress(i)' = Progress(i)
  BY <1>5, <1>6 DEF ToSend, InStep, Sent, Cursor, StepStart, Progress, final_patch
<1>13. Recv(i)'
  <2>1. ASSUME NEW p \in Patches PROVE ShapeKnown(i, p)' <=> ShapeKnown(i, p)
    <3>1. p \in Nat /\ p < NumPatches /\ idx \in Nat /\ idx < NumPatches /\ NumPatches \in Nat
      BY <1>2, PatchesAssumption DEF Patches
    <3>2. recv_task[i].step \in Nat
      BY <1>2, StepsAssumption DEF Round
    <3>3. ShapeKnown(i, p) <=> \/ ShapesPreset
                               \/ recv_task[i].step > FirstRound(i)
                               \/ p <= idx
      BY <1>1, <1>3, <3>1 DEF ShapeKnown
    <3>4. ShapeKnown(i, p)' <=> \/ ShapesPreset
                                \/ NextTask(recv_task[i]).step > FirstRound(i)
                                \/ p < NextTask(recv_task[i]).patch
      BY <1>4, <1>11 DEF ShapeKnown, FirstRound
    <3> QED
      BY <1>2, <3>1, <3>2, <3>3, <3>4 DEF NextTask
  <2>2. DataWanted(i)'
    BY <1>2, <1>4, <1>11 DEF DataWanted
  <2> QED
    BY <1>2, <1>4, <1>6, <1>11, <2>1, <2>2 DEF Recv
<1>14. Buffers(i)'
  <2>1. ConditionLive(i)' => ConditionLive(i) /\ StepStart(i)' = StepStart(i)
    BY <1>5, <1>6 DEF ConditionLive, Computed, final_patch, StepStart
  <2>2. posted'[i] # <<>>
    BY <1>4
  <2> QED
    BY <1>5, <1>6, <2>1, <2>2 DEF Buffers
<1>15. Latents(i)'
  <2>1. pc'[i] # "compute"
    BY <1>5
  <2>2. Latents(i)
    OBVIOUS
  <2> HIDE DEF IInv
  <2> QED
    BY <1>6, <1>12, <2>1, <2>2 DEF Latents
<1>16. Send(i)'
  BY ZenonT(40), <1>4, <1>5, <1>6, <1>12 DEF Send, ShapeSent, InStep, Computed
<1>17. SendPos(i)' = SendPos(i)
  BY <1>4, <1>5, <1>12 DEF SendPos
<1>18. RecvPos(i)' = RecvPos(i)
  BY <1>1, <1>2, <1>3, <1>4, <1>11 DEF RecvPos
<1>19. \A k \in Stages : Link(k)'
  BY <1>6, <1>8, <1>17, <1>18, LinksKept
<1> HIDE DEF IInv
<1> QED
  BY <1>7, <1>8, <1>10, <1>13, <1>14, <1>15, <1>16, <1>19, StageStep

\* One link changes, at the sender's end.
LEMMA LinkSent ==
    ASSUME NEW i \in Stages, IInv, \A k \in Stages \ {i} : Frame(k),
           RecvPos(i)' = RecvPos(i), NEW msgs,
           link' = [link EXCEPT ![i] = msgs],
           LinkOK(next_rank(i), msgs, RecvPos(next_rank(i)), SendPos(i)')
    PROVE  \A k \in Stages : Link(k)'
<1> DEFINE j == next_rank(i)
<1>1. \A k \in Stages : RecvPos(k)' = RecvPos(k)
  BY FramePos
<1>2. \A k \in Stages \ {i} : SendPos(k)' = SendPos(k)
  BY FramePos
<1>3. link'[i] = msgs /\ \A k \in Stages \ {i} : link'[k] = link[k]
  BY DEF IInv, TypeOK
<1>4. ASSUME NEW k \in Stages PROVE Link(k)'
  <2>1. Link(k)' <=> LinkOK(k, link'[prev_rank(k)], RecvPos(k), SendPos(prev_rank(k))')
    BY <1>1 DEF Link, LinkOK, prev_rank, Last, First
  <2>2. CASE k = j
    <3>1. prev_rank(k) = i
      BY <2>2, RingFacts
    <3> QED
      BY <1>3, <2>1, <2>2, <3>1
  <2>3. CASE k # j
    <3>1. prev_rank(k) \in Stages \ {i}
      BY <2>3, RingFacts
    <3>2. Link(k)
      BY DEF IInv
    <3> QED
      BY <1>2, <1>3, <2>1, <3>1, <3>2 DEF Link
  <2> QED
    BY <2>2, <2>3
<1> QED
  BY <1>4

\* The payload a stage is about to send is the one its next position names.
LEMMA SendFacts ==
    ASSUME NEW i \in Stages, IInv, pc[i] = "send", outbound[i] # None
    PROVE  /\ outbound[i] = Body(next_rank(i), ToSend(i)) /\ outbound[i] \in Payload
           /\ ToSend(i).step < NumSteps /\ ToSend(i).patch = patch[i]
           /\ ToSend(i).step >= FirstRound(next_rank(i)) /\ FirstRound(next_rank(i)) \in Nat
           /\ ToSend(i) = IF i = Last THEN [step |-> step[i] + 1, patch |-> patch[i]]
                          ELSE Cursor(i)
           /\ step[i] < NumSteps
<1> USE DEF IInv
<1>1. step[i] < NumSteps /\ step[i] \in Nat
  BY Types DEF Ctl, InStep
<1>2. /\ outbound[i] = Body(next_rank(i), ToSend(i))
      /\ ~(i = Last /\ step[i] = NumSteps - 1)
  BY DEF Send
<1>3. ToSend(i) = IF i = Last THEN [step |-> step[i] + 1, patch |-> patch[i]] ELSE Cursor(i)
  BY <1>1, <1>2, Types DEF ToSend, InStep, Sent, Cursor
<1>4. next_rank(i) = First <=> i = Last
  BY StagesAssumption DEF next_rank, First, Last, Stages
<1>5. outbound[i] \in Payload
  BY DEF TypeOK
<1> QED
  BY <1>1, <1>2, <1>3, <1>4, <1>5, Types DEF FirstRound, Cursor

LEMMA SendCheckInv ==
    ASSUME NEW i \in Stages, IInv, SendCheck(i)
    PROVE  IInv'
<1> USE DEF IInv
<1> DEFINE j == next_rank(i)
           m == [kind |-> "shape", body |-> outbound[i]]
           msgs == IF patch[i] \in send_shape[i] THEN link[i] ELSE Append(link[i], m)
<1>1. pc[i] = "send" /\ io[i] = "idle" /\ outbound[i] # None
  BY DEF SendCheck
<1>2. /\ outbound[i] = Body(j, ToSend(i)) /\ outbound[i] \in Payload
      /\ ToSend(i).step < NumSteps /\ ToSend(i).patch = patch[i]
      /\ ToSend(i).step >= FirstRound(j) /\ FirstRound(j) \in Nat
      /\ step[i] < NumSteps /\ patch[i] \in Patches
  BY <1>1, SendFacts, Types
<1>3. /\ pc'[i] = pc[i] /\ step'[i] = step[i] /\ patch'[i] = patch[i]
      /\ primed'[i] = primed[i] /\ pipeline_patch_idx'[i] = pipeline_patch_idx[i]
      /\ recv_task'[i] = recv_task[i] /\ outbound'[i] = outbound[i] /\ posted'[i] = posted[i]
      /\ receiving_tasks'[i] = receiving_tasks[i] /\ recv_shape'[i] = recv_shape[i]
      /\ recv_buffer'[i] = recv_buffer[i] /\ incoming_condition'[i] = incoming_condition[i]
      /\ patch_latents'[i] = patch_latents[i] /\ outgoing_condition'[i] = outgoing_condition[i]
      /\ previous' = previous /\ pc' = pc
      /\ io' = [io EXCEPT ![i] = "sync"] /\ io'[i] = "sync"
      /\ send_shape' = [send_shape EXCEPT ![i] = @ \union {patch[i]}]
      /\ send_shape'[i] = send_shape[i] \union {patch[i]}
  BY DEF SendCheck, schedule, TypeOK
<1>4. link' = [link EXCEPT ![i] = msgs]
  <2> HIDE DEF m
  <2> QED
    BY DEF SendCheck, TypeOK, m
<1>5. msgs \in Seq(Message)
  <2>1. m \in Message /\ link[i] \in Seq(Message)
    BY <1>2 DEF Message, TypeOK
  <2> HIDE DEF m
  <2> QED
    BY <2>1
<1>6. TypeOK'
  <2>1. link' \in [Stages -> Seq(Message)]
    <3> HIDE DEF msgs
    <3> QED
      BY <1>4, <1>5 DEF TypeOK
  <2>2. send_shape' \in [Stages -> SUBSET Patches]
    BY <1>2, <1>3 DEF TypeOK
  <2>3. send_tensors' \in [Stages -> [Patches -> Payload \union {None}]]
    BY DEF SendCheck, TypeOK
  <2> HIDE DEF msgs
  <2> QED
    BY <1>3, <2>1, <2>2, <2>3 DEF SendCheck, TypeOK, schedule
<1>7. \A k \in Stages \ {i} : Frame(k)
  BY <1>3 DEF SendCheck, TypeOK, Frame, schedule
<1>8. Ctl(i)'
  BY <1>1, <1>3 DEF Ctl, InStep, PrimedWhen, has_next_receive, final_patch
<1>9. /\ Want(i)' = Want(i) /\ (Outstanding(i)' <=> Outstanding(i))
      /\ ~InRecvNext(i) /\ ~InRecvNext(i)'
  BY <1>1, <1>3 DEF Want, Outstanding, InRecvNext, InStep, Cursor
<1>10. ToSend(i)' = ToSend(i) /\ Progress(i)' = Progress(i)
  BY <1>3 DEF ToSend, InStep, Sent, Cursor, StepStart, Progress, final_patch
<1>11. Recv(i)'
  BY <1>3, <1>9 DEF Recv, ShapeWanted, DataWanted, ShapeKnown
<1>12. Buffers(i)'
  BY <1>1, <1>3, <1>9 DEF Buffers, ConditionLive, Computed, final_patch, StepStart
<1>13. Latents(i)'
  BY ZenonT(40), <1>3, <1>10 DEF Latents
<1>14. ShapeSent(i, patch[i]) <=> Start(j, ToSend(i)).kind = "data"
  <2>1. patch[i] \in Nat /\ ToSend(i).step \in Nat
    BY Types, ToSendType DEF WorkItem
  <2> QED
    BY <1>1, <1>2, <2>1 DEF ShapeSent, Start
<1>15. Send(i)'
  <2>1. ASSUME NEW p \in Patches
        PROVE  p \in send_shape'[i] <=> ShapeSent(i, p)'
    <3>1. p \in send_shape[i] <=> ShapeSent(i, p)
      BY <1>2 DEF Send
    <3>2. ShapeSent(i, p)' <=> ShapeSent(i, p) \/ p = patch[i]
      BY <1>1, <1>2, <1>3, <1>10 DEF ShapeSent, FirstRound, next_rank
    <3> QED
      BY <1>3, <3>1, <3>2
  <2> QED
    BY <1>1, <1>3, <1>10, <2>1 DEF Send, InStep, Computed
<1>16. SendPos(i) = Start(j, ToSend(i)) /\ SendPos(i)' = [kind |-> "data", work |-> ToSend(i)]
  BY <1>1, <1>3, <1>10 DEF SendPos
<1>17. RecvPos(i)' = RecvPos(i)
  BY <1>3, <1>9 DEF RecvPos
<1>18. LinkOK(j, link[i], RecvPos(j), SendPos(i)) /\ j \in Stages
  BY RingFacts DEF Link
<1>19. LinkOK(j, msgs, RecvPos(j), SendPos(i)')
  <2>1. patch[i] \in send_shape[i] <=> ShapeSent(i, patch[i])
    BY <1>2 DEF Send
  <2>2. CASE patch[i] \in send_shape[i]
    <3>1. SendPos(i) = SendPos(i)'
      BY <1>14, <1>16, <2>1, <2>2 DEF Start
    <3> QED
      BY <1>18, <2>2, <3>1
  <2>3. CASE patch[i] \notin send_shape[i]
    <3>1. SendPos(i) = [kind |-> "shape", work |-> ToSend(i)]
      BY <1>14, <1>16, <2>1, <2>3 DEF Start
    <3>2. WorkOf(m) = ToSend(i)
      BY <1>2, ToSendType DEF WorkOf, Body, Round
    <3>3. PosOf(m) = SendPos(i) /\ m.body = Body(j, WorkOf(m))
      BY <1>2, <3>1, <3>2 DEF PosOf
    <3>4. m \in Message /\ SendPos(i) \in Position /\ link[i] \in Seq(Message)
      <4>1. m \in Message
        BY <1>2 DEF Message
      <4>2. SendPos(i) \in Position
        BY <3>1, ToSendType DEF Position
      <4>3. link[i] \in Seq(Message)
        BY DEF TypeOK
      <4> QED
        BY <4>1, <4>2, <4>3
    <3>5. After(j, SendPos(i)) = SendPos(i)'
      BY <1>16, <3>1 DEF After
    <3>6. LinkOK(j, Append(link[i], m), RecvPos(j), After(j, SendPos(i)))
      <4> HIDE DEF m, j, IInv
      <4> QED
        BY <1>18, <3>3, <3>4, LinkAppend
    <3> QED
      BY <2>3, <3>5, <3>6
  <2> QED
    BY <2>2, <2>3
<1>20. \A k \in Stages : Link(k)'
  <2> HIDE DEF msgs, IInv
  <2> QED
    BY <1>4, <1>7, <1>17, <1>19, LinkSent
<1> HIDE DEF IInv
<1> QED
  BY <1>6, <1>7, <1>8, <1>11, <1>12, <1>13, <1>15, <1>20, StageStep

LEMMA SendPostInv ==
    ASSUME NEW i \in Stages, IInv, SendPost(i)
    PROVE  IInv'
<1> USE DEF IInv
<1> DEFINE j == next_rank(i)
           m == [kind |-> "data", body |-> outbound[i]]
           msgs == Append(link[i], m)
<1>1. pc[i] = "send" /\ io[i] = "sync" /\ outbound[i] # None
  BY DEF SendPost
<1>2. /\ outbound[i] = Body(j, ToSend(i)) /\ outbound[i] \in Payload
      /\ ToSend(i).step < NumSteps /\ ToSend(i).patch = patch[i]
      /\ ToSend(i).step >= FirstRound(j) /\ FirstRound(j) \in Nat
      /\ ToSend(i) = IF i = Last THEN [step |-> step[i] + 1, patch |-> patch[i]]
                     ELSE Cursor(i)
      /\ step[i] < NumSteps /\ patch[i] \in Patches
  BY <1>1, SendFacts, Types
<1>3. /\ step'[i] = step[i] /\ patch'[i] = patch[i]
      /\ primed'[i] = primed[i] /\ pipeline_patch_idx'[i] = pipeline_patch_idx[i]
      /\ recv_task'[i] = recv_task[i] /\ outbound'[i] = outbound[i] /\ posted'[i] = posted[i]
      /\ receiving_tasks'[i] = receiving_tasks[i] /\ recv_shape'[i] = recv_shape[i]
      /\ recv_buffer'[i] = recv_buffer[i] /\ incoming_condition'[i] = incoming_condition[i]
      /\ patch_latents'[i] = patch_latents[i] /\ outgoing_condition'[i] = outgoing_condition[i]
      /\ previous' = previous /\ send_shape'[i] = send_shape[i]
      /\ io' = [io EXCEPT ![i] = "idle"] /\ io'[i] = "idle"
      /\ pc' = [pc EXCEPT ![i] = "prefetch_after_send"] /\ pc'[i] = "prefetch_after_send"
  BY DEF SendPost, schedule, group, TypeOK
<1>4. link' = [link EXCEPT ![i] = msgs]
  <2> HIDE DEF m
  <2> QED
    BY DEF SendPost, TypeOK, m
<1>5. m \in Message /\ link[i] \in Seq(Message)
  BY <1>2 DEF Message, TypeOK
<1>6. TypeOK'
  <2>1. link' \in [Stages -> Seq(Message)]
    <3> HIDE DEF m
    <3>1. msgs \in Seq(Message)
      BY <1>5
    <3> HIDE DEF msgs
    <3> QED
      BY <1>4, <3>1 DEF TypeOK
  <2>2. send_tensors' \in [Stages -> [Patches -> Payload \union {None}]]
    BY <1>2 DEF SendPost, TypeOK
  <2> HIDE DEF msgs
  <2> QED
    BY <1>3, <2>1, <2>2 DEF SendPost, TypeOK, schedule, group
<1>7. \A k \in Stages \ {i} : Frame(k)
  BY <1>3 DEF SendPost, TypeOK, Frame, schedule, group
<1>8. Ctl(i)'
  BY <1>1, <1>3 DEF Ctl, InStep, PrimedWhen, has_next_receive, final_patch
<1>9. /\ Want(i)' = Want(i) /\ (Outstanding(i)' <=> Outstanding(i))
      /\ ~InRecvNext(i) /\ ~InRecvNext(i)'
  BY <1>1, <1>3 DEF Want, Outstanding, InRecvNext, InStep, Cursor
<1>10. Progress(i)' = Progress(i)
  BY <1>1, <1>3 DEF Progress, final_patch
<1>11. ToSend(i)' = NextTask(ToSend(i))
  <2>1. ToSend(i)' =
          LET w == NextTask(Cursor(i))
              v == IF i = Last THEN [step |-> w.step + 1, patch |-> w.patch] ELSE w
          IN IF v.step >= NumSteps THEN [step |-> NumSteps, patch |-> 0] ELSE v
    BY <1>3 DEF ToSend, InStep, Sent, Cursor
  <2> QED
    BY <1>2, <2>1, Types DEF NextTask, Cursor
<1>12. Recv(i)'
  BY <1>3, <1>9 DEF Recv, ShapeWanted, DataWanted, ShapeKnown
<1>13. Buffers(i)'
  BY <1>1, <1>3, <1>9 DEF Buffers, ConditionLive, Computed, final_patch, StepStart
<1>14. Latents(i)'
  <2>1. pc'[i] # "compute"
    BY <1>3
  <2>2. Latents(i)
    OBVIOUS
  <2> HIDE DEF IInv
  <2> QED
    BY <1>3, <1>10, <2>1, <2>2 DEF Latents
<1>15. Send(i)'
  <2>1. ASSUME NEW p \in Patches
        PROVE  p \in send_shape'[i] <=> ShapeSent(i, p)'
    <3>1. p \in send_shape[i] <=> ShapeSent(i, p)
      BY <1>2 DEF Send
    <3>2. /\ p \in Nat /\ p < NumPatches /\ patch[i] \in Nat /\ patch[i] < NumPatches
          /\ NumPatches \in Nat /\ ToSend(i).step \in Nat
      BY Types, ToSendType DEF Patches, WorkItem
    <3>3. ShapeSent(i, p) <=> \/ ShapesPreset
                              \/ ToSend(i).step > FirstRound(j)
                              \/ p <= patch[i]
      BY <1>1, <1>2, <3>2 DEF ShapeSent
    <3>4. ShapeSent(i, p)' <=> \/ ShapesPreset
                               \/ NextTask(ToSend(i)).step > FirstRound(j)
                               \/ p < NextTask(ToSend(i)).patch
      BY <1>3, <1>11 DEF ShapeSent, FirstRound, next_rank
    <3> QED
      BY <1>2, <1>3, <3>1, <3>2, <3>3, <3>4 DEF NextTask
  <2> QED
    BY <1>1, <1>3, <2>1 DEF Send, InStep, Computed
<1>16. /\ SendPos(i) = [kind |-> "data", work |-> ToSend(i)]
       /\ SendPos(i)' = After(j, SendPos(i))
  BY <1>1, <1>3, <1>11 DEF SendPos, After
<1>17. RecvPos(i)' = RecvPos(i)
  BY <1>3, <1>9 DEF RecvPos
<1>18. LinkOK(j, link[i], RecvPos(j), SendPos(i)) /\ j \in Stages
  BY RingFacts DEF Link
<1>19. LinkOK(j, msgs, RecvPos(j), SendPos(i)')
  <2>1. WorkOf(m) = ToSend(i)
    BY <1>2, ToSendType DEF WorkOf, Body, Round
  <2>2. PosOf(m) = SendPos(i) /\ m.body = Body(j, WorkOf(m))
    BY <1>2, <1>16, <2>1 DEF PosOf
  <2>3. SendPos(i) \in Position
    BY <1>16, ToSendType DEF Position
  <2>4. LinkOK(j, Append(link[i], m), RecvPos(j), After(j, SendPos(i)))
    <3> HIDE DEF m, j, IInv
    <3> QED
      BY <1>5, <1>18, <2>2, <2>3, LinkAppend
  <2> QED
    BY <1>16, <2>4
<1>20. \A k \in Stages : Link(k)'
  <2> HIDE DEF msgs, IInv
  <2> QED
    BY <1>4, <1>7, <1>17, <1>19, LinkSent
<1> HIDE DEF IInv
<1> QED
  BY <1>6, <1>7, <1>8, <1>12, <1>13, <1>14, <1>15, <1>20, StageStep

\* One link changes, at the receiver's end.
LEMMA LinkReceived ==
    ASSUME NEW i \in Stages, IInv, \A k \in Stages \ {i} : Frame(k),
           SendPos(i)' = SendPos(i), NEW msgs,
           link' = [link EXCEPT ![prev_rank(i)] = msgs],
           LinkOK(i, msgs, RecvPos(i)', SendPos(prev_rank(i)))
    PROVE  \A k \in Stages : Link(k)'
<1>1. \A k \in Stages : SendPos(k)' = SendPos(k)
  BY FramePos
<1>2. \A k \in Stages \ {i} : RecvPos(k)' = RecvPos(k)
  BY FramePos
<1>3. /\ link'[prev_rank(i)] = msgs
      /\ \A k \in Stages \ {prev_rank(i)} : link'[k] = link[k]
  BY RingFacts DEF IInv, TypeOK
<1>4. \A k \in Stages : Link(k)' <=>
            LinkOK(k, link'[prev_rank(k)], RecvPos(k)', SendPos(prev_rank(k)))
  <2>1. ASSUME NEW k \in Stages
        PROVE  Link(k)' <=>
                    LinkOK(k, link'[prev_rank(k)], RecvPos(k)', SendPos(prev_rank(k)))
    BY <1>1, RingFacts DEF Link, LinkOK, prev_rank, Last, First
  <2> QED
    BY <2>1
<1>5. LinkOK(i, link'[prev_rank(i)], RecvPos(i)', SendPos(prev_rank(i)))
  BY <1>3
<1>6. ASSUME NEW k \in Stages \ {i}
      PROVE  LinkOK(k, link'[prev_rank(k)], RecvPos(k)', SendPos(prev_rank(k)))
  <2>1. prev_rank(k) \in Stages \ {prev_rank(i)}
    BY RingFacts
  <2>2. Link(k)
    BY DEF IInv
  <2> QED
    BY <1>2, <1>3, <2>1, <2>2 DEF Link
<1>7. Link(i)' /\ \A k \in Stages \ {i} : Link(k)'
  BY <1>4, <1>5, <1>6
<1> QED
  BY <1>7

LEMMA DeliverInv ==
    ASSUME NEW i \in Stages, IInv, Deliver(i)
    PROVE  IInv'
<1> USE DEF IInv
<1> DEFINE from == prev_rank(i)
           r == Head(posted[i])
           m == Head(link[from])
<1>1. posted[i] # <<>> /\ link[from] # <<>> /\ from \in Stages
  BY RingFacts DEF Deliver
<1>2. /\ io'[i] = io[i] /\ step'[i] = step[i] /\ patch'[i] = patch[i]
      /\ primed'[i] = primed[i] /\ pipeline_patch_idx'[i] = pipeline_patch_idx[i]
      /\ recv_task'[i] = recv_task[i] /\ outbound'[i] = outbound[i]
      /\ receiving_tasks'[i] = receiving_tasks[i]
      /\ incoming_condition'[i] = incoming_condition[i]
      /\ patch_latents'[i] = patch_latents[i] /\ outgoing_condition'[i] = outgoing_condition[i]
      /\ previous' = previous /\ send_shape'[i] = send_shape[i]
      /\ posted' = [posted EXCEPT ![i] = Tail(@)] /\ posted'[i] = Tail(posted[i])
      /\ link' = [link EXCEPT ![from] = Tail(link[from])]
  BY RingFacts DEF Deliver, schedule, TypeOK
<1>3. \/ InRecvNext(i) /\ ShapeWanted(i)
      \/ ~InRecvNext(i) /\ Outstanding(i) /\ DataWanted(i)
  BY <1>1 DEF Recv
<1>4. posted'[i] = <<>>
  <2>1. PICK x : posted[i] = <<x>>
    BY <1>3 DEF ShapeWanted, DataWanted
  <2> QED
    BY <1>2, <2>1
<1>5. /\ LinkOK(i, Tail(link[from]), After(i, RecvPos(i)), SendPos(from))
      /\ m \in Message /\ PosOf(m) = RecvPos(i) /\ m.body = Body(i, WorkOf(m))
  <2>1. LinkOK(i, link[from], RecvPos(i), SendPos(from)) /\ link[from] \in Seq(Message)
    BY <1>1 DEF Link, TypeOK
  <2> HIDE DEF from, IInv
  <2> QED
    BY <1>1, <2>1, LinkTail
<1>6. CASE InRecvNext(i) /\ ShapeWanted(i)
  <2> DEFINE idx == recv_task[i].patch
  <2>1. /\ io[i] = "sync" /\ pc[i] # "send" /\ CallsRecvNext(i) /\ ~Outstanding(i)
        /\ pc[i] \in {"receive", "prefetch_before_send", "prefetch_after_send"}
        /\ idx \in Patches
    <3>1. io[i] = "sync" /\ pc[i] # "send" /\ CallsRecvNext(i)
      BY <1>6 DEF InRecvNext, Ctl
    <3> QED
      BY <3>1, RecvNextCalled DEF CallsRecvNext, Round
  <2>2. r.kind = "shape" /\ r.idx = idx
    BY <1>6 DEF ShapeWanted
  <2>3. RecvPos(i) = [kind |-> "shape", work |-> recv_task[i]]
    BY <1>1, <1>6, <2>1 DEF RecvPos, ShapeWanted, Start
  <2>4. m.kind = "shape" /\ m.body.image.patch = idx
    BY <1>5, <2>3 DEF PosOf, WorkOf
  <2>5. /\ pc' = pc /\ recv_buffer' = recv_buffer
        /\ recv_shape' = [recv_shape EXCEPT ![i][idx] = idx]
    BY <2>2, <2>4 DEF Deliver
  <2>6. TypeOK'
    <3>1. recv_shape' \in [Stages -> [Patches -> Patches \union {None}]]
      BY <2>1, <2>5 DEF TypeOK
    <3>2. posted' \in [Stages -> Seq(Request)]
      <4>1. Tail(posted[i]) = <<>>
        BY <1>2, <1>4
      <4>2. posted' = [posted EXCEPT ![i] = <<>>]
        BY <1>2, <4>1
      <4>3. <<>> \in Seq(Request)
        OBVIOUS
      <4> QED
        BY <4>2, <4>3 DEF TypeOK
    <3>3. link' \in [Stages -> Seq(Message)]
      BY <1>1, <1>2 DEF TypeOK
    <3> QED
      BY <2>5, <3>1, <3>2, <3>3 DEF Deliver, TypeOK, schedule
  <2>7. \A k \in Stages \ {i} : Frame(k)
    BY <2>5 DEF Deliver, TypeOK, Frame, schedule
  <2>8. Ctl(i)'
    BY <1>2, <2>1, <2>5 DEF Ctl, InStep, PrimedWhen, needs_receive, has_next_receive,
       final_patch, CallsRecvNext, PrefetchesBeforeSend
  <2>9. Want(i)' = Want(i) /\ ~Outstanding(i)' /\ InRecvNext(i)'
    BY <1>2, <2>1, <2>5 DEF Want, Outstanding, InRecvNext, InStep, Cursor, StepStart
  <2>10. ToSend(i)' = ToSend(i) /\ Progress(i)' = Progress(i)
    BY <1>2, <2>5 DEF ToSend, InStep, Sent, Cursor, StepStart, Progress, final_patch
  <2>11. Recv(i)'
    <3>1. ASSUME NEW p \in Patches
          PROVE  recv_shape'[i][p] = IF ShapeKnown(i, p)' THEN p ELSE None
      <4>1. recv_shape[i][p] = IF ShapeKnown(i, p) THEN p ELSE None
        BY DEF Recv
      <4>2. ShapeKnown(i, p)' <=> ShapeKnown(i, p) \/ p = idx
        BY <1>1, <1>2, <1>4, <2>9 DEF ShapeKnown, FirstRound
      <4>3. recv_shape'[i][p] = IF p = idx THEN idx ELSE recv_shape[i][p]
        BY <2>1, <2>5 DEF TypeOK
      <4> QED
        BY <4>1, <4>2, <4>3
    <3> QED
      BY <1>2, <1>4, <2>1, <2>9, <3>1 DEF Recv
  <2>12. Buffers(i)'
    BY <1>2, <2>1, <2>5, <2>9
       DEF Buffers, ConditionLive, Computed, final_patch, StepStart
  <2>13. Latents(i)'
    BY <1>2, <2>5, <2>10 DEF Latents
  <2>14. Send(i)'
    BY <1>2, <2>5, <2>10 DEF Send, ShapeSent, InStep, Computed
  <2>15. SendPos(i)' = SendPos(i)
    BY <1>2, <2>5, <2>10 DEF SendPos
  <2>16. RecvPos(i)' = After(i, RecvPos(i))
    BY <1>2, <1>4, <2>3, <2>9 DEF RecvPos, After
  <2>17. \A k \in Stages : Link(k)'
    <3> HIDE DEF IInv
    <3> QED
      BY <1>2, <1>5, <2>7, <2>15, <2>16, LinkReceived
  <2> HIDE DEF IInv
  <2> QED
    BY <2>6, <2>7, <2>8, <2>11, <2>12, <2>13, <2>14, <2>17, StageStep
<1>7. CASE ~InRecvNext(i) /\ Outstanding(i) /\ DataWanted(i)
  <2> DEFINE idx == Want(i).patch
  <2>1. recv_task[i] = NextTask(Want(i)) /\ idx \in Patches
    <3>1. recv_task[i] = NextTask(Want(i))
      BY <1>7 DEF Recv
    <3>2. 0 \in Patches /\ NextTask(Cursor(i)).patch \in Patches
      BY Types, PatchesAssumption DEF Cursor, NextTask, Patches
    <3>3. idx \in Patches
      BY <3>2, Types DEF Want, StepStart, Cursor
    <3> QED
      BY <3>1, <3>3
  <2>2. r.kind = "data" /\ r.idx = idx
    BY <1>7 DEF DataWanted
  <2>3. RecvPos(i) = [kind |-> "data", work |-> Want(i)]
    BY <1>1, <1>7 DEF RecvPos
  <2>4. m.kind = "data" /\ m.body = Body(i, Want(i)) /\ m.body \in Payload
    BY <1>5, <2>3 DEF PosOf, Message
  <2>5. /\ pc' = pc /\ recv_shape' = recv_shape
        /\ recv_buffer' = [recv_buffer EXCEPT ![i][idx] = m.body]
    BY <2>2, <2>4 DEF Deliver
  <2>6. TypeOK'
    <3>1. recv_buffer' \in [Stages -> [Patches -> Payload \union {None}]]
      <4> HIDE DEF idx, m
      <4> QED
        BY <2>1, <2>4, <2>5 DEF TypeOK
    <3>2. posted' \in [Stages -> Seq(Request)]
      <4>1. Tail(posted[i]) = <<>>
        BY <1>2, <1>4
      <4>2. posted' = [posted EXCEPT ![i] = <<>>]
        BY <1>2, <4>1
      <4>3. <<>> \in Seq(Request)
        OBVIOUS
      <4> QED
        BY <4>2, <4>3 DEF TypeOK
    <3>3. link' \in [Stages -> Seq(Message)]
      BY <1>1, <1>2 DEF TypeOK
    <3> QED
      BY <2>5, <3>1, <3>2, <3>3 DEF Deliver, TypeOK, schedule
  <2>7. \A k \in Stages \ {i} : Frame(k)
    <3> HIDE DEF idx, m
    <3> QED
      BY <2>5 DEF Deliver, TypeOK, Frame, schedule
  <2>8. Ctl(i)'
    BY <1>2, <2>5 DEF Ctl, InStep, PrimedWhen, needs_receive, has_next_receive,
       final_patch, CallsRecvNext, PrefetchesBeforeSend
  <2>9. Want(i)' = Want(i) /\ Outstanding(i)' /\ ~InRecvNext(i)'
    BY <1>2, <1>7, <2>5 DEF Want, Outstanding, InRecvNext, InStep, Cursor, StepStart
  <2>10. ToSend(i)' = ToSend(i) /\ Progress(i)' = Progress(i)
    BY <1>2, <2>5 DEF ToSend, InStep, Sent, Cursor, StepStart, Progress, final_patch
  <2>11. Recv(i)'
    BY <1>2, <1>4, <1>7, <2>1, <2>5, <2>9 DEF Recv, ShapeKnown
  <2>12. Buffers(i)'
    <3>1. \A p \in Patches : recv_buffer'[i][p] =
                IF p = idx THEN Body(i, Want(i)) ELSE recv_buffer[i][p]
      <4> HIDE DEF idx, m
      <4> QED
        BY <2>1, <2>4, <2>5 DEF TypeOK
    <3>2. pc[i] \notin {"prepare", "compute"}
      BY <1>7 DEF Outstanding, Ctl, PrimedWhen
    <3>3. ConditionLive(i) => idx # 0
      <4>1. SUFFICES ASSUME ConditionLive(i) PROVE Want(i).patch # 0
        OBVIOUS
      <4>2. FirstRound(i) = 0
        BY <4>1 DEF ConditionLive, FirstRound
      <4>3. CASE pc[i] \in {"receive", "get"}
        <5>1. patch[i] > 0 /\ Want(i) = Cursor(i)
          BY <4>1, <4>2, <4>3, Types
             DEF ConditionLive, Want, Cursor, InStep, Computed
        <5> QED
          BY <5>1, Types DEF Cursor
      <4>4. CASE pc[i] \notin {"receive", "get"}
        <5>1. Computed(i) /\ ~final_patch(i)
          BY <3>2, <4>1, <4>4 DEF ConditionLive
        <5>2. Want(i) = NextTask(Cursor(i)) /\ patch[i] < NumPatches - 1
          BY <4>2, <4>4, <5>1, Types
             DEF Want, Cursor, InStep, Computed, NextTask, final_patch, Patches
        <5> QED
          BY <5>2, Types DEF NextTask, Cursor
      <4> QED
        BY <4>3, <4>4
    <3>4. 0 \in Patches
      BY PatchesAssumption DEF Patches
    <3>5. ConditionLive(i)' <=> ConditionLive(i)
      BY <1>2, <2>5 DEF ConditionLive, Computed, final_patch
    <3> HIDE DEF idx, m
    <3>6. recv_buffer'[i][Want(i).patch] = Body(i, Want(i))
      BY <2>1, <3>1 DEF idx
    <3>7. ConditionLive(i) => /\ incoming_condition'[i] = 0
                              /\ recv_buffer'[i][0] = Body(i, StepStart(i))
      BY <1>2, <3>1, <3>3, <3>4 DEF Buffers
    <3>8. StepStart(i)' = StepStart(i)
      BY <1>2 DEF StepStart
    <3> QED
      BY <2>5, <2>9, <3>2, <3>5, <3>6, <3>7, <3>8 DEF Buffers
  <2>13. Latents(i)'
    BY <1>2, <2>5, <2>10 DEF Latents
  <2>14. Send(i)'
    BY <1>2, <2>5, <2>10 DEF Send, ShapeSent, InStep, Computed
  <2>15. SendPos(i)' = SendPos(i)
    BY <1>2, <2>5, <2>10 DEF SendPos
  <2>16. RecvPos(i)' = After(i, RecvPos(i))
    BY <1>2, <1>4, <2>1, <2>3, <2>9 DEF RecvPos, After
  <2>17. \A k \in Stages : Link(k)'
    <3> HIDE DEF IInv
    <3> QED
      BY <1>2, <1>5, <2>7, <2>15, <2>16, LinkReceived
  <2> HIDE DEF IInv
  <2> QED
    BY <2>6, <2>7, <2>8, <2>11, <2>12, <2>13, <2>14, <2>17, StageStep
<1> QED
  BY <1>3, <1>6, <1>7

-----------------------------------------------------------------------------
(* The invariant holds at the start and in every step *)

LEMMA InitInv == Init => IInv
<1> SUFFICES ASSUME Init PROVE IInv
  OBVIOUS
<1>1. TypeOK
  <2>1. 0 \in Patches /\ 0 \in 0 .. NumSteps /\ 0 \in 0 .. NumStages
    BY StepsAssumption, PatchesAssumption, StagesAssumption DEF Patches
  <2>2. \A i \in Stages : [step |-> FirstRound(i), patch |-> 0] \in [step : 0 .. NumSteps, patch : Patches]
    BY <2>1, StepsAssumption DEF FirstRound
  <2>3. \A p \in Patches : [patch |-> p, step |-> 0, depth |-> 0] \in Image
    BY <2>1 DEF Image
  <2>4. /\ recv_task \in [Stages -> [step : 0 .. NumSteps, patch : Patches]]
        /\ patch_latents \in [Stages -> [Patches -> Image \union {None}]]
    BY <2>2, <2>3 DEF Init
  <2>5. /\ recv_shape \in [Stages -> [Patches -> Patches \union {None}]]
        /\ send_shape \in [Stages -> SUBSET Patches]
        /\ condition_states \in [Stages -> SUBSET Patches]
    BY DEF Init
  <2>6. /\ receiving_tasks \in [Stages -> Seq(Patches)] /\ posted \in [Stages -> Seq(Request)]
        /\ link \in [Stages -> Seq(Message)]
    BY DEF Init
  <2> QED
    BY <2>1, <2>4, <2>5, <2>6 DEF Init, TypeOK
<1>2. ASSUME NEW i \in Stages
      PROVE  Ctl(i) /\ Recv(i) /\ Buffers(i) /\ Latents(i) /\ Send(i)
  <2>1. /\ pc[i] = "step" /\ io[i] = "idle" /\ step[i] = 0 /\ patch[i] = 0
        /\ pipeline_patch_idx[i] = 0 /\ primed[i] = FALSE /\ posted[i] = <<>>
        /\ receiving_tasks[i] = <<>>
        /\ recv_task[i] = [step |-> FirstRound(i), patch |-> 0]
        /\ \A p \in Patches : recv_shape[i][p] = IF ShapesPreset THEN p ELSE None
        /\ send_shape[i] = IF ShapesPreset THEN Patches ELSE {}
        /\ i \in {First, Last} => \A p \in Patches :
                patch_latents[i][p] = [patch |-> p, step |-> 0, depth |-> 0]
    BY DEF Init
  <2>2. Ctl(i)
    BY <2>1 DEF Ctl, InStep, PrimedWhen
  <2>3. Want(i) = recv_task[i] /\ ~Outstanding(i) /\ ~InRecvNext(i)
    BY <2>1 DEF Want, InStep, StepStart, FirstRound, Outstanding, InRecvNext
  <2>4. \A p \in Patches : ShapeKnown(i, p) <=> ShapesPreset
    BY <2>1, <2>3, PatchesAssumption DEF ShapeKnown, FirstRound, Patches
  <2>5. Recv(i)
    BY <2>1, <2>3, <2>4 DEF Recv
  <2>6. Buffers(i)
    BY <2>1, <2>3 DEF Buffers, ConditionLive, Computed
  <2>7. Progress(i).step = 0 /\ Progress(i).patch = 0
    BY <2>1 DEF Progress
  <2>8. Latents(i)
    BY <2>1, <2>7, PatchesAssumption DEF Latents, Patches
  <2>9. ToSend(i).step < NumSteps =>
            \A p \in Patches : ShapeSent(i, p) <=> ShapesPreset
    <3>1. ToSend(i) = IF i = Last THEN [step |-> 1, patch |-> 0] ELSE [step |-> 0, patch |-> 0]
      BY <2>1, StepsAssumption DEF ToSend, InStep, StepStart
    <3>2. FirstRound(next_rank(i)) = IF i = Last THEN 1 ELSE 0
      BY StagesAssumption DEF FirstRound, next_rank, First, Last, Stages
    <3> QED
      BY <2>1, <3>1, <3>2, PatchesAssumption DEF ShapeSent, Patches
  <2>10. Send(i)
    BY <2>1, <2>9 DEF Send, InStep
  <2> QED
    BY <2>2, <2>5, <2>6, <2>8, <2>10
<1>3. ASSUME NEW j \in Stages PROVE Link(j)
  <2> DEFINE i == prev_rank(j)
  <2>1. i \in Stages /\ next_rank(i) = j /\ (i = Last <=> j = First)
    BY StagesAssumption DEF prev_rank, next_rank, Stages, First, Last
  <2>2. pc[i] = "step" /\ step[i] = 0 /\ link[i] = <<>>
    BY <2>1 DEF Init
  <2>3. ToSend(i) = [step |-> FirstRound(j), patch |-> 0]
    BY <2>1, <2>2, StepsAssumption DEF ToSend, InStep, StepStart, FirstRound
  <2>4. SendPos(i) = Start(j, [step |-> FirstRound(j), patch |-> 0])
    <3> HIDE DEF i
    <3> QED
      BY <2>1, <2>2, <2>3 DEF SendPos
  <2>5. RecvPos(j) = Start(j, [step |-> FirstRound(j), patch |-> 0])
    BY DEF RecvPos, InRecvNext, Outstanding, Init
  <2> HIDE DEF i
  <2>6. LinkOK(j, link[i], RecvPos(j), SendPos(i))
    BY <2>2, <2>4, <2>5 DEF LinkOK
  <2> QED
    BY <2>6 DEF Link, i
<1> QED
  BY <1>1, <1>2, <1>3 DEF IInv

LEMMA StutterInv == ASSUME IInv, UNCHANGED vars PROVE IInv'
<1>1. TypeOK'
  BY DEF IInv, TypeOK, vars, control, group, network, schedule
<1>2. \A k \in Stages : Frame(k)
  BY DEF Frame, vars, control, group, network, schedule
<1>3. link' = link /\ First \in Stages
  BY RingFacts, StagesAssumption DEF vars, network, First, Stages
<1>4. RecvPos(First)' = RecvPos(First) /\ SendPos(First)' = SendPos(First)
  BY <1>2, <1>3, FramePos
<1>5. \A k \in Stages : Link(k)'
  BY <1>2, <1>3, <1>4, LinksKept
<1>6. \A k \in Stages : Ctl(k)' /\ Recv(k)' /\ Buffers(k)' /\ Latents(k)' /\ Send(k)'
  BY <1>2, FrameCtl, FrameRecv, FrameBuffers, FrameLatents, FrameSend DEF IInv
<1> QED
  BY <1>1, <1>5, <1>6 DEF IInv

LEMMA NextInv == IInv /\ [Next]_vars => IInv'
<1> SUFFICES ASSUME IInv, [Next]_vars PROVE IInv'
  OBVIOUS
<1>1. ASSUME NEW i \in Stages, Host(i) PROVE IInv'
  BY <1>1, BeginStepInv, ReceiveInv, GetRecvDataInv, PreparePatchInv, ComputePatchInv,
     SkipCallInv, AdvancePatchInv, WaitSendsInv, RecvNextCheckInv, RecvNextPostInv,
     SendCheckInv, SendPostInv DEF Host
<1>2. ASSUME NEW i \in Stages, Deliver(i) PROVE IInv'
  BY <1>2, DeliverInv
<1>3. CASE Terminated
  BY <1>3, StutterInv DEF Terminated
<1>4. CASE UNCHANGED vars
  BY <1>4, StutterInv
<1> QED
  BY <1>1, <1>2, <1>3, <1>4 DEF Next

\* The inductive invariant, for any number of stages, steps and patches.
THEOREM Invariance == Spec => []IInv
<1> QED
  BY InitInv, NextInv, PTL DEF Spec

-----------------------------------------------------------------------------
(* What follows from it *)

\* Every variable keeps its type.
THEOREM TypeCorrect == Spec => []TypeOK
<1>1. IInv => TypeOK
  BY DEF IInv
<1> QED
  BY <1>1, Invariance, PTL

\* No stage of the driver ever raises an error.
THEOREM DriverNeverFails == Spec => []NeverFails
<1>1. IInv => NeverFails
  BY DEF IInv, NeverFails, Ctl
<1> QED
  BY <1>1, Invariance, PTL

LEMMA InputShape ==
    ASSUME NEW i \in Stages, IInv, pc[i] = "compute", needs_receive(i)
    PROVE  recv_shape[i][patch[i]] = patch[i]
<1> USE DEF IInv
<1>1. ~Outstanding(i)
  BY DEF Outstanding, Ctl, PrimedWhen
<1>2. recv_task[i] = NextTask(Cursor(i)) /\ step[i] >= FirstRound(i) /\ FirstRound(i) \in Nat
  <2>1. recv_task[i] = Want(i)
    BY <1>1 DEF Recv
  <2>2. step[i] >= FirstRound(i) /\ FirstRound(i) \in Nat
    BY Types DEF FirstRound, needs_receive
  <2>3. NextTask(Cursor(i)).step >= FirstRound(i) /\ NextTask(Cursor(i)).step \in Nat
    BY <2>2, Types DEF NextTask, Cursor
  <2> QED
    BY <2>1, <2>2, <2>3 DEF Want, InStep
<1>3. recv_task[i].step > FirstRound(i) \/ patch[i] < recv_task[i].patch
  BY <1>2, Types DEF NextTask, Cursor
<1>4. ShapeKnown(i, patch[i])
  BY <1>3 DEF ShapeKnown
<1> QED
  BY <1>4, Types DEF Recv

\* Every patch is computed from its own latent, as the stage before left it,
\* with the condition of its step, in a buffer of its own shape.
THEOREM InputsAlwaysMatch == Spec => []InputsMatch
<1>1. ASSUME IInv, NEW i \in Stages, pc[i] = "compute"
      PROVE  /\ InputImage(i) = [patch |-> patch[i], step |-> step[i], depth |-> i]
             /\ InputCondition(i) = [step |-> step[i], depth |-> i]
             /\ i = Last => previous[patch[i]] = [patch |-> patch[i], step |-> step[i], depth |-> 0]
             /\ needs_receive(i) => recv_shape[i][patch[i]] = patch[i]
             /\ pipeline_patch_idx[i] = patch[i]
  <2>1. InputCondition(i) = [step |-> step[i], depth |-> i]
    BY <1>1, Inputs, RingFacts
  <2>2. i = Last => previous[patch[i]] = [patch |-> patch[i], step |-> step[i], depth |-> 0]
    BY <1>1 DEF IInv, Latents
  <2>3. pipeline_patch_idx[i] = patch[i]
    BY <1>1 DEF IInv, Ctl, InStep
  <2> QED
    BY <1>1, <2>1, <2>2, <2>3, Inputs, InputShape
<1>2. IInv => InputsMatch
  BY <1>1 DEF InputsMatch
<1> QED
  BY <1>2, Invariance, PTL

\* When all stages are through, links, receives and task queues are empty.
THEOREM NothingIsLeft == Spec => []NothingLeft
<1>1. ASSUME IInv, Finished, NEW i \in Stages
      PROVE  /\ posted[i] = <<>> /\ receiving_tasks[i] = <<>> /\ QueueEmpty(i)
             /\ RecvPos(i) = Start(i, [step |-> NumSteps, patch |-> 0])
             /\ ToSend(i) = [step |-> NumSteps, patch |-> 0]
             /\ SendPos(i) = Start(next_rank(i), ToSend(i))
  <2> USE DEF IInv
  <2>1. pc[i] = "done" /\ step[i] = NumSteps /\ NumSteps \in Nat /\ NumSteps > 0
    BY <1>1, StepsAssumption DEF Finished, Ctl
  <2>2. ~Outstanding(i) /\ ~InRecvNext(i)
    BY <1>1, <2>1 DEF Outstanding, InRecvNext, Ctl, PrimedWhen, CallsRecvNext
  <2>3. Want(i) = [step |-> NumSteps, patch |-> 0]
    BY <2>1 DEF Want, InStep, StepStart, FirstRound
  <2>4. recv_task[i] = Want(i) /\ receiving_tasks[i] = <<>> /\ posted[i] = <<>>
    BY <1>1, <2>2 DEF Recv
  <2>5. ToSend(i) = [step |-> NumSteps, patch |-> 0]
    BY <2>1 DEF ToSend, InStep, StepStart
  <2> QED
    BY <2>1, <2>2, <2>3, <2>4, <2>5 DEF QueueEmpty, RecvPos, SendPos
<1>2. ASSUME IInv, Finished, NEW i \in Stages PROVE link[i] = <<>>
  <2> DEFINE j == next_rank(i)
             pos == Start(j, [step |-> NumSteps, patch |-> 0])
  <2>1. j \in Stages /\ prev_rank(j) = i
    BY RingFacts
  <2>2. RecvPos(j) = pos /\ SendPos(i) = pos
    BY <1>1, <1>2, <2>1
  <2>3. LinkOK(j, link[i], pos, pos) /\ link[i] \in Seq(Message)
    BY <1>2, <2>1, <2>2 DEF IInv, Link, TypeOK
  <2>4. ~EarlierPos(pos, pos)
    BY StepsAssumption DEF EarlierPos, Earlier, Start
  <2> HIDE DEF pos, j
  <2> QED
    BY <2>3, <2>4, LinkTail
<1>3. IInv => NothingLeft
  BY <1>1, <1>2 DEF NothingLeft
<1> QED
  BY <1>3, Invariance, PTL

\* The latents finalize takes from the last stage went through every step.
THEOREM ResultIsComplete == Spec => []ResultComplete
<1>1. ASSUME IInv, pc[Last] = "done", NEW p \in Patches
      PROVE  patch_latents[Last][p] = [patch |-> p, step |-> NumSteps, depth |-> 0]
  <2>1. Last \in Stages
    BY StagesAssumption DEF Last, Stages
  <2>2. Progress(Last).step = NumSteps /\ Progress(Last).patch = 0 /\ Latents(Last)
    BY <1>1, <2>1 DEF IInv, Ctl, Progress
  <2>3. ~(p < 0)
    BY PatchesAssumption DEF Patches
  <2> QED
    BY <2>2, <2>3 DEF Latents
<1>2. IInv => ResultComplete
  BY <1>1 DEF ResultComplete
<1> QED
  BY <1>2, Invariance, PTL

-----------------------------------------------------------------------------
(* The driver implements the ring *)

\* In the order of the ring, the position of a link's receiver is not after
\* the one of its sender.
LEMMA ReceiverBehind ==
    ASSUME NEW i \in Stages, IInv
    PROVE  \/ RecvPos(i) = SendPos(prev_rank(i))
           \/ EarlierPos(RecvPos(i), SendPos(prev_rank(i)))
<1> DEFINE from == prev_rank(i)
<1>1. from \in Stages
  BY RingFacts
<1>2. LinkOK(i, link[from], RecvPos(i), SendPos(from)) /\ link[from] \in Seq(Message)
  BY <1>1 DEF IInv, Link, TypeOK
<1>3. CASE link[from] = <<>>
  BY <1>2, <1>3 DEF LinkOK
<1>4. CASE link[from] # <<>>
  BY <1>2, <1>4, LinkTail
<1> QED
  BY <1>3, <1>4

\* What a stage computes, the stage before has computed.
LEMMA InputComputed ==
    ASSUME NEW i \in Stages, IInv, pc[i] = "compute"
    PROVE  LET w == Cursor(i) IN
           IF i = First
           THEN step[i] > 0 => Earlier([w EXCEPT !.step = @ - 1], Progress(Last))
           ELSE Earlier(w, Progress(i - 1))
<1> USE DEF IInv
<1> DEFINE from == prev_rank(i)
           w == Cursor(i)
<1>1. /\ from \in Stages /\ from = (IF i = First THEN Last ELSE i - 1)
      /\ (from = Last <=> i = First)
  BY StagesAssumption DEF prev_rank, Stages, First, Last
<1>2. SUFFICES ASSUME needs_receive(i)
               PROVE  IF i = First THEN Earlier([w EXCEPT !.step = @ - 1], Progress(from))
                      ELSE Earlier(w, Progress(from))
  BY <1>1, Types DEF needs_receive
<1>3. ~Outstanding(i) /\ ~InRecvNext(i) /\ w \in WorkItem
  BY Types DEF Outstanding, InRecvNext, Ctl, PrimedWhen, CallsRecvNext, WorkItem, Cursor
<1>4. RecvPos(i).work = NextTask(w)
  <2>1. recv_task[i] = Want(i)
    BY <1>3 DEF Recv
  <2>2. step[i] >= FirstRound(i) /\ FirstRound(i) \in Nat
    BY <1>2, Types DEF FirstRound, needs_receive
  <2>3. NextTask(w).step >= FirstRound(i) /\ NextTask(w).step \in Nat
    BY <2>2, Types DEF NextTask, Cursor
  <2>4. recv_task[i] = NextTask(w)
    BY <2>1, <2>2, <2>3 DEF Want, InStep
  <2> QED
    BY <1>3, <2>4 DEF RecvPos, Start
<1>5. SendPos(from).work = ToSend(from)
  BY DEF SendPos, Start
<1>6. NextTask(w) = ToSend(from) \/ Earlier(NextTask(w), ToSend(from))
  BY <1>4, <1>5, ReceiverBehind DEF EarlierPos
<1>7. /\ Earlier(w, NextTask(w)) /\ NextTask(w) \in WorkItem /\ ToSend(from) \in WorkItem
  BY <1>1, <1>3, NextTaskLater, ToSendType
<1>8. Earlier(w, ToSend(from))
  BY <1>3, <1>6, <1>7 DEF Earlier, WorkItem, Patches
<1>9. LET v == Progress(from) IN
      /\ v.step \in Nat /\ v.patch \in Nat
      /\ IF from = Last
         THEN ToSend(from).step <= v.step + 1 /\
              (ToSend(from).step = v.step + 1 => ToSend(from).patch <= v.patch)
         ELSE ToSend(from).step <= v.step /\
              (ToSend(from).step = v.step => ToSend(from).patch <= v.patch)
  <2> HIDE DEF from
  <2>1. /\ step[from] \in Nat /\ patch[from] \in Nat /\ patch[from] < NumPatches
        /\ NumPatches \in Nat /\ NumSteps \in Nat /\ step[from] <= NumSteps
        /\ (InStep(from) => step[from] < NumSteps)
    BY <1>1, Types DEF Ctl
  <2>2. CASE ~InStep(from)
    <3>1. Progress(from) = StepStart(from)
      BY <1>1, <2>2 DEF Progress, InStep, StepStart, TypeOK, Ctl
    <3> QED
      BY <2>1, <2>2, <3>1 DEF ToSend, StepStart
  <2>3. CASE InStep(from)
    <3>1. Progress(from) = IF Computed(from) THEN NextTask(Cursor(from)) ELSE Cursor(from)
      BY <1>1, <2>1, <2>3 DEF Progress, InStep, Computed, Cursor, NextTask, final_patch
    <3>2. Sent(from) => Computed(from)
      BY DEF Sent, Computed
    <3> QED
      BY <2>1, <2>3, <3>1, <3>2 DEF ToSend, Cursor, NextTask
  <2> QED
    BY <2>2, <2>3
<1> HIDE DEF from
<1>10. /\ w.step = step[i] /\ w.patch = patch[i] /\ step[i] \in Nat /\ patch[i] \in Nat
       /\ ToSend(from).step \in Nat /\ ToSend(from).patch \in Nat
  BY <1>1, Types, ToSendType DEF Cursor, WorkItem, Patches
<1>11. CASE i = First
  <2>1. [w EXCEPT !.step = @ - 1] = [step |-> step[i] - 1, patch |-> patch[i]]
    BY DEF Cursor
  <2> QED
    BY <1>1, <1>8, <1>9, <1>10, <1>11, <2>1 DEF Earlier
<1>12. CASE i # First
  BY <1>1, <1>8, <1>9, <1>10, <1>12 DEF Earlier
<1> QED
  BY <1>11, <1>12

LEMMA RingInit == Init => Ring!Init
BY DEF Init, Progress, Ring!Init, Stages, Ring!Stages

\* Only the computation of a patch moves a stage of the ring.
LEMMA ProgressKept ==
    ASSUME IInv, NEW i \in Stages,
           Deliver(i) \/ (Host(i) /\ ~ComputePatch(i))
    PROVE  Progress(i)' = Progress(i)
<1> USE DEF IInv
<1>1. CASE Deliver(i)
  <2>1. step' = step /\ patch' = patch /\ (pc'[i] = pc[i] \/ pc'[i] = "failed")
    BY <1>1 DEF Deliver, TypeOK
  <2>2. pc'[i] # "failed"
    BY <1>1, DeliverInv DEF Ctl
  <2> QED
    BY <2>1, <2>2 DEF Progress, final_patch
<1>2. CASE RecvNextCheck(i)
  <2>1. pc'[i] # "failed"
    BY <1>2, RecvNextCheckInv DEF Ctl
  <2>2. pc'[i] = pc[i] /\ step' = step /\ patch' = patch
    BY <1>2, <2>1 DEF RecvNextCheck, TypeOK
  <2> QED
    BY <2>2 DEF Progress, final_patch
<1>3. CASE RecvNextPost(i)
  <2>1. /\ step' = step /\ patch' = patch /\ pc'[i] = AfterRecvNext[pc[i]]
        /\ pc[i] \in {"receive", "prefetch_before_send", "prefetch_after_send"}
    BY <1>3 DEF RecvNextPost, TypeOK, CallsRecvNext
  <2>2. /\ AfterRecvNext["receive"] = "get" /\ AfterRecvNext["prefetch_before_send"] = "send"
        /\ AfterRecvNext["prefetch_after_send"] = "advance"
    BY DEF AfterRecvNext
  <2> QED
    BY <2>1, <2>2 DEF Progress, final_patch
<1>4. CASE BeginStep(i)
  <2>1. pc[i] = "step" /\ pc'[i] = "receive" /\ patch'[i] = 0 /\ step' = step
    BY <1>4 DEF BeginStep, TypeOK
  <2> QED
    BY <2>1 DEF Progress
<1>5. CASE Receive(i)
  <2>1. pc[i] = "receive" /\ pc'[i] \in {"get", "prepare"} /\ patch' = patch /\ step' = step
    BY <1>5 DEF Receive, TypeOK
  <2> QED
    BY <2>1 DEF Progress
<1>6. CASE GetRecvData(i)
  <2>1. pc'[i] # "failed"
    BY <1>6, GetRecvDataInv DEF Ctl
  <2>2. pc[i] = "get" /\ pc'[i] = "prepare" /\ patch' = patch /\ step' = step
    BY <1>6, <2>1 DEF GetRecvData, TypeOK
  <2> QED
    BY <2>2 DEF Progress
<1>7. CASE PreparePatch(i)
  <2>1. pc'[i] # "failed"
    BY <1>7, PreparePatchInv DEF Ctl
  <2>2. pc[i] = "prepare" /\ pc'[i] = "compute" /\ patch' = patch /\ step' = step
    BY <1>7, <2>1 DEF PreparePatch, TypeOK
  <2> QED
    BY <2>2 DEF Progress
<1>8. CASE SkipCall(i)
  <2>1. /\ pc[i] \in {"prefetch_before_send", "send", "prefetch_after_send"}
        /\ pc'[i] \in {"send", "prefetch_after_send", "advance"}
        /\ patch' = patch /\ step' = step
    BY <1>8 DEF SkipCall, TypeOK
  <2> QED
    BY <2>1 DEF Progress, final_patch
<1>9. CASE SendCheck(i)
  <2>1. pc' = pc /\ patch' = patch /\ step' = step
    BY <1>9 DEF SendCheck
  <2> QED
    BY <2>1 DEF Progress, final_patch
<1>10. CASE SendPost(i)
  <2>1. pc[i] = "send" /\ pc'[i] = "prefetch_after_send" /\ patch' = patch /\ step' = step
    BY <1>10 DEF SendPost, TypeOK
  <2> QED
    BY <2>1 DEF Progress, final_patch
<1>11. CASE AdvancePatch(i)
  <2>1. /\ pc[i] = "advance"
        /\ IF final_patch(i) THEN step'[i] = step[i] + 1 /\ pc'[i] = "step"
           ELSE step'[i] = step[i] /\ patch'[i] = patch[i] + 1 /\ pc'[i] = "receive"
    BY <1>11 DEF AdvancePatch, TypeOK
  <2> QED
    BY <2>1 DEF Progress, final_patch
<1>12. CASE WaitSends(i)
  <2>1. pc[i] = "step" /\ pc'[i] = "done" /\ step' = step
    BY <1>12 DEF WaitSends, TypeOK
  <2> QED
    BY <2>1 DEF Progress
<1> QED
  BY <1>1, <1>2, <1>3, <1>4, <1>5, <1>6, <1>7, <1>8, <1>9, <1>10, <1>11, <1>12 DEF Host

LEMMA OthersProgressKept ==
    ASSUME TypeOK, NEW i \in Stages, Host(i) \/ Deliver(i), NEW k \in Stages \ {i}
    PROVE  Progress(k)' = Progress(k)
<1>1. pc'[k] = pc[k] /\ step'[k] = step[k] /\ patch'[k] = patch[k]
  <2>1. CASE Deliver(i)
    BY <2>1 DEF Deliver, TypeOK
  <2>2. CASE RecvNextCheck(i) \/ RecvNextPost(i)
    BY <2>2 DEF RecvNextCheck, RecvNextPost, TypeOK
  <2>3. CASE BeginStep(i) \/ Receive(i) \/ GetRecvData(i)
    BY <2>3 DEF BeginStep, Receive, GetRecvData, TypeOK
  <2>4. CASE PreparePatch(i)
    BY <2>4 DEF PreparePatch, TypeOK
  <2>5. CASE ComputePatch(i)
    BY <2>5 DEF ComputePatch, TypeOK
  <2>6. CASE SkipCall(i) \/ SendCheck(i) \/ SendPost(i)
    BY <2>6 DEF SkipCall, SendCheck, SendPost, TypeOK
  <2>7. CASE AdvancePatch(i) \/ WaitSends(i)
    BY <2>7 DEF AdvancePatch, WaitSends, TypeOK
  <2> QED
    BY <2>1, <2>2, <2>3, <2>4, <2>5, <2>6, <2>7 DEF Host
<1> QED
  BY <1>1 DEF Progress, final_patch

LEMMA ComputeIsRingStep ==
    ASSUME IInv, NEW i \in Stages, ComputePatch(i)
    PROVE  Ring!Compute(i)
<1> DEFINE todo == [k \in Stages |-> Progress(k)]
<1>1. /\ pc[i] = "compute" /\ step[i] < NumSteps /\ step[i] \in Nat
      /\ patch[i] \in Nat /\ patch[i] < NumPatches /\ NumPatches \in Nat
  BY Types DEF ComputePatch, IInv, Ctl, InStep
<1>2. Progress(i) = Cursor(i)
  BY <1>1 DEF Progress, Cursor
<1>3. pc'[i] \in {"prefetch_before_send", "failed"} /\ step' = step /\ patch' = patch
  BY DEF ComputePatch, IInv, TypeOK
<1>4. Progress(i)' = NextTask(Cursor(i))
  BY <1>1, <1>3 DEF Progress, NextTask, Cursor, final_patch
<1>5. todo' = [todo EXCEPT ![i] = NextTask(Cursor(i))]
  <2>1. \A k \in Stages \ {i} : Progress(k)' = Progress(k)
    BY OthersProgressKept DEF IInv, Host
  <2> QED
    BY <1>4, <2>1
<1>6. NextTask(Cursor(i)) = Ring!NextWork(todo[i])
  BY <1>1, <1>2 DEF NextTask, Ring!NextWork, Cursor
<1>7. Ring!InputReady(i)
  <2>1. First \in Stages /\ Last \in Stages /\ Last = NumStages - 1 /\ First = 0
    BY RingFacts DEF First, Last
  <2>2. CASE i = First
    <3>1. step[i] > 0 => Earlier([Cursor(i) EXCEPT !.step = @ - 1], Progress(Last))
      BY <1>1, <2>2, InputComputed
    <3>2. todo[0] = Cursor(i) /\ todo[NumStages - 1] = Progress(Last)
      BY <1>2, <2>1, <2>2
    <3>3. step[i] = 0 \/ Earlier([todo[0] EXCEPT !.step = @ - 1], todo[NumStages - 1])
      BY <1>1, <3>1, <3>2
    <3>4. todo[0].step = step[i]
      BY <3>2 DEF Cursor
    <3> HIDE DEF todo
    <3> QED
      BY <2>1, <2>2, <3>3, <3>4 DEF Ring!InputReady, Ring!Before, Earlier, todo
  <2>3. CASE i # First
    <3>1. Earlier(Cursor(i), Progress(i - 1)) /\ i - 1 \in Stages
      <4>1. Earlier(Cursor(i), Progress(i - 1))
        BY <1>1, <2>3, InputComputed
      <4>2. i - 1 \in Stages
        BY <2>3, StagesAssumption DEF Stages, First
      <4> QED
        BY <4>1, <4>2
    <3>2. Earlier(todo[i], todo[i - 1])
      BY <1>2, <3>1
    <3> QED
      BY <2>1, <2>3, <3>2 DEF Ring!InputReady, Ring!Before, Earlier
  <2> QED
    BY <2>2, <2>3
<1>8. todo[i].step < NumSteps
  BY <1>1, <1>2 DEF Cursor
<1> QED
  BY <1>5, <1>6, <1>7, <1>8 DEF Ring!Compute

\* Every step of the driver is a step of the ring, or leaves it as it is.
LEMMA RingStep == IInv /\ [Next]_vars => [Ring!Next]_[i \in Stages |-> Progress(i)]
<1> SUFFICES ASSUME IInv, [Next]_vars
             PROVE  [Ring!Next]_[i \in Stages |-> Progress(i)]
  OBVIOUS
<1>1. ASSUME NEW i \in Stages, ComputePatch(i)
      PROVE  Ring!Next
  BY <1>1, ComputeIsRingStep DEF Ring!Next, Stages, Ring!Stages
<1>2. ASSUME NEW i \in Stages, Deliver(i) \/ (Host(i) /\ ~ComputePatch(i))
      PROVE  [k \in Stages |-> Progress(k)]' = [k \in Stages |-> Progress(k)]
  <2>1. Progress(i)' = Progress(i)
    BY <1>2, ProgressKept
  <2>2. \A k \in Stages \ {i} : Progress(k)' = Progress(k)
    BY <1>2, OthersProgressKept DEF IInv
  <2> QED
    BY <2>1, <2>2
<1>3. CASE UNCHANGED vars
  <2>1. \A k \in Stages : Progress(k)' = Progress(k)
    BY <1>3 DEF Progress, final_patch, vars, control
  <2> QED
    BY <2>1
<1> QED
  BY <1>1, <1>2, <1>3 DEF Next, Terminated

\* The pipeline computes what the ring does, in the same order: the safety
\* part of RingSpec.
THEOREM ImplementsRing == Spec => Ring!Spec
<1> QED
  BY RingInit, RingStep, Invariance, PTL DEF Spec, Ring!Spec

-----------------------------------------------------------------------------
(* The tensors of unfinished sends *)

\* What send drops before it announces a shape is not kept twice: inside
\* _check_shape_and_buffer the transport holds no tensor for the patch.
Dropped == \A i \in Stages : pc[i] = "send" /\ io[i] = "sync" => send_tensors[i][patch[i]] = None

Retained == SendRetention /\ Dropped

\* Steps that touch neither the links nor the tensors.
LEMMA RetainedKept ==
    ASSUME IInv, Retained, UNCHANGED <<link, send_tensors>>,
           \A i \in Stages : pc'[i] = "send" /\ io'[i] = "sync" =>
               pc[i] = "send" /\ io[i] = "sync" /\ patch'[i] = patch[i]
    PROVE  Retained'
BY DEF Retained, SendRetention, Dropped, Pending

\* The message that Deliver takes was the oldest; the others move up.
LEMMA DeliverRetains ==
    ASSUME NEW i \in Stages, IInv, Retained, Deliver(i)
    PROVE  Retained'
<1> USE DEF IInv
<1> DEFINE from == prev_rank(i)
<1>1. from \in Stages /\ link[from] \in Seq(Message) /\ link[from] # <<>>
  BY RingFacts DEF Deliver, TypeOK
<1>2. link' = [link EXCEPT ![from] = Tail(link[from])] /\ send_tensors' = send_tensors
  BY DEF Deliver
<1>3. ASSUME NEW k \in Stages, NEW n \in Pending(k)', link'[k][n].kind = "data"
      PROVE  send_tensors'[k][link'[k][n].body.image.patch] = link'[k][n].body
  <2>1. CASE k = from
    <3>1. /\ link'[k] = Tail(link[k]) /\ Len(Tail(link[k])) = Len(link[k]) - 1
          /\ n \in LinkCapacity + 1 .. Len(Tail(link[k]))
      BY <1>1, <1>2, <1>3, <2>1, HeadTailProperties DEF Pending, TypeOK
    <3>2. link'[k][n] = link[k][n + 1] /\ n + 1 \in Pending(k)
      BY <1>1, <2>1, <3>1, TransportAssumption DEF Pending
    <3> QED
      BY <1>2, <1>3, <3>2 DEF Retained, SendRetention
  <2>2. CASE k # from
    <3>1. link'[k] = link[k]
      BY <1>2, <2>2 DEF TypeOK
    <3> QED
      BY <1>2, <1>3, <3>1 DEF Retained, SendRetention, Pending
  <2> QED
    BY <2>1, <2>2
<1>4. Dropped'
  BY DEF Deliver, Retained, Dropped, TypeOK
<1> QED
  BY <1>3, <1>4 DEF Retained, SendRetention

\* The transport drops a tensor only when no send of its patch is under way.
LEMMA SendCheckRetains ==
    ASSUME NEW i \in Stages, IInv, Retained, SendCheck(i)
    PROVE  Retained'
<1> USE DEF IInv
<1> DEFINE p == patch[i]
           msgs == link'[i]
<1>1. /\ send_tensors' = [send_tensors EXCEPT ![i][p] = None]
      /\ link[i] \in Seq(Message) /\ p \in Patches
      /\ \A k \in Stages \ {i} : link'[k] = link[k] /\ send_tensors'[k] = send_tensors[k]
  BY Types DEF SendCheck, TypeOK
<1>2. \/ msgs = link[i]
      \/ msgs = Append(link[i], [kind |-> "shape", body |-> outbound[i]])
  BY DEF SendCheck, TypeOK
<1>3. ASSUME NEW n \in Pending(i)', msgs[n].kind = "data"
      PROVE  n \in Pending(i) /\ msgs[n] = link[i][n]
  <2>1. CASE msgs = link[i]
    BY <1>3, <2>1 DEF Pending
  <2>2. CASE msgs = Append(link[i], [kind |-> "shape", body |-> outbound[i]])
    <3>1. Len(msgs) = Len(link[i]) + 1 /\ n \in LinkCapacity + 1 .. Len(msgs)
      BY <1>1, <1>3, <2>2, AppendProperties DEF Pending
    <3>2. n # Len(link[i]) + 1
      BY <1>1, <1>3, <2>2
    <3> QED
      BY <1>1, <2>2, <3>1, <3>2, TransportAssumption DEF Pending
  <2> QED
    BY <1>2, <2>1, <2>2
<1>4. ASSUME NEW k \in Stages, NEW n \in Pending(k)', link'[k][n].kind = "data"
      PROVE  send_tensors'[k][link'[k][n].body.image.patch] = link'[k][n].body
  <2>1. CASE k = i
    <3>1. /\ n \in Pending(i) /\ link'[k][n] = link[i][n] /\ link[i][n].kind = "data"
      BY <1>3, <1>4, <2>1
    <3>2. link[i][n].body.image.patch # p
      BY <3>1 DEF SendCheck, SendInProgress
    <3>3. send_tensors[i][link[i][n].body.image.patch] = link[i][n].body
      BY <3>1 DEF Retained, SendRetention
    <3> QED
      BY <1>1, <2>1, <3>1, <3>2, <3>3 DEF TypeOK
  <2>2. CASE k # i
    BY <1>1, <1>4, <2>2 DEF Retained, SendRetention, Pending
  <2> QED
    BY <2>1, <2>2
<1>5. Dropped'
  <2>1. send_tensors'[i][p] = None
    BY <1>1 DEF TypeOK
  <2> QED
    BY <1>1, <2>1 DEF SendCheck, Retained, Dropped, TypeOK
<1> QED
  BY <1>4, <1>5 DEF Retained, SendRetention

\* The transport held nothing for the patch, so no earlier send of it is
\* under way: its tensor would be the one that is held.
LEMMA SendPostRetains ==
    ASSUME NEW i \in Stages, IInv, Retained, SendPost(i)
    PROVE  Retained'
<1> USE DEF IInv
<1> DEFINE p == patch[i]
           m == [kind |-> "data", body |-> outbound[i]]
<1>1. /\ send_tensors' = [send_tensors EXCEPT ![i][p] = outbound[i]]
      /\ link' = [link EXCEPT ![i] = Append(link[i], m)]
      /\ link[i] \in Seq(Message) /\ p \in Patches
      /\ \A k \in Stages \ {i} : link'[k] = link[k] /\ send_tensors'[k] = send_tensors[k]
  BY Types DEF SendPost, TypeOK
<1>2. /\ outbound[i] = Body(next_rank(i), ToSend(i)) /\ ToSend(i).patch = p
  BY SendFacts DEF SendPost
<1>3. outbound[i].image.patch = p
  BY <1>2 DEF Body
<1>4. send_tensors[i][p] = None
  BY DEF SendPost, Retained, Dropped
<1>5. ASSUME NEW k \in Stages, NEW n \in Pending(k)', link'[k][n].kind = "data"
      PROVE  send_tensors'[k][link'[k][n].body.image.patch] = link'[k][n].body
  <2>1. CASE k = i /\ n = Len(link[i]) + 1
    <3>1. link'[k][n] = m
      BY <1>1, <2>1, AppendProperties DEF TypeOK
    <3> QED
      BY <1>1, <1>3, <2>1, <3>1 DEF TypeOK
  <2>2. CASE k = i /\ n # Len(link[i]) + 1
    <3>1. link'[i] = Append(link[i], m) /\ Len(link'[i]) = Len(link[i]) + 1
      BY <1>1, AppendProperties DEF TypeOK
    <3>2. n \in Pending(i) /\ link'[k][n] = link[i][n] /\ n \in 1 .. Len(link[i])
      BY <1>1, <1>5, <2>2, <3>1, TransportAssumption DEF Pending
    <3>3. link[i][n].body \in Payload
      <4>1. link[i][n] \in Message
        BY <1>1, <3>2, ElementOfSeq
      <4> QED
        BY <4>1 DEF Message
    <3>4. send_tensors[i][link[i][n].body.image.patch] = link[i][n].body
      BY <1>5, <2>2, <3>2 DEF Retained, SendRetention
    <3>5. link[i][n].body.image.patch # p
      BY <1>4, <3>3, <3>4, NoneAssumption
    <3> QED
      BY <1>1, <2>2, <3>2, <3>4, <3>5 DEF TypeOK
  <2>3. CASE k # i
    BY <1>1, <1>5, <2>3 DEF Retained, SendRetention, Pending
  <2> QED
    BY <2>1, <2>2, <2>3
<1>6. Dropped'
  BY <1>1 DEF SendPost, Retained, Dropped, TypeOK
<1> QED
  BY <1>5, <1>6 DEF Retained, SendRetention

\* All sends of the stage are complete when it drops its tensors.
LEMMA WaitSendsRetains ==
    ASSUME NEW i \in Stages, IInv, Retained, WaitSends(i)
    PROVE  Retained'
<1>1. link' = link /\ \A k \in Stages \ {i} : send_tensors'[k] = send_tensors[k]
  BY DEF IInv, TypeOK, WaitSends, network
<1>2. \A n \in Pending(i)' : link'[i][n].kind # "data"
  BY <1>1 DEF WaitSends, SendsComplete, Pending
<1>3. SendRetention'
  BY <1>1, <1>2 DEF Retained, SendRetention, Pending
<1>4. Dropped'
  <2>1. pc'[i] = "done" /\ io' = io /\ patch' = patch
    BY DEF IInv, TypeOK, WaitSends
  <2>2. \A k \in Stages \ {i} : pc'[k] = pc[k]
    BY DEF IInv, TypeOK, WaitSends
  <2> QED
    BY <1>1, <2>1, <2>2 DEF Retained, Dropped
<1> QED
  BY <1>3, <1>4 DEF Retained

\* The other steps of a stage touch neither, or come from a place where they
\* may.
LEMMA HostRetains ==
    ASSUME NEW i \in Stages, IInv, Retained, Host(i)
    PROVE  Retained'
<1> USE DEF IInv
<1>1. CASE SendCheck(i) \/ SendPost(i) \/ WaitSends(i)
  BY <1>1, SendCheckRetains, SendPostRetains, WaitSendsRetains
<1>2. CASE RecvNextCheck(i) \/ RecvNextPost(i)
  <2>1. io'[i] = "sync" => pc'[i] # "send"
    BY <1>2 DEF RecvNextCheck, RecvNextPost, CallsRecvNext, TypeOK
  <2> QED
    BY <1>2, <2>1, RetainedKept DEF RecvNextCheck, RecvNextPost, TypeOK
<1>3. CASE BeginStep(i) \/ Receive(i) \/ GetRecvData(i)
  BY SMTT(30), <1>3, RetainedKept DEF BeginStep, Receive, GetRecvData, network, TypeOK
<1>4. CASE PreparePatch(i)
  BY <1>4, RetainedKept DEF PreparePatch, network, TypeOK
<1>5. CASE ComputePatch(i)
  BY <1>5, RetainedKept DEF ComputePatch, network, TypeOK
<1>6. CASE SkipCall(i)
  <2>1. pc'[i] = "send" => io'[i] # "sync"
    BY <1>6 DEF SkipCall, Ctl, CallsRecvNext, TypeOK
  <2> QED
    BY <1>6, <2>1, RetainedKept DEF SkipCall, network, TypeOK
<1>7. CASE AdvancePatch(i)
  BY <1>7, RetainedKept DEF AdvancePatch, network, TypeOK
<1> QED
  BY <1>1, <1>2, <1>3, <1>4, <1>5, <1>6, <1>7 DEF Host

\* While a payload is being sent, the transport holds its tensor.
THEOREM TensorsRetained == Spec => []SendRetention
<1>1. Init => Retained
  BY TransportAssumption DEF Init, Retained, SendRetention, Dropped, Pending
<1>2. IInv /\ Retained /\ [Next]_vars => Retained'
  <2> SUFFICES ASSUME IInv, Retained, [Next]_vars PROVE Retained'
    OBVIOUS
  <2>1. CASE UNCHANGED vars
    BY <2>1, RetainedKept DEF vars, control, network
  <2> QED
    BY <2>1, HostRetains, DeliverRetains DEF Next, Terminated
<1>3. Retained => SendRetention
  BY DEF Retained
<1> QED
  BY <1>1, <1>2, <1>3, Invariance, PTL DEF Spec
=============================================================================
