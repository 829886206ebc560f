-------------------------- MODULE PipeFusionAsyncInv --------------------------
(***************************************************************************)
(* The inductive invariant of PipeFusionAsync, one part per concern: the   *)
(* driver's control, what a stage receives, what it holds and sends, and   *)
(* the messages of a link.  Its core: the messages of a link follow each   *)
(* other in the order of the driver's loops, they end where the sender is, *)
(* and they start where the receiver is.                                   *)
(***************************************************************************)
EXTENDS PipeFusionAsync

WorkItem == [step : Nat, patch : Patches]
Position == [kind : {"shape", "data"}, work : WorkItem]

Cursor(i) == [step |-> step[i], patch |-> patch[i]]
StepStart(i) == [step |-> step[i], patch |-> 0]

InStep(i)   == pc[i] \in {"receive", "get", "prepare", "compute", "prefetch_before_send",
                          "send", "prefetch_after_send", "advance"}
Computed(i) == pc[i] \in {"prefetch_before_send", "send", "prefetch_after_send", "advance"}
Sent(i)     == pc[i] \in {"prefetch_after_send", "advance"}

\* What stage j is to receive for the work item w, and in what order.
Body(j, w) ==
    [image |-> [patch |-> w.patch, step |-> w.step, depth |-> j],
     cond  |-> IF j # First /\ IncludesCondition(w.patch)
               THEN [step |-> w.step, depth |-> j] ELSE None]

\* The first message for w is its shape if the segment is used for the first time.
Start(j, w) == [kind |-> IF w.step = FirstRound(j) /\ ~ShapesPreset THEN "shape" ELSE "data",
                work |-> w]
After(j, pos) == IF pos.kind = "shape" THEN [kind |-> "data", work |-> pos.work]
                 ELSE Start(j, NextTask(pos.work))
Earlier(v, w) == v.step < w.step \/ (v.step = w.step /\ v.patch < w.patch)
EarlierPos(a, b) == \/ Earlier(a.work, b.work)
                    \/ a.work = b.work /\ a.kind = "shape" /\ b.kind = "data"

WorkOf(m) == [step |-> m.body.image.step, patch |-> m.body.image.patch]
PosOf(m)  == [kind |-> m.kind, work |-> WorkOf(m)]

-----------------------------------------------------------------------------
(* The driver's control *)

\* When a receive is primed: the prefetch of the next patch has been called.
PrimedWhen(i) ==
    \/ pc[i] = "step" /\ 0 < step[i] /\ step[i] < NumSteps
    \/ pc[i] \in {"receive", "get"} /\ needs_receive(i) /\ ~(step[i] = 0 /\ patch[i] = 0)
    \/ pc[i] \in {"send", "prefetch_after_send"} /\ final_patch(i) /\ has_next_receive(i)
    \/ pc[i] = "advance" /\ has_next_receive(i)

InRecvNext(i) == io[i] = "sync" /\ pc[i] # "send"

Ctl(i) ==
    /\ pc[i] # "failed"
    /\ InStep(i) => step[i] < NumSteps
    /\ pc[i] = "done" => step[i] = NumSteps
    /\ pipeline_patch_idx[i] = IF InStep(i) THEN patch[i] ELSE 0
    /\ primed[i] <=> PrimedWhen(i)
    /\ pc[i] = "get" => needs_receive(i)
    /\ io[i] = "sync" => CallsRecvNext(i) \/ (pc[i] = "send" /\ outbound[i] # None)

-----------------------------------------------------------------------------
(* What a stage receives *)

\* The work item whose payload get_pipeline_recv_data takes next.
Want(i) ==
    LET w == IF ~InStep(i) THEN StepStart(i)
             ELSE IF pc[i] \in {"receive", "get"} THEN Cursor(i) ELSE NextTask(Cursor(i))
    IN IF w.step < FirstRound(i) THEN [step |-> FirstRound(i), patch |-> 0] ELSE w

Outstanding(i) == primed[i] \/ pc[i] = "get"

\* The receive the link has not matched is the shape of the head task, whose
\* segment is used for the first time, or the payload of the outstanding receive.
ShapeWanted(i) == /\ posted[i] = <<[kind |-> "shape", idx |-> recv_task[i].patch]>>
                  /\ Start(i, recv_task[i]).kind = "shape"
DataWanted(i)  == posted[i] = <<[kind |-> "data", idx |-> Want(i).patch]>>

ShapeKnown(i, p) ==
    \/ ShapesPreset
    \/ recv_task[i].step > FirstRound(i)
    \/ p < recv_task[i].patch
    \/ p = recv_task[i].patch /\ InRecvNext(i) /\ posted[i] = <<>>

Recv(i) ==
    /\ IF Outstanding(i)
       THEN receiving_tasks[i] = <<Want(i).patch>> /\ recv_task[i] = NextTask(Want(i))
       ELSE receiving_tasks[i] = <<>> /\ recv_task[i] = Want(i)
    /\ \/ posted[i] = <<>>
       \/ InRecvNext(i) /\ ShapeWanted(i)
       \/ ~InRecvNext(i) /\ Outstanding(i) /\ DataWanted(i)
    /\ \A p \in Patches : recv_shape[i][p] = IF ShapeKnown(i, p) THEN p ELSE None

\* The reused condition view is in use from patch 0 to the last computation.
ConditionLive(i) ==
    /\ i # First /\ ConditionReuse
    /\ \/ pc[i] \in {"receive", "get", "prepare"} /\ patch[i] > 0
       \/ pc[i] = "compute"
       \/ Computed(i) /\ ~final_patch(i)

Buffers(i) ==
    /\ Outstanding(i) /\ posted[i] = <<>> => recv_buffer[i][Want(i).patch] = Body(i, Want(i))
    /\ pc[i] \in {"prepare", "compute"} /\ needs_receive(i) =>
            recv_buffer[i][patch[i]] = Body(i, Cursor(i))
    /\ ConditionLive(i) => /\ incoming_condition[i] = 0
                           /\ recv_buffer[i][0] = Body(i, StepStart(i))

-----------------------------------------------------------------------------
(* What a stage holds and sends *)

\* The work item, in the receiver's rounds, of this stage's next payload.
ToSend(i) ==
    LET w == IF ~InStep(i) THEN StepStart(i)
             ELSE IF Sent(i) THEN NextTask(Cursor(i)) ELSE Cursor(i)
        v == IF i = Last THEN [step |-> w.step + 1, patch |-> w.patch] ELSE w
    IN IF v.step >= NumSteps THEN [step |-> NumSteps, patch |-> 0] ELSE v

SendPos(i) ==
    IF pc[i] = "send" /\ io[i] = "sync"
    THEN [kind |-> "data", work |-> ToSend(i)]
    ELSE Start(next_rank(i), ToSend(i))

\* The position of the next message the link delivers to stage i.
RecvPos(i) ==
    IF InRecvNext(i) /\ posted[i] = <<>> THEN [kind |-> "data", work |-> recv_task[i]]
    ELSE IF Outstanding(i) /\ posted[i] # <<>> THEN [kind |-> "data", work |-> Want(i)]
    ELSE Start(i, recv_task[i])

ShapeSent(i, p) ==
    LET w == ToSend(i) IN
    \/ ShapesPreset
    \/ w.step > FirstRound(next_rank(i))
    \/ p < w.patch
    \/ p = w.patch /\ pc[i] = "send" /\ io[i] = "sync"

Latents(i) ==
    LET w == Progress(i) IN
    /\ i = Last => \A p \in Patches : patch_latents[i][p] =
            [patch |-> p, step |-> IF p < w.patch THEN w.step + 1 ELSE w.step, depth |-> 0]
    /\ i = First /\ w.step = 0 => \A p \in Patches :
            p >= w.patch => patch_latents[i][p] = [patch |-> p, step |-> 0, depth |-> 0]
    /\ i = Last /\ pc[i] = "compute" =>
            previous[patch[i]] = [patch |-> patch[i], step |-> step[i], depth |-> 0]

Send(i) ==
    /\ ToSend(i).step < NumSteps =>
            \A p \in Patches : p \in send_shape[i] <=> ShapeSent(i, p)
    /\ pc[i] \in {"prefetch_before_send", "send"} =>
            outbound[i] = IF i = Last /\ step[i] = NumSteps - 1 THEN None
                          ELSE Body(next_rank(i), ToSend(i))
    /\ ConditionReuse /\ i # Last /\ InStep(i) /\ (patch[i] > 0 \/ Computed(i)) =>
            outgoing_condition[i] = [step |-> step[i], depth |-> i + 1]

-----------------------------------------------------------------------------
(* The link into stage j: its messages msgs, from the receiver's position   *)
(* from to the sender's position to.                                       *)

LinkOK(j, msgs, from, to) ==
    /\ \A k \in 1 .. Len(msgs) :
            /\ msgs[k].body = Body(j, WorkOf(msgs[k]))
            /\ EarlierPos(PosOf(msgs[k]), to)
            /\ After(j, PosOf(msgs[k])) =
                    IF k < Len(msgs) THEN PosOf(msgs[k + 1]) ELSE to
    /\ from = IF msgs = <<>> THEN to ELSE PosOf(msgs[1])

Link(j) == LinkOK(j, link[prev_rank(j)], RecvPos(j), SendPos(prev_rank(j)))

\* The invariant, in full.
IInv ==
    /\ TypeOK
    /\ \A i \in Stages : Ctl(i) /\ Recv(i) /\ Buffers(i) /\ Latents(i) /\ Send(i) /\ Link(i)
=============================================================================
