---------------------- MODULE PipeFusionRequestsProofs ----------------------
(***************************************************************************)
(* The hand-written loops give every stage the tensor of its own request,  *)
(* step and patch, for any number of stages, patches, blocks and warm-up   *)
(* steps, any plan of requests and any capacity of the links, as long as   *)
(* no model with skips is given a split of its blocks.                     *)
(*                                                                         *)
(* Nothing in a message says what it is, so the argument is about order.   *)
(* Model and plan fix the places of all messages a stage is due, and where *)
(* the loop of a stage stands fixes which of them it has sent and received:*)
(* a link holds those between the two places, one each and in order, and   *)
(* their tensors are those of the places.  A step of a loop that passes no *)
(* due place disturbs no link; a send puts the next place, a receive takes *)
(* it.  What was received, made and queued follows from the same indices.  *)
(***************************************************************************)
EXTENDS PipeFusionRequests, TLAPS, SequenceTheorems, WellFoundedInduction

\* The step in which a stage first receives: the first stage starts with its own latents.
Lag(i) == IF i = FirstStage THEN 1 ELSE 0

Segments == Patches \union {Whole}

\* A message of a link: its request, step and patch; 0 for the shape, 1 for the
\* tensor, 2 for what comes after both.
Place(r, t, p, m) == [request |-> r, step |-> t, patch |-> p, sub |-> m]

Position == [request : Nat, step : Nat, patch : Segments, sub : 0 .. 2]

Before(a, b) ==
    \/ a.request < b.request
    \/ a.request = b.request /\ a.step < b.step
    \/ a.request = b.request /\ a.step = b.step /\ a.patch < b.patch
    \/ a.request = b.request /\ a.step = b.step /\ a.patch = b.patch /\ a.sub < b.sub

\* The steps in which a stage receives a segment.
FirstReceipt(i, p) == IF p = Whole THEN Lag(i) ELSE Warmup + Lag(i)

ReceiptsEnd(i, r, p) ==
    IF p # Whole \/ plan[r].steps <= Warmup THEN plan[r].steps ELSE Warmup + Lag(i)

Receives(i, q) ==
    /\ q.request \in 1 .. Len(plan)
    /\ FirstReceipt(i, q.patch) <= q.step /\ q.step < ReceiptsEnd(i, q.request, q.patch)

\* All a stage is sent over the link and over the skip link.
Due(i) ==
    {q \in Position : /\ Receives(i, q)
                      /\ q.sub = 1 \/ (q.sub = 0 /\ q.step = FirstReceipt(i, q.patch))}

DueSkips(i) == {q \in Position : Receives(i, q) /\ q.sub = 1}

\* A sequence of positions holds those of a set from one position to another,
\* which is not before it.
Holds(ps, S, from, to) ==
    /\ \A k \in 1 .. Len(ps) : ps[k] \in S /\ ~Before(ps[k], from) /\ Before(ps[k], to)
    /\ \A k, l \in 1 .. Len(ps) : k < l => Before(ps[k], ps[l])
    /\ \A q \in S : ~Before(q, from) /\ Before(q, to) => \E k \in 1 .. Len(ps) : ps[k] = q
    /\ \A q \in S : Before(q, from) => Before(q, to)

-----------------------------------------------------------------------------
Tensor(r, t, p, blocks) == [request |-> r, step |-> t, patch |-> p, blocks |-> blocks]

\* The blocks of the stages before i.
Bound(i) ==
    IF model.layers # <<>> THEN LayersBefore(i)
    ELSE IF i * EvenShare < NumBlocks THEN i * EvenShare ELSE NumBlocks

Prefix(i) == [k \in 1 .. Bound(i) |-> k]

Body(i, q) == Tensor(q.request, q.step, q.patch, Prefix(i))

SkipBody(i, q) == Tensor(q.request, q.step, q.patch, Blocks(skip_rank(i)))

PosOf(m) == Place(m.body.request, m.body.step, m.body.patch, IF m.kind = "shape" THEN 0 ELSE 1)

SkipPosOf(t) == Place(t.request, t.step, t.patch, 1)

-----------------------------------------------------------------------------
Here(i, m) == Place(request[i], Timestep(i), Segment(i), m)

Following(i, m) ==
    IF patch[i] < NumPatches - 1 THEN Place(request[i], Timestep(i), patch[i] + 1, m)
                                 ELSE Place(request[i], Timestep(i) + 1, 0, m)

NextRequest(i) == Place(request[i] + 1, 0, Whole, 0)

Wanted(i, m) == IF pc[i] \in {"prefetch", "advance"} THEN Following(i, m) ELSE Here(i, m)

Arrived(tasks) == IF Head(tasks).arrived THEN 2 ELSE 1

RecvPos(i) ==
    IF pc[i] = "idle" THEN NextRequest(i)
    ELSE IF receiving_tasks[i] # <<>> THEN Wanted(i, Arrived(receiving_tasks[i]))
    ELSE IF io[i] = "sync" /\ pc[i] \in {"receive", "prefetch"} THEN Wanted(i, 1)
    ELSE IF pc[i] = "receive" THEN Here(i, 0)
    ELSE Here(i, 2)

SendPos(i) ==
    IF pc[i] = "idle" THEN NextRequest(i)
    ELSE Place(request[i], Timestep(i) + Lag(next_rank(i)), Segment(i),
               IF pc[i] \in {"sent", "skip_sent", "prefetch", "advance"} THEN 2
               ELSE IF pc[i] = "send" /\ io[i] = "sync" THEN 1 ELSE 0)

SkipRecvPos(i) ==
    IF pc[i] = "idle" THEN NextRequest(i)
    ELSE IF receiving_skip_tasks[i] # <<>> THEN Wanted(i, Arrived(receiving_skip_tasks[i]))
    ELSE IF pc[i] \in {"receive", "get"} THEN Here(i, 0)
    ELSE Here(i, 2)

SkipSendPos(i) ==
    IF pc[i] = "idle" THEN NextRequest(i)
    ELSE Here(i, IF pc[i] \in {"skip_sent", "prefetch", "advance"} THEN 2 ELSE 0)

Posns(msgs) == [k \in 1 .. Len(msgs) |-> PosOf(msgs[k])]
SkipPosns(ts) == [k \in 1 .. Len(ts) |-> SkipPosOf(ts[k])]

\* What a link holds on its way to a stage, from the one place to the other.
Carries(ms, j, from, to) ==
    /\ Holds(Posns(ms), Due(j), from, to)
    /\ \A k \in 1 .. Len(ms) : ms[k].body = Body(j, PosOf(ms[k]))

CarriesSkips(ts, j, from, to) ==
    /\ Holds(SkipPosns(ts), DueSkips(j), from, to)
    /\ \A k \in 1 .. Len(ts) : ts[k] = SkipBody(j, SkipPosOf(ts[k]))

Link(i) == Carries(link[i], next_rank(i), RecvPos(next_rank(i)), SendPos(i))

SkipLink(i) ==
    IF SendsSkip(i)
    THEN CarriesSkips(skip_link[i], skip_rank(i), SkipRecvPos(skip_rank(i)), SkipSendPos(i))
    ELSE skip_link[i] = <<>>

-----------------------------------------------------------------------------
Places == {"idle", "receive", "get", "get_skip", "compute", "send", "sent", "skip_sent",
           "prefetch", "advance", "split"}
Tensors == [request : Nat, step : Nat, patch : Segments, blocks : Seq(Nat)]
Messages == [kind : {"shape", "data"}, body : Tensors]
Tasks == [idx : Segments, arrived : BOOLEAN]

Types ==
    /\ model \in Models /\ plan \in Plans
    /\ request \in [Stages -> Nat] /\ pc \in [Stages -> Places]
    /\ phase \in [Stages -> {"warmup", "alone", "handover", "async"}]
    /\ io \in [Stages -> {"idle", "sync"}]
    /\ step \in [Stages -> Nat] /\ patch \in [Stages -> Patches]
    /\ pipeline_patch_idx \in [Stages -> Patches]
    /\ first_async_recv \in [Stages -> BOOLEAN]
    /\ DOMAIN latents = Stages /\ DOMAIN patch_latents = Stages
    /\ \A i \in Stages : DOMAIN patch_latents[i] = Patches
    /\ DOMAIN recv_shape = Stages /\ DOMAIN recv_buffer = Stages /\ DOMAIN skip_buffer = Stages
    /\ \A i \in Stages : /\ DOMAIN recv_shape[i] = Segments /\ DOMAIN recv_buffer[i] = Segments
                         /\ DOMAIN skip_buffer[i] = Segments
    /\ send_shape \in [Stages -> SUBSET Segments]
    /\ recv_tasks_queue \in [Stages -> Seq(Patches)]
    /\ recv_skip_tasks_queue \in [Stages -> Seq(Patches)]
    /\ receiving_tasks \in [Stages -> Seq(Tasks)]
    /\ receiving_skip_tasks \in [Stages -> Seq(Tasks)]
    /\ link \in [Stages -> Seq(Messages)] /\ skip_link \in [Stages -> Seq(Tensors)]

Ctl(i) ==
    /\ request[i] <= Len(plan)
    /\ pc[i] = "idle" => patch[i] = 0
    /\ pc[i] # "idle" =>
        /\ request[i] >= 1
        /\ phase[i] = "alone" <=> plan[request[i]].steps <= Warmup
        /\ IF phase[i] = "handover"
             THEN /\ step[i] = Warmup /\ pc[i] \in {"receive", "get", "split"}
                  /\ i # FirstStage => pc[i] = "split"
             ELSE step[i] < LoopSteps(i) /\ pc[i] # "split"
        /\ IF phase[i] = "async" THEN pc[i] \notin {"sent", "skip_sent"}
                                 ELSE patch[i] = 0 /\ pc[i] # "prefetch"
        /\ pc[i] = "get" => NeedsReceive(i)
        /\ pc[i] = "get_skip" => ReceivesSkip(i)
        /\ pc[i] \in {"send", "sent", "skip_sent"} => Sends(i)
        /\ pc[i] = "skip_sent" => SendsSkip(i)
        /\ pipeline_patch_idx[i] = IF phase[i] = "async" THEN patch[i] ELSE 0
        /\ phase[i] = "async" =>
              (first_async_recv[i] <=>
                  \/ step[i] < Lag(i)
                  \/ step[i] = Lag(i) /\ patch[i] = 0 /\ pc[i] = "receive")
    /\ io[i] = "sync" => pc[i] = "send" \/ CallsReceive(i)

\* A receive is posted and not waited for yet.
Outstanding(i) ==
    \/ pc[i] = "get"
    \/ phase[i] = "async" /\ pc[i] = "receive" /\ ~first_async_recv[i]
    \/ phase[i] = "async" /\ pc[i] = "advance" /\ Prefetches(i)

SkipOutstanding(i) ==
    /\ ReceivesSkip(i)
    /\ pc[i] = "get_skip" \/ (phase[i] = "async" /\ Outstanding(i))

OneTask(tasks, idx) == Len(tasks) = 1 /\ tasks[1].idx = idx

\* The place of a patch in the rounds.
Nth(s, p) == s * NumPatches + p

\* How many receives have been posted in the asynchronous loop, and of how many.
Posted(i) ==
    IF step[i] < Lag(i) THEN 0
    ELSE Nth(step[i] - Lag(i), patch[i]) +
         (IF pc[i] = "receive" /\ first_async_recv[i] THEN 0
          ELSE IF pc[i] = "advance" /\ Prefetches(i) THEN 2
          ELSE 1)

ToPost(i) == Nth(plan[request[i]].steps - Warmup - Lag(i), 0)

Queue(i) ==
    IF pc[i] # "idle" /\ phase[i] = "async"
    THEN /\ Len(recv_tasks_queue[i]) = ToPost(i) - Posted(i)
         /\ \A k \in 1 .. Len(recv_tasks_queue[i]) :
               recv_tasks_queue[i][k] = (Posted(i) + k - 1) % NumPatches
    ELSE recv_tasks_queue[i] = <<>>

Receipts(i) ==
    /\ IF Outstanding(i) THEN OneTask(receiving_tasks[i], Wanted(i, 1).patch)
                         ELSE receiving_tasks[i] = <<>>
    /\ IF SkipOutstanding(i) THEN OneTask(receiving_skip_tasks[i], Wanted(i, 1).patch)
                             ELSE receiving_skip_tasks[i] = <<>>
    /\ Queue(i)
    /\ recv_skip_tasks_queue[i] = IF ReceivesSkip(i) THEN recv_tasks_queue[i] ELSE <<>>

FirstShape(i, r, s) == Place(r, FirstReceipt(i, s), s, 0)

Known(i, r, s, pos) == FirstShape(i, r, s) \in Due(i) /\ Before(FirstShape(i, r, s), pos)

Shapes(i) ==
    pc[i] # "idle" => \A s \in Segments :
        /\ recv_shape[i][s] = IF Known(i, request[i], s, RecvPos(i))
                              THEN [size |-> plan[request[i]].size, patch |-> s] ELSE None
        /\ s \in send_shape[i] <=> Known(next_rank(i), request[i], s, SendPos(i))

Buffers(i) ==
    /\ receiving_tasks[i] # <<>> /\ Head(receiving_tasks[i]).arrived =>
          recv_buffer[i][Wanted(i, 1).patch] = Body(i, Wanted(i, 1))
    /\ pc[i] \in {"get_skip", "compute"} /\ NeedsReceive(i) =>
          recv_buffer[i][Segment(i)] = Body(i, Here(i, 1))
    /\ i = FirstStage /\ (pc[i] = "split" \/ (pc[i] # "idle" /\ phase[i] = "async" /\ step[i] = 0)) =>
          recv_buffer[i][Whole] = Body(i, Place(request[i], Warmup, Whole, 1))

SkipBuffers(i) ==
    /\ receiving_skip_tasks[i] # <<>> /\ Head(receiving_skip_tasks[i]).arrived =>
          skip_buffer[i][Wanted(i, 1).patch] = SkipBody(i, Wanted(i, 1))
    /\ pc[i] = "compute" /\ ReceivesSkip(i) =>
          skip_buffer[i][Segment(i)] = SkipBody(i, Here(i, 1))

Made(i) == pc[i] \in {"send", "sent", "skip_sent", "prefetch", "advance"}

Latents(i) ==
    pc[i] # "idle" =>
        /\ i = LastStage /\ phase[i] # "async" =>
              latents[i] = Tensor(request[i], Timestep(i) + (IF Made(i) THEN 1 ELSE 0), Whole, <<>>)
        /\ i = LastStage /\ phase[i] = "async" => \A p \in Patches :
              patch_latents[i][p] =
                  Tensor(request[i],
                         Timestep(i) + (IF p < patch[i] \/ (p = patch[i] /\ Made(i)) THEN 1 ELSE 0),
                         p, <<>>)
        /\ i = FirstStage /\ phase[i] \in {"warmup", "alone"} /\ step[i] = 0 /\ ~Made(i) =>
              latents[i] = Tensor(request[i], 0, Whole, <<>>)
        /\ i # LastStage /\ Made(i) =>
              Held(i) = Tensor(request[i], Timestep(i), Segment(i), Prefix(i + 1))

Local(i) ==
    Ctl(i) /\ Receipts(i) /\ Shapes(i) /\ Buffers(i) /\ SkipBuffers(i) /\ Latents(i)

Inv ==
    /\ Types
    /\ \A i \in Stages : Local(i) /\ Link(i) /\ SkipLink(i)

\* A set with zero that is closed under successor holds every number.
LEMMA SetInduction ==
    ASSUME NEW S, 0 \in S, \A m \in Nat : m \in S => m + 1 \in S
    PROVE  Nat \subseteq S
<1> SUFFICES ASSUME Nat \ S # {} PROVE FALSE
  OBVIOUS
<1> DEFINE T == Nat \ S
<1>1. PICK x \in T : \A y \in T : ~ (<<y, x>> \in OpToRel(<, Nat))
  BY WFMin, NatLessThanWellFounded, T \subseteq Nat, T # {}
<1>2. x \in Nat /\ x # 0 /\ x - 1 \in Nat
  OBVIOUS
<1>3. x - 1 \in T
  BY <1>2, (x-1)+1 = x
<1>4. <<x - 1, x>> \in OpToRel(<, Nat)
  BY <1>2 DEF OpToRel
<1> QED BY <1>1, <1>3, <1>4

\* g starts with base, and next[i] maps each of its values to the i-th.
Recursion(g, V, base, n, next) ==
    /\ g \in [0 .. n -> V]
    /\ g[0] = base
    /\ \A i \in 1 .. n : g[i] = next[i][g[i - 1]]

\* A value for zero and a step to the next value define a function.
LEMMA RecursionExists ==
    ASSUME NEW V, NEW base \in V, NEW n \in Nat, NEW next,
           \A i \in 1 .. n : \A v \in V : next[i][v] \in V
    PROVE  \E g : Recursion(g, V, base, n, next)
<1> DEFINE Upto(m, g) == /\ g \in [0 .. m -> V]
                         /\ g[0] = base
                         /\ \A i \in 1 .. m : g[i] = next[i][g[i - 1]]
           S == {m \in Nat : m <= n => \E g : Upto(m, g)}
<1>1. Upto(0, [i \in 0 .. 0 |-> base])
  OBVIOUS
<1>2. ASSUME NEW m \in Nat, m + 1 <= n, \E g : Upto(m, g)
      PROVE  \E g : Upto(m + 1, g)
  <2>1. PICK g : Upto(m, g)
    BY <1>2, Zenon
  <2> DEFINE h == [i \in 0 .. m + 1 |-> IF i <= m THEN g[i] ELSE next[m + 1][g[m]]]
  <2>2. g[m] \in V /\ m + 1 \in 1 .. n
    BY <1>2, <2>1
  <2>3. next[m + 1][g[m]] \in V
    BY <2>2
  <2>4. h \in [0 .. m + 1 -> V]
    BY <2>1, <2>3
  <2>5. h[0] = base
    BY <2>1
  <2>6. ASSUME NEW i \in 1 .. m + 1 PROVE h[i] = next[i][h[i - 1]]
    <3>1. CASE i <= m
      <4>1. h[i] = g[i] /\ h[i - 1] = g[i - 1] /\ i \in 1 .. m
        BY <3>1
      <4> QED  BY <4>1, <2>1
    <3>2. CASE i = m + 1
      <4>1. h[m + 1] = next[m + 1][g[m]] /\ h[m] = g[m] /\ i - 1 = m
        BY <3>2
      <4> QED  BY <4>1, <3>2
    <3> QED  BY <3>1, <3>2
  <2>7. Upto(m + 1, h)
    BY <2>4, <2>5, <2>6
  <2> QED  BY <2>7
<1>3. n \in S
  <2> HIDE DEF Upto
  <2>1. 0 \in S
    BY <1>1
  <2>2. ASSUME NEW m \in Nat, m \in S PROVE m + 1 \in S
    BY <1>2, <2>2
  <2> HIDE DEF S
  <2> QED  BY <2>1, <2>2, SetInduction
<1>4. PICK g : Upto(n, g)
  BY <1>3
<1>5. Recursion(g, V, base, n, next)
  BY <1>4 DEF Recursion
<1> QED  BY <1>5
-----------------------------------------------------------------------------
(* The stages and the split of the blocks. *)

\* The mirrored stages have the mirrored blocks: a given split and skips exclude
\* each other.
EvenSkips == \A m \in Models : m.skips => m.layers = <<>>

\* The stages in a ring: the next of the last is the first.
LEMMA Ring ==
    ASSUME NEW i \in Stages
    PROVE  /\ next_rank(i) \in Stages /\ prev_rank(i) \in Stages
           /\ prev_rank(next_rank(i)) = i /\ next_rank(prev_rank(i)) = i
           /\ next_rank(i) # i /\ prev_rank(i) # i
           /\ FirstStage \in Stages /\ LastStage \in Stages /\ FirstStage # LastStage
           /\ i \in Nat /\ NumStages \in Nat
           /\ next_rank(i) = FirstStage <=> i = LastStage
           /\ i # LastStage => next_rank(i) = i + 1
           /\ i # FirstStage => prev_rank(i) = i - 1
<1>1. NumStages \in Nat /\ NumStages > 1 /\ i \in Nat /\ i <= NumStages - 1
  BY RequestsAssumption DEF Stages
<1>2. next_rank(i) = IF i = LastStage THEN 0 ELSE i + 1
  <2>1. (i + 1) % NumStages = IF i = NumStages - 1 THEN 0 ELSE i + 1
    <3>1. CASE i = NumStages - 1
      BY <1>1, <3>1
    <3>2. CASE i # NumStages - 1
      BY <1>1, <3>2
    <3> QED  BY <3>1, <3>2
  <2> QED  BY <2>1 DEF next_rank, LastStage
<1>3. prev_rank(i) = IF i = 0 THEN NumStages - 1 ELSE i - 1
  <2>1. (i - 1) % NumStages = IF i = 0 THEN NumStages - 1 ELSE i - 1
    <3>1. CASE i = 0
      <4>1. (-1) % NumStages = NumStages - 1
        BY <1>1
      <4> QED  BY <1>1, <3>1, <4>1
    <3>2. CASE i # 0
      BY <1>1, <3>2
    <3> QED  BY <3>1, <3>2
  <2> QED  BY <2>1 DEF prev_rank
<1>4. prev_rank(next_rank(i)) = i
  <2>1. CASE i = LastStage
    <3>1. prev_rank(0) = NumStages - 1
      <4>1. (0 - 1) % NumStages = NumStages - 1
        BY <1>1
      <4> QED  BY <4>1 DEF prev_rank
    <3> QED  BY <1>2, <2>1, <3>1 DEF LastStage
  <2>2. CASE i # LastStage
    <3>1. ((i + 1) - 1) % NumStages = i
      BY <1>1
    <3> QED  BY <1>2, <2>2, <3>1 DEF prev_rank
  <2> QED  BY <2>1, <2>2
<1>5. next_rank(prev_rank(i)) = i
  <2>1. CASE i = 0
    <3>1. ((NumStages - 1) + 1) % NumStages = 0
      BY <1>1
    <3> QED  BY <1>3, <2>1, <3>1 DEF next_rank
  <2>2. CASE i # 0
    <3>1. ((i - 1) + 1) % NumStages = i
      BY <1>1
    <3> QED  BY <1>3, <2>2, <3>1 DEF next_rank
  <2> QED  BY <2>1, <2>2
<1>6. FirstStage \in Stages /\ LastStage \in Stages /\ FirstStage # LastStage
  BY <1>1 DEF Stages, FirstStage, LastStage
<1>7. next_rank(i) \in Stages /\ prev_rank(i) \in Stages /\ next_rank(i) # i /\ prev_rank(i) # i
  BY <1>1, <1>2, <1>3 DEF Stages, LastStage
<1> QED  BY <1>1, <1>2, <1>3, <1>4, <1>5, <1>6, <1>7 DEF FirstStage, LastStage

\* The mirrored stage of one that sends skips receives them.
LEMMA Mirror ==
    ASSUME NEW i \in Stages, model \in Models
    PROVE  /\ skip_rank(i) \in Stages /\ skip_rank(skip_rank(i)) = i
           /\ ReceivesSkip(i) => SendsSkip(skip_rank(i)) /\ i # FirstStage /\ skip_rank(i) # i
           /\ SendsSkip(i) => ReceivesSkip(skip_rank(i)) /\ i # LastStage /\ skip_rank(i) # i
           /\ SendsSkip(i) \in BOOLEAN /\ ReceivesSkip(i) \in BOOLEAN
           /\ ~(SendsSkip(i) /\ ReceivesSkip(i))
<1>1. skip_rank(i) \in Stages /\ skip_rank(skip_rank(i)) = i
  BY RequestsAssumption DEF Stages, skip_rank
<1>2. CASE ~model.skips
  BY <1>1, <1>2, RequestsAssumption DEF ReceivesSkip, SendsSkip
<1>3. CASE model.skips
  <2>1. PICK h \in Nat : NumStages = 2 * h /\ NumStages \div 2 = h /\ h >= 1
    <3>1. NumStages % 2 = 0 /\ NumStages \in Nat /\ NumStages > 1
      BY <1>3, RequestsAssumption
    <3>2. NumStages = 2 * (NumStages \div 2) + (NumStages % 2)
      BY <3>1
    <3> QED  BY <3>1, <3>2
  <2> QED  BY <1>1, <1>3, <2>1, RequestsAssumption
           DEF ReceivesSkip, SendsSkip, Stages, skip_rank, FirstStage, LastStage
<1> QED  BY <1>2, <1>3, RequestsAssumption

\* The sums of the given split, one entry after the other.
LEMMA SumsStep ==
    ASSUME NEW s \in Seq(Nat)
    PROVE  /\ Sums(s)[0] = 0
           /\ \A i \in 1 .. Len(s) : Sums(s)[i] = Sums(s)[i - 1] + s[i]
<1> DEFINE D(g) == g = [i \in 0 .. Len(s) |-> IF i = 0 THEN 0 ELSE g[i - 1] + s[i]]
           next == [i \in 1 .. Len(s) |-> [v \in Nat |-> v + s[i]]]
<1>1. \A i \in 1 .. Len(s) : s[i] \in Nat
  OBVIOUS
<1>2. \A i \in 1 .. Len(s) : \A v \in Nat : next[i][v] = v + s[i] /\ next[i][v] \in Nat
  BY <1>1
<1> HIDE DEF next, D
<1>3. PICK g : Recursion(g, Nat, 0, Len(s), next)
  <2>1. \A i \in 1 .. Len(s) : \A v \in Nat : next[i][v] \in Nat
    BY <1>2
  <2>2. 0 \in Nat /\ Len(s) \in Nat
    OBVIOUS
  <2> QED  BY <2>1, <2>2, RecursionExists, Zenon
<1>4. ASSUME NEW i \in 1 .. Len(s)
      PROVE  g[i] = g[i - 1] + s[i]
  <2>1. i - 1 \in 0 .. Len(s)
    OBVIOUS
  <2>2. g[i - 1] \in Nat /\ g[i] = next[i][g[i - 1]]
    BY <1>3, <2>1 DEF Recursion
  <2> QED  BY <1>2, <2>2
<1>5. D(g)
  <2>1. \A i \in 0 .. Len(s) : g[i] = IF i = 0 THEN 0 ELSE g[i - 1] + s[i]
    BY <1>3, <1>4, Len(s) \in Nat DEF Recursion
  <2>2. g \in [0 .. Len(s) -> Nat]
    BY <1>3 DEF Recursion
  <2>3. g = [i \in 0 .. Len(s) |-> g[i]]
    BY <2>2
  <2> QED  BY <2>1, <2>3 DEF D
<1>6. Sums(s) = CHOOSE f : D(f)
  BY DEF Sums, D
<1>7. D(Sums(s))
  BY <1>5, <1>6, Zenon
<1> DEFINE f == Sums(s)
<1>8. f = [i \in 0 .. Len(s) |-> IF i = 0 THEN 0 ELSE f[i - 1] + s[i]]
  BY <1>7 DEF D
<1> HIDE DEF f
<1>9. \A i \in 0 .. Len(s) : f[i] = IF i = 0 THEN 0 ELSE f[i - 1] + s[i]
  BY <1>8, Zenon
<1>10. Len(s) \in Nat /\ 0 \in 0 .. Len(s)
  OBVIOUS
<1>11. f[0] = 0 /\ \A i \in 1 .. Len(s) : f[i] = f[i - 1] + s[i]
  BY <1>9, <1>10
<1> QED  BY <1>11 DEF f

\* The sums are numbers that grow.
LEMMA SumsGrow ==
    ASSUME NEW s \in Seq(Nat)
    PROVE  /\ \A i \in 0 .. Len(s) : Sums(s)[i] \in Nat /\ Sums(s)[i] <= Sums(s)[Len(s)]
           /\ \A i \in 1 .. Len(s) : Sums(s)[i - 1] <= Sums(s)[i]
<1> DEFINE f == Sums(s)
           T == {m \in Nat : m <= Len(s) => f[m] \in Nat}
           U == {m \in Nat : m <= Len(s) => f[Len(s) - m] <= f[Len(s)]}
<1>1. Len(s) \in Nat /\ \A i \in 1 .. Len(s) : s[i] \in Nat
  OBVIOUS
<1>2. f[0] = 0 /\ \A i \in 1 .. Len(s) : f[i] = f[i - 1] + s[i]
  BY SumsStep
<1> HIDE DEF f
<1>3. 0 \in T /\ \A m \in Nat : m \in T => m + 1 \in T
  <2>1. 0 \in T  BY <1>2
  <2>2. ASSUME NEW m \in Nat, m \in T PROVE m + 1 \in T
    <3>1. CASE m + 1 <= Len(s)
      <4>1. m + 1 \in 1 .. Len(s) /\ f[m] \in Nat /\ (m + 1) - 1 = m
        BY <2>2, <3>1, <1>1
      <4>2. f[m + 1] = f[m] + s[m + 1] /\ s[m + 1] \in Nat
        BY <1>1, <1>2, <4>1
      <4>3. f[m + 1] \in Nat
        BY <4>1, <4>2
      <4> QED  BY <4>3
    <3> QED  BY <3>1
  <2> QED  BY <2>1, <2>2
<1>4. \A i \in 0 .. Len(s) : f[i] \in Nat
  <2>1. Nat \subseteq T
    <3> HIDE DEF T
    <3> QED  BY <1>3, SetInduction
  <2> QED  BY <2>1, <1>1
<1>5. \A i \in 1 .. Len(s) : f[i - 1] <= f[i]
  <2> TAKE i \in 1 .. Len(s)
  <2>1. i - 1 \in 0 .. Len(s) /\ f[i - 1] \in Nat /\ s[i] \in Nat /\ f[i] = f[i - 1] + s[i]
    BY <1>1, <1>2, <1>4
  <2> QED  BY <2>1
<1>6. 0 \in U /\ \A m \in Nat : m \in U => m + 1 \in U
  <2>1. 0 \in U  BY <1>1, <1>4
  <2>2. ASSUME NEW m \in Nat, m \in U PROVE m + 1 \in U
    <3>1. CASE m + 1 <= Len(s)
      <4>1. PICK k \in 1 .. Len(s) : k = Len(s) - m
        <5>1. Len(s) - m \in 1 .. Len(s)
          BY <1>1, <2>2, <3>1
        <5> QED  BY <5>1
      <4>2. f[k - 1] <= f[k] /\ f[k] <= f[Len(s)] /\ k - 1 = Len(s) - (m + 1)
        BY <1>1, <1>5, <2>2, <3>1, <4>1
      <4>3. f[k - 1] \in Nat /\ f[k] \in Nat /\ f[Len(s)] \in Nat
        BY <1>1, <1>4, <4>1
      <4>4. f[Len(s) - (m + 1)] <= f[Len(s)]
        BY <4>2, <4>3
      <4> QED  BY <4>4
    <3> QED  BY <3>1
  <2> QED  BY <2>1, <2>2
<1>7. \A i \in 0 .. Len(s) : f[i] <= f[Len(s)]
  <2>1. Nat \subseteq U
    <3> HIDE DEF U
    <3> QED  BY <1>6, SetInduction
  <2> TAKE i \in 0 .. Len(s)
  <2>2. Len(s) - i \in Nat /\ Len(s) - (Len(s) - i) = i /\ Len(s) - i <= Len(s)
    BY <1>1
  <2>3. Len(s) - i \in U
    BY <2>1, <2>2
  <2> QED  BY <2>2, <2>3
<1> QED  BY <1>4, <1>5, <1>7 DEF f

\* The bounds of the stages' blocks.
LEMMA Bounds ==
    ASSUME model \in Models
    PROVE  /\ Bound(0) = 0 /\ Bound(NumStages) = NumBlocks
           /\ \A i \in 0 .. NumStages : Bound(i) \in 0 .. NumBlocks
           /\ \A i \in Stages : Bound(i) <= Bound(i + 1)
<1>1. CASE model.layers # <<>>
  <2>1. model.layers \in Seq(Nat) /\ Len(model.layers) = NumStages
        /\ Sums(model.layers)[NumStages] = NumBlocks
    <3>1. Seq(Nat \ {0}) \subseteq Seq(Nat)
      OBVIOUS
    <3> QED  BY <1>1, <3>1, RequestsAssumption
  <2>2. \A i : Bound(i) = Sums(model.layers)[i]
    BY <1>1 DEF Bound, LayersBefore
  <2>3. Sums(model.layers)[0] = 0
    BY <2>1, SumsStep
  <2>4. /\ \A i \in 0 .. NumStages : Sums(model.layers)[i] \in Nat /\ Sums(model.layers)[i] <= NumBlocks
        /\ \A i \in 1 .. NumStages : Sums(model.layers)[i - 1] <= Sums(model.layers)[i]
    BY <2>1, SumsGrow
  <2>5. \A i \in Stages : Sums(model.layers)[i] <= Sums(model.layers)[i + 1]
    <3> TAKE i \in Stages
    <3>1. i + 1 \in 1 .. NumStages /\ (i + 1) - 1 = i
      BY RequestsAssumption DEF Stages
    <3> QED  BY <2>4, <3>1
  <2>6. \A i \in 0 .. NumStages : Bound(i) \in 0 .. NumBlocks
    BY <2>2, <2>4, RequestsAssumption
  <2> QED  BY <2>1, <2>2, <2>3, <2>5, <2>6
<1>2. CASE model.layers = <<>>
  <2>1. PICK e \in Nat : e = EvenShare /\ NumStages * e >= NumBlocks
    <3>1. PICK a \in Nat : a = NumBlocks + NumStages - 1
      BY RequestsAssumption
    <3>2. NumStages \in Nat /\ NumStages > 0 /\ NumBlocks \in Nat
      BY RequestsAssumption
    <3>3. PICK e \in Nat, r \in 0 .. NumStages - 1 : e = a \div NumStages /\ a = NumStages * e + r
      BY <3>1, <3>2
    <3>4. PICK m \in Nat : m = NumStages * e
      BY <3>2, <3>3
    <3> QED  BY <3>1, <3>2, <3>3, <3>4 DEF EvenShare
  <2>2. \A i \in 0 .. NumStages : i * e \in Nat
    BY <2>1
  <2>3. \A i \in Stages : i * e <= (i + 1) * e /\ i \in 0 .. NumStages /\ i + 1 \in 0 .. NumStages
    BY <2>1, RequestsAssumption DEF Stages
  <2>4. \A i : Bound(i) = IF i * e < NumBlocks THEN i * e ELSE NumBlocks
    BY <1>2, <2>1 DEF Bound
  <2>5. NumBlocks \in Nat /\ NumBlocks > 0 /\ 0 * e = 0 /\ NumStages \in Nat
    BY <2>1, RequestsAssumption
  <2>6. \A i \in 0 .. NumStages : Bound(i) \in 0 .. NumBlocks
    BY <2>2, <2>4, <2>5
  <2>7. \A i \in Stages : Bound(i) <= Bound(i + 1)
    <3> TAKE i \in Stages
    <3>1. PICK x \in Nat, y \in Nat : x = i * e /\ y = (i + 1) * e /\ x <= y
      BY <2>2, <2>3
    <3> QED  BY <2>4, <2>5, <3>1
  <2>8. Bound(0) = 0
    BY <2>4, <2>5
  <2>9. Bound(NumStages) = NumBlocks
    <3>1. NumStages * e \in Nat /\ ~(NumStages * e < NumBlocks)
      BY <2>1, <2>5
    <3> QED  BY <2>4, <3>1
  <2> QED  BY <2>6, <2>7, <2>8, <2>9
<1> QED  BY <1>1, <1>2

\* Division with a remainder.
LEMMA Quotient ==
    ASSUME NEW a \in Nat, NEW n \in Nat, n > 0
    PROVE  a \div n \in Nat /\ a % n \in 0 .. n - 1 /\ a = n * (a \div n) + (a % n)
OBVIOUS

\* The blocks of a stage are those between its bounds.
LEMMA BlocksOf ==
    ASSUME EvenSkips, model \in Models, NEW i \in Stages
    PROVE  /\ Blocks(i) \in Seq(Nat)
           /\ Len(Blocks(i)) = Bound(i + 1) - Bound(i)
           /\ \A k \in 1 .. Bound(i + 1) - Bound(i) : Blocks(i)[k] = Bound(i) + k
<1>1. NumBlocks \in Nat /\ i + 1 \in 0 .. NumStages /\ i \in 0 .. NumStages /\ i \in Nat
  BY RequestsAssumption DEF Stages
<1>2. Bound(i) \in 0 .. NumBlocks /\ Bound(i + 1) \in 0 .. NumBlocks /\ Bound(i) <= Bound(i + 1)
  BY <1>1, Bounds
<1>3. AllBlocks \in Seq(Nat) /\ Len(AllBlocks) = NumBlocks /\ \A k \in 1 .. NumBlocks : AllBlocks[k] = k
  BY <1>1 DEF AllBlocks
<1>4. ASSUME NEW a \in Nat, NEW b \in 0 .. NumBlocks, a <= b
      PROVE  /\ SubSeq(AllBlocks, a + 1, b) \in Seq(Nat)
             /\ Len(SubSeq(AllBlocks, a + 1, b)) = b - a
             /\ \A k \in 1 .. b - a : SubSeq(AllBlocks, a + 1, b)[k] = a + k
  BY <1>1, <1>3, <1>4
<1>5. CASE model.layers # <<>>
  <2>1. ~model.skips
    BY <1>5 DEF EvenSkips
  <2>2. Blocks(i) = SubSeq(AllBlocks, Bound(i) + 1, Bound(i + 1))
    BY <1>5, <2>1 DEF Blocks, Bound
  <2>3. PICK a \in Nat, b \in 0 .. NumBlocks : a = Bound(i) /\ b = Bound(i + 1) /\ a <= b
    BY <1>1, <1>2
  <2>4. Blocks(i) = SubSeq(AllBlocks, a + 1, b)
    BY <2>2, <2>3
  <2> QED  BY <1>4, <2>3, <2>4
<1>6. CASE model.layers = <<>>
  <2>1. PICK x : x = i * EvenShare
    OBVIOUS
  <2>2. Blocks(i) = SubSeq(AllBlocks, x + 1, Bound(i + 1))
    BY <1>6, <2>1 DEF Blocks, Bound, EvenEnd
  <2>3. Bound(i) = IF x < NumBlocks THEN x ELSE NumBlocks
    BY <1>6, <2>1 DEF Bound
  <2>4. x \in Nat
    <3>1. PICK a \in Nat : a = NumBlocks + NumStages - 1
      BY RequestsAssumption
    <3>2. NumStages \in Nat /\ NumStages > 0
      BY RequestsAssumption
    <3>3. PICK e \in Nat : e = a \div NumStages
      BY <3>1, <3>2, Quotient
    <3>4. i * e \in Nat
      BY <1>1, <3>3
    <3> QED  BY <2>1, <3>1, <3>3, <3>4 DEF EvenShare
  <2>5. CASE x <= NumBlocks
    <3>1. Bound(i) = x
      BY <2>3, <2>4, <2>5, <1>1
    <3> QED  BY <1>2, <1>4, <2>2, <3>1, <2>4
  <2>6. CASE x > NumBlocks
    <3>1. Bound(i) = NumBlocks /\ Bound(i + 1) = NumBlocks
      BY <1>1, <1>2, <2>3, <2>4, <2>6
    <3>2. SubSeq(AllBlocks, x + 1, NumBlocks) = <<>>
      BY <1>1, <1>3, <2>4, <2>6
    <3>3. Blocks(i) = <<>> /\ Bound(i + 1) - Bound(i) = 0
      BY <2>2, <3>1, <3>2, <1>1
    <3> QED  BY <3>3
  <2> QED  BY <2>4, <2>5, <2>6, <1>1
<1> QED  BY <1>5, <1>6

\* A stage appends its blocks to those before it.
LEMMA PrefixStep ==
    ASSUME EvenSkips, model \in Models, NEW i \in Stages
    PROVE  Prefix(i) \in Seq(Nat) /\ Prefix(i) \o Blocks(i) = Prefix(i + 1)
<1>1. i + 1 \in 0 .. NumStages /\ i \in 0 .. NumStages /\ NumBlocks \in Nat
  BY RequestsAssumption DEF Stages
<1>2. PICK a \in Nat, b \in Nat : a = Bound(i) /\ b = Bound(i + 1) /\ a <= b
  BY <1>1, Bounds
<1>3. PICK s \in Seq(Nat) : s = Blocks(i) /\ Len(s) = b - a /\ \A k \in 1 .. b - a : s[k] = a + k
  BY <1>2, BlocksOf
<1>4. [k \in 1 .. a |-> k] \o s = [k \in 1 .. b |-> k]
  <2>1. PICK p \in Seq(Nat) : p = [k \in 1 .. a |-> k] /\ Len(p) = a /\ \A k \in 1 .. a : p[k] = k
    <3>1. [k \in 1 .. a |-> k] \in Seq(Nat)
      BY <1>2
    <3> QED  BY <1>2, <3>1
  <2>2. PICK q \in Seq(Nat) : q = [k \in 1 .. b |-> k] /\ Len(q) = b /\ \A k \in 1 .. b : q[k] = k
    <3>1. [k \in 1 .. b |-> k] \in Seq(Nat)
      BY <1>2
    <3> QED  BY SMTT(30), <1>2, <3>1
  <2>3. p \o s \in Seq(Nat) /\ Len(p \o s) = b
    BY <1>2, <1>3, <2>1
  <2>4. ASSUME NEW k \in 1 .. b PROVE (p \o s)[k] = k
    <3>1. CASE k <= a
      BY <1>2, <1>3, <2>1, <2>4, <3>1
    <3>2. CASE k > a
      <4>1. k - a \in 1 .. b - a /\ (p \o s)[k] = s[k - a]
        BY <1>2, <1>3, <2>1, <2>4, <3>2
      <4>2. s[k - a] = a + (k - a)
        BY <1>3, <4>1
      <4> QED  BY <1>2, <4>1, <4>2
    <3>3. k <= a \/ k > a
      BY <1>2, <2>4
    <3> QED  BY <3>1, <3>2, <3>3
  <2>5. p \o s = q
    BY <2>2, <2>3, <2>4, SeqEqual
  <2> QED  BY <2>1, <2>2, <2>5
<1>5. Prefix(i) = [k \in 1 .. a |-> k] /\ Prefix(i + 1) = [k \in 1 .. b |-> k]
  BY <1>2 DEF Prefix
<1>6. [k \in 1 .. a |-> k] \in Seq(Nat)
  BY <1>2
<1> QED  BY <1>3, <1>4, <1>5, <1>6

\* No block is before the first stage's, all are before the end.
LEMMA PrefixEnds ==
    ASSUME model \in Models
    PROVE  Prefix(0) = <<>> /\ Prefix(NumStages) = AllBlocks
<1>1. Prefix(NumStages) = AllBlocks
  BY Bounds DEF Prefix, AllBlocks
<1>2. Prefix(0) = [k \in 1 .. 0 |-> k]
  BY Bounds DEF Prefix
<1>3. [k \in 1 .. 0 |-> k] = <<>>
  OBVIOUS
<1> QED  BY <1>1, <1>2, <1>3

\* The blocks of the stages before i, one after the other.
LEMMA FlattenBlocks ==
    ASSUME EvenSkips, model \in Models, NEW i \in Stages
    PROVE  FlattenSeq([k \in 1 .. i |-> Blocks(k - 1)]) = Prefix(i)
<1> DEFINE ss == [k \in 1 .. i |-> Blocks(k - 1)]
           D(g) == g = [k \in 1 .. Len(ss) |-> IF k = 1 THEN ss[k] ELSE g[k - 1] \o ss[k]]
           f == CHOOSE g : D(g)
           w == [k \in 1 .. i |-> Prefix(k)]
           T == {m \in Nat : m + 1 \in 1 .. i => f[m + 1] = Prefix(m + 1)}
<1>1. i \in Nat /\ i < NumStages /\ NumStages \in Nat
  BY RequestsAssumption DEF Stages
<1>2. Len(ss) = i /\ \A k \in 1 .. i : ss[k] = Blocks(k - 1)
  BY <1>1
<1>3. CASE i = 0
  <2>1. ss = <<>>
    BY <1>3
  <2>2. FlattenSeq(ss) = <<>>
    BY <1>2, <1>3, <2>1 DEF FlattenSeq
  <2> QED  BY <1>3, <2>2, PrefixEnds
<1>4. CASE i # 0
  <2>1. ASSUME NEW k \in 1 .. i
        PROVE  Prefix(k) = IF k = 1 THEN ss[k] ELSE Prefix(k - 1) \o ss[k]
    <3>1. k - 1 \in Stages /\ (k - 1) + 1 = k
      BY <1>1, <2>1 DEF Stages
    <3>2. Prefix(k - 1) \o Blocks(k - 1) = Prefix(k) /\ Blocks(k - 1) \in Seq(Nat)
      BY <3>1, PrefixStep, BlocksOf
    <3>3. CASE k = 1
      <4>1. <<>> \o Blocks(k - 1) = Blocks(k - 1)
        BY <3>2
      <4>2. Prefix(k - 1) = <<>>
        BY <3>3, PrefixEnds
      <4> QED  BY <1>2, <3>2, <3>3, <4>1, <4>2
    <3>4. CASE k # 1
      BY <1>2, <3>2, <3>4
    <3> QED  BY <3>3, <3>4
  <2>2. D(w)
    <3>1. \A k \in 1 .. i : k # 1 => k - 1 \in 1 .. i
      BY <1>1
    <3>2. \A k \in 1 .. i : w[k] = IF k = 1 THEN ss[k] ELSE w[k - 1] \o ss[k]
      <4> HIDE DEF ss
      <4> QED  BY <2>1, <3>1
    <3> HIDE DEF ss
    <3> QED  BY <3>2, <1>2
  <2>3. D(f)
    <3> HIDE DEF D, w
    <3> QED  BY <2>2, Zenon
  <2>4. \A k \in 1 .. i : f[k] = IF k = 1 THEN ss[k] ELSE f[k - 1] \o ss[k]
    <3>1. f = [k \in 1 .. i |-> IF k = 1 THEN ss[k] ELSE f[k - 1] \o ss[k]]
      BY <2>3, <1>2
    <3> HIDE DEF f, ss
    <3> QED  BY <3>1
  <2>5. Nat \subseteq T
    <3> HIDE DEF f, ss
    <3>1. 0 \in T
      <4>1. 1 \in 1 .. i
        BY <1>1, <1>4
      <4>2. f[1] = Prefix(1)
        BY <4>1, <2>1, <2>4
      <4> QED  BY <4>2
    <3>2. ASSUME NEW m \in Nat, m \in T PROVE m + 1 \in T
      <4>1. CASE m + 2 \in 1 .. i
        <5>1. m + 1 \in 1 .. i /\ m + 2 # 1 /\ (m + 2) - 1 = m + 1 /\ (m + 1) + 1 = m + 2
          BY <1>1, <4>1, <3>2
        <5>2. f[m + 1] = Prefix(m + 1)
          BY <3>2, <5>1
        <5>3. f[m + 2] = f[m + 1] \o ss[m + 2] /\ Prefix(m + 2) = Prefix(m + 1) \o ss[m + 2]
          BY <2>1, <2>4, <4>1, <5>1
        <5>4. f[(m + 1) + 1] = Prefix((m + 1) + 1)
          BY <5>1, <5>2, <5>3
        <5> QED  BY <5>4
      <4>2. CASE m + 2 \notin 1 .. i
        BY <4>2, <3>2
      <4> QED  BY <4>1, <4>2
    <3> HIDE DEF T
    <3> QED  BY <3>1, <3>2, SetInduction
  <2>6. f[i] = Prefix(i)
    <3>1. i - 1 \in Nat /\ (i - 1) + 1 = i /\ i \in 1 .. i
      BY <1>1, <1>4
    <3>2. i - 1 \in T
      BY <2>5, <3>1
    <3> HIDE DEF f
    <3> QED  BY <3>1, <3>2
  <2>7. FlattenSeq(ss) = f[i]
    BY <1>2, <1>4 DEF FlattenSeq
  <2> QED  BY <2>6, <2>7
<1> QED  BY <1>3, <1>4

\* The mirrored stage has as many blocks, and its last one is the mirror of the first.
LEMMA MirrorBlocks ==
    ASSUME EvenSkips, model \in Models, NEW i \in Stages, model.skips
    PROVE  /\ Len(Blocks(skip_rank(i))) = Len(Blocks(i))
           /\ Blocks(skip_rank(i)) =
                 Reverse([k \in DOMAIN Blocks(i) |-> NumBlocks + 1 - Blocks(i)[k]])
<1>1. model.layers = <<>> /\ NumBlocks % NumStages = 0
  BY RequestsAssumption DEF EvenSkips
<1>2. NumStages \in Nat /\ NumStages > 1 /\ NumBlocks \in Nat
  BY RequestsAssumption
<1>3. PICK e \in Nat : NumBlocks = NumStages * e /\ EvenShare = e
  <2>1. PICK e \in Nat : e = NumBlocks \div NumStages /\ NumBlocks = NumStages * e
    BY <1>1, <1>2
  <2>2. (NumStages * e + NumStages - 1) \div NumStages = e
    <3>1. PICK a \in Nat : a = NumStages * e
      BY <1>2
    <3>2. PICK b \in Nat, r \in 0 .. NumStages - 1 :
              b = (a + NumStages - 1) \div NumStages /\ a + NumStages - 1 = NumStages * b + r
      BY <1>2, <3>1
    <3>3. NumStages * (b - e) = (NumStages - 1) - r
      BY <1>2, <3>1, <3>2
    <3>4. PICK d \in Int : d = b - e
      OBVIOUS
    <3>5. NumStages * d >= 0 /\ NumStages * d < NumStages
      BY <1>2, <3>2, <3>3, <3>4
    <3>6. d = 0
      <4>1. ~(d >= 1)
        BY <1>2, <3>4, <3>5
      <4>2. ~(d <= -1)
        BY <1>2, <3>4, <3>5
      <4> QED  BY <3>4, <4>1, <4>2
    <3> QED  BY <3>1, <3>2, <3>4, <3>6
  <2> QED  BY <2>1, <2>2 DEF EvenShare
<1>4. ASSUME NEW j \in 0 .. NumStages
      PROVE  Bound(j) = j * e /\ j * e \in Nat
  <2>1. j * e <= NumStages * e /\ j * e \in Nat
    BY <1>2, <1>3, <1>4
  <2> QED  BY <1>1, <1>2, <1>3, <2>1 DEF Bound
<1>5. ASSUME NEW j \in Stages
      PROVE  Blocks(j) \in Seq(Nat) /\ Len(Blocks(j)) = e /\ \A k \in 1 .. e : Blocks(j)[k] = j * e + k
  <2>1. j \in 0 .. NumStages /\ j + 1 \in 0 .. NumStages /\ j \in Nat
    BY <1>2 DEF Stages
  <2>2. (j + 1) * e = j * e + e
    BY <1>3, <2>1
  <2>3. Bound(j + 1) - Bound(j) = e /\ Bound(j) = j * e
    BY <1>4, <2>1, <2>2, <1>3
  <2> QED  BY <2>3, BlocksOf
<1>6. skip_rank(i) \in Stages /\ skip_rank(i) = NumStages - i - 1 /\ i \in Nat
  BY <1>2, Mirror DEF skip_rank, Stages
<1>7. PICK x \in Nat, y \in Nat : x = i * e /\ y = skip_rank(i) * e /\ NumBlocks = x + y + e
  <2>1. (NumStages - i - 1) * e = NumStages * e - i * e - e
    <3>1. (NumStages - i - 1) * e + (i + 1) * e = NumStages * e /\ (i + 1) * e = i * e + e
      BY <1>2, <1>3, <1>6
    <3>2. PICK a \in Int, b \in Int, c \in Int, d \in Int :
              a = (NumStages - i - 1) * e /\ b = (i + 1) * e /\ c = NumStages * e /\ d = i * e
      BY <1>2, <1>3, <1>6
    <3> QED  BY <1>3, <3>1, <3>2
  <2>2. i * e \in Nat /\ skip_rank(i) * e \in Nat
    BY <1>2, <1>3, <1>6 DEF Stages
  <2>3. PICK x \in Nat, y \in Nat, z \in Nat : x = i * e /\ y = skip_rank(i) * e /\ z = NumStages * e
    BY <1>2, <1>3, <2>2
  <2>4. y = z - x - e
    BY <1>6, <2>1, <2>3
  <2>5. NumBlocks = x + y + e
    BY <1>3, <2>3, <2>4
  <2> QED  BY <2>3, <2>5
<1>8. PICK s \in Seq(Nat), t \in Seq(Nat) :
          /\ s = Blocks(i) /\ Len(s) = e /\ \A k \in 1 .. e : s[k] = x + k
          /\ t = Blocks(skip_rank(i)) /\ Len(t) = e /\ \A k \in 1 .. e : t[k] = y + k
  BY <1>5, <1>6, <1>7
<1> DEFINE u == [k \in DOMAIN s |-> NumBlocks + 1 - s[k]]
<1>9. DOMAIN s = 1 .. e
  BY <1>8
<1>10. \A k \in 1 .. e : u[k] = NumBlocks + 1 - s[k]
  BY <1>9
<1>11. Len(u) = e
  BY <1>9
<1> HIDE DEF u
<1>12. ASSUME NEW k \in 1 .. e
       PROVE  t[k] = u[(e - k) + 1]
  <2>1. (e - k) + 1 \in 1 .. e
    BY <1>12
  <2>2. u[(e - k) + 1] = NumBlocks + 1 - (x + ((e - k) + 1))
    BY <2>1, <1>8, <1>10
  <2> QED  BY <2>2, <1>7, <1>8, <1>12
<1>13. t = [k \in 1 .. e |-> t[k]]
  BY <1>8
<1>14. t = Reverse(u)
  BY <1>11, <1>12, <1>13 DEF Reverse
<1> QED  BY <1>8, <1>14 DEF u

-----------------------------------------------------------------------------
(* Places and the order of the messages. *)

\* The segments of an image: the whole, and the patches in order.
LEMMA SegmentFacts ==
    /\ NumPatches \in Nat /\ NumPatches > 0 /\ Warmup \in Nat /\ Warmup > 0
    /\ Patches \subseteq Segments /\ Whole \in Segments /\ Whole \notin Patches
    /\ \A p \in Segments : p \in Int /\ -1 <= p /\ p <= NumPatches - 1
    /\ \A p \in Segments : p # Whole => p \in Patches
    /\ \A p \in Patches : p \in Nat /\ p <= NumPatches - 1 /\ p # Whole
    /\ Whole = -1 /\ 0 \in Patches
<1>1. NumPatches \in Nat /\ NumPatches > 0 /\ Warmup \in Nat /\ Warmup > 0
  BY RequestsAssumption
<1> QED  BY <1>1 DEF Segments, Patches, Whole

\* A position is its parts.
LEMMA PositionParts ==
    ASSUME NEW x \in Position
    PROVE  /\ x.request \in Nat /\ x.step \in Nat /\ x.patch \in Segments /\ x.patch \in Int
           /\ x.sub \in 0 .. 2 /\ x.sub \in Nat
           /\ x = Place(x.request, x.step, x.patch, x.sub)
<1>1. x \in [request : Nat, step : Nat, patch : Segments, sub : 0 .. 2]
  BY DEF Position
<1>2. /\ x.request \in Nat /\ x.step \in Nat /\ x.patch \in Segments
      /\ x.sub \in 0 .. 2
      /\ x = [request |-> x.request, step |-> x.step, patch |-> x.patch, sub |-> x.sub]
  BY <1>1
<1> QED  BY <1>2, SegmentFacts DEF Place

\* A place is one of the positions,
LEMMA PlaceTyped ==
    ASSUME NEW r \in Nat, NEW t \in Nat, NEW p \in Segments, NEW m \in 0 .. 2
    PROVE  Place(r, t, p, m) \in Position
BY DEF Place, Position

\* and is known by its parts.
LEMMA PlaceParts ==
    ASSUME NEW r, NEW t, NEW p, NEW m
    PROVE  /\ Place(r, t, p, m).request = r /\ Place(r, t, p, m).step = t
           /\ Place(r, t, p, m).patch = p /\ Place(r, t, p, m).sub = m
BY DEF Place

\* The order of the messages of a link is total.
LEMMA Order ==
    ASSUME NEW a \in Position, NEW b \in Position, NEW c \in Position
    PROVE  /\ ~Before(a, a)
           /\ Before(a, b) /\ Before(b, c) => Before(a, c)
           /\ Before(a, b) => ~Before(b, a)
           /\ a = b \/ Before(a, b) \/ Before(b, a)
<1>1. \A x \in Position : /\ x.request \in Nat /\ x.step \in Nat /\ x.patch \in Int /\ x.sub \in Nat
  BY PositionParts
<1>2. ~Before(a, a) /\ (Before(a, b) => ~Before(b, a))
  BY <1>1 DEF Before
<1>3. Before(a, b) /\ Before(b, c) => Before(a, c)
  BY <1>1 DEF Before
<1>4. a = b \/ Before(a, b) \/ Before(b, a)
  <2>1. CASE a.request = b.request /\ a.step = b.step /\ a.patch = b.patch /\ a.sub = b.sub
    BY PositionParts, <2>1
  <2>2. CASE ~(a.request = b.request /\ a.step = b.step /\ a.patch = b.patch /\ a.sub = b.sub)
    BY <1>1, <2>2 DEF Before
  <2> QED  BY <2>1, <2>2
<1> QED  BY <1>2, <1>3, <1>4

\* The same of the positions of a set are before the one and the other.
Same(S, a, b) == \A q \in S : Before(q, b) = Before(q, a)

\* Going from a to b passes one position of a set.
Passes(S, a, q0, b) == /\ q0 \in S
                       /\ ~Before(q0, a)
                       /\ \A q \in S : Before(q, b) = (Before(q, a) \/ q = q0)

\* Same is an order's indifference: it composes, with itself and with Passes.
LEMMA SameFacts ==
    ASSUME NEW S, NEW a, NEW b, NEW c
    PROVE  /\ Same(S, a, a)
           /\ Same(S, a, b) /\ Same(S, b, c) => Same(S, a, c)
           /\ \A q0 : Same(S, a, b) /\ Passes(S, b, q0, c) => Passes(S, a, q0, c)
           /\ \A q0 : Passes(S, a, q0, b) /\ Same(S, b, c) => Passes(S, a, q0, c)
           /\ \A T \in SUBSET S : Same(S, a, b) => Same(T, a, b)
<1>1. Same(S, a, a) /\ (Same(S, a, b) /\ Same(S, b, c) => Same(S, a, c))
  BY DEF Same
<1>2. \A q0 : Same(S, a, b) /\ Passes(S, b, q0, c) => Passes(S, a, q0, c)
  BY DEF Same, Passes
<1>3. \A q0 : Passes(S, a, q0, b) /\ Same(S, b, c) => Passes(S, a, q0, c)
  BY DEF Same, Passes
<1>4. \A T \in SUBSET S : Same(S, a, b) => Same(T, a, b)
  BY DEF Same
<1> QED  BY <1>1, <1>2, <1>3, <1>4

\* What a sequence holds does not depend on which of two like places bound it.
LEMMA HoldsSame ==
    ASSUME NEW ps, NEW S, NEW a, NEW b, NEW a1, NEW b1,
           Holds(ps, S, a, b), Same(S, a, a1), Same(S, b, b1)
    PROVE  Holds(ps, S, a1, b1)
BY DEF Holds, Same

\* The first of a sequence is the first position that is passed.
LEMMA HoldsHead ==
    ASSUME NEW S \in SUBSET Position, NEW ps \in Seq(Position), NEW a, NEW b \in Position, NEW q0, NEW c,
           Holds(ps, S, a, b), ps # <<>>, Passes(S, a, q0, c),
           \A q \in S : Before(q, q0) => Before(q, a)
    PROVE  ps[1] = q0
<1>1. Len(ps) \in Nat /\ 1 \in 1 .. Len(ps)
  OBVIOUS
<1>2. ps[1] \in S /\ ~Before(ps[1], a) /\ Before(ps[1], b) /\ q0 \in S /\ ~Before(q0, a)
  BY <1>1 DEF Holds, Passes
<1>3. ps[1] \in Position /\ q0 \in Position
  BY <1>2
<1>4. SUFFICES ASSUME ps[1] # q0 PROVE FALSE
  OBVIOUS
<1>5. Before(q0, ps[1])
  BY <1>2, <1>3, <1>4, Order
<1>6. Before(q0, b)
  BY <1>2, <1>3, <1>5, Order
<1>7. PICK k \in 1 .. Len(ps) : ps[k] = q0
  BY <1>2, <1>6 DEF Holds
<1>8. k # 1 /\ 1 < k
  BY <1>1, <1>4, <1>7
<1>9. Before(ps[1], ps[k])
  BY <1>1, <1>8 DEF Holds
<1> QED  BY <1>3, <1>5, <1>7, <1>9, Order

\* What is left after the first one taken.
LEMMA HoldsTail ==
    ASSUME NEW S \in SUBSET Position, NEW ps \in Seq(Position), NEW a, NEW b \in Position, NEW q0, NEW c,
           Holds(ps, S, a, b), ps # <<>>, Passes(S, a, q0, c),
           \A q \in S : Before(q, q0) => Before(q, a)
    PROVE  Holds(Tail(ps), S, c, b)
<1>1. PICK n \in Nat : n = Len(ps) /\ n >= 1
  OBVIOUS
<1>2. PICK ts \in Seq(Position) :
          ts = Tail(ps) /\ Len(ts) = n - 1 /\ \A k \in 1 .. n - 1 : ts[k] = ps[k + 1]
  <2>1. Tail(ps) \in Seq(Position) /\ Len(Tail(ps)) = n - 1
        /\ \A k \in 1 .. n - 1 : Tail(ps)[k] = ps[k + 1]
    BY <1>1, HeadTailProperties
  <2> QED  BY <2>1
<1>3. ps[1] = q0 /\ 1 \in 1 .. n
  BY <1>1, HoldsHead
<1>4. ASSUME NEW k \in 1 .. Len(ts)
      PROVE  ts[k] \in S /\ ~Before(ts[k], c) /\ Before(ts[k], b)
  <2>1. k + 1 \in 1 .. n /\ 1 < k + 1 /\ ts[k] = ps[k + 1]
    BY <1>1, <1>2, <1>4
  <2>2. ts[k] \in S /\ ~Before(ts[k], a) /\ Before(ts[k], b) /\ Before(q0, ts[k])
    BY <1>1, <1>3, <2>1 DEF Holds
  <2>3. ts[k] # q0
    BY <2>2, Order
  <2> QED  BY <2>2, <2>3 DEF Passes
<1>5. ASSUME NEW k \in 1 .. Len(ts), NEW l \in 1 .. Len(ts), k < l
      PROVE  Before(ts[k], ts[l])
  <2>1. k + 1 \in 1 .. n /\ l + 1 \in 1 .. n /\ k + 1 < l + 1 /\ ts[k] = ps[k + 1] /\ ts[l] = ps[l + 1]
    BY <1>1, <1>2, <1>5
  <2> QED  BY <1>1, <2>1 DEF Holds
<1>6. ASSUME NEW q \in S, ~Before(q, c), Before(q, b)
      PROVE  \E k \in 1 .. Len(ts) : ts[k] = q
  <2>1. ~Before(q, a) /\ q # q0
    BY <1>6 DEF Passes
  <2>2. PICK k \in 1 .. n : ps[k] = q
    BY <1>1, <1>6, <2>1 DEF Holds
  <2>3. k # 1
    BY <1>3, <2>1, <2>2
  <2>4. k - 1 \in 1 .. n - 1 /\ (k - 1) + 1 = k
    BY <1>1, <2>3
  <2> QED  BY <1>2, <2>2, <2>4
<1>7. ASSUME NEW q \in S, Before(q, c)
      PROVE  Before(q, b)
  <2>1. Before(ps[1], b)
    BY <1>1, <1>3 DEF Holds
  <2>2. Before(q, a) \/ q = q0
    BY <1>7 DEF Passes
  <2> QED  BY <1>3, <2>1, <2>2 DEF Holds
<1> QED  BY <1>2, <1>4, <1>5, <1>6, <1>7 DEF Holds

\* One more is put at the end.
LEMMA HoldsAppend ==
    ASSUME NEW S \in SUBSET Position, NEW ps \in Seq(Position), NEW a, NEW b \in Position, NEW q0, NEW c,
           Holds(ps, S, a, b), Passes(S, b, q0, c),
           \A q \in S : Before(q, b) => Before(q, q0)
    PROVE  Holds(Append(ps, q0), S, a, c)
<1>1. PICK n \in Nat : n = Len(ps)
  OBVIOUS
<1>2. q0 \in S /\ ~Before(q0, a) /\ Before(q0, c) /\ q0 \in Position
  BY DEF Holds, Passes
<1>3. PICK ts \in Seq(Position) :
          /\ ts = Append(ps, q0) /\ Len(ts) = n + 1 /\ ts[n + 1] = q0
          /\ \A k \in 1 .. n : ts[k] = ps[k]
  <2>1. /\ Append(ps, q0) \in Seq(Position) /\ Len(Append(ps, q0)) = n + 1
        /\ Append(ps, q0)[n + 1] = q0 /\ \A k \in 1 .. n : Append(ps, q0)[k] = ps[k]
    BY <1>1, <1>2, AppendProperties
  <2> QED  BY <2>1
<1>4. \A k \in 1 .. n + 1 : k # n + 1 => k \in 1 .. n
  BY <1>1
<1>5. \A k \in 1 .. n : ts[k] \in S /\ ~Before(ts[k], a) /\ Before(ts[k], b)
  BY <1>1, <1>3 DEF Holds
<1>6. ASSUME NEW k \in 1 .. Len(ts)
      PROVE  ts[k] \in S /\ ~Before(ts[k], a) /\ Before(ts[k], c)
  <2>1. CASE k = n + 1
    BY <1>2, <1>3, <2>1
  <2>2. CASE k # n + 1
    <3>1. ts[k] \in S /\ ~Before(ts[k], a) /\ Before(ts[k], b)
      BY <1>3, <1>4, <1>5, <1>6, <2>2
    <3> QED  BY <3>1 DEF Passes
  <2> QED  BY <2>1, <2>2
<1>7. ASSUME NEW k \in 1 .. Len(ts), NEW l \in 1 .. Len(ts), k < l
      PROVE  Before(ts[k], ts[l])
  <2>1. k \in 1 .. n
    BY <1>1, <1>3, <1>7
  <2>2. CASE l = n + 1
    BY <1>3, <1>5, <2>1, <2>2
  <2>3. CASE l # n + 1
    <3>1. l \in 1 .. n
      BY <1>3, <1>4, <2>3
    <3> QED  BY <1>1, <1>3, <1>7, <2>1, <3>1 DEF Holds
  <2> QED  BY <2>2, <2>3
<1>8. ASSUME NEW q \in S, ~Before(q, a), Before(q, c)
      PROVE  \E k \in 1 .. Len(ts) : ts[k] = q
  <2>1. CASE q = q0
    <3>1. n + 1 \in 1 .. Len(ts)
      BY <1>1, <1>3
    <3> QED  BY <1>3, <2>1, <3>1
  <2>2. CASE q # q0
    <3>1. Before(q, b)
      BY <1>8, <2>2 DEF Passes
    <3>2. PICK k \in 1 .. n : ps[k] = q
      BY <1>1, <1>8, <3>1 DEF Holds
    <3>3. k \in 1 .. Len(ts)
      BY <1>1, <1>3
    <3> QED  BY <1>3, <3>2, <3>3
  <2> QED  BY <2>1, <2>2
<1>9. ASSUME NEW q \in S, Before(q, a)
      PROVE  Before(q, c)
  BY <1>9 DEF Holds, Passes
<1> QED  BY <1>3, <1>6, <1>7, <1>8, <1>9 DEF Holds

-----------------------------------------------------------------------------
(* What is due to a stage. *)

\* A request has steps and a size.
LEMMA PlanFacts ==
    ASSUME plan \in Plans
    PROVE  /\ Len(plan) \in Nat
           /\ \A r \in 1 .. Len(plan) : /\ plan[r].steps \in Nat /\ plan[r].steps > 0
                                        /\ plan[r].size \in Nat
<1>1. plan \in Seq([steps : Nat \ {0}, size : Nat])
  BY RequestsAssumption
<1>2. \A r \in 1 .. Len(plan) : plan[r] \in [steps : Nat \ {0}, size : Nat]
  BY <1>1, ElementOfSeq, Zenon
<1> QED  BY <1>1, <1>2

\* Only the first stage receives with a lag.
LEMMA LagFacts == \A j : Lag(j) \in 0 .. 1 /\ Lag(j) \in Nat /\ (j # FirstStage => Lag(j) = 0) /\ Lag(FirstStage) = 1
BY DEF Lag

\* What is due, by segment.
LEMMA DueFacts ==
    ASSUME plan \in Plans, NEW j
    PROVE  /\ Due(j) \subseteq Position /\ DueSkips(j) \subseteq Due(j)
           /\ \A q \in Due(j) :
                 /\ q.request \in 1 .. Len(plan) /\ q.sub \in 0 .. 1
                 /\ q.patch = Whole => /\ Lag(j) <= q.step
                                       /\ q.step < plan[q.request].steps
                                       /\ plan[q.request].steps > Warmup => q.step < Warmup + Lag(j)
                 /\ q.patch # Whole => /\ Warmup + Lag(j) <= q.step
                                       /\ q.step < plan[q.request].steps
                 /\ q.sub = 0 => q.step = IF q.patch = Whole THEN Lag(j) ELSE Warmup + Lag(j)
<1>1. Due(j) \subseteq Position /\ DueSkips(j) \subseteq Due(j)
  BY DEF Due, DueSkips
<1>2. ASSUME NEW q \in Due(j)
      PROVE  /\ q.request \in 1 .. Len(plan) /\ q.sub \in 0 .. 1
             /\ q.patch = Whole => /\ Lag(j) <= q.step
                                   /\ q.step < plan[q.request].steps
                                   /\ plan[q.request].steps > Warmup => q.step < Warmup + Lag(j)
             /\ q.patch # Whole => /\ Warmup + Lag(j) <= q.step
                                   /\ q.step < plan[q.request].steps
             /\ q.sub = 0 => q.step = IF q.patch = Whole THEN Lag(j) ELSE Warmup + Lag(j)
  <2>1. q \in Position /\ Receives(j, q) /\ q.sub \in 0 .. 1
        /\ (q.sub = 0 => q.step = FirstReceipt(j, q.patch))
    BY DEF Due
  <2>2. q.request \in 1 .. Len(plan) /\ FirstReceipt(j, q.patch) <= q.step
        /\ q.step < ReceiptsEnd(j, q.request, q.patch)
    BY <2>1 DEF Receives
  <2>3. PICK n \in Nat : n = plan[q.request].steps
    BY <2>2, PlanFacts
  <2>4. q.step \in Nat /\ Lag(j) \in 0 .. 1 /\ Warmup \in Nat
    BY <2>1, LagFacts, SegmentFacts, PositionParts
  <2>5. CASE q.patch = Whole
    BY <2>1, <2>2, <2>3, <2>4, <2>5 DEF FirstReceipt, ReceiptsEnd
  <2>6. CASE q.patch # Whole
    BY <2>1, <2>2, <2>3, <2>4, <2>6 DEF FirstReceipt, ReceiptsEnd
  <2> QED  BY <2>1, <2>2, <2>5, <2>6
<1> QED  BY <1>1, <1>2

\* What is before a position, part by part.
LEMMA BeforePlace ==
    ASSUME NEW q, NEW r, NEW t, NEW p, NEW m
    PROVE  Before(q, Place(r, t, p, m)) <=>
               \/ q.request < r
               \/ q.request = r /\ q.step < t
               \/ q.request = r /\ q.step = t /\ q.patch < p
               \/ q.request = r /\ q.step = t /\ q.patch = p /\ q.sub < m
BY DEF Before, Place

\* The shape of a segment comes before its tensor.
LEMMA ShapePassed ==
    ASSUME NEW S \in SUBSET Position, NEW r \in Nat, NEW t \in Nat, NEW p \in Segments,
           NEW m \in 0 .. 1, Place(r, t, p, m) \notin S
    PROVE  Same(S, Place(r, t, p, m), Place(r, t, p, m + 1))
<1>1. ASSUME NEW q \in S
      PROVE  Before(q, Place(r, t, p, m + 1)) <=> Before(q, Place(r, t, p, m))
  <2>1. q \in Position /\ q # Place(r, t, p, m)
    BY <1>1
  <2>2. q = Place(q.request, q.step, q.patch, q.sub) /\ q.sub \in Nat /\ m \in Nat
    BY <2>1, PositionParts
  <2>3. ~(q.request = r /\ q.step = t /\ q.patch = p /\ q.sub = m)
    BY <2>1, <2>2
  <2>4. q.sub < m + 1 <=> (q.sub < m \/ q.sub = m)
    BY <2>2
  <2> QED  BY <2>3, <2>4, BeforePlace
<1> QED  BY <1>1 DEF Same, Before

\* What is not due can be passed over.
LEMMA PassedOver ==
    ASSUME NEW S \in SUBSET Position, NEW r \in Nat, NEW t \in Nat, NEW p \in Segments,
           Place(r, t, p, 0) \notin S, Place(r, t, p, 1) \notin S
    PROVE  Same(S, Place(r, t, p, 0), Place(r, t, p, 2))
<1>1. Same(S, Place(r, t, p, 0), Place(r, t, p, 0 + 1)) /\ Same(S, Place(r, t, p, 1), Place(r, t, p, 1 + 1))
  BY ShapePassed
<1> QED  BY <1>1, SameFacts

\* What is due is passed when it is received or sent.
LEMMA Passed ==
    ASSUME NEW S \in SUBSET Position, NEW r \in Nat, NEW t \in Nat, NEW p \in Segments,
           NEW m \in 0 .. 1, Place(r, t, p, m) \in S
    PROVE  Passes(S, Place(r, t, p, m), Place(r, t, p, m), Place(r, t, p, m + 1))
<1>1. p \in Int
  BY SegmentFacts
<1>2. ~Before(Place(r, t, p, m), Place(r, t, p, m))
  <2>1. Place(r, t, p, m) \in Position
    OBVIOUS
  <2> QED  BY <2>1, Order
<1>3. ASSUME NEW q \in S
      PROVE  Before(q, Place(r, t, p, m + 1)) <=> (Before(q, Place(r, t, p, m)) \/ q = Place(r, t, p, m))
  <2>1. q \in Position
    OBVIOUS
  <2>2. q = Place(q.request, q.step, q.patch, q.sub) /\ q.sub \in Nat /\ m \in Nat
    BY <2>1, PositionParts
  <2>3. q = Place(r, t, p, m) <=> (q.request = r /\ q.step = t /\ q.patch = p /\ q.sub = m)
    BY <2>2, PlaceParts
  <2>4. q.sub < m + 1 <=> (q.sub < m \/ q.sub = m)
    BY <2>2
  <2> QED  BY <2>3, <2>4, BeforePlace
<1> QED  BY <1>2, <1>3 DEF Passes, Before
-----------------------------------------------------------------------------
(* Steps between places where nothing is due. *)

\* What is due is typed.
LEMMA DueTyped ==
    ASSUME plan \in Plans, NEW j, NEW q \in Due(j)
    PROVE  /\ q.request \in Nat /\ q.step \in Nat /\ q.patch \in Int /\ q.sub \in 0 .. 1
           /\ -1 <= q.patch /\ q.patch <= NumPatches - 1 /\ q.request \in 1 .. Len(plan)
           /\ plan[q.request].steps \in Nat /\ Lag(j) \in 0 .. 1 /\ Warmup \in Nat /\ NumPatches \in Nat
           /\ NumPatches > 0 /\ Warmup > 0
<1>1. q \in Position /\ q.request \in 1 .. Len(plan) /\ q.sub \in 0 .. 1
  BY DueFacts
<1>2. /\ q.request \in Nat /\ q.step \in Nat /\ q.patch \in Int
      /\ -1 <= q.patch /\ q.patch <= NumPatches - 1
  BY <1>1, PositionParts, SegmentFacts
<1>3. plan[q.request].steps \in Nat
  BY <1>1, PlanFacts
<1> QED  BY <1>1, <1>2, <1>3, LagFacts, SegmentFacts

\* From a segment to the next of the same step.
LEMMA NextSegment ==
    ASSUME plan \in Plans, NEW j, NEW r \in Nat, NEW t \in Nat, NEW p \in Int
    PROVE  Same(Due(j), Place(r, t, p, 2), Place(r, t, p + 1, 0))
<1>1. ASSUME NEW q \in Due(j)
      PROVE  Before(q, Place(r, t, p + 1, 0)) <=> Before(q, Place(r, t, p, 2))
  BY DueTyped, BeforePlace
<1> QED  BY <1>1 DEF Same, Before

\* From a step of the warm-up to the next.
LEMMA NextWhole ==
    ASSUME plan \in Plans, NEW j, NEW r \in Nat, NEW t \in Nat, t < Warmup + Lag(j)
    PROVE  Same(Due(j), Place(r, t, Whole, 2), Place(r, t + 1, Whole, 0))
<1>1. ASSUME NEW q \in Due(j)
      PROVE  Before(q, Place(r, t + 1, Whole, 0)) <=> Before(q, Place(r, t, Whole, 2))
  <2>1. q.patch # Whole => Warmup + Lag(j) <= q.step
    BY DueFacts
  <2>2. q.patch # Whole => t < q.step
    BY <2>1, DueTyped
  <2> QED  BY <2>2, DueTyped, BeforePlace DEF Whole
<1> QED  BY <1>1 DEF Same, Before

\* The last stages that receive no whole image any more start with the patches.
LEMMA WholeOver ==
    ASSUME plan \in Plans, NEW j, NEW r \in 1 .. Len(plan), plan[r].steps > Warmup,
           NEW t \in Nat, t >= Warmup + Lag(j), NEW m \in 0 .. 2
    PROVE  Same(Due(j), Place(r, t, Whole, m), Place(r, t, 0, 0))
<1>1. ASSUME NEW q \in Due(j)
      PROVE  Before(q, Place(r, t, Whole, m)) <=> Before(q, Place(r, t, 0, 0))
  <2>1. q.patch = Whole /\ q.request = r => q.step < Warmup + Lag(j)
    BY DueFacts
  <2>2. q.patch = Whole /\ q.request = r => q.step < t
    BY <2>1, DueTyped
  <2> QED  BY <2>2, DueTyped, BeforePlace DEF Whole
<1> QED  BY <1>1 DEF Same, Before

\* From a step of the patches to the next.
LEMMA NextRound ==
    ASSUME plan \in Plans, NEW j, NEW r \in 1 .. Len(plan), plan[r].steps > Warmup,
           NEW t \in Nat, t + 1 >= Warmup + Lag(j)
    PROVE  Same(Due(j), Place(r, t, NumPatches - 1, 2), Place(r, t + 1, 0, 0))
<1>1. ASSUME NEW q \in Due(j)
      PROVE  Before(q, Place(r, t + 1, 0, 0)) <=> Before(q, Place(r, t, NumPatches - 1, 2))
  <2>1. q.patch = Whole /\ q.request = r => q.step < Warmup + Lag(j)
    BY DueFacts
  <2>2. q.patch = Whole /\ q.request = r => q.step < t + 1
    BY <2>1, DueTyped
  <2>3. r \in Nat /\ Whole = -1
    BY PlanFacts DEF Whole
  <2>4. q.request = r /\ q.step = t + 1 => q.patch # -1
    BY <2>2, <2>3, DueTyped
  <2>5. q.request \in Nat /\ q.step \in Nat /\ q.patch \in Int /\ q.sub \in 0 .. 1 /\ NumPatches \in Nat
        /\ -1 <= q.patch /\ q.patch <= NumPatches - 1
    BY DueTyped
  <2> QED  BY <2>3, <2>4, <2>5, BeforePlace
<1> QED  BY <1>1 DEF Same, Before

\* From the last step of a request to the next request.
LEMMA NextImage ==
    ASSUME plan \in Plans, NEW j, NEW r \in 1 .. Len(plan), plan[r].steps <= Warmup,
           NEW t \in Nat, t + 1 >= plan[r].steps
    PROVE  Same(Due(j), Place(r, t, Whole, 2), Place(r + 1, 0, Whole, 0))
<1>1. ASSUME NEW q \in Due(j)
      PROVE  Before(q, Place(r + 1, 0, Whole, 0)) <=> Before(q, Place(r, t, Whole, 2))
  <2>1. q.patch # Whole => Warmup + Lag(j) <= q.step /\ q.step < plan[q.request].steps
    BY DueFacts
  <2>2. q.step < plan[q.request].steps
    BY DueFacts
  <2>3. q.request = r => q.patch = Whole /\ q.step <= t
    BY SMTT(30), <2>1, <2>2, DueTyped
  <2>4. r \in Nat /\ Whole = -1
    BY PlanFacts DEF Whole
  <2>5. q.request \in Nat /\ q.step \in Nat /\ q.patch \in Int /\ q.sub \in 0 .. 1 /\ -1 <= q.patch
    BY DueTyped
  <2> QED  BY SMTT(30), <2>3, <2>4, <2>5, BeforePlace
<1> QED  BY <1>1 DEF Same, Before

\* The last patch of a request is the last that is due in it.
LEMMA NextImageAsync ==
    ASSUME plan \in Plans, NEW j, NEW r \in 1 .. Len(plan),
           NEW t \in Nat, t + 1 >= plan[r].steps
    PROVE  Same(Due(j), Place(r, t, NumPatches - 1, 2), Place(r + 1, 0, Whole, 0))
<1>1. ASSUME NEW q \in Due(j)
      PROVE  Before(q, Place(r + 1, 0, Whole, 0)) <=> Before(q, Place(r, t, NumPatches - 1, 2))
  <2>1. q.step < plan[q.request].steps
    BY DueFacts
  <2>2. q.request = r => q.step <= t
    BY <2>1, DueTyped
  <2>3. r \in Nat /\ Whole = -1
    BY PlanFacts DEF Whole
  <2>4. q.request \in Nat /\ q.step \in Nat /\ q.patch \in Int /\ q.sub \in 0 .. 1 /\ NumPatches \in Nat
        /\ -1 <= q.patch /\ q.patch <= NumPatches - 1
    BY DueTyped
  <2> QED  BY SMTT(30), <2>2, <2>3, <2>4, BeforePlace
<1> QED  BY <1>1 DEF Same, Before

\* From the end of one request to the first step of the next.
LEMMA FirstWhole ==
    ASSUME plan \in Plans, NEW j, NEW r \in Nat
    PROVE  Same(Due(j), Place(r, 0, Whole, 0), Place(r, Lag(j), Whole, 0))
<1>1. ASSUME NEW q \in Due(j)
      PROVE  Before(q, Place(r, Lag(j), Whole, 0)) <=> Before(q, Place(r, 0, Whole, 0))
  <2>1. Lag(j) <= q.step
    BY DueFacts, DueTyped
  <2> QED  BY <2>1, DueTyped, BeforePlace DEF Whole
<1> QED  BY <1>1 DEF Same, Before

-----------------------------------------------------------------------------
(* The messages of a link by their places. *)

\* The places of messages, one by one.
LEMMA PosnsFacts ==
    ASSUME NEW ms \in Seq(Messages)
    PROVE  /\ Posns(ms) \in Seq(Position) /\ Len(Posns(ms)) = Len(ms)
           /\ \A k \in 1 .. Len(ms) : Posns(ms)[k] = PosOf(ms[k])
           /\ Posns(ms) = <<>> <=> ms = <<>>
<1>1. ASSUME NEW k \in 1 .. Len(ms) PROVE PosOf(ms[k]) \in Position
  <2>1. ms[k] \in Messages
    BY ElementOfSeq
  <2>2. /\ ms[k].body.request \in Nat /\ ms[k].body.step \in Nat /\ ms[k].body.patch \in Segments
    BY <2>1 DEF Messages, Tensors
  <2> QED  BY <2>2, PlaceTyped DEF PosOf
<1>2. Len(ms) \in Nat
  OBVIOUS
<1>3. Posns(ms) \in Seq(Position) /\ Len(Posns(ms)) = Len(ms)
      /\ \A k \in 1 .. Len(ms) : Posns(ms)[k] = PosOf(ms[k])
  BY <1>1, <1>2 DEF Posns
<1> QED  BY <1>2, <1>3

\* The places of messages when the oldest is taken,
LEMMA PosnsTail ==
    ASSUME NEW ms \in Seq(Messages), ms # <<>>
    PROVE  Posns(Tail(ms)) = Tail(Posns(ms)) /\ Posns(ms)[1] = PosOf(Head(ms))
<1>1. PICK n \in Nat : n = Len(ms) /\ n >= 1
  OBVIOUS
<1>2. /\ Tail(ms) \in Seq(Messages) /\ Len(Tail(ms)) = n - 1 /\ Head(ms) = ms[1]
      /\ \A k \in 1 .. n - 1 : Tail(ms)[k] = ms[k + 1]
  BY <1>1, HeadTailProperties
<1>3. PICK ps \in Seq(Position) : ps = Posns(ms) /\ Len(ps) = n /\ \A k \in 1 .. n : ps[k] = PosOf(ms[k])
  BY <1>1, PosnsFacts
<1>4. PICK ts \in Seq(Position) :
          ts = Posns(Tail(ms)) /\ Len(ts) = n - 1 /\ \A k \in 1 .. n - 1 : ts[k] = PosOf(Tail(ms)[k])
  BY <1>2, PosnsFacts
<1>5. ps # <<>>
  BY <1>1, <1>3
<1>6. Tail(ps) \in Seq(Position) /\ Len(Tail(ps)) = n - 1 /\ \A k \in 1 .. n - 1 : Tail(ps)[k] = ps[k + 1]
  BY <1>1, <1>3, <1>5, HeadTailProperties
<1>7. ASSUME NEW k \in 1 .. n - 1 PROVE ts[k] = Tail(ps)[k]
  <2>1. k + 1 \in 1 .. n
    BY <1>1
  <2> QED  BY <1>2, <1>3, <1>4, <1>6, <2>1
<1>8. ts = Tail(ps)
  BY <1>1, <1>4, <1>6, <1>7, SeqEqual
<1>9. 1 \in 1 .. n
  BY <1>1
<1> QED  BY <1>2, <1>3, <1>4, <1>8, <1>9

\* and when one is put.
LEMMA PosnsAppend ==
    ASSUME NEW ms \in Seq(Messages), NEW m \in Messages
    PROVE  Posns(Append(ms, m)) = Append(Posns(ms), PosOf(m))
<1>1. PICK n \in Nat : n = Len(ms)
  OBVIOUS
<1>2. PICK as \in Seq(Messages) :
          as = Append(ms, m) /\ Len(as) = n + 1 /\ as[n + 1] = m /\ \A k \in 1 .. n : as[k] = ms[k]
  <2>1. /\ Append(ms, m) \in Seq(Messages) /\ Len(Append(ms, m)) = n + 1 /\ Append(ms, m)[n + 1] = m
        /\ \A k \in 1 .. n : Append(ms, m)[k] = ms[k]
    BY <1>1, AppendProperties
  <2> QED  BY <2>1
<1>3. PICK ps \in Seq(Position) : ps = Posns(ms) /\ Len(ps) = n /\ \A k \in 1 .. n : ps[k] = PosOf(ms[k])
  BY <1>1, PosnsFacts
<1>4. PICK ts \in Seq(Position) :
          ts = Posns(as) /\ Len(ts) = n + 1 /\ \A k \in 1 .. n + 1 : ts[k] = PosOf(as[k])
  BY <1>2, PosnsFacts
<1>5. PosOf(m) \in Position
  <2>1. n + 1 \in 1 .. n + 1
    BY <1>1
  <2> QED  BY <1>2, <1>4, <2>1, ElementOfSeq
<1>6. /\ Append(ps, PosOf(m)) \in Seq(Position) /\ Len(Append(ps, PosOf(m))) = n + 1
      /\ Append(ps, PosOf(m))[n + 1] = PosOf(m)
      /\ \A k \in 1 .. n : Append(ps, PosOf(m))[k] = ps[k]
  BY <1>3, <1>5, AppendProperties
<1>7. ASSUME NEW k \in 1 .. n + 1 PROVE ts[k] = Append(ps, PosOf(m))[k]
  <2>1. k = n + 1 \/ k \in 1 .. n
    BY <1>1
  <2> QED  BY <1>2, <1>3, <1>4, <1>6, <2>1
<1>8. ts = Append(ps, PosOf(m))
  BY <1>1, <1>4, <1>6, <1>7, SeqEqual
<1> QED  BY <1>2, <1>3, <1>4, <1>8

\* The same of the skip links.
LEMMA SkipPosnsFacts ==
    ASSUME NEW ts \in Seq(Tensors)
    PROVE  /\ SkipPosns(ts) \in Seq(Position) /\ Len(SkipPosns(ts)) = Len(ts)
           /\ \A k \in 1 .. Len(ts) : SkipPosns(ts)[k] = SkipPosOf(ts[k])
           /\ SkipPosns(ts) = <<>> <=> ts = <<>>
<1>1. ASSUME NEW k \in 1 .. Len(ts) PROVE SkipPosOf(ts[k]) \in Position
  <2>1. ts[k] \in Tensors
    BY ElementOfSeq
  <2>2. ts[k].request \in Nat /\ ts[k].step \in Nat /\ ts[k].patch \in Segments
    BY <2>1 DEF Tensors
  <2> QED  BY <2>2, PlaceTyped DEF SkipPosOf
<1>2. Len(ts) \in Nat
  OBVIOUS
<1>3. SkipPosns(ts) \in Seq(Position) /\ Len(SkipPosns(ts)) = Len(ts)
      /\ \A k \in 1 .. Len(ts) : SkipPosns(ts)[k] = SkipPosOf(ts[k])
  BY <1>1, <1>2 DEF SkipPosns
<1> QED  BY <1>2, <1>3

\* The oldest skips are taken.
LEMMA SkipPosnsTail ==
    ASSUME NEW ts \in Seq(Tensors), ts # <<>>
    PROVE  SkipPosns(Tail(ts)) = Tail(SkipPosns(ts)) /\ SkipPosns(ts)[1] = SkipPosOf(Head(ts))
<1>1. PICK n \in Nat : n = Len(ts) /\ n >= 1
  OBVIOUS
<1>2. /\ Tail(ts) \in Seq(Tensors) /\ Len(Tail(ts)) = n - 1 /\ Head(ts) = ts[1]
      /\ \A k \in 1 .. n - 1 : Tail(ts)[k] = ts[k + 1]
  BY <1>1, HeadTailProperties
<1>3. PICK ps \in Seq(Position) :
          ps = SkipPosns(ts) /\ Len(ps) = n /\ \A k \in 1 .. n : ps[k] = SkipPosOf(ts[k])
  BY <1>1, SkipPosnsFacts
<1>4. PICK qs \in Seq(Position) :
          qs = SkipPosns(Tail(ts)) /\ Len(qs) = n - 1 /\ \A k \in 1 .. n - 1 : qs[k] = SkipPosOf(Tail(ts)[k])
  BY <1>2, SkipPosnsFacts
<1>5. ps # <<>>
  BY <1>1, <1>3
<1>6. Tail(ps) \in Seq(Position) /\ Len(Tail(ps)) = n - 1 /\ \A k \in 1 .. n - 1 : Tail(ps)[k] = ps[k + 1]
  BY <1>1, <1>3, <1>5, HeadTailProperties
<1>7. ASSUME NEW k \in 1 .. n - 1 PROVE qs[k] = Tail(ps)[k]
  <2>1. k + 1 \in 1 .. n
    BY <1>1
  <2> QED  BY <1>2, <1>3, <1>4, <1>6, <2>1
<1>8. qs = Tail(ps)
  BY <1>1, <1>4, <1>6, <1>7, SeqEqual
<1>9. 1 \in 1 .. n
  BY <1>1
<1> QED  BY <1>2, <1>3, <1>4, <1>8, <1>9

\* Skips are put.
LEMMA SkipPosnsAppend ==
    ASSUME NEW ts \in Seq(Tensors), NEW t \in Tensors
    PROVE  SkipPosns(Append(ts, t)) = Append(SkipPosns(ts), SkipPosOf(t))
<1>1. PICK n \in Nat : n = Len(ts)
  OBVIOUS
<1>2. PICK as \in Seq(Tensors) :
          as = Append(ts, t) /\ Len(as) = n + 1 /\ as[n + 1] = t /\ \A k \in 1 .. n : as[k] = ts[k]
  <2>1. /\ Append(ts, t) \in Seq(Tensors) /\ Len(Append(ts, t)) = n + 1 /\ Append(ts, t)[n + 1] = t
        /\ \A k \in 1 .. n : Append(ts, t)[k] = ts[k]
    BY <1>1, AppendProperties
  <2> QED  BY <2>1
<1>3. PICK ps \in Seq(Position) :
          ps = SkipPosns(ts) /\ Len(ps) = n /\ \A k \in 1 .. n : ps[k] = SkipPosOf(ts[k])
  BY <1>1, SkipPosnsFacts
<1>4. PICK qs \in Seq(Position) :
          qs = SkipPosns(as) /\ Len(qs) = n + 1 /\ \A k \in 1 .. n + 1 : qs[k] = SkipPosOf(as[k])
  BY <1>2, SkipPosnsFacts
<1>5. SkipPosOf(t) \in Position
  <2>1. n + 1 \in 1 .. n + 1
    BY <1>1
  <2> QED  BY <1>2, <1>4, <2>1, ElementOfSeq
<1>6. /\ Append(ps, SkipPosOf(t)) \in Seq(Position) /\ Len(Append(ps, SkipPosOf(t))) = n + 1
      /\ Append(ps, SkipPosOf(t))[n + 1] = SkipPosOf(t)
      /\ \A k \in 1 .. n : Append(ps, SkipPosOf(t))[k] = ps[k]
  BY <1>3, <1>5, AppendProperties
<1>7. ASSUME NEW k \in 1 .. n + 1 PROVE qs[k] = Append(ps, SkipPosOf(t))[k]
  <2>1. k = n + 1 \/ k \in 1 .. n
    BY <1>1
  <2> QED  BY <1>2, <1>3, <1>4, <1>6, <2>1
<1>8. qs = Append(ps, SkipPosOf(t))
  BY <1>1, <1>4, <1>6, <1>7, SeqEqual
<1> QED  BY <1>2, <1>3, <1>4, <1>8

\* All that is due has a position; the skips are among the places of the tensors.
LEMMA DueTypes == \A j : Due(j) \subseteq Position /\ DueSkips(j) \subseteq Due(j) /\ DueSkips(j) \subseteq Position
BY DEF Due, DueSkips

\* A link between other bounds with the same due places between them.
LEMMA CarriesSame ==
    ASSUME NEW ms, NEW j, NEW a, NEW b, NEW a1, NEW b1,
           Carries(ms, j, a, b), Same(Due(j), a, a1), Same(Due(j), b, b1)
    PROVE  Carries(ms, j, a1, b1)
BY HoldsSame DEF Carries

\* The same of a skip link.
LEMMA CarriesSkipsSame ==
    ASSUME NEW ts, NEW j, NEW a, NEW b, NEW a1, NEW b1,
           CarriesSkips(ts, j, a, b), Same(DueSkips(j), a, a1), Same(DueSkips(j), b, b1)
    PROVE  CarriesSkips(ts, j, a1, b1)
BY HoldsSame DEF CarriesSkips

\* The receiver comes to a message that is due: it is the first of the link.
LEMMA CarriesTail ==
    ASSUME NEW ms \in Seq(Messages), ms # <<>>, NEW j, NEW a, NEW b \in Position, Carries(ms, j, a, b),
           NEW r \in Nat, NEW t \in Nat, NEW p \in Segments, NEW m \in 0 .. 1,
           Place(r, t, p, m) \in Due(j), Same(Due(j), a, Place(r, t, p, m))
    PROVE  /\ PosOf(Head(ms)) = Place(r, t, p, m) /\ Head(ms).body = Body(j, Place(r, t, p, m))
           /\ Carries(Tail(ms), j, Place(r, t, p, m + 1), b)
<1> DEFINE q0 == Place(r, t, p, m)
           c  == Place(r, t, p, m + 1)
<1>1. Passes(Due(j), a, q0, c)
  <2>1. Passes(Due(j), q0, q0, c)
    BY Passed, DueTypes
  <2> QED  BY <2>1, SameFacts
<1>2. \A q \in Due(j) : Before(q, q0) => Before(q, a)
  BY DEF Same
<1>3. PICK ps \in Seq(Position) : ps = Posns(ms) /\ ps # <<>> /\ ps[1] = PosOf(Head(ms))
  BY PosnsFacts, PosnsTail
<1>4. Holds(ps, Due(j), a, b)
  BY <1>3 DEF Carries
<1>5. Due(j) \in SUBSET Position
  BY DueTypes
<1> HIDE DEF q0, c
<1>6. ps[1] = q0
  BY <1>1, <1>2, <1>3, <1>4, <1>5, HoldsHead
<1>7. Holds(Tail(ps), Due(j), c, b)
  BY <1>1, <1>2, <1>3, <1>4, <1>5, HoldsTail
<1>8. PICK n \in Nat : n = Len(ms) /\ n >= 1
  OBVIOUS
<1>9. /\ Len(Tail(ms)) = n - 1 /\ Head(ms) = ms[1]
      /\ \A k \in 1 .. n - 1 : Tail(ms)[k] = ms[k + 1]
  BY <1>8, HeadTailProperties
<1>10. \A k \in 1 .. n : ms[k].body = Body(j, PosOf(ms[k]))
  BY <1>8 DEF Carries
<1>11. Head(ms).body = Body(j, PosOf(Head(ms)))
  BY <1>8, <1>9, <1>10
<1>12. \A k \in 1 .. n - 1 : Tail(ms)[k].body = Body(j, PosOf(Tail(ms)[k]))
  <2> TAKE k \in 1 .. n - 1
  <2>1. k + 1 \in 1 .. n
    BY <1>8
  <2> QED  BY <1>9, <1>10, <2>1
<1>13. Posns(Tail(ms)) = Tail(ps)
  BY <1>3, PosnsTail
<1>14. Carries(Tail(ms), j, c, b)
  BY <1>7, <1>9, <1>12, <1>13 DEF Carries
<1> QED  BY <1>3, <1>6, <1>11, <1>14 DEF q0, c

\* The sender comes to a message that is due, and appends it to the link.
LEMMA CarriesAppend ==
    ASSUME NEW ms \in Seq(Messages), NEW j, NEW a, NEW b \in Position, Carries(ms, j, a, b),
           NEW r \in Nat, NEW t \in Nat, NEW p \in Segments, NEW m \in 0 .. 1,
           Place(r, t, p, m) \in Due(j), Same(Due(j), b, Place(r, t, p, m)),
           NEW msg \in Messages, PosOf(msg) = Place(r, t, p, m),
           msg.body = Body(j, Place(r, t, p, m))
    PROVE  Carries(Append(ms, msg), j, a, Place(r, t, p, m + 1))
<1> DEFINE q0 == Place(r, t, p, m)
           c  == Place(r, t, p, m + 1)
<1>1. Passes(Due(j), b, q0, c)
  <2>1. Passes(Due(j), q0, q0, c)
    BY Passed, DueTypes
  <2> QED  BY <2>1, SameFacts
<1>2. \A q \in Due(j) : Before(q, b) => Before(q, q0)
  BY DEF Same
<1>3. PICK ps \in Seq(Position) : ps = Posns(ms)
  BY PosnsFacts
<1>4. Holds(ps, Due(j), a, b)
  BY <1>3 DEF Carries
<1>5. Due(j) \in SUBSET Position
  BY DueTypes
<1>6. PosOf(msg) = q0 /\ msg.body = Body(j, q0)
  OBVIOUS
<1> HIDE DEF q0, c
<1>7. Holds(Append(ps, q0), Due(j), a, c)
  BY <1>1, <1>2, <1>3, <1>4, <1>5, HoldsAppend
<1>8. Posns(Append(ms, msg)) = Append(ps, q0)
  BY <1>3, <1>6, PosnsAppend
<1>9. PICK n \in Nat : n = Len(ms)
  OBVIOUS
<1>10. /\ Len(Append(ms, msg)) = n + 1 /\ Append(ms, msg)[n + 1] = msg
       /\ \A k \in 1 .. n : Append(ms, msg)[k] = ms[k]
  BY <1>9, AppendProperties
<1>11. \A k \in 1 .. n : ms[k].body = Body(j, PosOf(ms[k]))
  BY <1>9 DEF Carries
<1>12. \A k \in 1 .. n + 1 : Append(ms, msg)[k].body = Body(j, PosOf(Append(ms, msg)[k]))
  <2> TAKE k \in 1 .. n + 1
  <2>1. k = n + 1 \/ k \in 1 .. n
    BY <1>9
  <2> QED  BY <1>6, <1>10, <1>11, <2>1
<1>13. Carries(Append(ms, msg), j, a, c)
  BY <1>7, <1>8, <1>10, <1>12 DEF Carries
<1> QED  BY <1>13 DEF c

\* The same of the skips.
LEMMA CarriesSkipsTail ==
    ASSUME NEW ts \in Seq(Tensors), ts # <<>>, NEW j, NEW a, NEW b \in Position, CarriesSkips(ts, j, a, b),
           NEW r \in Nat, NEW t \in Nat, NEW p \in Segments,
           Place(r, t, p, 1) \in DueSkips(j), Same(DueSkips(j), a, Place(r, t, p, 1))
    PROVE  /\ Head(ts) = SkipBody(j, Place(r, t, p, 1))
           /\ CarriesSkips(Tail(ts), j, Place(r, t, p, 2), b)
<1> DEFINE q0 == Place(r, t, p, 1)
           c  == Place(r, t, p, 2)
<1>1. Passes(DueSkips(j), a, q0, c)
  <2>1. Passes(DueSkips(j), Place(r, t, p, 1), Place(r, t, p, 1), Place(r, t, p, 1 + 1))
    BY Passed, DueTypes
  <2>2. 1 + 1 = 2
    OBVIOUS
  <2>3. Passes(DueSkips(j), q0, q0, c)
    BY <2>1, <2>2
  <2>4. Same(DueSkips(j), a, q0)
    OBVIOUS
  <2> HIDE DEF q0, c
  <2> QED  BY <2>3, <2>4, SameFacts, Zenon
<1>2. \A q \in DueSkips(j) : Before(q, q0) => Before(q, a)
  BY DEF Same
<1>3. PICK ps \in Seq(Position) : ps = SkipPosns(ts) /\ ps # <<>> /\ ps[1] = SkipPosOf(Head(ts))
  BY SkipPosnsFacts, SkipPosnsTail
<1>4. Holds(ps, DueSkips(j), a, b)
  BY <1>3 DEF CarriesSkips
<1>5. DueSkips(j) \in SUBSET Position
  BY DueTypes
<1> HIDE DEF q0, c
<1>6. ps[1] = q0
  BY <1>1, <1>2, <1>3, <1>4, <1>5, HoldsHead
<1>7. Holds(Tail(ps), DueSkips(j), c, b)
  BY <1>1, <1>2, <1>3, <1>4, <1>5, HoldsTail
<1>8. PICK n \in Nat : n = Len(ts) /\ n >= 1
  OBVIOUS
<1>9. /\ Len(Tail(ts)) = n - 1 /\ Head(ts) = ts[1]
      /\ \A k \in 1 .. n - 1 : Tail(ts)[k] = ts[k + 1]
  BY <1>8, HeadTailProperties
<1>10. \A k \in 1 .. n : ts[k] = SkipBody(j, SkipPosOf(ts[k]))
  BY <1>8 DEF CarriesSkips
<1>11. Head(ts) = SkipBody(j, SkipPosOf(Head(ts)))
  <2>1. 1 \in 1 .. n
    BY <1>8
  <2> QED  BY <1>9, <1>10, <2>1, Zenon
<1>12. \A k \in 1 .. n - 1 : Tail(ts)[k] = SkipBody(j, SkipPosOf(Tail(ts)[k]))
  <2> TAKE k \in 1 .. n - 1
  <2>1. k + 1 \in 1 .. n
    BY <1>8
  <2>2. ts[k + 1] = SkipBody(j, SkipPosOf(ts[k + 1])) /\ Tail(ts)[k] = ts[k + 1]
    BY <1>9, <1>10, <2>1, Zenon
  <2> QED  BY <2>2, Zenon
<1>13. SkipPosns(Tail(ts)) = Tail(ps)
  BY <1>3, SkipPosnsTail
<1>14. CarriesSkips(Tail(ts), j, c, b)
  BY <1>7, <1>9, <1>12, <1>13 DEF CarriesSkips
<1> QED  BY <1>3, <1>6, <1>11, <1>14 DEF q0, c

\* Skips are put on their link.
LEMMA CarriesSkipsAppend ==
    ASSUME NEW ts \in Seq(Tensors), NEW j, NEW a, NEW b \in Position, CarriesSkips(ts, j, a, b),
           NEW r \in Nat, NEW t \in Nat, NEW p \in Segments,
           Place(r, t, p, 1) \in DueSkips(j), Same(DueSkips(j), b, Place(r, t, p, 1)),
           NEW x \in Tensors, SkipPosOf(x) = Place(r, t, p, 1),
           x = SkipBody(j, Place(r, t, p, 1))
    PROVE  CarriesSkips(Append(ts, x), j, a, Place(r, t, p, 2))
<1> DEFINE q0 == Place(r, t, p, 1)
           c  == Place(r, t, p, 2)
<1>1. Passes(DueSkips(j), b, q0, c)
  <2>1. Passes(DueSkips(j), Place(r, t, p, 1), Place(r, t, p, 1), Place(r, t, p, 1 + 1))
    BY Passed, DueTypes
  <2>2. 1 + 1 = 2
    OBVIOUS
  <2>3. Passes(DueSkips(j), q0, q0, c)
    BY <2>1, <2>2
  <2>4. Same(DueSkips(j), b, q0)
    OBVIOUS
  <2> HIDE DEF q0, c
  <2> QED  BY <2>3, <2>4, SameFacts, Zenon
<1>2. \A q \in DueSkips(j) : Before(q, b) => Before(q, q0)
  BY DEF Same
<1>3. PICK ps \in Seq(Position) : ps = SkipPosns(ts)
  BY SkipPosnsFacts
<1>4. Holds(ps, DueSkips(j), a, b)
  BY <1>3 DEF CarriesSkips
<1>5. DueSkips(j) \in SUBSET Position
  BY DueTypes
<1>6. SkipPosOf(x) = q0 /\ x = SkipBody(j, q0)
  OBVIOUS
<1> HIDE DEF q0, c
<1>7. Holds(Append(ps, q0), DueSkips(j), a, c)
  BY <1>1, <1>2, <1>3, <1>4, <1>5, HoldsAppend
<1>8. SkipPosns(Append(ts, x)) = Append(ps, q0)
  BY <1>3, <1>6, SkipPosnsAppend
<1>9. PICK n \in Nat : n = Len(ts)
  OBVIOUS
<1>10. /\ Len(Append(ts, x)) = n + 1 /\ Append(ts, x)[n + 1] = x
       /\ \A k \in 1 .. n : Append(ts, x)[k] = ts[k]
  BY <1>9, AppendProperties
<1>11. \A k \in 1 .. n : ts[k] = SkipBody(j, SkipPosOf(ts[k]))
  BY <1>9 DEF CarriesSkips
<1>12. \A k \in 1 .. n + 1 : Append(ts, x)[k] = SkipBody(j, SkipPosOf(Append(ts, x)[k]))
  <2> TAKE k \in 1 .. n + 1
  <2>1. CASE k = n + 1
    <3>1. x = SkipBody(j, SkipPosOf(x))
      BY <1>6, Zenon
    <3> QED  BY <1>10, <2>1, <3>1, Zenon
  <2>2. CASE k # n + 1
    <3>1. k \in 1 .. n
      BY <1>9, <2>2
    <3> QED  BY <1>10, <1>11, <3>1, Zenon
  <2> QED  BY <2>1, <2>2
<1>13. CarriesSkips(Append(ts, x), j, a, c)
  BY <1>7, <1>8, <1>10, <1>12 DEF CarriesSkips
<1> QED  BY <1>13 DEF c

(* What an action leaves alone. *)

Static == model' = model /\ plan' = plan

\* Where a stage is in its loops, and all it holds.
SameWhere(k) == /\ request'[k] = request[k] /\ phase'[k] = phase[k]
                /\ step'[k] = step[k] /\ patch'[k] = patch[k]

SameTasks(k) == /\ recv_tasks_queue'[k] = recv_tasks_queue[k]
                /\ receiving_tasks'[k] = receiving_tasks[k]
                /\ recv_skip_tasks_queue'[k] = recv_skip_tasks_queue[k]
                /\ receiving_skip_tasks'[k] = receiving_skip_tasks[k]

SameBuffers(k) == /\ recv_shape'[k] = recv_shape[k] /\ send_shape'[k] = send_shape[k]
                  /\ recv_buffer'[k] = recv_buffer[k] /\ skip_buffer'[k] = skip_buffer[k]
                  /\ latents'[k] = latents[k] /\ patch_latents'[k] = patch_latents[k]

Kept(k) == /\ pc'[k] = pc[k] /\ io'[k] = io[k]
           /\ pipeline_patch_idx'[k] = pipeline_patch_idx[k]
           /\ first_async_recv'[k] = first_async_recv[k]
           /\ SameWhere(k) /\ SameTasks(k) /\ SameBuffers(k)

\* Model and plan give the blocks, the skips and the warm-up,
LEMMA StaticRules ==
    ASSUME Static
    PROVE  \A j : /\ SendsSkip(j)' = SendsSkip(j) /\ ReceivesSkip(j)' = ReceivesSkip(j)
                  /\ Blocks(j)' = Blocks(j) /\ Bound(j)' = Bound(j) /\ Prefix(j)' = Prefix(j)
                  /\ SyncSteps(j)' = SyncSteps(j)
<1>1. model' = model /\ plan' = plan
  BY DEF Static
<1> TAKE j
<1>2. SendsSkip(j)' = SendsSkip(j) /\ ReceivesSkip(j)' = ReceivesSkip(j)
  BY <1>1 DEF SendsSkip, ReceivesSkip
<1>3. Blocks(j)' = Blocks(j)
  BY <1>1 DEF Blocks, LayersBefore
<1>4. Bound(j)' = Bound(j)
  BY <1>1 DEF Bound, LayersBefore
<1>5. Prefix(j)' = Prefix(j)
  BY <1>4 DEF Prefix
<1>6. SyncSteps(j)' = SyncSteps(j)
  BY <1>1 DEF SyncSteps
<1> QED  BY <1>2, <1>3, <1>4, <1>5, <1>6

\* the tensors at a place,
LEMMA StaticBodies ==
    ASSUME Static
    PROVE  \A j, q : /\ Body(j, q)' = Body(j, q) /\ SkipBody(j, q)' = SkipBody(j, q)
                     /\ Receives(j, q)' = Receives(j, q)
<1>1. plan' = plan
  BY DEF Static
<1> TAKE j, q
<1>2. Receives(j, q)' = Receives(j, q)
  BY <1>1 DEF Receives, ReceiptsEnd
<1>3. Body(j, q)' = Body(j, q)
  BY StaticRules DEF Body
<1>4. SkipBody(j, q)' = SkipBody(j, q)
  <2>1. Blocks(skip_rank(j))' = Blocks(skip_rank(j))
    BY StaticRules
  <2> QED  BY <2>1 DEF SkipBody
<1> QED  BY <1>2, <1>3, <1>4

\* and all that is due.
LEMMA StaticDue ==
    ASSUME Static
    PROVE  \A j : Due(j)' = Due(j) /\ DueSkips(j)' = DueSkips(j)
<1> TAKE j
<1>1. \A q : Receives(j, q)' = Receives(j, q)
  BY StaticBodies
<1>2. Due(j)' = Due(j)
  BY <1>1 DEF Due
<1>3. DueSkips(j)' = DueSkips(j)
  BY <1>1 DEF DueSkips
<1> QED  BY <1>2, <1>3

\* The loop indices of a stage give its places and what its loops do.
LEMMA WhereRules ==
    ASSUME Static, NEW k, SameWhere(k)
    PROVE  /\ Timestep(k)' = Timestep(k) /\ Segment(k)' = Segment(k) /\ LoopSteps(k)' = LoopSteps(k)
           /\ InLastStep(k)' = InLastStep(k) /\ NeedsReceive(k)' = NeedsReceive(k)
           /\ Sends(k)' = Sends(k) /\ Prefetches(k)' = Prefetches(k)
           /\ NextRequest(k)' = NextRequest(k) /\ ToPost(k)' = ToPost(k)
           /\ \A m : Here(k, m)' = Here(k, m) /\ Following(k, m)' = Following(k, m)
<1>1. /\ request'[k] = request[k] /\ phase'[k] = phase[k]
      /\ step'[k] = step[k] /\ patch'[k] = patch[k] /\ plan' = plan
  BY DEF SameWhere, Static
<1>2. Timestep(k)' = Timestep(k)
  BY <1>1 DEF Timestep
<1>3. Segment(k)' = Segment(k)
  BY <1>1 DEF Segment
<1>4. LoopSteps(k)' = LoopSteps(k)
  BY <1>1 DEF LoopSteps, SyncSteps
<1>5. InLastStep(k)' = InLastStep(k)
  BY <1>1, <1>4 DEF InLastStep
<1>6. NeedsReceive(k)' = NeedsReceive(k)
  BY <1>1 DEF NeedsReceive
<1>7. Sends(k)' = Sends(k)
  BY <1>1, <1>5 DEF Sends
<1>8. Prefetches(k)' = Prefetches(k)
  BY <1>1, <1>5, <1>6 DEF Prefetches
<1>9. NextRequest(k)' = NextRequest(k)
  BY <1>1 DEF NextRequest
<1>10. \A m : Here(k, m)' = Here(k, m)
  BY <1>1, <1>2, <1>3 DEF Here
<1>11. \A m : Following(k, m)' = Following(k, m)
  BY <1>1, <1>2 DEF Following
<1>12. ToPost(k)' = ToPost(k)
  BY <1>1 DEF ToPost
<1> QED  BY <1>2, <1>3, <1>4, <1>5, <1>6, <1>7, <1>8, <1>9, <1>10, <1>11, <1>12

\* A stage that is left alone has its links where they were.
LEMMA KeptPlaces ==
    ASSUME Static, NEW k, Kept(k)
    PROVE  /\ RecvPos(k)' = RecvPos(k) /\ SendPos(k)' = SendPos(k)
           /\ SkipRecvPos(k)' = SkipRecvPos(k) /\ SkipSendPos(k)' = SkipSendPos(k)
           /\ \A m : Wanted(k, m)' = Wanted(k, m)
<1>1. pc'[k] = pc[k] /\ io'[k] = io[k] /\ SameWhere(k) /\ SameTasks(k)
  BY DEF Kept
<1>2. receiving_tasks'[k] = receiving_tasks[k] /\ receiving_skip_tasks'[k] = receiving_skip_tasks[k]
  BY <1>1 DEF SameTasks
<1>3. \A m : Wanted(k, m)' = Wanted(k, m)
  BY <1>1, WhereRules DEF Wanted
<1>4. \A m : Here(k, m)' = Here(k, m)
  BY <1>1, WhereRules
<1>5. NextRequest(k)' = NextRequest(k) /\ Timestep(k)' = Timestep(k) /\ Segment(k)' = Segment(k)
      /\ request'[k] = request[k]
  BY <1>1, WhereRules DEF SameWhere
<1>6. RecvPos(k)' = RecvPos(k)
  BY <1>1, <1>2, <1>3, <1>4, <1>5 DEF RecvPos
<1>7. SkipRecvPos(k)' = SkipRecvPos(k)
  BY <1>1, <1>2, <1>3, <1>4, <1>5 DEF SkipRecvPos
<1>8. SendPos(k)' = SendPos(k)
  BY <1>1, <1>5 DEF SendPos
<1>9. SkipSendPos(k)' = SkipSendPos(k)
  BY <1>1, <1>4, <1>5 DEF SkipSendPos
<1> QED  BY <1>3, <1>6, <1>7, <1>8, <1>9

\* All but the shapes, and what is inside a receive or a send.
KeptData(k) == /\ pc'[k] = pc[k] /\ SameWhere(k) /\ SameTasks(k)
               /\ pipeline_patch_idx'[k] = pipeline_patch_idx[k]
               /\ first_async_recv'[k] = first_async_recv[k]
               /\ recv_buffer'[k] = recv_buffer[k] /\ skip_buffer'[k] = skip_buffer[k]
               /\ latents'[k] = latents[k] /\ patch_latents'[k] = patch_latents[k]

\* What a stage has received and made while its data is left alone.
LEMMA DataKept ==
    ASSUME Static, NEW k, KeptData(k), Receipts(k), Buffers(k), SkipBuffers(k), Latents(k)
    PROVE  Receipts(k)' /\ Buffers(k)' /\ SkipBuffers(k)' /\ Latents(k)'
<1>1. /\ pc'[k] = pc[k] /\ SameWhere(k) /\ SameTasks(k)
      /\ recv_buffer'[k] = recv_buffer[k] /\ skip_buffer'[k] = skip_buffer[k]
      /\ latents'[k] = latents[k] /\ patch_latents'[k] = patch_latents[k]
      /\ first_async_recv'[k] = first_async_recv[k]
  BY DEF KeptData
<1>2. /\ request'[k] = request[k] /\ phase'[k] = phase[k] /\ step'[k] = step[k] /\ patch'[k] = patch[k]
      /\ plan' = plan
  BY <1>1 DEF SameWhere, Static
<1>3. /\ SendsSkip(k)' = SendsSkip(k) /\ ReceivesSkip(k)' = ReceivesSkip(k)
      /\ Prefix(k + 1)' = Prefix(k + 1) /\ Prefix(k)' = Prefix(k)
  BY StaticRules
<1>4. /\ Timestep(k)' = Timestep(k) /\ Segment(k)' = Segment(k) /\ LoopSteps(k)' = LoopSteps(k)
      /\ NeedsReceive(k)' = NeedsReceive(k) /\ Sends(k)' = Sends(k) /\ Prefetches(k)' = Prefetches(k)
      /\ ToPost(k)' = ToPost(k) /\ InLastStep(k)' = InLastStep(k)
      /\ \A m : Here(k, m)' = Here(k, m) /\ Following(k, m)' = Following(k, m)
  BY <1>1, WhereRules
<1>5. \A m : Wanted(k, m)' = Wanted(k, m)
  BY <1>1, <1>4 DEF Wanted
<1>6. Receipts(k)'
  <2>1. Outstanding(k)' = Outstanding(k)
    BY <1>1, <1>2, <1>4 DEF Outstanding
  <2>2. SkipOutstanding(k)' = SkipOutstanding(k)
    BY <1>1, <1>2, <1>3, <2>1 DEF SkipOutstanding
  <2>3. Posted(k)' = Posted(k)
    BY <1>1, <1>2, <1>4 DEF Posted
  <2>4. /\ recv_tasks_queue'[k] = recv_tasks_queue[k] /\ receiving_tasks'[k] = receiving_tasks[k]
        /\ recv_skip_tasks_queue'[k] = recv_skip_tasks_queue[k]
        /\ receiving_skip_tasks'[k] = receiving_skip_tasks[k]
    BY <1>1 DEF SameTasks
  <2>5. Queue(k)' = Queue(k)
    BY <1>1, <1>2, <1>4, <2>3, <2>4 DEF Queue
  <2>6. Wanted(k, 1)' = Wanted(k, 1)
    BY <1>5
  <2> QED  BY <1>3, <2>1, <2>2, <2>4, <2>5, <2>6 DEF Receipts
<1>7. Buffers(k)'
  <2>1. recv_buffer'[k] = recv_buffer[k] /\ receiving_tasks'[k] = receiving_tasks[k]
    BY <1>1 DEF SameTasks
  <2>2. Wanted(k, 1)' = Wanted(k, 1) /\ Here(k, 1)' = Here(k, 1)
    BY <1>4, <1>5
  <2>3. \A q : Body(k, q)' = Body(k, q)
    BY StaticBodies
  <2>4. Body(k, Wanted(k, 1))' = Body(k, Wanted(k, 1)) /\ Body(k, Here(k, 1))' = Body(k, Here(k, 1))
        /\ Body(k, Place(request[k], Warmup, Whole, 1))' = Body(k, Place(request[k], Warmup, Whole, 1))
    BY <1>2, <1>3, <2>2 DEF Body
  <2> QED  BY <1>1, <1>2, <1>4, <2>1, <2>2, <2>4 DEF Buffers
<1>8. SkipBuffers(k)'
  <2>1. skip_buffer'[k] = skip_buffer[k] /\ receiving_skip_tasks'[k] = receiving_skip_tasks[k]
    BY <1>1 DEF SameTasks
  <2>2. Wanted(k, 1)' = Wanted(k, 1) /\ Here(k, 1)' = Here(k, 1)
    BY <1>4, <1>5
  <2>3. Blocks(skip_rank(k))' = Blocks(skip_rank(k))
    BY StaticRules
  <2>4. SkipBody(k, Wanted(k, 1))' = SkipBody(k, Wanted(k, 1)) /\ SkipBody(k, Here(k, 1))' = SkipBody(k, Here(k, 1))
    BY <2>2, <2>3 DEF SkipBody
  <2> QED  BY <1>1, <1>2, <1>3, <1>4, <2>1, <2>2, <2>4 DEF SkipBuffers
<1>9. Latents(k)'
  <2>1. latents'[k] = latents[k] /\ patch_latents'[k] = patch_latents[k]
    BY <1>1
  <2>2. Made(k)' = Made(k)
    BY <1>1 DEF Made
  <2>3. Held(k)' = Held(k)
    BY <1>1, <1>2, <2>1 DEF Held
  <2> QED  BY <1>1, <1>2, <1>3, <1>4, <2>1, <2>2, <2>3 DEF Latents
<1> QED  BY <1>6, <1>7, <1>8, <1>9

\* A stage that is left alone keeps its part of the invariant.
LEMMA KeptLocal ==
    ASSUME Static, NEW k, Kept(k), Local(k)
    PROVE  Local(k)'
<1>1. /\ pc'[k] = pc[k] /\ io'[k] = io[k] /\ SameWhere(k) /\ SameTasks(k) /\ SameBuffers(k)
      /\ pipeline_patch_idx'[k] = pipeline_patch_idx[k]
      /\ first_async_recv'[k] = first_async_recv[k]
  BY DEF Kept
<1>2. /\ request'[k] = request[k] /\ phase'[k] = phase[k] /\ step'[k] = step[k] /\ patch'[k] = patch[k]
      /\ plan' = plan
  BY <1>1 DEF SameWhere, Static
<1>3. /\ SendsSkip(k)' = SendsSkip(k) /\ ReceivesSkip(k)' = ReceivesSkip(k)
      /\ Prefix(k + 1)' = Prefix(k + 1) /\ Prefix(k)' = Prefix(k)
  BY StaticRules
<1>4. /\ Timestep(k)' = Timestep(k) /\ Segment(k)' = Segment(k) /\ LoopSteps(k)' = LoopSteps(k)
      /\ NeedsReceive(k)' = NeedsReceive(k) /\ Sends(k)' = Sends(k) /\ Prefetches(k)' = Prefetches(k)
      /\ ToPost(k)' = ToPost(k) /\ InLastStep(k)' = InLastStep(k)
  BY <1>1, WhereRules
<1>5. CallsReceive(k)' = CallsReceive(k)
  BY <1>1, <1>2, <1>4 DEF CallsReceive
<1>6. Ctl(k)'
  BY <1>1, <1>2, <1>3, <1>4, <1>5 DEF Ctl, Local
<1>7. Receipts(k)' /\ Buffers(k)' /\ SkipBuffers(k)' /\ Latents(k)'
  <2>1. KeptData(k)
    BY <1>1 DEF KeptData, SameBuffers
  <2> QED  BY <2>1, DataKept DEF Local
<1>8. Shapes(k)'
  <2>1. \A j : Due(j)' = Due(j)
    BY StaticDue
  <2>2. RecvPos(k)' = RecvPos(k) /\ SendPos(k)' = SendPos(k)
    BY KeptPlaces
  <2>3. recv_shape'[k] = recv_shape[k] /\ send_shape'[k] = send_shape[k]
    BY <1>1 DEF SameBuffers
  <2>4. ASSUME NEW s
        PROVE  /\ Known(k, request[k], s, RecvPos(k))' = Known(k, request[k], s, RecvPos(k))
               /\ Known(next_rank(k), request[k], s, SendPos(k))' = Known(next_rank(k), request[k], s, SendPos(k))
    BY <1>2, <2>1, <2>2 DEF Known
  <2> QED  BY <1>1, <1>2, <2>3, <2>4 DEF Shapes, Local
<1> QED  BY <1>6, <1>7, <1>8 DEF Local

-----------------------------------------------------------------------------
(* A stage in a state of the invariant. *)

\* The types of a stage's variables,
LEMMA TypesAt ==
    ASSUME Types, NEW i \in Stages
    PROVE  /\ model \in Models /\ plan \in Plans
           /\ request[i] \in Nat /\ pc[i] \in Places /\ step[i] \in Nat /\ patch[i] \in Patches
           /\ phase[i] \in {"warmup", "alone", "handover", "async"} /\ io[i] \in {"idle", "sync"}
           /\ first_async_recv[i] \in BOOLEAN
           /\ link[i] \in Seq(Messages) /\ skip_link[i] \in Seq(Tensors)
           /\ recv_tasks_queue[i] \in Seq(Patches) /\ recv_skip_tasks_queue[i] \in Seq(Patches)
           /\ receiving_tasks[i] \in Seq(Tasks) /\ receiving_skip_tasks[i] \in Seq(Tasks)
BY DEF Types

\* The places of a stage are positions.
LEMMA PlacesTyped ==
    ASSUME Types, NEW i \in Stages
    PROVE  /\ Timestep(i) \in Nat /\ Segment(i) \in Segments
           /\ \A m \in 0 .. 2 : Here(i, m) \in Position
           /\ SendPos(i) \in Position /\ SkipSendPos(i) \in Position
<1>1. Timestep(i) \in Nat /\ Segment(i) \in Segments
  <2>1. step[i] \in Nat /\ patch[i] \in Segments /\ Whole \in Segments /\ Warmup \in Nat
    BY TypesAt, SegmentFacts
  <2> QED  BY <2>1 DEF Timestep, Segment
<1>2. \A m \in 0 .. 2 : Here(i, m) \in Position
  BY <1>1, TypesAt, PlaceTyped DEF Here
<1>3. request[i] \in Nat /\ request[i] + 1 \in Nat /\ Timestep(i) + Lag(next_rank(i)) \in Nat
      /\ 0 \in Nat /\ Whole \in Segments
  BY <1>1, TypesAt, LagFacts, SegmentFacts
<1>4. NextRequest(i) \in Position
  BY <1>3, PlaceTyped DEF NextRequest
<1>5. ASSUME NEW m \in 0 .. 2
      PROVE  Place(request[i], Timestep(i) + Lag(next_rank(i)), Segment(i), m) \in Position
  BY <1>1, <1>3, PlaceTyped
<1>6. SendPos(i) \in Position
  BY <1>4, <1>5 DEF SendPos
<1>7. SkipSendPos(i) \in Position
  BY <1>2, <1>4 DEF SkipSendPos
<1> QED  BY <1>1, <1>2, <1>6, <1>7

\* A link whose stages moved.
LEMMA LinkNext ==
    ASSUME Static, NEW i, Carries(link'[i], next_rank(i), RecvPos(next_rank(i))', SendPos(i)')
    PROVE  Link(i)'
<1>1. Due(next_rank(i))' = Due(next_rank(i))
  BY StaticDue
<1>2. \A q : Body(next_rank(i), q)' = Body(next_rank(i), q)
  BY StaticBodies
<1>3. \A k : Body(next_rank(i), PosOf(link[i][k]))' = Body(next_rank(i), PosOf(link'[i][k]))
  BY StaticRules DEF Body
<1> QED  BY <1>1, <1>3 DEF Link, Carries

\* A skip link in the next state.
LEMMA SkipLinkNext ==
    ASSUME Static, NEW i,
           IF SendsSkip(i)
           THEN CarriesSkips(skip_link'[i], skip_rank(i), SkipRecvPos(skip_rank(i))', SkipSendPos(i)')
           ELSE skip_link'[i] = <<>>
    PROVE  SkipLink(i)'
<1>1. DueSkips(skip_rank(i))' = DueSkips(skip_rank(i)) /\ SendsSkip(i)' = SendsSkip(i)
  BY StaticDue, StaticRules
<1>2. Blocks(skip_rank(skip_rank(i)))' = Blocks(skip_rank(skip_rank(i)))
  BY StaticRules
<1>3. \A k : SkipBody(skip_rank(i), SkipPosOf(skip_link[i][k]))'
                 = SkipBody(skip_rank(i), SkipPosOf(skip_link'[i][k]))
  BY <1>2 DEF SkipBody
<1> QED  BY <1>1, <1>3 DEF SkipLink, CarriesSkips

\* The other stages are left alone, the links are those of the stage that moves.
Others(i) == \A k \in Stages :
    /\ k # i => Kept(k)
    /\ k # i /\ k # prev_rank(i) => link'[k] = link[k]
    /\ k # i /\ k # skip_rank(i) => skip_link'[k] = skip_link[k]

\* The invariant of the next state from the stage that moved and its links.
LEMMA Together ==
    ASSUME Inv, Static, NEW i \in Stages, Others(i), Types', Local(i)',
           Link(i)', Link(prev_rank(i))', SkipLink(i)', SkipLink(skip_rank(i))'
    PROVE  Inv'
<1>1. ASSUME NEW k \in Stages PROVE Local(k)'
  <2>1. CASE k = i
    BY <2>1
  <2>2. CASE k # i
    BY <2>2, KeptLocal DEF Others, Inv
  <2> QED  BY <2>1, <2>2
<1>2. ASSUME NEW k \in Stages PROVE Link(k)'
  <2>1. CASE k = i
    BY <2>1
  <2>2. CASE k = prev_rank(i)
    BY <2>2
  <2>3. CASE k # i /\ k # prev_rank(i)
    <3>1. next_rank(k) # i /\ next_rank(k) \in Stages
      BY <2>3, Ring
    <3>2. Kept(k) /\ Kept(next_rank(k)) /\ link'[k] = link[k]
      BY <2>3, <3>1 DEF Others
    <3>3. RecvPos(next_rank(k))' = RecvPos(next_rank(k)) /\ SendPos(k)' = SendPos(k)
      BY <3>2, KeptPlaces
    <3>4. Carries(link[k], next_rank(k), RecvPos(next_rank(k)), SendPos(k))
      BY DEF Inv, Link
    <3> QED  BY <3>2, <3>3, <3>4, LinkNext
  <2> QED  BY <2>1, <2>2, <2>3
<1>3. ASSUME NEW k \in Stages PROVE SkipLink(k)'
  <2>1. CASE k = i
    BY <2>1
  <2>2. CASE k = skip_rank(i)
    BY <2>2
  <2>3. CASE k # i /\ k # skip_rank(i)
    <3>1. skip_rank(k) # i /\ skip_rank(k) \in Stages
      BY <2>3, Mirror DEF Inv, Types
    <3>2. Kept(k) /\ Kept(skip_rank(k)) /\ skip_link'[k] = skip_link[k]
      BY <2>3, <3>1 DEF Others
    <3>3. SkipRecvPos(skip_rank(k))' = SkipRecvPos(skip_rank(k)) /\ SkipSendPos(k)' = SkipSendPos(k)
      BY <3>2, KeptPlaces
    <3>4. SkipLink(k)
      BY DEF Inv
    <3>5. IF SendsSkip(k)
          THEN CarriesSkips(skip_link'[k], skip_rank(k), SkipRecvPos(skip_rank(k))', SkipSendPos(k)')
          ELSE skip_link'[k] = <<>>
      BY <3>2, <3>3, <3>4 DEF SkipLink
    <3> QED  BY <3>5, SkipLinkNext
  <2> QED  BY <2>1, <2>2, <2>3
<1> QED  BY <1>1, <1>2, <1>3 DEF Inv

-----------------------------------------------------------------------------
(* What becomes of the links when a stage moves. *)

RecvStays(i) == Same(Due(i), RecvPos(i), RecvPos(i)')
SendStays(i) == Same(Due(next_rank(i)), SendPos(i), SendPos(i)')
SkipRecvStays(i) == ReceivesSkip(i) => Same(DueSkips(i), SkipRecvPos(i), SkipRecvPos(i)')
SkipSendStays(i) == SendsSkip(i) => Same(DueSkips(skip_rank(i)), SkipSendPos(i), SkipSendPos(i)')

\* The stage receives nothing and its place passes nothing due.
LEMMA RecvKeeps ==
    ASSUME Inv, Static, NEW i \in Stages, Others(i), link'[prev_rank(i)] = link[prev_rank(i)], RecvStays(i)
    PROVE  Link(prev_rank(i))'
<1> DEFINE k == prev_rank(i)
<1>1. k \in Stages /\ k # i /\ next_rank(k) = i
  BY Ring
<1> HIDE DEF k
<1>2. SendPos(k)' = SendPos(k)
  BY <1>1, KeptPlaces DEF Others
<1>3. Carries(link[k], i, RecvPos(i), SendPos(k))
  BY <1>1 DEF Inv, Link
<1>4. Same(Due(i), SendPos(k), SendPos(k))
  BY SameFacts
<1>5. Carries(link[k], i, RecvPos(i)', SendPos(k)')
  BY <1>2, <1>3, <1>4, CarriesSame DEF RecvStays
<1>6. link'[k] = link[k]
  BY DEF k
<1>7. Link(k)'
  BY <1>1, <1>5, <1>6, LinkNext
<1> QED  BY <1>7 DEF k

\* The stage takes the oldest message, which is the next that is due to it.
LEMMA RecvTakes ==
    ASSUME Inv, Static, NEW i \in Stages, Others(i), link[prev_rank(i)] # <<>>,
           link'[prev_rank(i)] = Tail(link[prev_rank(i)]),
           NEW r \in Nat, NEW t \in Nat, NEW p \in Segments, NEW m \in 0 .. 1,
           Place(r, t, p, m) \in Due(i), Same(Due(i), RecvPos(i), Place(r, t, p, m)),
           RecvPos(i)' = Place(r, t, p, m + 1)
    PROVE  Link(prev_rank(i))'
<1> DEFINE k == prev_rank(i)
<1>1. k \in Stages /\ k # i /\ next_rank(k) = i
  BY Ring
<1>2. link'[k] = Tail(link[k]) /\ link[k] # <<>>
  OBVIOUS
<1> HIDE DEF k
<1>3. SendPos(k)' = SendPos(k)
  BY <1>1, KeptPlaces DEF Others
<1>4. Carries(link[k], i, RecvPos(i), SendPos(k)) /\ link[k] \in Seq(Messages) /\ SendPos(k) \in Position
  BY <1>1, TypesAt, PlacesTyped DEF Inv, Link
<1>5. Carries(Tail(link[k]), i, Place(r, t, p, m + 1), SendPos(k))
  BY <1>2, <1>4, CarriesTail
<1>6. Carries(link'[k], i, RecvPos(i)', SendPos(k)')
  BY <1>2, <1>3, <1>5
<1>7. Link(k)'
  BY <1>1, <1>6, LinkNext
<1> QED  BY <1>7 DEF k

\* The oldest message of a link is the one its receiver comes to.
LEMMA FirstMessage ==
    ASSUME Inv, NEW i \in Stages, link[prev_rank(i)] # <<>>,
           NEW r \in Nat, NEW t \in Nat, NEW p \in Segments, NEW m \in 0 .. 1,
           Place(r, t, p, m) \in Due(i), Same(Due(i), RecvPos(i), Place(r, t, p, m))
    PROVE  /\ Head(link[prev_rank(i)]).kind = IF m = 0 THEN "shape" ELSE "data"
           /\ Head(link[prev_rank(i)]).body = Body(i, Place(r, t, p, m))
<1> DEFINE k == prev_rank(i)
<1>1. k \in Stages /\ k # i /\ next_rank(k) = i /\ link[k] # <<>>
  BY Ring
<1> HIDE DEF k
<1>4. Carries(link[k], i, RecvPos(i), SendPos(k)) /\ link[k] \in Seq(Messages) /\ SendPos(k) \in Position
  BY <1>1, TypesAt, PlacesTyped DEF Inv, Link
<1>5. PosOf(Head(link[k])) = Place(r, t, p, m) /\ Head(link[k]).body = Body(i, Place(r, t, p, m))
  BY <1>1, <1>4, CarriesTail
<1>6. Head(link[k]) \in Messages
  BY <1>1, <1>4, HeadTailProperties
<1>7. Head(link[k]).kind \in {"shape", "data"}
  BY <1>6 DEF Messages
<1>8. m = IF Head(link[k]).kind = "shape" THEN 0 ELSE 1
  BY <1>5, PlaceParts DEF PosOf
<1>9. Head(link[k]).kind = IF m = 0 THEN "shape" ELSE "data"
  BY <1>7, <1>8
<1> QED  BY <1>5, <1>9 DEF k

\* The stage sends nothing and its place passes nothing due.
LEMMA SendKeeps ==
    ASSUME Inv, Static, NEW i \in Stages, Others(i), link'[i] = link[i], SendStays(i)
    PROVE  Link(i)'
<1>1. next_rank(i) \in Stages /\ next_rank(i) # i
  BY Ring
<1>2. RecvPos(next_rank(i))' = RecvPos(next_rank(i))
  BY <1>1, KeptPlaces DEF Others
<1>3. Carries(link[i], next_rank(i), RecvPos(next_rank(i)), SendPos(i))
  BY DEF Inv, Link
<1>4. Same(Due(next_rank(i)), RecvPos(next_rank(i)), RecvPos(next_rank(i)))
  BY SameFacts
<1>5. Carries(link[i], next_rank(i), RecvPos(next_rank(i))', SendPos(i)')
  BY <1>2, <1>3, <1>4, CarriesSame DEF SendStays
<1> QED  BY <1>5, LinkNext

\* The stage sends the next that is due to the one after it.
LEMMA SendPuts ==
    ASSUME Inv, Static, NEW i \in Stages, Others(i),
           NEW msg \in Messages, link'[i] = Append(link[i], msg),
           NEW r \in Nat, NEW t \in Nat, NEW p \in Segments, NEW m \in 0 .. 1,
           Place(r, t, p, m) \in Due(next_rank(i)),
           Same(Due(next_rank(i)), SendPos(i), Place(r, t, p, m)),
           SendPos(i)' = Place(r, t, p, m + 1),
           msg.body = Body(next_rank(i), Place(r, t, p, m)),
           msg.kind = IF m = 0 THEN "shape" ELSE "data"
    PROVE  Link(i)'
<1>1. next_rank(i) \in Stages /\ next_rank(i) # i
  BY Ring
<1>2. RecvPos(next_rank(i))' = RecvPos(next_rank(i))
  BY <1>1, KeptPlaces DEF Others
<1>3. Carries(link[i], next_rank(i), RecvPos(next_rank(i)), SendPos(i)) /\ link[i] \in Seq(Messages)
      /\ SendPos(i) \in Position
  BY TypesAt, PlacesTyped DEF Inv, Link
<1>4. PosOf(msg) = Place(r, t, p, m)
  BY PlaceParts DEF PosOf, Body, Tensor
<1>5. Carries(Append(link[i], msg), next_rank(i), RecvPos(next_rank(i)), Place(r, t, p, m + 1))
  BY <1>3, <1>4, CarriesAppend
<1>6. Carries(link'[i], next_rank(i), RecvPos(next_rank(i))', SendPos(i)')
  BY <1>2, <1>5
<1> QED  BY <1>6, LinkNext

\* The stage receives no skips.
LEMMA SkipRecvKeeps ==
    ASSUME Inv, Static, NEW i \in Stages, Others(i), skip_link'[skip_rank(i)] = skip_link[skip_rank(i)],
           SkipRecvStays(i)
    PROVE  skip_rank(i) # i => SkipLink(skip_rank(i))'
<1> DEFINE k == skip_rank(i)
<1> SUFFICES ASSUME k # i PROVE SkipLink(k)'
  OBVIOUS
<1>1. k \in Stages /\ skip_rank(k) = i /\ (SendsSkip(k) => ReceivesSkip(i))
  BY Mirror DEF Inv, Types
<1>2. skip_link'[k] = skip_link[k]
  OBVIOUS
<1> HIDE DEF k
<1>3. SkipSendPos(k)' = SkipSendPos(k)
  BY <1>1, KeptPlaces DEF Others
<1>4. SkipLink(k)
  BY <1>1 DEF Inv
<1>5. CASE SendsSkip(k)
  <2>1. CarriesSkips(skip_link[k], i, SkipRecvPos(i), SkipSendPos(k))
    BY <1>1, <1>4, <1>5 DEF SkipLink
  <2>2. Same(DueSkips(i), SkipSendPos(k), SkipSendPos(k))
    BY SameFacts
  <2>3. CarriesSkips(skip_link[k], i, SkipRecvPos(i)', SkipSendPos(k)')
    BY <1>1, <1>3, <1>5, <2>1, <2>2, CarriesSkipsSame DEF SkipRecvStays
  <2> QED  BY <1>1, <1>2, <1>5, <2>3, SkipLinkNext
<1>6. CASE ~SendsSkip(k)
  BY <1>2, <1>4, <1>6, SkipLinkNext DEF SkipLink
<1> QED  BY <1>5, <1>6

\* The stage sends no skips.
LEMMA SkipSendKeeps ==
    ASSUME Inv, Static, NEW i \in Stages, Others(i), skip_link'[i] = skip_link[i], SkipSendStays(i)
    PROVE  SkipLink(i)'
<1>1. skip_rank(i) \in Stages /\ (SendsSkip(i) => skip_rank(i) # i)
  BY Mirror DEF Inv, Types
<1>2. SkipLink(i)
  BY DEF Inv
<1>3. CASE SendsSkip(i)
  <2>1. CarriesSkips(skip_link[i], skip_rank(i), SkipRecvPos(skip_rank(i)), SkipSendPos(i))
    BY <1>2, <1>3 DEF SkipLink
  <2>2. SkipRecvPos(skip_rank(i))' = SkipRecvPos(skip_rank(i))
    BY <1>1, <1>3, KeptPlaces DEF Others
  <2>3. Same(DueSkips(skip_rank(i)), SkipRecvPos(skip_rank(i)), SkipRecvPos(skip_rank(i)))
    BY SameFacts
  <2>4. CarriesSkips(skip_link[i], skip_rank(i), SkipRecvPos(skip_rank(i))', SkipSendPos(i)')
    BY <1>3, <2>1, <2>2, <2>3, CarriesSkipsSame DEF SkipSendStays
  <2> QED  BY <1>3, <2>4, SkipLinkNext
<1>4. CASE ~SendsSkip(i)
  BY <1>2, <1>4, SkipLinkNext DEF SkipLink
<1> QED  BY <1>3, <1>4

\* The stage takes the oldest skips.
LEMMA SkipRecvTakes ==
    ASSUME Inv, Static, NEW i \in Stages, Others(i), ReceivesSkip(i), skip_link[skip_rank(i)] # <<>>,
           skip_link'[skip_rank(i)] = Tail(skip_link[skip_rank(i)]),
           NEW r \in Nat, NEW t \in Nat, NEW p \in Segments,
           Place(r, t, p, 1) \in DueSkips(i), Same(DueSkips(i), SkipRecvPos(i), Place(r, t, p, 1)),
           SkipRecvPos(i)' = Place(r, t, p, 2)
    PROVE  SkipLink(skip_rank(i))'
<1> DEFINE k == skip_rank(i)
<1>1. k \in Stages /\ skip_rank(k) = i /\ SendsSkip(k) /\ k # i
  BY Mirror DEF Inv, Types
<1>2. skip_link'[k] = Tail(skip_link[k]) /\ skip_link[k] # <<>>
  OBVIOUS
<1> HIDE DEF k
<1>3. SkipSendPos(k)' = SkipSendPos(k)
  BY <1>1, KeptPlaces DEF Others
<1>4. CarriesSkips(skip_link[k], i, SkipRecvPos(i), SkipSendPos(k)) /\ skip_link[k] \in Seq(Tensors)
      /\ SkipSendPos(k) \in Position
  BY <1>1, TypesAt, PlacesTyped DEF Inv, SkipLink
<1>5. CarriesSkips(Tail(skip_link[k]), i, Place(r, t, p, 2), SkipSendPos(k))
  BY <1>2, <1>4, CarriesSkipsTail
<1>6. CarriesSkips(skip_link'[k], i, SkipRecvPos(i)', SkipSendPos(k)')
  BY <1>2, <1>3, <1>5
<1>7. SkipLink(k)'
  BY <1>1, <1>6, SkipLinkNext
<1> QED  BY <1>7 DEF k

\* The oldest skips on their link are those that are due.
LEMMA FirstSkip ==
    ASSUME Inv, NEW i \in Stages, ReceivesSkip(i), skip_link[skip_rank(i)] # <<>>,
           NEW r \in Nat, NEW t \in Nat, NEW p \in Segments,
           Place(r, t, p, 1) \in DueSkips(i), Same(DueSkips(i), SkipRecvPos(i), Place(r, t, p, 1))
    PROVE  Head(skip_link[skip_rank(i)]) = SkipBody(i, Place(r, t, p, 1))
<1> DEFINE k == skip_rank(i)
<1>1. k \in Stages /\ skip_rank(k) = i /\ SendsSkip(k) /\ skip_link[k] # <<>>
  BY Mirror DEF Inv, Types
<1> HIDE DEF k
<1>2. CarriesSkips(skip_link[k], i, SkipRecvPos(i), SkipSendPos(k)) /\ skip_link[k] \in Seq(Tensors)
      /\ SkipSendPos(k) \in Position
  BY <1>1, TypesAt, PlacesTyped DEF Inv, SkipLink
<1>3. Head(skip_link[k]) = SkipBody(i, Place(r, t, p, 1))
  BY <1>1, <1>2, CarriesSkipsTail
<1> QED  BY <1>3 DEF k

\* The stage sends the skips that are due to the mirrored one.
LEMMA SkipSendPuts ==
    ASSUME Inv, Static, NEW i \in Stages, Others(i), SendsSkip(i),
           NEW r \in Nat, NEW t \in Nat, NEW p \in Segments,
           Place(r, t, p, 1) \in DueSkips(skip_rank(i)),
           Same(DueSkips(skip_rank(i)), SkipSendPos(i), Place(r, t, p, 1)),
           SkipSendPos(i)' = Place(r, t, p, 2),
           SkipBody(skip_rank(i), Place(r, t, p, 1)) \in Tensors,
           skip_link'[i] = Append(skip_link[i], SkipBody(skip_rank(i), Place(r, t, p, 1)))
    PROVE  SkipLink(i)'
<1> DEFINE x == SkipBody(skip_rank(i), Place(r, t, p, 1))
<1>1. skip_rank(i) \in Stages /\ skip_rank(i) # i
  BY Mirror DEF Inv, Types
<1>2. SkipRecvPos(skip_rank(i))' = SkipRecvPos(skip_rank(i))
  BY <1>1, KeptPlaces DEF Others
<1>3. CarriesSkips(skip_link[i], skip_rank(i), SkipRecvPos(skip_rank(i)), SkipSendPos(i))
      /\ skip_link[i] \in Seq(Tensors) /\ SkipSendPos(i) \in Position
  BY TypesAt, PlacesTyped DEF Inv, SkipLink
<1>4. SkipPosOf(x) = Place(r, t, p, 1)
  BY PlaceParts DEF SkipPosOf, SkipBody, Tensor
<1>5. CarriesSkips(Append(skip_link[i], x), skip_rank(i), SkipRecvPos(skip_rank(i)), Place(r, t, p, 2))
  BY <1>3, <1>4, CarriesSkipsAppend
<1>6. CarriesSkips(skip_link'[i], skip_rank(i), SkipRecvPos(skip_rank(i))', SkipSendPos(i)')
  BY <1>2, <1>5
<1> QED  BY <1>6, SkipLinkNext

-----------------------------------------------------------------------------
(* A step that moves no message. *)

\* No message is received or sent.
LEMMA Quiet ==
    ASSUME Inv, Static, NEW i \in Stages, Others(i), Types', Local(i)',
           link' = link, skip_link' = skip_link,
           RecvStays(i), SendStays(i), SkipRecvStays(i), SkipSendStays(i)
    PROVE  Inv'
<1>1. prev_rank(i) \in Stages /\ skip_rank(i) \in Stages
  BY Ring, Mirror DEF Inv, Types
<1>2. Link(i)' /\ Link(prev_rank(i))'
  BY RecvKeeps, SendKeeps
<1>3. SkipLink(i)'
  BY SkipSendKeeps
<1>4. SkipLink(skip_rank(i))'
  <2>1. CASE skip_rank(i) = i
    BY <2>1, <1>3
  <2>2. CASE skip_rank(i) # i
    BY <2>2, SkipRecvKeeps
  <2> QED  BY <2>1, <2>2
<1> QED  BY <1>2, <1>3, <1>4, Together

\* The same shapes are before the one place and the other.
SameShapes(S, a, b) == \A q \in S : q.sub = 0 => Before(q, b) = Before(q, a)

\* Places alike for all that is due are alike for the shapes.
LEMMA SameIsSameShapes ==
    ASSUME NEW S, NEW a, NEW b, Same(S, a, b)
    PROVE  SameShapes(S, a, b)
BY DEF Same, SameShapes

\* What shapes are known depends on the place among the shapes only.
LEMMA KnownStays ==
    ASSUME Static, NEW j, NEW r, NEW s, NEW a, NEW b, SameShapes(Due(j), a, b)
    PROVE  Known(j, r, s, b) = Known(j, r, s, a)
BY PlaceParts DEF Known, FirstShape, SameShapes

\* The shapes a stage knows, when it gets and sends none.
LEMMA ShapesStay ==
    ASSUME Inv, Static, NEW i \in Stages, pc[i] # "idle", request'[i] = request[i],
           recv_shape'[i] = recv_shape[i], send_shape'[i] = send_shape[i],
           SameShapes(Due(i), RecvPos(i), RecvPos(i)'),
           SameShapes(Due(next_rank(i)), SendPos(i), SendPos(i)')
    PROVE  Shapes(i)'
<1>1. Shapes(i)
  BY DEF Inv, Local
<1>2. plan' = plan
  BY DEF Static
<1>3. Due(i)' = Due(i) /\ Due(next_rank(i))' = Due(next_rank(i))
  BY StaticDue
<1>4. ASSUME NEW s
      PROVE  /\ Known(i, request[i], s, RecvPos(i))' = Known(i, request[i], s, RecvPos(i))
             /\ Known(next_rank(i), request[i], s, SendPos(i))' = Known(next_rank(i), request[i], s, SendPos(i))
  <2>1. Known(i, request[i], s, RecvPos(i)') = Known(i, request[i], s, RecvPos(i))
        /\ Known(next_rank(i), request[i], s, SendPos(i)') = Known(next_rank(i), request[i], s, SendPos(i))
    BY KnownStays
  <2> QED  BY <1>3, <2>1 DEF Known
<1> QED  BY <1>1, <1>2, <1>4 DEF Shapes

\* What the invariant says of a stage, at hand.
LEMMA StageFacts ==
    ASSUME Inv, NEW i \in Stages
    PROVE  /\ Types /\ Local(i) /\ Ctl(i) /\ Receipts(i) /\ Shapes(i) /\ Buffers(i) /\ SkipBuffers(i) /\ Latents(i)
           /\ model \in Models /\ plan \in Plans /\ Len(plan) \in Nat
           /\ pc[i] # "idle" => /\ request[i] \in 1 .. Len(plan)
                                /\ plan[request[i]].steps \in Nat /\ plan[request[i]].steps > 0
<1>1. Types /\ Local(i) /\ Ctl(i) /\ Receipts(i) /\ Shapes(i) /\ Buffers(i) /\ SkipBuffers(i) /\ Latents(i)
  BY DEF Inv, Local
<1>2. model \in Models /\ plan \in Plans /\ request[i] \in Nat
  BY <1>1, TypesAt
<1>3. pc[i] # "idle" => request[i] \in 1 .. Len(plan)
  BY <1>1, <1>2, PlanFacts DEF Ctl
<1> QED  BY <1>1, <1>2, <1>3, PlanFacts

-----------------------------------------------------------------------------
\* set_input_parameters and the start of a request.
LEMMA SetInputStep ==
    ASSUME Inv, NEW i \in Stages, SetInput(i)
    PROVE  Inv'
<1> DEFINE r == request[i] + 1
<1>1. /\ Types /\ Ctl(i) /\ model \in Models /\ plan \in Plans /\ Len(plan) \in Nat /\ request[i] \in Nat
      /\ pc[i] = "idle" /\ request[i] < Len(plan) /\ i \in Stages
  BY StageFacts, TypesAt DEF SetInput
<1>2. r \in 1 .. Len(plan) /\ r \in Nat /\ plan[r].steps \in Nat /\ plan[r].steps > 0
  BY <1>1, PlanFacts
<1>3. Static /\ Others(i) /\ link' = link /\ skip_link' = skip_link
  BY <1>1 DEF SetInput, Static, Others, Kept, SameWhere, SameTasks, SameBuffers, links, Types
<1>4. /\ pc'[i] = "receive" /\ request'[i] = r /\ step'[i] = 0 /\ patch'[i] = patch[i]
      /\ phase'[i] = IF plan[r].steps > Warmup THEN "warmup" ELSE "alone"
      /\ io'[i] = io[i] /\ pipeline_patch_idx'[i] = 0 /\ first_async_recv'[i] = first_async_recv[i]
      /\ latents'[i] = Tensor(r, 0, Whole, <<>>) /\ recv_shape'[i] = Empty /\ send_shape'[i] = {}
      /\ recv_buffer'[i] = Empty /\ skip_buffer'[i] = Empty
      /\ recv_tasks_queue'[i] = <<>> /\ receiving_tasks'[i] = <<>>
      /\ recv_skip_tasks_queue'[i] = <<>> /\ receiving_skip_tasks'[i] = <<>>
      /\ plan' = plan /\ model' = model
  BY <1>1 DEF SetInput, Types, Tensor
<1> HIDE DEF r
<1>5. Types'
  <2>1. /\ request' \in [Stages -> Nat] /\ pc' \in [Stages -> Places]
        /\ phase' \in [Stages -> {"warmup", "alone", "handover", "async"}]
        /\ io' \in [Stages -> {"idle", "sync"}] /\ step' \in [Stages -> Nat]
        /\ patch' \in [Stages -> Patches] /\ pipeline_patch_idx' \in [Stages -> Patches]
        /\ first_async_recv' \in [Stages -> BOOLEAN] /\ model' \in Models /\ plan' \in Plans
    <3>1. 0 \in Patches
      BY SegmentFacts
    <3> QED  BY <1>1, <1>2, <3>1 DEF SetInput, Types, Places, r
  <2>2. /\ DOMAIN latents' = Stages /\ DOMAIN patch_latents' = Stages
        /\ \A k \in Stages : DOMAIN patch_latents'[k] = Patches
    BY <1>1 DEF SetInput, Types
  <2>3. /\ DOMAIN recv_shape' = Stages /\ DOMAIN recv_buffer' = Stages /\ DOMAIN skip_buffer' = Stages
        /\ \A k \in Stages : /\ DOMAIN recv_shape'[k] = Segments /\ DOMAIN recv_buffer'[k] = Segments
                             /\ DOMAIN skip_buffer'[k] = Segments
    <3>1. DOMAIN Empty = Segments
      BY DEF Empty, Segments
    <3> QED  BY <1>1, <3>1 DEF SetInput, Types
  <2>4. send_shape' \in [Stages -> SUBSET Segments]
    BY <1>1 DEF SetInput, Types
  <2>5. /\ recv_tasks_queue' \in [Stages -> Seq(Patches)] /\ recv_skip_tasks_queue' \in [Stages -> Seq(Patches)]
        /\ receiving_tasks' \in [Stages -> Seq(Tasks)] /\ receiving_skip_tasks' \in [Stages -> Seq(Tasks)]
    BY <1>1 DEF SetInput, Types
  <2>6. link' \in [Stages -> Seq(Messages)] /\ skip_link' \in [Stages -> Seq(Tensors)]
    BY <1>1, <1>3 DEF Types
  <2> QED  BY <2>1, <2>2, <2>3, <2>4, <2>5, <2>6 DEF Types
<1>6. patch[i] = 0 /\ io[i] = "idle"
  BY <1>1, TypesAt DEF Ctl, CallsReceive
<1>7. /\ Timestep(i)' = 0 /\ Segment(i)' = Whole /\ phase'[i] \in {"warmup", "alone"}
      /\ \A m : Here(i, m)' = Place(r, 0, Whole, m)
  BY <1>4 DEF Timestep, Segment, Here
<1>8. /\ RecvPos(i)' = Place(r, 0, Whole, 0) /\ SkipRecvPos(i)' = Place(r, 0, Whole, 0)
      /\ SkipSendPos(i)' = Place(r, 0, Whole, 0)
      /\ SendPos(i)' = Place(r, Lag(next_rank(i)), Whole, 0)
  BY <1>4, <1>6, <1>7, LagFacts DEF RecvPos, SkipRecvPos, SkipSendPos, SendPos
<1>9. /\ RecvPos(i) = Place(r, 0, Whole, 0) /\ SendPos(i) = Place(r, 0, Whole, 0)
      /\ SkipRecvPos(i) = Place(r, 0, Whole, 0) /\ SkipSendPos(i) = Place(r, 0, Whole, 0)
  BY <1>1 DEF RecvPos, SkipRecvPos, SkipSendPos, SendPos, NextRequest, r
<1>10. RecvStays(i) /\ SkipRecvStays(i) /\ SkipSendStays(i)
  BY <1>8, <1>9, SameFacts DEF RecvStays, SkipRecvStays, SkipSendStays
<1>11. SendStays(i)
  BY <1>1, <1>2, <1>8, <1>9, FirstWhole DEF SendStays
<1>12. Ctl(i)'
  <2>1. 0 < LoopSteps(i)'
    BY <1>2, <1>4, <1>7, SegmentFacts DEF LoopSteps, SyncSteps
  <2>2. ~(plan[r].steps > Warmup) <=> plan[r].steps <= Warmup
    BY <1>2, SegmentFacts
  <2> QED  BY <1>1, <1>2, <1>4, <1>6, <2>1, <2>2 DEF Ctl
<1>13. Receipts(i)'
  BY <1>4, <1>7 DEF Receipts, Outstanding, SkipOutstanding, Queue
<1>14. Shapes(i)'
  <2>1. ASSUME NEW s \in Segments, NEW j \in Stages, NEW t \in {0, Lag(j)}
        PROVE  ~Before(FirstShape(j, r, s), Place(r, t, Whole, 0))
    <3>1. FirstReceipt(j, s) \in Nat /\ t <= FirstReceipt(j, s) /\ s \in Int /\ Whole <= s
      BY <2>1, LagFacts, SegmentFacts DEF FirstReceipt
    <3> QED  BY <1>2, <2>1, <3>1, BeforePlace, PlaceParts, LagFacts, SegmentFacts DEF FirstShape
  <2>2. ASSUME NEW s \in Segments
        PROVE  ~Known(i, request[i], s, RecvPos(i))' /\ ~Known(next_rank(i), request[i], s, SendPos(i))'
    BY <1>4, <1>8, <2>1, Ring DEF Known
  <2>3. \A s \in Segments : Empty[s] = None
    BY DEF Empty, Segments
  <2> QED  BY <1>4, <2>2, <2>3 DEF Shapes
<1>15. Buffers(i)' /\ SkipBuffers(i)'
  BY <1>4, <1>7 DEF Buffers, SkipBuffers
<1>16. Latents(i)'
  BY <1>4, <1>7 DEF Latents, Made
<1>17. Local(i)'
  BY <1>12, <1>13, <1>14, <1>15, <1>16 DEF Local
<1> QED  BY <1>3, <1>5, <1>10, <1>11, <1>17, Quiet

-----------------------------------------------------------------------------
(* A step without a receive. *)

\* A stage is not inside a receive or a send.
LEMMA Idle ==
    ASSUME Inv, NEW i \in Stages, pc[i] # "send", ~CallsReceive(i)
    PROVE  io[i] = "idle"
BY StageFacts, TypesAt DEF Ctl

\* The first stage is due nothing in its first step.
LEMMA NotNeeded ==
    ASSUME Inv, NEW i \in Stages, pc[i] # "idle", ~NeedsReceive(i)
    PROVE  /\ i = FirstStage /\ step[i] = 0 /\ phase[i] # "handover" /\ ~ReceivesSkip(i)
           /\ \A m \in 0 .. 1 : Here(i, m) \notin Due(i)
<1>1. i = FirstStage /\ step[i] = 0 /\ phase[i] # "handover"
  BY DEF NeedsReceive
<1>2. ~ReceivesSkip(i)
  BY <1>1, Mirror, StageFacts
<1>3. ASSUME NEW m \in 0 .. 1, Here(i, m) \in Due(i) PROVE FALSE
  <2>1. Timestep(i) = IF phase[i] = "async" THEN Warmup ELSE 0
    BY <1>1, SegmentFacts DEF Timestep
  <2>2. Lag(i) = 1
    BY <1>1, LagFacts
  <2>3. Here(i, m).patch = Segment(i) /\ Here(i, m).step = Timestep(i)
    BY PlaceParts DEF Here
  <2>4. /\ Segment(i) = Whole => Lag(i) <= Timestep(i)
        /\ Segment(i) # Whole => Warmup + Lag(i) <= Timestep(i)
    BY <1>3, <2>3, DueFacts, StageFacts
  <2>5. phase[i] = "async" => Segment(i) # Whole
    <3>1. patch[i] \in Patches
      BY StageFacts, TypesAt
    <3> QED  BY <3>1, SegmentFacts DEF Segment
  <2>6. phase[i] # "async" => Segment(i) = Whole
    BY DEF Segment
  <2> QED  BY <2>1, <2>2, <2>4, <2>5, <2>6, SegmentFacts
<1> QED  BY <1>1, <1>2, <1>3

\* The end of a patch or a start that posts no receive.
LEMMA PassOverStep ==
    ASSUME Inv, NEW i \in Stages, PassOver(i)
    PROVE  Inv'
<1>1. /\ Types /\ Ctl(i) /\ Receipts(i) /\ Shapes(i) /\ Buffers(i) /\ SkipBuffers(i) /\ Latents(i)
      /\ model \in Models /\ plan \in Plans
  BY StageFacts
<1>2. pc[i] \in {"receive", "prefetch"} /\ ~CallsReceive(i) /\ io[i] = "idle" /\ pc[i] # "idle"
  BY Idle DEF PassOver
<1>3. Static /\ Others(i) /\ link' = link /\ skip_link' = skip_link
      /\ SameWhere(i) /\ SameTasks(i) /\ SameBuffers(i)
  BY <1>1 DEF PassOver, Static, Others, Kept, SameWhere, SameTasks, SameBuffers, where, tensors,
              queues, buffers, links, Types
<1>4. /\ io'[i] = "idle" /\ pipeline_patch_idx'[i] = pipeline_patch_idx[i]
      /\ first_async_recv'[i] = first_async_recv[i]
      /\ request'[i] = request[i] /\ phase'[i] = phase[i] /\ step'[i] = step[i] /\ patch'[i] = patch[i]
      /\ recv_tasks_queue'[i] = recv_tasks_queue[i] /\ receiving_tasks'[i] = receiving_tasks[i]
      /\ recv_skip_tasks_queue'[i] = recv_skip_tasks_queue[i]
      /\ receiving_skip_tasks'[i] = receiving_skip_tasks[i]
      /\ recv_shape'[i] = recv_shape[i] /\ send_shape'[i] = send_shape[i]
      /\ recv_buffer'[i] = recv_buffer[i] /\ skip_buffer'[i] = skip_buffer[i]
      /\ latents'[i] = latents[i] /\ patch_latents'[i] = patch_latents[i] /\ plan' = plan
  BY <1>2, <1>3 DEF PassOver, where, Static, SameWhere, SameTasks, SameBuffers
<1>5. pc'[i] = IF pc[i] = "prefetch" THEN "advance" ELSE IF NeedsReceive(i) THEN "get" ELSE "compute"
  BY <1>1 DEF PassOver, Types
<1>6. Types'
  <2>1. pc' \in [Stages -> Places]
    BY <1>1 DEF PassOver, Types, Places
  <2> QED  BY <1>1, <2>1 DEF PassOver, Types, where, tensors, queues, buffers, links
<1>7. /\ Timestep(i)' = Timestep(i) /\ Segment(i)' = Segment(i) /\ LoopSteps(i)' = LoopSteps(i)
      /\ InLastStep(i)' = InLastStep(i) /\ NeedsReceive(i)' = NeedsReceive(i)
      /\ Sends(i)' = Sends(i) /\ Prefetches(i)' = Prefetches(i) /\ ToPost(i)' = ToPost(i)
      /\ NextRequest(i)' = NextRequest(i)
      /\ \A m : Here(i, m)' = Here(i, m) /\ Following(i, m)' = Following(i, m)
  BY <1>3, WhereRules
<1>8. /\ SendsSkip(i)' = SendsSkip(i) /\ ReceivesSkip(i)' = ReceivesSkip(i)
      /\ Prefix(i + 1)' = Prefix(i + 1) /\ Prefix(i)' = Prefix(i)
      /\ Blocks(skip_rank(i))' = Blocks(skip_rank(i))
  BY <1>3, StaticRules
<1>9. CASE pc[i] = "prefetch"
  <2>1. ~Prefetches(i) /\ pc'[i] = "advance" /\ phase[i] = "async"
    BY <1>1, <1>2, <1>5, <1>9, TypesAt DEF CallsReceive, Ctl
  <2>2. ~Outstanding(i) /\ receiving_tasks[i] = <<>> /\ ~Outstanding(i)'
    BY <1>1, <1>4, <1>7, <1>9, <2>1 DEF Outstanding, Receipts
  <2>3. ~SkipOutstanding(i) /\ receiving_skip_tasks[i] = <<>> /\ ~SkipOutstanding(i)'
    BY <1>1, <1>9, <2>1, <2>2 DEF SkipOutstanding, Receipts
  <2>4. Ctl(i)'
    BY <1>1, <1>2, <1>4, <1>7, <1>8, <1>9, <2>1 DEF Ctl
  <2>5. Posted(i)' = Posted(i)
    BY <1>4, <1>7, <1>9, <2>1 DEF Posted
  <2>6. Receipts(i)'
    BY <1>1, <1>2, <1>4, <1>7, <1>8, <2>1, <2>2, <2>3, <2>5 DEF Receipts, Queue
  <2>7. RecvPos(i)' = RecvPos(i) /\ SendPos(i)' = SendPos(i)
        /\ SkipRecvPos(i)' = SkipRecvPos(i) /\ SkipSendPos(i)' = SkipSendPos(i)
    <3>1. RecvPos(i)' = Here(i, 2) /\ RecvPos(i) = Here(i, 2)
      BY <1>2, <1>4, <1>7, <1>9, <2>1, <2>2 DEF RecvPos
    <3>2. SkipRecvPos(i)' = Here(i, 2) /\ SkipRecvPos(i) = Here(i, 2)
      BY <1>2, <1>4, <1>7, <1>9, <2>1, <2>3 DEF SkipRecvPos
    <3>3. SendPos(i)' = SendPos(i) /\ SkipSendPos(i)' = SkipSendPos(i)
      BY <1>4, <1>7, <1>9, <2>1 DEF SendPos, SkipSendPos
    <3> QED  BY <3>1, <3>2, <3>3
  <2>8. RecvStays(i) /\ SendStays(i) /\ SkipRecvStays(i) /\ SkipSendStays(i)
    BY <2>7, SameFacts DEF RecvStays, SendStays, SkipRecvStays, SkipSendStays
  <2>9. Buffers(i)' /\ SkipBuffers(i)'
    BY <1>1, <1>4, <1>8, <1>9, <2>1, <2>2, <2>3 DEF Buffers, SkipBuffers, Body
  <2>10. Latents(i)'
    BY <1>1, <1>4, <1>7, <1>8, <1>9, <2>1 DEF Latents, Made, Held
  <2>11. Shapes(i)'
    BY <1>2, <1>3, <1>4, <2>8, ShapesStay, SameIsSameShapes DEF RecvStays, SendStays
  <2> QED  BY <1>3, <1>6, <2>4, <2>6, <2>8, <2>9, <2>10, <2>11, Quiet DEF Local
<1>10. CASE pc[i] = "receive" /\ ~NeedsReceive(i)
  <2>1. /\ pc'[i] = "compute" /\ i = FirstStage /\ step[i] = 0 /\ phase[i] # "handover"
        /\ ~ReceivesSkip(i) /\ \A m \in 0 .. 1 : Here(i, m) \notin Due(i)
    BY <1>2, <1>5, <1>10, NotNeeded
  <2>2. Lag(i) = 1
    BY <2>1, LagFacts
  <2>3. ~Outstanding(i) /\ receiving_tasks[i] = <<>> /\ ~Outstanding(i)'
    <3>1. phase[i] = "async" => first_async_recv[i]
      BY <1>1, <1>2, <2>1, <2>2 DEF Ctl
    <3> QED  BY <1>1, <1>4, <1>10, <2>1, <3>1 DEF Outstanding, Receipts
  <2>4. ~SkipOutstanding(i) /\ receiving_skip_tasks[i] = <<>> /\ ~SkipOutstanding(i)'
    BY <1>1, <1>8, <2>1 DEF SkipOutstanding, Receipts
  <2>5. Ctl(i)'
    BY <1>1, <1>2, <1>4, <1>7, <1>8, <1>10, <2>1, <2>2 DEF Ctl
  <2>6. Receipts(i)'
    <3>1. Posted(i)' = Posted(i)
      BY <1>4, <2>1, <2>2 DEF Posted
    <3> QED  BY <1>1, <1>2, <1>4, <1>7, <1>8, <2>1, <2>3, <2>4, <3>1 DEF Receipts, Queue
  <2>7. RecvPos(i)' = Here(i, 2) /\ RecvPos(i) = Here(i, 0)
    BY <1>2, <1>4, <1>7, <1>10, <2>1, <2>3 DEF RecvPos
  <2>8. SendPos(i)' = SendPos(i) /\ SkipSendPos(i)' = SkipSendPos(i)
    BY <1>4, <1>7, <1>10, <2>1 DEF SendPos, SkipSendPos
  <2>9. RecvStays(i)
    <3>1. Due(i) \in SUBSET Position /\ request[i] \in Nat /\ Timestep(i) \in Nat /\ Segment(i) \in Segments
      BY <1>1, DueTypes, TypesAt, PlacesTyped
    <3>2. Place(request[i], Timestep(i), Segment(i), 0) \notin Due(i)
          /\ Place(request[i], Timestep(i), Segment(i), 1) \notin Due(i)
      BY <2>1 DEF Here
    <3>3. Same(Due(i), Here(i, 0), Here(i, 2))
      BY <3>1, <3>2, PassedOver DEF Here
    <3> QED  BY <2>7, <3>3 DEF RecvStays
  <2>10. SendStays(i) /\ SkipRecvStays(i) /\ SkipSendStays(i)
    BY <2>1, <2>8, SameFacts DEF SendStays, SkipRecvStays, SkipSendStays
  <2>11. Buffers(i)' /\ SkipBuffers(i)'
    BY <1>1, <1>4, <1>7, <1>8, <1>10, <2>1, <2>3, <2>4 DEF Buffers, SkipBuffers, Body
  <2>12. Latents(i)'
    BY <1>1, <1>4, <1>7, <1>8, <1>10, <2>1 DEF Latents, Made, Held
  <2>13. Shapes(i)'
    BY <1>2, <1>3, <1>4, <2>9, <2>10, ShapesStay, SameIsSameShapes DEF RecvStays, SendStays
  <2> QED  BY <1>3, <1>6, <2>5, <2>6, <2>9, <2>10, <2>11, <2>12, <2>13, Quiet DEF Local
<1>11. CASE pc[i] = "receive" /\ NeedsReceive(i)
  <2>1. pc'[i] = "get" /\ phase[i] = "async" /\ ~first_async_recv[i]
    BY <1>2, <1>5, <1>11 DEF CallsReceive
  <2>2. Outstanding(i) /\ Outstanding(i)' /\ (SkipOutstanding(i) <=> ReceivesSkip(i))
        /\ (SkipOutstanding(i)' <=> ReceivesSkip(i))
    BY <1>4, <1>8, <1>11, <2>1 DEF Outstanding, SkipOutstanding
  <2>3. /\ \A m : Wanted(i, m) = Here(i, m) /\ Wanted(i, m)' = Here(i, m)
        /\ receiving_tasks[i] # <<>> /\ (ReceivesSkip(i) => receiving_skip_tasks[i] # <<>>)
    <3>1. /\ receiving_tasks[i] # <<>> /\ (ReceivesSkip(i) => receiving_skip_tasks[i] # <<>>)
      BY <1>1, <2>2 DEF Receipts, OneTask
    <3> QED  BY <1>7, <1>11, <2>1, <3>1 DEF Wanted
  <2>4. Ctl(i)'
    BY <1>1, <1>2, <1>4, <1>7, <1>8, <1>11, <2>1 DEF Ctl
  <2>5. Receipts(i)'
    <3>1. Posted(i)' = Posted(i)
      BY <1>4, <1>11, <2>1 DEF Posted
    <3> QED  BY <1>1, <1>2, <1>4, <1>7, <1>8, <2>1, <2>2, <2>3, <3>1 DEF Receipts, Queue
  <2>6. RecvPos(i)' = RecvPos(i)
    BY <1>2, <1>4, <2>1, <2>3 DEF RecvPos
  <2>7. ReceivesSkip(i) => SkipRecvPos(i)' = SkipRecvPos(i)
    BY <1>2, <1>4, <2>1, <2>3 DEF SkipRecvPos
  <2>8. SendPos(i)' = SendPos(i) /\ SkipSendPos(i)' = SkipSendPos(i)
    BY <1>4, <1>7, <1>11, <2>1 DEF SendPos, SkipSendPos
  <2>9. RecvStays(i) /\ SendStays(i) /\ SkipRecvStays(i) /\ SkipSendStays(i)
    BY <2>6, <2>7, <2>8, SameFacts DEF RecvStays, SendStays, SkipRecvStays, SkipSendStays
  <2>10. Buffers(i)'
    <3>1. \A q : Body(i, q)' = Body(i, q)
      BY <1>3, StaticBodies
    <3>2. Body(i, Wanted(i, 1))' = Body(i, Wanted(i, 1))
      BY <1>8, <2>3 DEF Body
    <3> QED  BY <1>1, <1>4, <1>8, <1>11, <2>1, <2>3, <3>2 DEF Buffers, Body
  <2>11. SkipBuffers(i)'
    <3>1. SkipBody(i, Wanted(i, 1))' = SkipBody(i, Wanted(i, 1))
      BY <1>8, <2>3 DEF SkipBody
    <3> QED  BY <1>1, <1>4, <1>8, <1>11, <2>1, <2>3, <3>1 DEF SkipBuffers
  <2>12. Latents(i)'
    BY <1>1, <1>4, <1>7, <1>8, <1>11, <2>1 DEF Latents, Made, Held
  <2>13. Shapes(i)'
    BY <1>2, <1>3, <1>4, <2>9, ShapesStay, SameIsSameShapes DEF RecvStays, SendStays
  <2> QED  BY <1>3, <1>6, <2>4, <2>5, <2>9, <2>10, <2>11, <2>12, <2>13, Quiet DEF Local
<1> QED  BY <1>2, <1>9, <1>10, <1>11

(* The places of the patches in the rounds. *)

\* The rounds count the patches one by one.
LEMMA NthFacts ==
    ASSUME NEW s \in Nat, NEW p \in Patches
    PROVE  /\ Nth(s, p) \in Nat
           /\ Nth(s, p) % NumPatches = p
           /\ p < NumPatches - 1 => p + 1 \in Patches /\ Nth(s, p) + 1 = Nth(s, p + 1)
           /\ ~(p < NumPatches - 1) => p = NumPatches - 1 /\ Nth(s, p) + 1 = Nth(s + 1, 0)
           /\ Nth(0, 0) = 0
           /\ \A n \in Nat : s < n => Nth(n, 0) \in Nat /\ Nth(s, p) < Nth(n, 0)
<1>1. PICK P \in Nat : P = NumPatches /\ P > 0
  BY SegmentFacts
<1>2. p \in Nat /\ p <= P - 1
  BY <1>1, SegmentFacts
<1>3. PICK x \in Nat : x = s * P /\ Nth(s, p) = x + p /\ (s + 1) * P = x + P
  <2>1. s * P \in Nat /\ (s + 1) * P = s * P + P
    BY <1>1
  <2> QED  BY <2>1, <1>1 DEF Nth
<1>4. Nth(s, p) \in Nat
  BY <1>2, <1>3
<1>5. (x + p) % P = p
  <2>1. PICK q \in Nat, r \in 0 .. P - 1 : r = (x + p) % P /\ x + p = P * q + r
    <3>1. x + p \in Nat
      BY <1>2, <1>3
    <3>2. (x + p) \div P \in Nat /\ (x + p) % P \in 0 .. P - 1
          /\ x + p = P * ((x + p) \div P) + ((x + p) % P)
      BY <1>1, <3>1, Quotient
    <3> QED  BY <3>2
  <2>2. P * (s - q) = r - p
    BY <1>1, <1>2, <1>3, <2>1
  <2>3. PICK d \in Int : d = s - q
    OBVIOUS
  <2>4. P * d < P /\ P * d > -P
    BY <1>1, <1>2, <2>1, <2>2, <2>3
  <2>5. ~(d >= 1)
    BY <1>1, <2>3, <2>4
  <2>6. ~(d <= -1)
    BY <1>1, <2>3, <2>4
  <2>7. d = 0
    BY <2>3, <2>5, <2>6
  <2> QED  BY <1>1, <1>2, <2>1, <2>2, <2>3, <2>7
<1>6. p < NumPatches - 1 => p + 1 \in Patches /\ Nth(s, p) + 1 = Nth(s, p + 1)
  <2>1. p < P - 1 => p + 1 \in Patches
    BY <1>1, <1>2 DEF Patches
  <2>2. Nth(s, p + 1) = x + (p + 1)
    BY <1>1, <1>3 DEF Nth
  <2> QED  BY <1>1, <1>2, <1>3, <2>1, <2>2
<1>7. ~(p < NumPatches - 1) => p = NumPatches - 1 /\ Nth(s, p) + 1 = Nth(s + 1, 0)
  <2>1. Nth(s + 1, 0) = x + P
    BY <1>1, <1>3 DEF Nth
  <2> QED  BY <1>1, <1>2, <1>3, <2>1
<1>8. Nth(0, 0) = 0
  BY SegmentFacts DEF Nth
<1>9. ASSUME NEW n \in Nat, s < n PROVE Nth(n, 0) \in Nat /\ Nth(s, p) < Nth(n, 0)
  <2>1. PICK y \in Nat : y = n * P /\ (s + 1) * P <= y
    BY <1>1, <1>9
  <2>2. Nth(n, 0) = y
    BY <1>1, <2>1 DEF Nth
  <2> QED  BY <1>1, <1>2, <1>3, <2>1, <2>2
<1> QED  BY <1>1, <1>3, <1>4, <1>5, <1>6, <1>7, <1>8, <1>9

-----------------------------------------------------------------------------
(* Which segment a receive is for. *)

\* The loop of the patches.
LEMMA AsyncFacts ==
    ASSUME Inv, NEW i \in Stages, pc[i] # "idle", phase[i] = "async"
    PROVE  /\ plan[request[i]].steps > Warmup /\ step[i] < plan[request[i]].steps - Warmup
           /\ LoopSteps(i) = plan[request[i]].steps - Warmup
           /\ Timestep(i) = step[i] + Warmup /\ Segment(i) = patch[i] /\ patch[i] \in Patches
           /\ step[i] \in Nat /\ patch[i] # Whole
           /\ NeedsReceive(i) <=> step[i] >= Lag(i)
<1>1. /\ Ctl(i) /\ step[i] \in Nat /\ patch[i] \in Patches /\ plan[request[i]].steps \in Nat
  BY StageFacts, TypesAt
<1>2. LoopSteps(i) = plan[request[i]].steps - Warmup /\ Timestep(i) = step[i] + Warmup /\ Segment(i) = patch[i]
  BY DEF LoopSteps, Timestep, Segment
<1>3. ~(plan[request[i]].steps <= Warmup) /\ step[i] < LoopSteps(i)
  BY <1>1 DEF Ctl
<1>4. NeedsReceive(i) <=> step[i] >= Lag(i)
  BY <1>1, LagFacts DEF NeedsReceive
<1> QED  BY <1>1, <1>2, <1>3, <1>4, SegmentFacts

\* The loops of whole images.
LEMMA SyncFacts ==
    ASSUME Inv, NEW i \in Stages, pc[i] # "idle", phase[i] # "async"
    PROVE  /\ Timestep(i) = step[i] /\ Segment(i) = Whole /\ patch[i] = 0 /\ step[i] \in Nat
           /\ phase[i] = "alone" => /\ plan[request[i]].steps <= Warmup
                                    /\ step[i] < plan[request[i]].steps
                                    /\ LoopSteps(i) = plan[request[i]].steps
           /\ phase[i] = "warmup" => /\ plan[request[i]].steps > Warmup
                                     /\ step[i] < Warmup /\ LoopSteps(i) = Warmup
           /\ phase[i] = "handover" => plan[request[i]].steps > Warmup /\ step[i] = Warmup
           /\ phase[i] \in {"alone", "warmup", "handover"}
<1>1. /\ Ctl(i) /\ step[i] \in Nat /\ plan[request[i]].steps \in Nat
      /\ phase[i] \in {"alone", "warmup", "handover"}
  BY StageFacts, TypesAt
<1>2. Timestep(i) = step[i] /\ Segment(i) = Whole
  BY <1>1 DEF Timestep, Segment
<1>3. patch[i] = 0
  BY <1>1 DEF Ctl
<1>4. LoopSteps(i) = IF plan[request[i]].steps > Warmup THEN Warmup ELSE plan[request[i]].steps
  BY DEF LoopSteps, SyncSteps
<1>5. (phase[i] = "alone" <=> plan[request[i]].steps <= Warmup)
      /\ (phase[i] # "handover" => step[i] < LoopSteps(i)) /\ (phase[i] = "handover" => step[i] = Warmup)
  BY <1>1 DEF Ctl
<1> QED  BY <1>1, <1>2, <1>3, <1>4, <1>5, SegmentFacts

\* Where a stage comes from when it posts a receive.
CameTo(i) == IF pc[i] = "receive" THEN Here(i, 0) ELSE Here(i, 2)

\* A receive that is posted is for the next segment that is due.
LEMMA WantedFacts ==
    ASSUME Inv, NEW i \in Stages, CallsReceive(i)
    PROVE  \E t \in Nat, p \in Segments :
               /\ \A m : Wanted(i, m) = Place(request[i], t, p, m)
               /\ NextReceive(i) = p /\ ~QueueEmpty(i)
               /\ FirstReceipt(i, p) <= t /\ t < ReceiptsEnd(i, request[i], p)
               /\ Same(Due(i), CameTo(i), Place(request[i], t, p, 0))
               /\ io[i] = "idle" => Same(Due(i), RecvPos(i), Place(request[i], t, p, 0))
               /\ phase[i] # "async" => p = Whole
               /\ phase[i] = "async" => p \in Patches /\ p # Whole
<1>1. /\ Ctl(i) /\ Receipts(i) /\ plan \in Plans /\ pc[i] \in {"receive", "prefetch"} /\ pc[i] # "idle"
      /\ request[i] \in 1 .. Len(plan) /\ plan[request[i]].steps \in Nat /\ request[i] \in Nat
      /\ Warmup \in Nat
  BY StageFacts, TypesAt, SegmentFacts DEF CallsReceive
<1>2. receiving_tasks[i] = <<>>
  BY <1>1 DEF Receipts, Outstanding, CallsReceive
<1>0. io[i] = "idle" => RecvPos(i) = CameTo(i)
  BY <1>1, <1>2 DEF RecvPos, CameTo
<1>3. CASE pc[i] = "receive" /\ phase[i] # "async"
  <2>1. /\ \A m : Wanted(i, m) = Place(request[i], step[i], Whole, m)
        /\ NextReceive(i) = Whole /\ ~QueueEmpty(i) /\ step[i] \in Nat
    BY <1>1, <1>3, SyncFacts DEF Wanted, Here, NextReceive, QueueEmpty
  <2>2. NeedsReceive(i)
    BY <1>3 DEF CallsReceive
  <2>3. FirstReceipt(i, Whole) <= step[i]
    <3>1. CASE i # FirstStage
      BY <2>1, <3>1, LagFacts DEF FirstReceipt
    <3>2. CASE i = FirstStage
      BY <1>1, <1>3, <2>1, <2>2, <3>2, LagFacts, SyncFacts, SegmentFacts DEF FirstReceipt, NeedsReceive
    <3> QED  BY <3>1, <3>2
  <2>4. step[i] < ReceiptsEnd(i, request[i], Whole)
    <3>1. CASE phase[i] = "alone"
      BY <1>1, <3>1, SyncFacts DEF ReceiptsEnd
    <3>2. CASE phase[i] = "warmup"
      BY <1>1, <3>2, SyncFacts, LagFacts, SegmentFacts DEF ReceiptsEnd
    <3>3. CASE phase[i] = "handover"
      <4>1. i = FirstStage
        BY <1>1, <1>3, <3>3 DEF Ctl
      <4> QED  BY <1>1, <3>3, <4>1, SyncFacts, LagFacts, SegmentFacts DEF ReceiptsEnd
    <3> QED  BY <1>1, <1>3, <3>1, <3>2, <3>3, SyncFacts
  <2>5. CameTo(i) = Place(request[i], step[i], Whole, 0)
    BY <1>1, <1>2, <1>3, SyncFacts DEF CameTo, Here
  <2> QED  BY <1>0, <1>3, <2>1, <2>3, <2>4, <2>5, SameFacts, SegmentFacts
<1>4. CASE phase[i] = "async"
  <2>1. /\ plan[request[i]].steps > Warmup /\ step[i] < plan[request[i]].steps - Warmup
        /\ Timestep(i) = step[i] + Warmup /\ Segment(i) = patch[i] /\ patch[i] \in Patches
        /\ step[i] \in Nat /\ patch[i] # Whole /\ step[i] >= Lag(i) /\ Lag(i) \in 0 .. 1
        /\ InLastStep(i) <=> step[i] = plan[request[i]].steps - Warmup - 1
    <3>1. NeedsReceive(i)
      BY DEF CallsReceive, Prefetches
    <3> QED  BY <1>1, <1>4, <3>1, AsyncFacts, LagFacts DEF InLastStep
  <2>0. PICK S \in Nat, l \in 0 .. 1, z \in Nat :
            /\ S = plan[request[i]].steps /\ l = Lag(i) /\ z = step[i] /\ z < S - Warmup /\ l <= z
            /\ InLastStep(i) <=> z = S - Warmup - 1
    BY <1>1, <2>1
  <2>2. PICK s \in Nat, n \in Nat : s = step[i] - Lag(i) /\ n = plan[request[i]].steps - Warmup - Lag(i) /\ s < n
    BY <1>1, <2>1, SegmentFacts
  <2>3. /\ Len(recv_tasks_queue[i]) = Nth(n, 0) - Posted(i)
        /\ \A k \in 1 .. Len(recv_tasks_queue[i]) :
               recv_tasks_queue[i][k] = (Posted(i) + k - 1) % NumPatches
    BY <1>1, <1>4, <2>2 DEF Receipts, Queue, ToPost
  <2>4. \A x \in Nat : Posted(i) = x /\ x < Nth(n, 0) =>
            NextReceive(i) = x % NumPatches /\ ~QueueEmpty(i)
    <3> TAKE x \in Nat
    <3> HAVE Posted(i) = x /\ x < Nth(n, 0)
    <3>1. Nth(n, 0) \in Nat /\ recv_tasks_queue[i] \in Seq(Patches)
      BY NthFacts, SegmentFacts, StageFacts, TypesAt
    <3>2. 1 \in 1 .. Len(recv_tasks_queue[i]) /\ recv_tasks_queue[i] # <<>>
      BY <2>3, <3>1
    <3>3. recv_tasks_queue[i][1] = (x + 1 - 1) % NumPatches
      BY <2>3, <3>2
    <3>4. x + 1 - 1 = x
      OBVIOUS
    <3>5. Head(recv_tasks_queue[i]) = x % NumPatches
      BY <3>1, <3>2, <3>3, <3>4
    <3> QED  BY <1>4, <3>2, <3>5 DEF NextReceive, QueueEmpty
  <2>5. FirstReceipt(i, 0) = Warmup + Lag(i) /\ ReceiptsEnd(i, request[i], 0) = plan[request[i]].steps
        /\ \A p \in Patches : FirstReceipt(i, p) = Warmup + Lag(i)
                              /\ ReceiptsEnd(i, request[i], p) = plan[request[i]].steps
    BY SegmentFacts DEF FirstReceipt, ReceiptsEnd
  <2>6. CASE pc[i] = "receive"
    <3>1. first_async_recv[i]
      BY <1>4, <2>6 DEF CallsReceive
    <3>2. step[i] = Lag(i) /\ patch[i] = 0
      BY <1>1, <1>4, <2>1, <2>6, <3>1 DEF Ctl
    <3>3. Posted(i) = 0
      <4>1. Posted(i) = Nth(step[i] - Lag(i), patch[i]) + 0
        BY <2>1, <2>6, <3>1, <3>2 DEF Posted
      <4>2. step[i] - Lag(i) = 0
        BY <2>1, <3>2
      <4>3. Nth(0, 0) = 0
        BY SegmentFacts, NthFacts
      <4> QED  BY <3>2, <4>1, <4>2, <4>3
    <3>4. 0 < Nth(n, 0) /\ 0 % NumPatches = 0
      BY <2>2, NthFacts, SegmentFacts
    <3>5. NextReceive(i) = 0 /\ ~QueueEmpty(i)
      BY <2>4, <3>3, <3>4
    <3>6. \A m : Wanted(i, m) = Place(request[i], Warmup + Lag(i), 0, m)
      BY <2>1, <2>6, <3>2, SegmentFacts DEF Wanted, Here
    <3>7. CameTo(i) = Place(request[i], Warmup + Lag(i), 0, 0)
      BY <1>2, <2>1, <2>6, <3>2, SegmentFacts DEF CameTo, Here
    <3>8. Warmup + Lag(i) \in Nat /\ Warmup + Lag(i) < plan[request[i]].steps
      <4>1. l = z /\ Warmup + l \in Nat /\ Warmup + l < S
        BY <1>1, <2>0, <3>2
      <4> QED  BY <2>0, <4>1
    <3> QED  BY <1>0, <1>4, <2>5, <3>5, <3>6, <3>7, <3>8, SameFacts, SegmentFacts
  <2>7. CASE pc[i] = "prefetch"
    <3>1. Posted(i) = Nth(s, patch[i]) + 1 /\ ~(InLastStep(i) /\ patch[i] = NumPatches - 1)
      BY <2>1, <2>2, <2>7 DEF Posted, CallsReceive, Prefetches
    <3>2. CameTo(i) = Here(i, 2)
      BY <1>2, <2>7 DEF CameTo
    <3>3. PICK t \in Nat : t = Timestep(i) /\ t = step[i] + Warmup /\ t >= Warmup + Lag(i)
                           /\ t < plan[request[i]].steps
      <4>1. z + Warmup \in Nat /\ z + Warmup >= Warmup + l /\ z + Warmup < S
        BY <1>1, <2>0
      <4> QED  BY <2>0, <2>1, <4>1
    <3>4. CASE patch[i] < NumPatches - 1
      <4>1. patch[i] + 1 \in Patches /\ Posted(i) = Nth(s, patch[i] + 1) /\ patch[i] + 1 # Whole
        BY ZenonT(30), <2>1, <2>2, <3>1, <3>4, NthFacts, SegmentFacts
      <4>2. Nth(s, patch[i] + 1) \in Nat /\ Nth(s, patch[i] + 1) < Nth(n, 0)
            /\ Nth(s, patch[i] + 1) % NumPatches = patch[i] + 1
        BY <2>2, <4>1, NthFacts
      <4>3. NextReceive(i) = patch[i] + 1 /\ ~QueueEmpty(i)
        BY <2>4, <4>1, <4>2
      <4>4. \A m : Wanted(i, m) = Place(request[i], t, patch[i] + 1, m)
        BY <2>7, <3>3, <3>4 DEF Wanted, Following
      <4>5. Same(Due(i), CameTo(i), Place(request[i], t, patch[i] + 1, 0))
        <5>1. patch[i] \in Int /\ request[i] \in Nat
          BY <1>1, <2>1, SegmentFacts
        <5>2. CameTo(i) = Place(request[i], t, patch[i], 2)
          BY <2>1, <3>2, <3>3 DEF Here
        <5> QED  BY <1>1, <5>1, <5>2, NextSegment
      <4> QED  BY <1>0, <1>4, <2>5, <3>3, <4>1, <4>3, <4>4, <4>5, SegmentFacts
    <3>5. CASE ~(patch[i] < NumPatches - 1)
      <4>1. patch[i] = NumPatches - 1 /\ Posted(i) = Nth(s + 1, 0) /\ ~InLastStep(i)
        BY <2>1, <2>2, <3>1, <3>5, NthFacts, SegmentFacts
      <4>2. s + 1 \in Nat /\ s + 1 < n /\ t + 1 < plan[request[i]].steps /\ 0 \in Patches
        <5>1. z # S - Warmup - 1 /\ s = z - l /\ n = S - Warmup - l /\ t = z + Warmup
          BY <2>0, <2>2, <3>3, <4>1
        <5>2. Warmup \in Nat /\ z < S - Warmup
          BY <1>1, <2>0
        <5>3. z + 1 < S - Warmup
          BY <5>1, <5>2
        <5>4. s + 1 \in Nat /\ s + 1 < n /\ t + 1 < S
          BY <5>1, <5>2, <5>3
        <5> QED  BY <2>0, <5>4, SegmentFacts
      <4>3. Nth(s + 1, 0) \in Nat /\ Nth(s + 1, 0) < Nth(n, 0) /\ Nth(s + 1, 0) % NumPatches = 0
        BY <2>2, <4>2, NthFacts
      <4>4. NextReceive(i) = 0 /\ ~QueueEmpty(i)
        BY <2>4, <4>1, <4>3
      <4>5. \A m : Wanted(i, m) = Place(request[i], t + 1, 0, m)
        BY <2>7, <3>3, <3>5 DEF Wanted, Following
      <4>6. Same(Due(i), CameTo(i), Place(request[i], t + 1, 0, 0))
        <5>1. CameTo(i) = Place(request[i], t, NumPatches - 1, 2)
          BY <2>1, <3>2, <3>3, <4>1 DEF Here
        <5>2. t + 1 >= Warmup + Lag(i)
          BY <2>1, <3>3, SegmentFacts
        <5> QED  BY <1>1, <2>1, <5>1, <5>2, NextRound
      <4>7. t + 1 \in Nat /\ Warmup + Lag(i) <= t + 1 /\ 0 # Whole /\ 0 \in Segments
        BY <2>1, <3>3, SegmentFacts
      <4> QED  BY <1>0, <1>4, <2>5, <4>2, <4>4, <4>5, <4>6, <4>7
    <3> QED  BY <3>4, <3>5
  <2> QED  BY <1>1, <2>6, <2>7
<1> QED  BY <1>1, <1>3, <1>4 DEF CallsReceive, Prefetches

-----------------------------------------------------------------------------
(* The receive of a shape. *)

\* A segment that is received first is not known, any other is.
LEMMA KnownSegment ==
    ASSUME Inv, NEW i \in Stages, CallsReceive(i), io[i] = "idle",
           NEW t \in Nat, NEW p \in Segments,
           FirstReceipt(i, p) <= t, t < ReceiptsEnd(i, request[i], p),
           Same(Due(i), RecvPos(i), Place(request[i], t, p, 0))
    PROVE  /\ Place(request[i], t, p, 1) \in Due(i)
           /\ recv_shape[i][p] = None => FirstReceipt(i, p) = t /\ Place(request[i], t, p, 0) \in Due(i)
           /\ recv_shape[i][p] # None => Place(request[i], t, p, 0) \notin Due(i)
<1>1. /\ Shapes(i) /\ plan \in Plans /\ pc[i] # "idle" /\ request[i] \in 1 .. Len(plan)
      /\ request[i] \in Nat /\ plan[request[i]].size \in Nat
  BY StageFacts, TypesAt, PlanFacts DEF CallsReceive
<1>2. FirstReceipt(i, p) \in Nat /\ p \in Int
  BY SegmentFacts, LagFacts DEF FirstReceipt
<1>3. \A m \in 0 .. 1 : \A x \in Nat :
         FirstReceipt(i, p) <= x /\ x <= t =>
         (Place(request[i], x, p, m) \in Due(i) <=> (m = 1 \/ x = FirstReceipt(i, p)))
  <2> TAKE m \in 0 .. 1
  <2> TAKE x \in Nat
  <2> HAVE FirstReceipt(i, p) <= x /\ x <= t
  <2>1. Place(request[i], x, p, m) \in Position
    BY <1>1, PlaceTyped
  <2>2. t < ReceiptsEnd(i, request[i], p) /\ ReceiptsEnd(i, request[i], p) \in Nat
    BY <1>1, PlanFacts, SegmentFacts, LagFacts DEF ReceiptsEnd
  <2>3. Receives(i, Place(request[i], x, p, m))
    BY <1>1, <2>2, PlaceParts DEF Receives
  <2> QED  BY <2>1, <2>3, PlaceParts DEF Due
<1>4. FirstShape(i, request[i], p) \in Due(i)
  BY <1>2, <1>3 DEF FirstShape
<1>5. Known(i, request[i], p, RecvPos(i)) <=> FirstReceipt(i, p) < t
  <2>1. Before(FirstShape(i, request[i], p), RecvPos(i)) <=>
            Before(FirstShape(i, request[i], p), Place(request[i], t, p, 0))
    BY <1>4 DEF Same
  <2>2. Before(FirstShape(i, request[i], p), Place(request[i], t, p, 0)) <=> FirstReceipt(i, p) < t
    BY <1>1, <1>2, BeforePlace, PlaceParts DEF FirstShape
  <2> QED  BY <1>4, <2>1, <2>2 DEF Known
<1>6. recv_shape[i][p] # None <=> Known(i, request[i], p, RecvPos(i))
  <2>1. recv_shape[i][p] = IF Known(i, request[i], p, RecvPos(i))
                           THEN [size |-> plan[request[i]].size, patch |-> p] ELSE None
    BY <1>1 DEF Shapes
  <2>2. [size |-> plan[request[i]].size, patch |-> p] # None
    BY <1>1, <1>2, NoneAssumption
  <2> QED  BY <2>1, <2>2
<1> QED  BY <1>2, <1>3, <1>5, <1>6

\* The receive of a shape, in the first step of a segment.
LEMMA RecvShapeStep ==
    ASSUME Inv, NEW i \in Stages, RecvShape(i)
    PROVE  Inv'
<1>1. /\ Types /\ Local(i) /\ Ctl(i) /\ Receipts(i) /\ Shapes(i) /\ Buffers(i) /\ SkipBuffers(i) /\ Latents(i)
      /\ model \in Models /\ plan \in Plans /\ CallsReceive(i) /\ io[i] = "idle"
      /\ pc[i] \in {"receive", "prefetch"} /\ request[i] \in 1 .. Len(plan) /\ request[i] \in Nat
  BY StageFacts, TypesAt DEF RecvShape, CallsReceive
<1>2. PICK t \in Nat, p \in Segments :
               /\ \A m : Wanted(i, m) = Place(request[i], t, p, m)
               /\ NextReceive(i) = p /\ ~QueueEmpty(i)
               /\ FirstReceipt(i, p) <= t /\ t < ReceiptsEnd(i, request[i], p)
               /\ Same(Due(i), RecvPos(i), Place(request[i], t, p, 0))
  BY <1>1, WantedFacts
<1>3. /\ Place(request[i], t, p, 1) \in Due(i)
      /\ recv_shape[i][p] = None => FirstReceipt(i, p) = t /\ Place(request[i], t, p, 0) \in Due(i)
      /\ recv_shape[i][p] # None => Place(request[i], t, p, 0) \notin Due(i)
  BY <1>1, <1>2, KnownSegment
<1>4. recv_shape[i][p] = None => /\ link[prev_rank(i)] # <<>>
                                 /\ Head(link[prev_rank(i)]).kind = "shape"
                                 /\ Head(link[prev_rank(i)]).body = Body(i, Place(request[i], t, p, 0))
  <2>1. recv_shape[i][p] = None => link[prev_rank(i)] # <<>>
    BY <1>2 DEF RecvShape
  <2> QED  BY <1>1, <1>2, <1>3, <2>1, FirstMessage
<1>5. Static /\ SameWhere(i) /\ SameTasks(i) /\ skip_link' = skip_link
  BY DEF RecvShape, Static, SameWhere, SameTasks, where, queues
<1>6. pc' = pc
  BY <1>2, <1>4 DEF RecvShape
<1>7. io' = [io EXCEPT ![i] = "sync"] /\ io'[i] = "sync"
  BY <1>1, <1>2 DEF RecvShape, Types
<1>8. Others(i)
  <2>1. \A k \in Stages : k # i => recv_shape'[k] = recv_shape[k]
    BY <1>1, <1>2 DEF RecvShape, Types
  <2>2. \A k \in Stages : k # i => io'[k] = io[k]
    BY <1>1, <1>7 DEF Types
  <2>3. \A k \in Stages : k # prev_rank(i) => link'[k] = link[k]
    <3>1. link' = link \/ link' = [link EXCEPT ![prev_rank(i)] = Tail(@)]
      BY <1>2 DEF RecvShape
    <3>2. prev_rank(i) \in Stages /\ link \in [Stages -> Seq(Messages)]
      BY <1>1, Ring DEF Types
    <3> QED  BY <3>1, <3>2
  <2> QED  BY <1>6, <2>1, <2>2, <2>3
           DEF RecvShape, Others, Kept, SameWhere, SameTasks, SameBuffers, where, queues, tensors
<1>9. KeptData(i)
  BY <1>5, <1>6 DEF RecvShape, KeptData, where, tensors
<1>10. Receipts(i)' /\ Buffers(i)' /\ SkipBuffers(i)' /\ Latents(i)'
  BY <1>1, <1>5, <1>9, DataKept
<1>11. /\ request'[i] = request[i] /\ phase'[i] = phase[i] /\ step'[i] = step[i] /\ patch'[i] = patch[i]
       /\ receiving_tasks'[i] = receiving_tasks[i] /\ receiving_skip_tasks'[i] = receiving_skip_tasks[i]
       /\ first_async_recv'[i] = first_async_recv[i] /\ pipeline_patch_idx'[i] = pipeline_patch_idx[i]
       /\ plan' = plan /\ send_shape'[i] = send_shape[i]
  BY <1>5, <1>9 DEF SameWhere, SameTasks, Static, KeptData, RecvShape
<1>12. /\ Timestep(i)' = Timestep(i) /\ Segment(i)' = Segment(i) /\ LoopSteps(i)' = LoopSteps(i)
       /\ NeedsReceive(i)' = NeedsReceive(i)
       /\ Sends(i)' = Sends(i) /\ Prefetches(i)' = Prefetches(i)
       /\ \A m : Here(i, m)' = Here(i, m) /\ Following(i, m)' = Following(i, m)
       /\ SendsSkip(i)' = SendsSkip(i) /\ ReceivesSkip(i)' = ReceivesSkip(i)
       /\ NextRequest(i)' = NextRequest(i)
  BY <1>5, WhereRules, StaticRules
<1>13. \A m : Wanted(i, m)' = Wanted(i, m)
  BY <1>6, <1>12 DEF Wanted
<1>14. Ctl(i)'
  <2>1. CallsReceive(i)'
    BY <1>1, <1>6, <1>11, <1>12 DEF CallsReceive
  <2> QED  BY <1>1, <1>6, <1>11, <1>12, <2>1 DEF Ctl
<1>15. receiving_tasks[i] = <<>>
  BY <1>1 DEF Receipts, Outstanding, CallsReceive
<1>16. RecvPos(i)' = Place(request[i], t, p, 1)
  BY <1>1, <1>2, <1>6, <1>7, <1>11, <1>13, <1>15 DEF RecvPos
<1>17. SendPos(i)' = SendPos(i) /\ SkipSendPos(i)' = SkipSendPos(i) /\ SkipRecvPos(i)' = SkipRecvPos(i)
  <2>1. SendPos(i)' = SendPos(i)
    BY <1>1, <1>6, <1>11, <1>12 DEF SendPos
  <2>2. SkipSendPos(i)' = SkipSendPos(i)
    BY <1>1, <1>6, <1>11, <1>12 DEF SkipSendPos
  <2>3. SkipRecvPos(i)' = SkipRecvPos(i)
    BY <1>1, <1>6, <1>11, <1>12, <1>13 DEF SkipRecvPos
  <2> QED  BY <2>1, <2>2, <2>3
<1>18. SendStays(i) /\ SkipSendStays(i) /\ SkipRecvStays(i)
  BY <1>17, SameFacts DEF SendStays, SkipSendStays, SkipRecvStays
<1>19. CASE recv_shape[i][p] # None
  <2>1. recv_shape' = recv_shape /\ link' = link
    BY <1>2, <1>19 DEF RecvShape
  <2>2. Types'
    <3>1. io' \in [Stages -> {"idle", "sync"}]
      BY <1>1, <1>7 DEF Types
    <3> QED  BY <1>1, <1>6, <2>1, <3>1 DEF RecvShape, Types, where, tensors, queues
  <2>3. Same(Due(i), Place(request[i], t, p, 0), Place(request[i], t, p, 0 + 1))
    BY <1>1, <1>3, <1>19, ShapePassed, DueTypes
  <2>4. RecvStays(i)
    BY <1>2, <1>16, <2>3, SameFacts DEF RecvStays
  <2>5. Shapes(i)'
    BY <1>1, <1>5, <1>11, <1>18, <2>1, <2>4, ShapesStay, SameIsSameShapes DEF RecvStays, SendStays
  <2> QED  BY <1>5, <1>8, <1>10, <1>14, <1>18, <2>1, <2>2, <2>4, <2>5, Quiet DEF Local
<1>20. CASE recv_shape[i][p] = None
  <2>1. /\ link[prev_rank(i)] # <<>> /\ link' = [link EXCEPT ![prev_rank(i)] = Tail(@)]
        /\ recv_shape' = [recv_shape EXCEPT ![i][p] = Shape(Head(link[prev_rank(i)]).body)]
    BY <1>2, <1>20 DEF RecvShape
  <2>2. link[prev_rank(i)] \in Seq(Messages) /\ prev_rank(i) \in Stages /\ prev_rank(i) # i
    BY <1>1, Ring, TypesAt
  <2>3. link'[prev_rank(i)] = Tail(link[prev_rank(i)]) /\ link'[i] = link[i]
    BY <1>1, <2>1, <2>2 DEF Types
  <2>4. Types'
    <3>1. io' \in [Stages -> {"idle", "sync"}]
      BY <1>1, <1>7 DEF Types
    <3>2. link' \in [Stages -> Seq(Messages)]
      <4>1. Tail(link[prev_rank(i)]) \in Seq(Messages)
        BY <2>1, <2>2, HeadTailProperties
      <4> QED  BY <1>1, <2>1, <4>1 DEF Types
    <3>3. DOMAIN recv_shape' = Stages /\ \A k \in Stages : DOMAIN recv_shape'[k] = Segments
      BY <1>1, <2>1 DEF Types
    <3> QED  BY <1>1, <1>6, <3>1, <3>2, <3>3 DEF RecvShape, Types, where, tensors, queues
  <2>5. Link(prev_rank(i))'
    <3>1. RecvPos(i)' = Place(request[i], t, p, 0 + 1)
      BY <1>16
    <3> QED  BY <1>1, <1>2, <1>3, <1>5, <1>8, <1>20, <2>1, <2>3, <3>1, RecvTakes
  <2>6. Link(i)' /\ SkipLink(i)'
    BY <1>5, <1>8, <1>18, <2>3, SendKeeps, SkipSendKeeps
  <2>7. SkipLink(skip_rank(i))'
    <3>1. skip_link'[skip_rank(i)] = skip_link[skip_rank(i)]
      BY <1>5
    <3> QED  BY <1>5, <1>8, <1>18, <2>6, <3>1, SkipRecvKeeps
  <2>8. Shapes(i)'
    <3>1. Shape(Head(link[prev_rank(i)]).body) = [size |-> plan[request[i]].size, patch |-> p]
      BY <1>4, <1>20, PlaceParts DEF Shape, Body, Tensor
    <3>2. Passes(Due(i), Place(request[i], t, p, 0), Place(request[i], t, p, 0), Place(request[i], t, p, 0 + 1))
      BY <1>1, <1>3, <1>20, Passed, DueTypes
    <3>3. Passes(Due(i), RecvPos(i), Place(request[i], t, p, 0), RecvPos(i)')
      <4>1. Passes(Due(i), Place(request[i], t, p, 0), Place(request[i], t, p, 0), Place(request[i], t, p, 1))
        <5>1. 0 + 1 = 1
          OBVIOUS
        <5> QED  BY <3>2, <5>1, Zenon
      <4>2. Passes(Due(i), RecvPos(i), Place(request[i], t, p, 0), Place(request[i], t, p, 1))
        BY <1>2, <4>1 DEF Same, Passes
      <4> QED  BY <1>16, <4>2
    <3>4. ASSUME NEW s \in Segments
          PROVE  Known(i, request[i], s, RecvPos(i)') <=> (Known(i, request[i], s, RecvPos(i)) \/ s = p)
      <4>1. FirstShape(i, request[i], s) = Place(request[i], t, p, 0) <=> s = p
        BY <1>3, <1>20, PlaceParts DEF FirstShape
      <4>2. FirstShape(i, request[i], s) \in Due(i) =>
               (Before(FirstShape(i, request[i], s), RecvPos(i)') <=>
                  (Before(FirstShape(i, request[i], s), RecvPos(i)) \/ s = p))
        BY <3>3, <4>1 DEF Passes
      <4>3. s = p => FirstShape(i, request[i], s) \in Due(i)
        BY <1>3, <1>20, <4>1
      <4> QED  BY <4>2, <4>3 DEF Known
    <3>5. Due(i)' = Due(i) /\ Due(next_rank(i))' = Due(next_rank(i))
      BY <1>5, StaticDue
    <3>6. ASSUME NEW s \in Segments
          PROVE  /\ Known(i, request[i], s, RecvPos(i))' <=> (Known(i, request[i], s, RecvPos(i)) \/ s = p)
                 /\ Known(next_rank(i), request[i], s, SendPos(i))' <=> Known(next_rank(i), request[i], s, SendPos(i))
      BY <1>11, <1>17, <3>4, <3>5 DEF Known
    <3>7. ASSUME NEW s \in Segments
          PROVE  recv_shape'[i][s] = IF s = p THEN [size |-> plan[request[i]].size, patch |-> p]
                                     ELSE recv_shape[i][s]
      BY <1>1, <2>1, <3>1 DEF Types
    <3>8. \A s \in Segments :
              /\ recv_shape[i][s] = IF Known(i, request[i], s, RecvPos(i))
                              THEN [size |-> plan[request[i]].size, patch |-> s] ELSE None
              /\ s \in send_shape[i] <=> Known(next_rank(i), request[i], s, SendPos(i))
      BY <1>1 DEF Shapes
    <3>9. ASSUME NEW s \in Segments
          PROVE  /\ recv_shape'[i][s] = IF Known(i, request[i], s, RecvPos(i))'
                              THEN [size |-> plan[request[i]].size, patch |-> s] ELSE None
                 /\ s \in send_shape'[i] <=> Known(next_rank(i), request[i], s, SendPos(i))'
      BY <1>11, <3>6, <3>7, <3>8
    <3> QED  BY <1>11, <3>9 DEF Shapes
  <2> QED  BY <1>5, <1>8, <1>10, <1>14, <2>4, <2>5, <2>6, <2>7, <2>8, Together DEF Local
<1> QED  BY <1>19, <1>20

-----------------------------------------------------------------------------
(* A receive is posted. *)

\* A queue of tasks with one more.
LEMMA OneMore ==
    ASSUME NEW p
    PROVE  LET ts == Append(<<>>, Task(p)) IN
           /\ ts # <<>> /\ Len(ts) = 1 /\ Head(ts) = Task(p) /\ ts[1] = Task(p)
           /\ ~Head(ts).arrived /\ OneTask(ts, p) /\ Arrived(ts) = 1
           /\ p \in Segments => ts \in Seq(Tasks)
<1> DEFINE ts == Append(<<>>, Task(p))
<1>1. ts = <<Task(p)>>
  OBVIOUS
<1>2. Task(p).idx = p /\ ~Task(p).arrived /\ (p \in Segments => Task(p) \in Tasks)
  BY DEF Task, Tasks
<1>3. ts # <<>> /\ Len(ts) = 1 /\ Head(ts) = Task(p) /\ ts[1] = Task(p)
  BY <1>1
<1>4. ~Head(ts).arrived
  BY <1>2, <1>3
<1>5. OneTask(ts, p)
  BY <1>2, <1>3 DEF OneTask
<1>6. Arrived(ts) = 1
  BY <1>4 DEF Arrived
<1>7. p \in Segments => ts \in Seq(Tasks)
  BY <1>1, <1>2
<1> QED  BY <1>3, <1>4, <1>5, <1>6, <1>7

\* What a link holds of skips is tensors only.
LEMMA SkipShape ==
    ASSUME plan \in Plans, NEW j, NEW r \in Nat, NEW t \in Nat, NEW p \in Segments
    PROVE  Same(DueSkips(j), Place(r, t, p, 0), Place(r, t, p, 1))
<1>1. DueSkips(j) \in SUBSET Position /\ Place(r, t, p, 0) \notin DueSkips(j)
  BY PlaceParts DEF DueSkips
<1>2. Same(DueSkips(j), Place(r, t, p, 0), Place(r, t, p, 0 + 1))
  BY <1>1, ShapePassed
<1>3. 0 + 1 = 1
  OBVIOUS
<1> QED  BY <1>2, <1>3, Zenon

\* Places alike for what is due are alike for the skips.
LEMMA SkipsToo ==
    ASSUME plan \in Plans, NEW j, NEW a, NEW b, Same(Due(j), a, b)
    PROVE  Same(DueSkips(j), a, b)
BY DueFacts DEF Same

\* How many receives have been posted.
LEMMA PostedFacts ==
    ASSUME Inv, NEW i \in Stages, pc[i] # "idle", phase[i] = "async"
    PROVE  /\ Posted(i) \in Nat /\ ToPost(i) \in Nat
<1>1. /\ plan[request[i]].steps \in Nat /\ plan[request[i]].steps > Warmup
      /\ step[i] \in Nat /\ patch[i] \in Patches /\ Lag(i) \in 0 .. 1 /\ 0 \in Patches /\ Warmup \in Nat
  BY StageFacts, AsyncFacts, LagFacts, SegmentFacts
<1>2. plan[request[i]].steps - Warmup - Lag(i) \in Nat
  BY <1>1
<1>3. ToPost(i) \in Nat
  BY <1>1, <1>2, NthFacts DEF ToPost
<1>4. step[i] >= Lag(i) => Nth(step[i] - Lag(i), patch[i]) \in Nat
  <2>1. step[i] >= Lag(i) => step[i] - Lag(i) \in Nat
    BY <1>1
  <2> QED  BY <1>1, <2>1, NthFacts
<1>5. Posted(i) \in Nat
  <2>1. ~(step[i] < Lag(i)) => step[i] >= Lag(i)
    BY <1>1
  <2>2. CASE step[i] < Lag(i)
    BY <2>2 DEF Posted
  <2>3. CASE ~(step[i] < Lag(i))
    <3>1. PICK x \in Nat : x = Nth(step[i] - Lag(i), patch[i])
      BY <1>4, <2>1, <2>3
    <3>2. Posted(i) \in {x + 0, x + 1, x + 2}
      BY <2>3, <3>1 DEF Posted
    <3> QED  BY <3>2
  <2> QED  BY <2>2, <2>3
<1> QED  BY <1>3, <1>5

\* The posting of a receive, recv_next and recv_skip_next.
LEMMA RecvPostStep ==
    ASSUME Inv, NEW i \in Stages, RecvPost(i)
    PROVE  Inv'
<1>1. /\ Types /\ Local(i) /\ Ctl(i) /\ Receipts(i) /\ Shapes(i) /\ Buffers(i) /\ SkipBuffers(i) /\ Latents(i)
      /\ model \in Models /\ plan \in Plans /\ CallsReceive(i) /\ io[i] = "sync"
      /\ pc[i] \in {"receive", "prefetch"} /\ request[i] \in 1 .. Len(plan) /\ request[i] \in Nat
      /\ phase[i] \in {"warmup", "alone", "handover", "async"} /\ pc[i] # "idle"
      /\ recv_tasks_queue[i] \in Seq(Patches) /\ first_async_recv[i] \in BOOLEAN
  BY StageFacts, TypesAt DEF RecvPost, CallsReceive
<1>2. PICK t \in Nat, p \in Segments :
               /\ \A m : Wanted(i, m) = Place(request[i], t, p, m)
               /\ NextReceive(i) = p /\ ~QueueEmpty(i)
               /\ Same(Due(i), CameTo(i), Place(request[i], t, p, 0))
  BY <1>1, WantedFacts
<1> DEFINE async == phase[i] = "async"
           skips == async /\ ReceivesSkip(i)
           q == recv_tasks_queue[i]
<1>3. receiving_tasks[i] = <<>> /\ receiving_skip_tasks[i] = <<>> /\ ~Outstanding(i) /\ ~SkipOutstanding(i)
  BY <1>1 DEF Receipts, Outstanding, SkipOutstanding, CallsReceive
<1>4. /\ async => q # <<>> /\ Head(q) = p
      /\ skips => recv_skip_tasks_queue[i] = q
  BY <1>1, <1>2 DEF QueueEmpty, NextReceive, Receipts
<1>5. /\ pc' = [pc EXCEPT ![i] = IF @ = "receive" THEN "get" ELSE "advance"]
      /\ receiving_skip_tasks' = IF ~skips THEN receiving_skip_tasks
                       ELSE [receiving_skip_tasks EXCEPT
                               ![i] = Append(@, Task(Head(recv_skip_tasks_queue[i])))]
      /\ recv_skip_tasks_queue' = IF ~skips THEN recv_skip_tasks_queue
                       ELSE [recv_skip_tasks_queue EXCEPT ![i] = Tail(@)]
  BY <1>4 DEF RecvPost
<1>6. Static /\ SameWhere(i) /\ SameBuffers(i) /\ skip_link' = skip_link /\ link' = link
  BY DEF RecvPost, Static, SameWhere, SameBuffers, where, tensors, buffers, links
<1>7. /\ io'[i] = "idle" /\ pc'[i] = (IF pc[i] = "receive" THEN "get" ELSE "advance")
      /\ receiving_tasks'[i] = Append(<<>>, Task(p))
      /\ recv_tasks_queue'[i] = (IF async THEN Tail(q) ELSE q)
      /\ receiving_skip_tasks'[i] = (IF skips THEN Append(<<>>, Task(p)) ELSE <<>>)
      /\ recv_skip_tasks_queue'[i] = (IF skips THEN Tail(q) ELSE recv_skip_tasks_queue[i])
      /\ (first_async_recv'[i] <=> (first_async_recv[i] /\ ~async))
  <2>1. io'[i] = "idle" /\ pc'[i] = (IF pc[i] = "receive" THEN "get" ELSE "advance")
    BY <1>1, <1>5 DEF RecvPost, Types
  <2>2. receiving_tasks'[i] = Append(<<>>, Task(p))
        /\ recv_tasks_queue'[i] = (IF async THEN Tail(q) ELSE q)
    BY <1>1, <1>2, <1>3 DEF RecvPost, Types
  <2>3. receiving_skip_tasks'[i] = (IF skips THEN Append(<<>>, Task(p)) ELSE <<>>)
    BY <1>1, <1>3, <1>4, <1>5 DEF Types
  <2>4. recv_skip_tasks_queue'[i] = (IF skips THEN Tail(q) ELSE recv_skip_tasks_queue[i])
    BY <1>1, <1>4, <1>5 DEF Types
  <2>5. first_async_recv'[i] <=> (first_async_recv[i] /\ ~async)
    BY <1>1 DEF RecvPost, Types
  <2> QED  BY <2>1, <2>2, <2>3, <2>4, <2>5
<1>8. Others(i)
  <2>1. \A k \in Stages : k # i => Kept(k)
    <3>1. ASSUME NEW k \in Stages, k # i
          PROVE  /\ pc'[k] = pc[k] /\ io'[k] = io[k] /\ first_async_recv'[k] = first_async_recv[k]
                 /\ recv_tasks_queue'[k] = recv_tasks_queue[k] /\ receiving_tasks'[k] = receiving_tasks[k]
      BY <1>1, <1>5, <3>1 DEF RecvPost, Types
    <3>2. ASSUME NEW k \in Stages, k # i
          PROVE  /\ receiving_skip_tasks'[k] = receiving_skip_tasks[k]
                 /\ recv_skip_tasks_queue'[k] = recv_skip_tasks_queue[k]
      BY <1>1, <1>5, <3>2 DEF Types
    <3> QED  BY <3>1, <3>2
             DEF RecvPost, Kept, SameWhere, SameTasks, SameBuffers, where, tensors, buffers
  <2> QED  BY <1>6, <2>1 DEF Others
<1>9. Types'
  <2>1. Append(<<>>, Task(p)) \in Seq(Tasks) /\ (async => Tail(q) \in Seq(Patches))
    BY <1>1, <1>2, <1>4, OneMore, HeadTailProperties
  <2>2. pc' \in [Stages -> Places] /\ io' \in [Stages -> {"idle", "sync"}]
    BY <1>1, <1>5 DEF RecvPost, Types, Places
  <2>3. receiving_tasks' \in [Stages -> Seq(Tasks)]
    BY <1>1, <1>2, <1>3, <2>1 DEF RecvPost, Types
  <2>4. recv_tasks_queue' \in [Stages -> Seq(Patches)]
    BY <1>1, <2>1 DEF RecvPost, Types
  <2>5. receiving_skip_tasks' \in [Stages -> Seq(Tasks)]
    BY <1>1, <1>3, <1>4, <1>5, <2>1 DEF Types
  <2>6. recv_skip_tasks_queue' \in [Stages -> Seq(Patches)]
    BY <1>1, <1>4, <1>5, <2>1 DEF Types
  <2>7. first_async_recv' \in [Stages -> BOOLEAN]
    BY <1>1 DEF RecvPost, Types
  <2> QED  BY <1>1, <2>2, <2>3, <2>4, <2>5, <2>6, <2>7 DEF RecvPost, Types, where, tensors, buffers, links
<1>10. /\ request'[i] = request[i] /\ phase'[i] = phase[i] /\ step'[i] = step[i] /\ patch'[i] = patch[i]
       /\ pipeline_patch_idx'[i] = pipeline_patch_idx[i] /\ plan' = plan
       /\ recv_shape'[i] = recv_shape[i] /\ send_shape'[i] = send_shape[i]
       /\ recv_buffer'[i] = recv_buffer[i] /\ skip_buffer'[i] = skip_buffer[i]
       /\ latents'[i] = latents[i] /\ patch_latents'[i] = patch_latents[i]
  BY <1>6 DEF SameWhere, SameBuffers, Static, RecvPost, where
<1>11. /\ Timestep(i)' = Timestep(i) /\ Segment(i)' = Segment(i) /\ LoopSteps(i)' = LoopSteps(i)
       /\ NeedsReceive(i)' = NeedsReceive(i) /\ InLastStep(i)' = InLastStep(i)
       /\ Sends(i)' = Sends(i) /\ Prefetches(i)' = Prefetches(i) /\ ToPost(i)' = ToPost(i)
       /\ \A m : Here(i, m)' = Here(i, m) /\ Following(i, m)' = Following(i, m)
  BY <1>6, WhereRules
<1>12. /\ SendsSkip(i)' = SendsSkip(i) /\ ReceivesSkip(i)' = ReceivesSkip(i) /\ NextRequest(i)' = NextRequest(i)
       /\ Prefix(i)' = Prefix(i) /\ Prefix(i + 1)' = Prefix(i + 1)
  BY <1>6, WhereRules, StaticRules
<1>13. \A m : Wanted(i, m)' = Wanted(i, m)
  BY <1>1, <1>7, <1>11 DEF Wanted
<1>14. /\ receiving_tasks'[i] # <<>> /\ ~Head(receiving_tasks'[i]).arrived /\ Arrived(receiving_tasks'[i]) = 1
       /\ OneTask(receiving_tasks'[i], p)
       /\ skips => /\ receiving_skip_tasks'[i] # <<>> /\ ~Head(receiving_skip_tasks'[i]).arrived
                   /\ Arrived(receiving_skip_tasks'[i]) = 1 /\ OneTask(receiving_skip_tasks'[i], p)
       /\ ~skips => receiving_skip_tasks'[i] = <<>>
  BY <1>7, OneMore
<1>15. /\ pc[i] = "prefetch" => phase[i] = "async" /\ Prefetches(i)
       /\ NeedsReceive(i) /\ (async /\ pc[i] = "receive" => first_async_recv[i])
       /\ async => step[i] \in Nat /\ step[i] >= Lag(i) /\ ~(step[i] < Lag(i)) /\ patch[i] \in Patches
  <2>1. /\ pc[i] = "prefetch" => phase[i] = "async" /\ Prefetches(i)
        /\ NeedsReceive(i) /\ (async /\ pc[i] = "receive" => first_async_recv[i])
    BY <1>1 DEF CallsReceive, Prefetches
  <2> QED  BY <1>1, <2>1, AsyncFacts, LagFacts
<1>16. Ctl(i)'
  BY <1>1, <1>7, <1>10, <1>11, <1>12, <1>15 DEF Ctl
<1>17. Outstanding(i)' /\ (SkipOutstanding(i)' <=> skips)
  <2>1. Outstanding(i)'
    BY <1>1, <1>7, <1>10, <1>11, <1>15 DEF Outstanding
  <2> QED  BY <1>7, <1>10, <1>12, <2>1 DEF SkipOutstanding
<1>18. async => Posted(i)' = Posted(i) + 1
  <2> SUFFICES ASSUME async PROVE Posted(i)' = Posted(i) + 1
    OBVIOUS
  <2>1. PICK x \in Nat : x = Nth(step[i] - Lag(i), patch[i])
    <3>1. step[i] - Lag(i) \in Nat
      BY <1>15, LagFacts
    <3> QED  BY <1>15, <3>1, NthFacts
  <2>2. Nth(step[i] - Lag(i), patch[i])' = x
    BY <1>10, <2>1 DEF Nth
  <2>3. CASE pc[i] = "receive"
    <3>1. Posted(i) = x + 0
      BY <1>15, <2>1, <2>3 DEF Posted
    <3>2. Posted(i)' = x + 1
      BY <1>7, <1>10, <1>15, <2>2, <2>3 DEF Posted
    <3> QED  BY <3>1, <3>2
  <2>4. CASE pc[i] = "prefetch"
    <3>1. Posted(i) = x + 1
      BY <1>15, <2>1, <2>4 DEF Posted
    <3>2. Posted(i)' = x + 2
      BY <1>7, <1>10, <1>11, <1>15, <2>2, <2>4 DEF Posted
    <3> QED  BY <3>1, <3>2
  <2> QED  BY <1>1, <2>3, <2>4
<1>19. Queue(i)'
  <2>1. CASE async
    <3>1. PICK x \in Nat, y \in Nat : x = Posted(i) /\ y = ToPost(i)
      BY <1>1, <2>1, PostedFacts
    <3>2. Len(q) = y - x /\ \A k \in 1 .. Len(q) : q[k] = (x + k - 1) % NumPatches
      BY <1>1, <2>1, <3>1 DEF Receipts, Queue
    <3>3. PICK n \in Nat : n = Len(q) /\ n >= 1
      BY <1>1, <1>4, <2>1
    <3>4. Len(Tail(q)) = n - 1 /\ \A k \in 1 .. n - 1 : Tail(q)[k] = q[k + 1]
      BY <1>1, <1>4, <2>1, <3>3, HeadTailProperties
    <3>5. Posted(i)' = x + 1 /\ ToPost(i)' = y
      BY <1>11, <1>18, <2>1, <3>1
    <3>6. Len(Tail(q)) = y - (x + 1)
      BY <3>2, <3>3, <3>4
    <3>7. ASSUME NEW k \in 1 .. n - 1
          PROVE  Tail(q)[k] = ((x + 1) + k - 1) % NumPatches
      <4>1. k + 1 \in 1 .. Len(q) /\ x + (k + 1) - 1 = (x + 1) + k - 1
        BY <3>3
      <4>2. q[k + 1] = (x + (k + 1) - 1) % NumPatches
        BY <3>2, <4>1
      <4> QED  BY <3>4, <4>1, <4>2
    <3>8. recv_tasks_queue'[i] = Tail(q) /\ phase'[i] = "async" /\ pc'[i] # "idle"
      BY <1>1, <1>7, <1>10, <2>1
    <3> QED  BY <3>4, <3>5, <3>6, <3>7, <3>8 DEF Queue
  <2>2. CASE ~async
    BY <1>1, <1>7, <1>10, <2>2 DEF Receipts, Queue
  <2> QED  BY <2>1, <2>2
<1>20. Receipts(i)'
  <2>1. Wanted(i, 1)'.patch = p
    BY <1>2, <1>13, PlaceParts
  <2>2. recv_skip_tasks_queue'[i] = IF ReceivesSkip(i)' THEN recv_tasks_queue'[i] ELSE <<>>
    BY <1>1, <1>7, <1>12 DEF Receipts
  <2> QED  BY <1>14, <1>17, <1>19, <2>1, <2>2 DEF Receipts
<1>21. RecvPos(i)' = RecvPos(i)
  <2>1. RecvPos(i) = Wanted(i, 1)
    BY <1>1, <1>3 DEF RecvPos
  <2>2. RecvPos(i)' = Wanted(i, 1)
    BY <1>1, <1>7, <1>13, <1>14 DEF RecvPos
  <2> QED  BY <2>1, <2>2
<1>22. SendPos(i)' = SendPos(i) /\ SkipSendPos(i)' = SkipSendPos(i)
  BY <1>1, <1>7, <1>10, <1>11 DEF SendPos, SkipSendPos
<1>23. SkipRecvStays(i)
  <2>1. CASE skips
    <3>1. SkipRecvPos(i) = CameTo(i)
      BY <1>1, <1>3 DEF SkipRecvPos, CameTo
    <3>2. SkipRecvPos(i)' = Place(request[i], t, p, 1)
      BY <1>1, <1>2, <1>7, <1>13, <1>14, <2>1 DEF SkipRecvPos
    <3>3. Same(DueSkips(i), CameTo(i), Place(request[i], t, p, 0))
      BY <1>1, <1>2, SkipsToo
    <3>4. Same(DueSkips(i), Place(request[i], t, p, 0), Place(request[i], t, p, 1))
      BY <1>1, SkipShape
    <3> QED  BY <3>1, <3>2, <3>3, <3>4, SameFacts DEF SkipRecvStays
  <2>2. CASE ~skips /\ ReceivesSkip(i)
    <3>1. pc[i] = "receive" /\ SkipRecvPos(i) = Here(i, 0)
      BY <1>1, <1>3, <1>15, <2>2 DEF SkipRecvPos
    <3>2. SkipRecvPos(i)' = Here(i, 0)
      BY <1>7, <1>11, <1>14, <2>2, <3>1 DEF SkipRecvPos
    <3> QED  BY <3>1, <3>2, SameFacts DEF SkipRecvStays
  <2> QED  BY <2>1, <2>2 DEF SkipRecvStays
<1>24. RecvStays(i) /\ SendStays(i) /\ SkipSendStays(i)
  BY <1>21, <1>22, SameFacts DEF RecvStays, SendStays, SkipSendStays
<1>25. Shapes(i)'
  BY <1>1, <1>6, <1>10, <1>24, ShapesStay, SameIsSameShapes DEF RecvStays, SendStays
<1>26. Buffers(i)'
  <2>1. ~(pc'[i] \in {"get_skip", "compute", "split"})
    BY <1>7
  <2>2. Body(i, Place(request[i], Warmup, Whole, 1))' = Body(i, Place(request[i], Warmup, Whole, 1))
    BY <1>10, <1>12 DEF Body
  <2> QED  BY <1>1, <1>10, <1>14, <2>1, <2>2 DEF Buffers
<1>27. SkipBuffers(i)'
  BY <1>7, <1>14 DEF SkipBuffers
<1>28. Latents(i)'
  BY <1>1, <1>7, <1>10, <1>11, <1>12 DEF Latents, Made, Held
<1> QED  BY <1>6, <1>8, <1>9, <1>16, <1>20, <1>23, <1>24, <1>25, <1>26, <1>27, <1>28, Quiet DEF Local

-----------------------------------------------------------------------------
(* A receive is waited for. *)

\* The one task of a queue, taken away.
LEMMA OneLess ==
    ASSUME NEW ts \in Seq(Tasks), NEW p, OneTask(ts, p)
    PROVE  /\ ts # <<>> /\ Head(ts) = ts[1] /\ Head(ts).idx = p /\ Tail(ts) = <<>>
           /\ Head(ts).arrived \in BOOLEAN /\ p \in Segments
<1>1. Len(ts) = 1 /\ ts[1].idx = p
  BY DEF OneTask
<1>2. ts # <<>> /\ Head(ts) = ts[1]
  <2>1. ts # <<>>
    BY SMTT(30), <1>1, EmptySeq
  <2> QED  BY <2>1, HeadTailProperties
<1>3. Tail(ts) = <<>>
  <2>1. PICK us \in Seq(Tasks) : us = Tail(ts) /\ Len(us) = Len(ts) - 1
    BY <1>2, HeadTailProperties
  <2>2. Len(us) = 0
    BY <1>1, <2>1
  <2> QED  BY <2>1, <2>2
<1>4. ts[1] \in Tasks
  BY <1>1, ElementOfSeq, 1 \in 1 .. 1
<1> QED  BY <1>1, <1>2, <1>3, <1>4 DEF Tasks

\* The wait for a receive, get_pipeline_recv_data.
LEMMA GetStep ==
    ASSUME Inv, NEW i \in Stages, Get(i)
    PROVE  Inv'
<1>1. /\ Types /\ Local(i) /\ Ctl(i) /\ Receipts(i) /\ Shapes(i) /\ Buffers(i) /\ SkipBuffers(i) /\ Latents(i)
      /\ model \in Models /\ plan \in Plans /\ pc[i] = "get" /\ io[i] = "idle"
      /\ request[i] \in 1 .. Len(plan) /\ request[i] \in Nat /\ pc[i] # "idle"
      /\ phase[i] \in {"warmup", "alone", "handover", "async"}
      /\ receiving_tasks[i] \in Seq(Tasks) /\ receiving_skip_tasks[i] \in Seq(Tasks)
      /\ Timestep(i) \in Nat /\ Segment(i) \in Segments
  <2>1. pc[i] = "get" /\ io[i] = "idle"
    BY Idle DEF Get, CallsReceive
  <2> QED  BY <2>1, StageFacts, TypesAt, PlacesTyped
<1> DEFINE sync == phase[i] \in {"warmup", "alone"} /\ ReceivesSkip(i)
<1>2. (\A m : Wanted(i, m) = Here(i, m)) /\ Here(i, 1).patch = Segment(i)
  BY <1>1, PlaceParts DEF Wanted, Here
<1>3. Outstanding(i) /\ (SkipOutstanding(i) <=> (phase[i] = "async" /\ ReceivesSkip(i)))
  BY <1>1 DEF Outstanding, SkipOutstanding
<1>4. OneTask(receiving_tasks[i], Segment(i))
      /\ (phase[i] = "async" /\ ReceivesSkip(i) => OneTask(receiving_skip_tasks[i], Segment(i)))
      /\ (~(phase[i] = "async" /\ ReceivesSkip(i)) => receiving_skip_tasks[i] = <<>>)
  BY <1>1, <1>2, <1>3 DEF Receipts
<1>5. /\ receiving_tasks[i] # <<>> /\ Head(receiving_tasks[i]).arrived
      /\ Head(receiving_tasks[i]).idx = Segment(i) /\ Tail(receiving_tasks[i]) = <<>>
      /\ Arrived(receiving_tasks[i]) = 2
  <2>1. receiving_tasks[i] # <<>> /\ Head(receiving_tasks[i]).idx = Segment(i) /\ Tail(receiving_tasks[i]) = <<>>
    BY <1>1, <1>4, OneLess
  <2> QED  BY <2>1 DEF Get, Arrived
<1>6. /\ receiving_tasks' = [receiving_tasks EXCEPT ![i] = Tail(@)]
      /\ receiving_skip_tasks' = IF sync THEN [receiving_skip_tasks EXCEPT ![i] = Append(@, Task(Whole))]
                                 ELSE receiving_skip_tasks
      /\ pc' = [pc EXCEPT ![i] = IF phase[i] = "handover" THEN "split"
                                 ELSE IF ReceivesSkip(i) THEN "get_skip" ELSE "compute"]
  BY <1>5 DEF Get
<1>7. Static /\ SameWhere(i) /\ SameBuffers(i) /\ skip_link' = skip_link /\ link' = link
  BY DEF Get, Static, SameWhere, SameBuffers, where, tensors, buffers, links
<1>8. phase[i] = "handover" => i = FirstStage /\ ~ReceivesSkip(i)
  <2>1. phase[i] = "handover" => i = FirstStage
    BY <1>1 DEF Ctl
  <2> QED  BY <1>1, <2>1, Mirror
<1>9. /\ io'[i] = "idle" /\ receiving_tasks'[i] = <<>>
      /\ pc'[i] = (IF phase[i] = "handover" THEN "split" ELSE IF ReceivesSkip(i) THEN "get_skip" ELSE "compute")
      /\ receiving_skip_tasks'[i] = (IF sync THEN Append(<<>>, Task(Whole)) ELSE receiving_skip_tasks[i])
      /\ recv_tasks_queue'[i] = recv_tasks_queue[i] /\ recv_skip_tasks_queue'[i] = recv_skip_tasks_queue[i]
      /\ first_async_recv'[i] = first_async_recv[i]
  <2>1. io'[i] = "idle" /\ receiving_tasks'[i] = <<>>
        /\ pc'[i] = (IF phase[i] = "handover" THEN "split" ELSE IF ReceivesSkip(i) THEN "get_skip" ELSE "compute")
    BY <1>1, <1>5, <1>6 DEF Get, Types
  <2>2. receiving_skip_tasks'[i] = (IF sync THEN Append(<<>>, Task(Whole)) ELSE receiving_skip_tasks[i])
    BY <1>1, <1>4, <1>6 DEF Types
  <2> QED  BY <2>1, <2>2 DEF Get
<1>10. Others(i)
  <2>1. ASSUME NEW k \in Stages, k # i
        PROVE  /\ pc'[k] = pc[k] /\ receiving_tasks'[k] = receiving_tasks[k]
               /\ receiving_skip_tasks'[k] = receiving_skip_tasks[k]
    BY <1>1, <1>6, <2>1 DEF Types
  <2> QED  BY <2>1, <1>7
           DEF Get, Others, Kept, SameWhere, SameTasks, SameBuffers, where, tensors, buffers, links
<1>11. Types'
  <2>1. Append(<<>>, Task(Whole)) \in Seq(Tasks) /\ Tail(receiving_tasks[i]) \in Seq(Tasks)
    <3>1. Append(<<>>, Task(Whole)) \in Seq(Tasks)
      BY OneMore, SegmentFacts
    <3>2. Tail(receiving_tasks[i]) \in Seq(Tasks)
      <4>1. <<>> \in Seq(Tasks)
        OBVIOUS
      <4> QED  BY <1>5, <4>1, Zenon
    <3> QED  BY <3>1, <3>2
  <2>2. pc' \in [Stages -> Places]
    BY <1>1, <1>6 DEF Types, Places
  <2>3. receiving_tasks' \in [Stages -> Seq(Tasks)]
    BY <1>1, <1>6, <2>1 DEF Types
  <2>4. receiving_skip_tasks' \in [Stages -> Seq(Tasks)]
    BY <1>1, <1>4, <1>6, <2>1 DEF Types
  <2> QED  BY <1>1, <2>2, <2>3, <2>4 DEF Get, Types, where, tensors, buffers, links
<1>12. /\ request'[i] = request[i] /\ phase'[i] = phase[i] /\ step'[i] = step[i] /\ patch'[i] = patch[i]
       /\ pipeline_patch_idx'[i] = pipeline_patch_idx[i] /\ plan' = plan
       /\ recv_shape'[i] = recv_shape[i] /\ send_shape'[i] = send_shape[i]
       /\ recv_buffer'[i] = recv_buffer[i] /\ skip_buffer'[i] = skip_buffer[i]
       /\ latents'[i] = latents[i] /\ patch_latents'[i] = patch_latents[i]
  BY <1>7 DEF SameWhere, SameBuffers, Static, Get, where
<1>13. /\ Timestep(i)' = Timestep(i) /\ Segment(i)' = Segment(i) /\ LoopSteps(i)' = LoopSteps(i)
       /\ NeedsReceive(i)' = NeedsReceive(i) /\ InLastStep(i)' = InLastStep(i)
       /\ Sends(i)' = Sends(i) /\ Prefetches(i)' = Prefetches(i) /\ ToPost(i)' = ToPost(i)
       /\ \A m : Here(i, m)' = Here(i, m)
  BY <1>7, WhereRules
<1>14. /\ SendsSkip(i)' = SendsSkip(i) /\ ReceivesSkip(i)' = ReceivesSkip(i) /\ NextRequest(i)' = NextRequest(i)
       /\ Prefix(i)' = Prefix(i) /\ Prefix(i + 1)' = Prefix(i + 1)
       /\ Blocks(skip_rank(i))' = Blocks(skip_rank(i))
  BY <1>7, WhereRules, StaticRules
<1>15. \A m : Wanted(i, m)' = Here(i, m)
  BY <1>9, <1>13 DEF Wanted
<1>16. sync => /\ receiving_skip_tasks'[i] # <<>> /\ ~Head(receiving_skip_tasks'[i]).arrived
               /\ Arrived(receiving_skip_tasks'[i]) = 1 /\ OneTask(receiving_skip_tasks'[i], Segment(i))
  <2>1. sync => Segment(i) = Whole
    BY DEF Segment
  <2> QED  BY <1>9, <2>1, OneMore
<1>17. Ctl(i)'
  BY <1>1, <1>9, <1>12, <1>13, <1>14 DEF Ctl
<1>18. ~Outstanding(i)' /\ (SkipOutstanding(i)' <=> ReceivesSkip(i))
  <2>1. ~Outstanding(i)'
    BY <1>9 DEF Outstanding
  <2> QED  BY <1>8, <1>9, <1>12, <1>14, <2>1 DEF SkipOutstanding
<1>19. Receipts(i)'
  <2>1. Queue(i)'
    <3>1. Posted(i)' = Posted(i)
      BY <1>1, <1>9, <1>12, <1>13 DEF Posted
    <3> QED  BY <1>1, <1>9, <1>12, <1>13, <3>1 DEF Receipts, Queue
  <2>2. recv_skip_tasks_queue'[i] = IF ReceivesSkip(i)' THEN recv_tasks_queue'[i] ELSE <<>>
    BY <1>1, <1>9, <1>14 DEF Receipts
  <2>3. IF ReceivesSkip(i) THEN OneTask(receiving_skip_tasks'[i], Segment(i)) ELSE receiving_skip_tasks'[i] = <<>>
    BY <1>1, <1>4, <1>8, <1>9, <1>16
  <2>4. Wanted(i, 1)'.patch = Segment(i)
    BY <1>2, <1>15
  <2> QED  BY <1>9, <1>18, <2>1, <2>2, <2>3, <2>4 DEF Receipts
<1>20. RecvPos(i)' = RecvPos(i)
  <2>1. RecvPos(i) = Here(i, 2)
    BY <1>1, <1>2, <1>5 DEF RecvPos
  <2>2. RecvPos(i)' = Here(i, 2)
    BY <1>9, <1>13 DEF RecvPos
  <2> QED  BY <2>1, <2>2
<1>21. SendPos(i)' = SendPos(i) /\ SkipSendPos(i)' = SkipSendPos(i)
  BY <1>1, <1>9, <1>12, <1>13 DEF SendPos, SkipSendPos
<1>22. SkipRecvStays(i)
  <2>1. CASE sync
    <3>1. SkipRecvPos(i) = Here(i, 0)
      BY <1>1, <1>4, <2>1 DEF SkipRecvPos
    <3>2. SkipRecvPos(i)' = Here(i, 1)
      BY <1>9, <1>15, <1>16, <2>1 DEF SkipRecvPos
    <3>3. Same(DueSkips(i), Here(i, 0), Here(i, 1))
      BY <1>1, SkipShape DEF Here
    <3> QED  BY <3>1, <3>2, <3>3 DEF SkipRecvStays
  <2>2. CASE ReceivesSkip(i) /\ phase[i] = "async"
    <3>1. receiving_skip_tasks[i] # <<>> /\ receiving_skip_tasks'[i] = receiving_skip_tasks[i]
      BY <1>1, <1>4, <1>9, <2>2, OneLess
    <3>2. SkipRecvPos(i) = Here(i, Arrived(receiving_skip_tasks[i]))
      BY <1>1, <1>2, <3>1 DEF SkipRecvPos
    <3>3. SkipRecvPos(i)' = Here(i, Arrived(receiving_skip_tasks[i]))
      BY <1>9, <1>15, <2>2, <3>1 DEF SkipRecvPos
    <3> QED  BY <3>2, <3>3, SameFacts DEF SkipRecvStays
  <2> QED  BY <1>1, <1>8, <2>1, <2>2 DEF SkipRecvStays
<1>23. RecvStays(i) /\ SendStays(i) /\ SkipSendStays(i)
  BY <1>20, <1>21, SameFacts DEF RecvStays, SendStays, SkipSendStays
<1>24. Shapes(i)'
  BY <1>1, <1>7, <1>12, <1>23, ShapesStay, SameIsSameShapes DEF RecvStays, SendStays
<1>25. Buffers(i)'
  <2>1. recv_buffer[i][Segment(i)] = Body(i, Here(i, 1))
    BY <1>1, <1>2, <1>5 DEF Buffers
  <2>2. Body(i, Here(i, 1))' = Body(i, Here(i, 1))
    BY <1>13, <1>14 DEF Body
  <2>3. Body(i, Place(request[i], Warmup, Whole, 1))' = Body(i, Place(request[i], Warmup, Whole, 1))
    BY <1>12, <1>14 DEF Body
  <2>4. phase[i] = "handover" => Segment(i) = Whole /\ Here(i, 1) = Place(request[i], Warmup, Whole, 1)
    BY <1>1, SyncFacts DEF Here
  <2>5. pc'[i] \in {"get_skip", "compute"} /\ NeedsReceive(i)' =>
          recv_buffer'[i][Segment(i)'] = Body(i, Here(i, 1))'
    BY <1>12, <1>13, <2>1, <2>2
  <2>6. i = FirstStage /\ (pc'[i] = "split" \/ (pc'[i] # "idle" /\ phase'[i] = "async" /\ step'[i] = 0)) =>
          recv_buffer'[i][Whole] = Body(i, Place(request[i], Warmup, Whole, 1))'
    <3>1. CASE phase[i] = "handover"
      BY <1>12, <2>1, <2>3, <2>4, <3>1
    <3>2. CASE phase[i] # "handover"
      <4>1. pc'[i] # "split"
        BY <1>9, <3>2
      <4> QED  BY <1>1, <1>12, <2>3, <4>1 DEF Buffers
    <3> QED  BY <3>1, <3>2
  <2> QED  BY <1>9, <2>5, <2>6 DEF Buffers
<1>26. SkipBuffers(i)'
  <2>1. SkipBody(i, Wanted(i, 1))' = SkipBody(i, Wanted(i, 1))
    BY <1>2, <1>14, <1>15 DEF SkipBody
  <2>2. ~(pc'[i] = "compute" /\ ReceivesSkip(i)')
    BY <1>9, <1>14
  <2>3. Wanted(i, 1)'.patch = Wanted(i, 1).patch
    BY <1>2, <1>15
  <2>4. CASE sync
    BY <1>16, <2>2, <2>4 DEF SkipBuffers
  <2>5. CASE ~sync
    BY <1>1, <1>9, <1>12, <2>1, <2>2, <2>3, <2>5 DEF SkipBuffers
  <2> QED  BY <2>4, <2>5
<1>27. Latents(i)'
  BY <1>1, <1>9, <1>12, <1>13, <1>14 DEF Latents, Made, Held
<1> QED  BY <1>7, <1>10, <1>11, <1>17, <1>19, <1>22, <1>23, <1>24, <1>25, <1>26, <1>27, Quiet DEF Local

\* The wait for the skips.
LEMMA GetSkipStep ==
    ASSUME Inv, NEW i \in Stages, GetSkip(i)
    PROVE  Inv'
<1>1. /\ Types /\ Local(i) /\ Ctl(i) /\ Receipts(i) /\ Shapes(i) /\ Buffers(i) /\ SkipBuffers(i) /\ Latents(i)
      /\ model \in Models /\ plan \in Plans /\ pc[i] = "get_skip" /\ io[i] = "idle" /\ pc[i] # "idle"
      /\ receiving_tasks[i] \in Seq(Tasks) /\ receiving_skip_tasks[i] \in Seq(Tasks)
  <2>1. pc[i] = "get_skip" /\ io[i] = "idle"
    BY Idle DEF GetSkip, CallsReceive
  <2> QED  BY <2>1, StageFacts, TypesAt
<1>2. (\A m : Wanted(i, m) = Here(i, m)) /\ Here(i, 1).patch = Segment(i) /\ ReceivesSkip(i)
  BY <1>1, PlaceParts DEF Wanted, Here, Ctl
<1>3. ~Outstanding(i) /\ SkipOutstanding(i)
  BY <1>1, <1>2 DEF Outstanding, SkipOutstanding
<1>4. receiving_tasks[i] = <<>> /\ OneTask(receiving_skip_tasks[i], Segment(i))
  BY <1>1, <1>2, <1>3 DEF Receipts
<1>5. /\ receiving_skip_tasks[i] # <<>> /\ Head(receiving_skip_tasks[i]).arrived
      /\ Head(receiving_skip_tasks[i]).idx = Segment(i) /\ Tail(receiving_skip_tasks[i]) = <<>>
      /\ Arrived(receiving_skip_tasks[i]) = 2
  <2>1. receiving_skip_tasks[i] # <<>> /\ Head(receiving_skip_tasks[i]).idx = Segment(i)
        /\ Tail(receiving_skip_tasks[i]) = <<>>
    BY <1>1, <1>4, OneLess
  <2> QED  BY <2>1 DEF GetSkip, Arrived
<1>6. /\ receiving_skip_tasks' = [receiving_skip_tasks EXCEPT ![i] = Tail(@)]
      /\ pc' = [pc EXCEPT ![i] = "compute"]
  BY <1>5 DEF GetSkip
<1>7. Static /\ SameWhere(i) /\ SameBuffers(i) /\ skip_link' = skip_link /\ link' = link
  BY DEF GetSkip, Static, SameWhere, SameBuffers, where, tensors, buffers, links
<1>8. /\ io'[i] = "idle" /\ pc'[i] = "compute" /\ receiving_skip_tasks'[i] = <<>>
      /\ receiving_tasks'[i] = <<>>
      /\ recv_tasks_queue'[i] = recv_tasks_queue[i] /\ recv_skip_tasks_queue'[i] = recv_skip_tasks_queue[i]
      /\ first_async_recv'[i] = first_async_recv[i]
  BY <1>1, <1>4, <1>5, <1>6 DEF GetSkip, Types
<1>9. Others(i)
  <2>1. ASSUME NEW k \in Stages, k # i
        PROVE  pc'[k] = pc[k] /\ receiving_skip_tasks'[k] = receiving_skip_tasks[k]
    BY <1>1, <1>6, <2>1 DEF Types
  <2> QED  BY <2>1, <1>7
           DEF GetSkip, Others, Kept, SameWhere, SameTasks, SameBuffers, where, tensors, buffers, links
<1>10. Types'
  <2>1. pc' \in [Stages -> Places]
    BY <1>1, <1>6 DEF Types, Places
  <2>2. receiving_skip_tasks' \in [Stages -> Seq(Tasks)]
    BY <1>1, <1>5, <1>6 DEF Types
  <2> QED  BY <1>1, <2>1, <2>2 DEF GetSkip, Types, where, tensors, buffers, links
<1>11. /\ request'[i] = request[i] /\ phase'[i] = phase[i] /\ step'[i] = step[i] /\ patch'[i] = patch[i]
       /\ pipeline_patch_idx'[i] = pipeline_patch_idx[i] /\ plan' = plan
       /\ recv_shape'[i] = recv_shape[i] /\ send_shape'[i] = send_shape[i]
       /\ recv_buffer'[i] = recv_buffer[i] /\ skip_buffer'[i] = skip_buffer[i]
       /\ latents'[i] = latents[i] /\ patch_latents'[i] = patch_latents[i]
  BY <1>7 DEF SameWhere, SameBuffers, Static, GetSkip, where
<1>12. /\ Timestep(i)' = Timestep(i) /\ Segment(i)' = Segment(i) /\ LoopSteps(i)' = LoopSteps(i)
       /\ NeedsReceive(i)' = NeedsReceive(i) /\ InLastStep(i)' = InLastStep(i)
       /\ Sends(i)' = Sends(i) /\ Prefetches(i)' = Prefetches(i) /\ ToPost(i)' = ToPost(i)
       /\ \A m : Here(i, m)' = Here(i, m)
  BY <1>7, WhereRules
<1>13. /\ SendsSkip(i)' = SendsSkip(i) /\ ReceivesSkip(i)' = ReceivesSkip(i) /\ NextRequest(i)' = NextRequest(i)
       /\ Prefix(i)' = Prefix(i) /\ Prefix(i + 1)' = Prefix(i + 1)
       /\ Blocks(skip_rank(i))' = Blocks(skip_rank(i))
  BY <1>7, WhereRules, StaticRules
<1>14. \A m : Wanted(i, m)' = Here(i, m)
  BY <1>8, <1>12 DEF Wanted
<1>15. Ctl(i)'
  BY <1>1, <1>8, <1>11, <1>12, <1>13 DEF Ctl
<1>16. Receipts(i)'
  <2>1. ~Outstanding(i)' /\ ~SkipOutstanding(i)'
    BY <1>8 DEF Outstanding, SkipOutstanding
  <2>2. Posted(i)' = Posted(i)
    BY <1>1, <1>8, <1>11, <1>12 DEF Posted
  <2>3. Queue(i)'
    BY <1>1, <1>8, <1>11, <1>12, <2>2 DEF Receipts, Queue
  <2>4. recv_skip_tasks_queue'[i] = IF ReceivesSkip(i)' THEN recv_tasks_queue'[i] ELSE <<>>
    BY <1>1, <1>8, <1>13 DEF Receipts
  <2> QED  BY <1>8, <2>1, <2>3, <2>4 DEF Receipts
<1>17. /\ RecvPos(i)' = RecvPos(i) /\ SkipRecvPos(i)' = SkipRecvPos(i)
       /\ SendPos(i)' = SendPos(i) /\ SkipSendPos(i)' = SkipSendPos(i)
  <2>1. RecvPos(i) = Here(i, 2) /\ SkipRecvPos(i) = Here(i, 2)
    BY <1>1, <1>2, <1>4, <1>5 DEF RecvPos, SkipRecvPos
  <2>2. RecvPos(i)' = Here(i, 2) /\ SkipRecvPos(i)' = Here(i, 2)
    BY <1>8, <1>12 DEF RecvPos, SkipRecvPos
  <2>3. SendPos(i)' = SendPos(i) /\ SkipSendPos(i)' = SkipSendPos(i)
    BY <1>1, <1>8, <1>11, <1>12 DEF SendPos, SkipSendPos
  <2> QED  BY <2>1, <2>2, <2>3
<1>18. RecvStays(i) /\ SendStays(i) /\ SkipRecvStays(i) /\ SkipSendStays(i)
  BY <1>17, SameFacts DEF RecvStays, SendStays, SkipRecvStays, SkipSendStays
<1>19. Shapes(i)'
  BY <1>1, <1>7, <1>11, <1>18, ShapesStay, SameIsSameShapes DEF RecvStays, SendStays
<1>20. Buffers(i)'
  <2>1. Body(i, Here(i, 1))' = Body(i, Here(i, 1))
        /\ Body(i, Place(request[i], Warmup, Whole, 1))' = Body(i, Place(request[i], Warmup, Whole, 1))
    BY <1>11, <1>12, <1>13 DEF Body
  <2> QED  BY <1>1, <1>8, <1>11, <1>12, <2>1 DEF Buffers
<1>21. SkipBuffers(i)'
  <2>1. SkipBody(i, Here(i, 1))' = SkipBody(i, Here(i, 1))
    BY <1>12, <1>13 DEF SkipBody
  <2>2. skip_buffer[i][Segment(i)] = SkipBody(i, Here(i, 1))
    BY <1>1, <1>2, <1>5 DEF SkipBuffers
  <2> QED  BY <1>8, <1>11, <1>12, <2>1, <2>2 DEF SkipBuffers
<1>22. Latents(i)'
  BY <1>1, <1>8, <1>11, <1>12, <1>13 DEF Latents, Made, Held
<1> QED  BY <1>7, <1>9, <1>10, <1>15, <1>16, <1>18, <1>19, <1>20, <1>21, <1>22, Quiet DEF Local

-----------------------------------------------------------------------------
(* A message arrives. *)

\* What a posted receive waits for is due.
LEMMA Awaited ==
    ASSUME Inv, NEW i \in Stages, Outstanding(i) \/ SkipOutstanding(i)
    PROVE  \E t \in Nat, p \in Segments :
               /\ \A m : Wanted(i, m) = Place(request[i], t, p, m)
               /\ FirstReceipt(i, p) <= t /\ t < ReceiptsEnd(i, request[i], p)
               /\ phase[i] # "async" => p = Whole
               /\ phase[i] = "async" => p \in Patches /\ p # Whole
<1>1. /\ Ctl(i) /\ pc[i] \in {"get", "get_skip", "receive", "advance"} /\ pc[i] # "idle"
      /\ request[i] \in 1 .. Len(plan) /\ plan[request[i]].steps \in Nat
      /\ Warmup \in Nat /\ phase[i] \in {"warmup", "alone", "handover", "async"}
  <2>1. pc[i] \in {"get", "get_skip", "receive", "advance"} /\ pc[i] # "idle"
    BY DEF Outstanding, SkipOutstanding
  <2> QED  BY <2>1, StageFacts, TypesAt, SegmentFacts
<1>2. CASE phase[i] # "async"
  <2>1. pc[i] \in {"get", "get_skip"}
    BY <1>2 DEF Outstanding, SkipOutstanding
  <2>2. step[i] \in Nat /\ \A m : Wanted(i, m) = Place(request[i], step[i], Whole, m)
    BY <1>1, <1>2, <2>1, SyncFacts DEF Wanted, Here
  <2>3. pc[i] = "get_skip" => i # FirstStage /\ phase[i] # "handover"
    BY <1>1, Mirror, StageFacts DEF Ctl
  <2>4. NeedsReceive(i)
    BY <1>1, <2>1, <2>3 DEF Ctl, NeedsReceive
  <2>5. FirstReceipt(i, Whole) <= step[i]
    <3>1. CASE i # FirstStage
      BY <2>2, <3>1, LagFacts DEF FirstReceipt
    <3>2. CASE i = FirstStage
      BY <1>1, <1>2, <2>2, <2>4, <3>2, LagFacts, SyncFacts, SegmentFacts DEF FirstReceipt, NeedsReceive
    <3> QED  BY <3>1, <3>2
  <2>6. step[i] < ReceiptsEnd(i, request[i], Whole)
    <3>1. CASE phase[i] = "alone"
      BY <1>1, <3>1, SyncFacts DEF ReceiptsEnd
    <3>2. CASE phase[i] = "warmup"
      BY <1>1, <3>2, SyncFacts, LagFacts, SegmentFacts DEF ReceiptsEnd
    <3>3. CASE phase[i] = "handover"
      <4>1. i = FirstStage
        BY <1>1, <2>1, <2>3, <3>3 DEF Ctl
      <4> QED  BY <1>1, <3>3, <4>1, SyncFacts, LagFacts, SegmentFacts DEF ReceiptsEnd
    <3> QED  BY <1>1, <1>2, <3>1, <3>2, <3>3
  <2> QED  BY <1>2, <2>2, <2>5, <2>6, SegmentFacts
<1>3. CASE phase[i] = "async"
  <2>1. /\ plan[request[i]].steps > Warmup /\ step[i] < plan[request[i]].steps - Warmup
        /\ Timestep(i) = step[i] + Warmup /\ Segment(i) = patch[i] /\ patch[i] \in Patches
        /\ step[i] \in Nat /\ patch[i] # Whole /\ Lag(i) \in 0 .. 1
        /\ InLastStep(i) <=> step[i] = plan[request[i]].steps - Warmup - 1
    BY <1>1, <1>3, AsyncFacts, LagFacts DEF InLastStep
  <2>2. step[i] >= Lag(i)
    <3>1. CASE pc[i] = "get"
      BY <1>1, <1>3, <3>1, AsyncFacts DEF Ctl
    <3>2. CASE pc[i] = "get_skip"
      <4>1. i # FirstStage
        BY <1>1, <3>2, Mirror, StageFacts DEF Ctl
      <4> QED  BY <2>1, <4>1, LagFacts
    <3>3. CASE pc[i] = "receive"
      <4>1. ~first_async_recv[i]
        BY <3>3 DEF Outstanding, SkipOutstanding
      <4>2. ~(step[i] < Lag(i))
        BY <1>1, <1>3, <4>1 DEF Ctl
      <4> QED  BY <2>1, <4>2
    <3>4. CASE pc[i] = "advance"
      <4>1. Prefetches(i)
        BY <3>4 DEF Outstanding, SkipOutstanding
      <4> QED  BY <1>1, <1>3, <4>1, AsyncFacts DEF Prefetches
    <3> QED  BY <1>1, <3>1, <3>2, <3>3, <3>4
  <2>3. \A p \in Patches : FirstReceipt(i, p) = Warmup + Lag(i)
                              /\ ReceiptsEnd(i, request[i], p) = plan[request[i]].steps
    BY SegmentFacts DEF FirstReceipt, ReceiptsEnd
  <2>4. PICK S \in Nat, l \in 0 .. 1, z \in Nat :
            /\ S = plan[request[i]].steps /\ l = Lag(i) /\ z = step[i] /\ z < S - Warmup /\ l <= z
            /\ InLastStep(i) <=> z = S - Warmup - 1
    BY <1>1, <2>1, <2>2
  <2>5. PICK t \in Nat : t = Timestep(i) /\ t = z + Warmup /\ Warmup + l <= t /\ t < S
    <3>1. z + Warmup \in Nat /\ Warmup + l <= z + Warmup /\ z + Warmup < S
      BY <1>1, <2>4
    <3> QED  BY <2>1, <2>4, <3>1
  <2>6. CASE pc[i] # "advance" \/ patch[i] < NumPatches - 1
    <3>1. PICK p \in Patches : p # Whole /\ p = (IF pc[i] = "advance" THEN patch[i] + 1 ELSE patch[i])
      BY ZenonT(40), <2>1, <2>6, NthFacts, SegmentFacts
    <3>2. \A m : Wanted(i, m) = Place(request[i], t, p, m)
      BY <1>1, <2>1, <2>5, <2>6, <3>1 DEF Wanted, Here, Following
    <3> QED  BY <1>3, <2>3, <2>4, <2>5, <3>1, <3>2, SegmentFacts
  <2>7. CASE pc[i] = "advance" /\ ~(patch[i] < NumPatches - 1)
    <3>1. patch[i] = NumPatches - 1 /\ 0 \in Patches /\ 0 # Whole
      BY <2>1, <2>7, NthFacts, SegmentFacts
    <3>2. ~InLastStep(i)
      BY <2>7, <3>1 DEF Outstanding, SkipOutstanding, Prefetches
    <3>3. t + 1 \in Nat /\ Warmup + l <= t + 1 /\ t + 1 < S
      <4>1. z # S - Warmup - 1
        BY <2>4, <3>2
      <4>2. z < S - Warmup /\ t = z + Warmup /\ Warmup + l <= t
        BY <2>4, <2>5
      <4>3. z + 1 < S - Warmup
        BY <1>1, <4>1, <4>2
      <4> QED  BY <1>1, <4>2, <4>3
    <3>4. \A m : Wanted(i, m) = Place(request[i], t + 1, 0, m)
      BY <2>5, <2>7 DEF Wanted, Following
    <3> QED  BY <1>3, <2>3, <2>4, <3>1, <3>3, <3>4, SegmentFacts
  <2> QED  BY <2>6, <2>7
<1> QED  BY <1>2, <1>3

\* The tensor of a segment is due, and so was its shape.
LEMMA TensorDue ==
    ASSUME plan \in Plans, NEW i \in Stages, NEW r \in 1 .. Len(plan), NEW t \in Nat, NEW p \in Segments,
           FirstReceipt(i, p) <= t, t < ReceiptsEnd(i, r, p)
    PROVE  /\ Place(r, t, p, 1) \in Due(i) /\ Place(r, t, p, 1) \in DueSkips(i)
           /\ Known(i, r, p, Place(r, t, p, 1))
<1>1. r \in Nat /\ FirstReceipt(i, p) \in Nat /\ p \in Int /\ ReceiptsEnd(i, r, p) \in Nat
  BY PlanFacts, SegmentFacts, LagFacts DEF FirstReceipt, ReceiptsEnd
<1>2. Place(r, t, p, 1) \in Position /\ FirstShape(i, r, p) \in Position
  BY <1>1, PlaceTyped DEF FirstShape
<1>3. Receives(i, Place(r, t, p, 1)) /\ Receives(i, FirstShape(i, r, p))
  BY <1>1, PlaceParts DEF Receives, FirstShape
<1>4. Place(r, t, p, 1) \in Due(i) /\ Place(r, t, p, 1) \in DueSkips(i) /\ FirstShape(i, r, p) \in Due(i)
  BY <1>2, <1>3, PlaceParts DEF Due, DueSkips, FirstShape
<1>5. Before(FirstShape(i, r, p), Place(r, t, p, 1))
  BY <1>1, PlaceParts, BeforePlace DEF FirstShape
<1> QED  BY <1>4, <1>5 DEF Known

\* A task that has got its message.
LEMMA OneArrived ==
    ASSUME NEW ts \in Seq(Tasks), NEW p, OneTask(ts, p)
    PROVE  LET us == [ts EXCEPT ![1].arrived = TRUE] IN
           /\ us # <<>> /\ us \in Seq(Tasks) /\ OneTask(us, p) /\ Head(us).arrived /\ Arrived(us) = 2
<1> DEFINE us == [ts EXCEPT ![1].arrived = TRUE]
<1>1. Len(ts) = 1 /\ ts[1].idx = p
  BY DEF OneTask
<1>2. ts[1] \in Tasks
  BY <1>1, ElementOfSeq, 1 \in 1 .. 1
<1>3. DOMAIN ts = 1 .. 1
  BY <1>1
<1>4. us = [k \in 1 .. 1 |-> [ts[1] EXCEPT !.arrived = TRUE]]
  <2>1. \A k \in 1 .. 1 : k = 1
    OBVIOUS
  <2> QED  BY <1>3, <2>1
<1> DEFINE v == [ts[1] EXCEPT !.arrived = TRUE]
<1>5. v \in Tasks /\ v.idx = p /\ v.arrived = TRUE
  <2>1. ts[1] \in [idx : Segments, arrived : BOOLEAN]
    BY <1>2 DEF Tasks
  <2>2. v.idx = ts[1].idx
    BY <2>1
  <2>3. v.arrived = TRUE
    BY <2>1
  <2>4. v \in [idx : Segments, arrived : BOOLEAN]
    BY <2>1
  <2> QED  BY <1>1, <2>2, <2>3, <2>4 DEF Tasks
<1> HIDE DEF v
<1>6. us = <<v>>
  <2>1. us = [k \in 1 .. 1 |-> v]
    BY <1>4 DEF v
  <2> QED  BY <2>1
<1>7. us # <<>> /\ us \in Seq(Tasks) /\ Len(us) = 1 /\ us[1] = v /\ Head(us) = v
  <2>1. <<v>> # <<>> /\ Len(<<v>>) = 1 /\ <<v>>[1] = v /\ Head(<<v>>) = v
    OBVIOUS
  <2>2. <<v>> \in Seq(Tasks)
    BY <1>5
  <2> QED  BY <1>6, <2>1, <2>2, Zenon
<1>8. OneTask(us, p) /\ Head(us).arrived
  BY <1>5, <1>7 DEF OneTask
<1> QED  BY <1>7, <1>8 DEF Arrived

\* A posted receive gets its tensor: the oldest message of the link is the one it is
\* for.
LEMMA DeliverStep ==
    ASSUME Inv, NEW i \in Stages, Deliver(i)
    PROVE  Inv'
<1>1. /\ Types /\ Local(i) /\ Ctl(i) /\ Receipts(i) /\ Shapes(i) /\ Buffers(i) /\ SkipBuffers(i) /\ Latents(i)
      /\ model \in Models /\ plan \in Plans
      /\ receiving_tasks[i] \in Seq(Tasks) /\ receiving_tasks[i] # <<>> /\ ~Head(receiving_tasks[i]).arrived
      /\ link[prev_rank(i)] # <<>> /\ request[i] \in Nat
  BY StageFacts, TypesAt DEF Deliver, Awaits
<1>2. Outstanding(i) /\ pc[i] # "idle" /\ request[i] \in 1 .. Len(plan)
      /\ pc[i] \in {"get", "receive", "advance"}
  BY <1>1, StageFacts DEF Receipts, Outstanding
<1>3. PICK t \in Nat, p \in Segments :
               /\ \A m : Wanted(i, m) = Place(request[i], t, p, m)
               /\ FirstReceipt(i, p) <= t /\ t < ReceiptsEnd(i, request[i], p)
               /\ phase[i] = "async" => p \in Patches /\ p # Whole
  BY <1>2, Awaited
<1> DEFINE q == Place(request[i], t, p, 1)
<1>4. /\ q \in Due(i) /\ Known(i, request[i], p, q)
      /\ RecvPos(i) = q /\ Wanted(i, 1) = q /\ q.patch = p
  <2>1. RecvPos(i) = Wanted(i, 1)
    BY <1>1, <1>2 DEF RecvPos, Arrived
  <2> QED  BY <1>1, <1>2, <1>3, <2>1, TensorDue, PlaceParts
<1>5. OneTask(receiving_tasks[i], p)
  BY <1>1, <1>2, <1>4 DEF Receipts
<1>6. Head(receiving_tasks[i]).idx = p
  BY <1>1, <1>5, OneLess
<1>7. Head(link[prev_rank(i)]).kind = "data" /\ Head(link[prev_rank(i)]).body = Body(i, q)
  <2>1. Same(Due(i), RecvPos(i), q)
    BY <1>4, SameFacts
  <2> QED  BY <1>1, <1>4, <2>1, FirstMessage
<1>8. Shape(Body(i, q)) = recv_shape[i][p]
  <2>1. recv_shape[i][p] = [size |-> plan[request[i]].size, patch |-> p]
    BY <1>1, <1>2, <1>4 DEF Shapes
  <2> QED  BY <2>1, PlaceParts DEF Shape, Body, Tensor
<1>9. /\ receiving_tasks' = [receiving_tasks EXCEPT ![i][1].arrived = TRUE]
      /\ recv_buffer' = [recv_buffer EXCEPT ![i][p] = Body(i, q)] /\ pc' = pc
      /\ link' = [link EXCEPT ![prev_rank(i)] = Tail(@)]
  BY <1>6, <1>7, <1>8 DEF Deliver
<1>10. prev_rank(i) \in Stages /\ prev_rank(i) # i /\ link[prev_rank(i)] \in Seq(Messages)
  BY <1>1, Ring, TypesAt
<1>11. link'[prev_rank(i)] = Tail(link[prev_rank(i)]) /\ link'[i] = link[i] /\ skip_link' = skip_link
  BY <1>1, <1>9, <1>10 DEF Deliver, Types
<1>12. /\ receiving_tasks'[i] # <<>> /\ Head(receiving_tasks'[i]).arrived
       /\ OneTask(receiving_tasks'[i], p) /\ Arrived(receiving_tasks'[i]) = 2
       /\ receiving_tasks'[i] \in Seq(Tasks)
  <2>1. receiving_tasks'[i] = [receiving_tasks[i] EXCEPT ![1].arrived = TRUE]
    BY <1>1, <1>9 DEF Types
  <2> QED  BY <1>1, <1>5, <2>1, OneArrived
<1>13. Static /\ SameWhere(i)
  BY DEF Deliver, Static, SameWhere, where
<1>14. /\ pc'[i] = pc[i] /\ io'[i] = io[i] /\ first_async_recv'[i] = first_async_recv[i]
       /\ request'[i] = request[i] /\ phase'[i] = phase[i] /\ step'[i] = step[i] /\ patch'[i] = patch[i]
       /\ pipeline_patch_idx'[i] = pipeline_patch_idx[i] /\ plan' = plan
       /\ recv_shape'[i] = recv_shape[i] /\ send_shape'[i] = send_shape[i]
       /\ skip_buffer'[i] = skip_buffer[i]
       /\ recv_tasks_queue'[i] = recv_tasks_queue[i] /\ recv_skip_tasks_queue'[i] = recv_skip_tasks_queue[i]
       /\ receiving_skip_tasks'[i] = receiving_skip_tasks[i]
       /\ latents'[i] = latents[i] /\ patch_latents'[i] = patch_latents[i]
  BY <1>9 DEF Deliver, where, tensors
<1>15. recv_buffer'[i] = [recv_buffer[i] EXCEPT ![p] = Body(i, q)] /\ recv_buffer'[i][p] = Body(i, q)
       /\ \A s \in Segments : s # p => recv_buffer'[i][s] = recv_buffer[i][s]
  BY <1>1, <1>9 DEF Types
<1>16. Others(i)
  <2>1. ASSUME NEW k \in Stages, k # i
        PROVE  receiving_tasks'[k] = receiving_tasks[k] /\ recv_buffer'[k] = recv_buffer[k]
    BY <1>1, <1>9, <2>1 DEF Types
  <2>2. \A k \in Stages : k # prev_rank(i) => link'[k] = link[k]
    BY <1>1, <1>9, <1>10 DEF Types
  <2> QED  BY <1>9, <1>11, <2>1, <2>2
           DEF Deliver, Others, Kept, SameWhere, SameTasks, SameBuffers, where, tensors
<1>17. Types'
  <2>1. receiving_tasks' \in [Stages -> Seq(Tasks)]
    <3>1. receiving_tasks' = [receiving_tasks EXCEPT ![i] = [@ EXCEPT ![1].arrived = TRUE]]
      BY <1>9
    <3>2. [receiving_tasks[i] EXCEPT ![1].arrived = TRUE] \in Seq(Tasks)
      BY <1>1, <1>5, OneArrived
    <3> QED  BY <1>1, <3>1, <3>2 DEF Types
  <2>2. DOMAIN recv_buffer' = Stages /\ \A k \in Stages : DOMAIN recv_buffer'[k] = Segments
    BY <1>1, <1>9 DEF Types
  <2>3. link' \in [Stages -> Seq(Messages)]
    <3>1. Tail(link[prev_rank(i)]) \in Seq(Messages)
      BY <1>1, <1>10, HeadTailProperties
    <3> QED  BY <1>1, <1>9, <3>1 DEF Types
  <2> QED  BY <1>1, <1>9, <2>1, <2>2, <2>3 DEF Deliver, Types, where, tensors
<1>18. /\ Timestep(i)' = Timestep(i) /\ Segment(i)' = Segment(i) /\ LoopSteps(i)' = LoopSteps(i)
       /\ NeedsReceive(i)' = NeedsReceive(i) /\ InLastStep(i)' = InLastStep(i)
       /\ Sends(i)' = Sends(i) /\ Prefetches(i)' = Prefetches(i) /\ ToPost(i)' = ToPost(i)
       /\ \A m : Here(i, m)' = Here(i, m) /\ Following(i, m)' = Following(i, m)
  BY <1>13, WhereRules
<1>19. /\ SendsSkip(i)' = SendsSkip(i) /\ ReceivesSkip(i)' = ReceivesSkip(i) /\ NextRequest(i)' = NextRequest(i)
       /\ Prefix(i)' = Prefix(i) /\ Prefix(i + 1)' = Prefix(i + 1)
       /\ Blocks(skip_rank(i))' = Blocks(skip_rank(i))
  BY <1>13, WhereRules, StaticRules
<1>20. \A m : Wanted(i, m)' = Wanted(i, m)
  BY <1>14, <1>18 DEF Wanted
<1>21. Ctl(i)'
  <2>1. CallsReceive(i)' = CallsReceive(i)
    BY <1>14, <1>18 DEF CallsReceive
  <2> QED  BY <1>1, <1>14, <1>18, <1>19, <2>1 DEF Ctl
<1>22. Receipts(i)'
  <2>1. Outstanding(i)' /\ SkipOutstanding(i)' = SkipOutstanding(i)
    <3>1. Outstanding(i)' = Outstanding(i)
      BY <1>14, <1>18 DEF Outstanding
    <3> QED  BY <1>2, <1>14, <1>19, <3>1 DEF SkipOutstanding
  <2>2. Queue(i)'
    <3>1. Posted(i)' = Posted(i)
      BY <1>14, <1>18 DEF Posted
    <3> QED  BY <1>1, <1>14, <1>18, <3>1 DEF Receipts, Queue
  <2>3. Wanted(i, 1)'.patch = Wanted(i, 1).patch
    BY <1>20
  <2> QED  BY <1>1, <1>4, <1>12, <1>14, <1>19, <2>1, <2>2, <2>3 DEF Receipts
<1>23. RecvPos(i)' = Place(request[i], t, p, 2)
  BY <1>2, <1>3, <1>12, <1>14, <1>20 DEF RecvPos
<1>24. SendPos(i)' = SendPos(i) /\ SkipSendPos(i)' = SkipSendPos(i) /\ SkipRecvPos(i)' = SkipRecvPos(i)
  BY <1>14, <1>18, <1>19, <1>20 DEF SendPos, SkipSendPos, SkipRecvPos
<1>25. SendStays(i) /\ SkipSendStays(i) /\ SkipRecvStays(i)
  BY <1>24, SameFacts DEF SendStays, SkipSendStays, SkipRecvStays
<1>26. Link(prev_rank(i))'
  <2>1. Same(Due(i), RecvPos(i), q)
    BY <1>4, SameFacts
  <2>2. RecvPos(i)' = Place(request[i], t, p, 1 + 1)
    BY <1>23
  <2> QED  BY <1>1, <1>4, <1>11, <1>13, <1>16, <2>1, <2>2, RecvTakes
<1>27. Link(i)' /\ SkipLink(i)'
  BY <1>11, <1>13, <1>16, <1>25, SendKeeps, SkipSendKeeps
<1>28. SkipLink(skip_rank(i))'
  BY <1>11, <1>13, <1>16, <1>25, <1>27, SkipRecvKeeps
<1>29. Shapes(i)'
  <2>1. SameShapes(Due(i), RecvPos(i), RecvPos(i)')
    <3>1. Passes(Due(i), q, q, Place(request[i], t, p, 1 + 1))
      BY <1>1, <1>4, Passed, DueTypes
    <3>2. RecvPos(i)' = Place(request[i], t, p, 1 + 1) /\ q.sub = 1
      BY <1>23, PlaceParts
    <3>3. Passes(Due(i), q, q, RecvPos(i)')
      BY <3>1, <3>2, Zenon
    <3>4. ASSUME NEW x \in Due(i), x.sub = 0
          PROVE  Before(x, RecvPos(i)') = Before(x, q)
      <4>1. x # q
        BY <3>2, <3>4
      <4> QED  BY <3>3, <4>1 DEF Passes, Before
    <3> QED  BY <1>4, <3>4 DEF SameShapes
  <2> QED  BY <1>2, <1>13, <1>14, <1>25, <2>1, ShapesStay, SameIsSameShapes DEF SendStays
<1>30. Buffers(i)'
  <2>1. Wanted(i, 1)' = q /\ Body(i, q)' = Body(i, q) /\ Body(i, Wanted(i, 1))' = Body(i, q)
    BY <1>4, <1>14, <1>19, <1>20 DEF Body
  <2>2. recv_buffer'[i][Wanted(i, 1)'.patch] = Body(i, Wanted(i, 1))'
    BY <1>4, <1>15, <2>1
  <2>3. pc'[i] \notin {"get_skip", "compute", "split"}
    BY <1>2, <1>14
  <2>4. i = FirstStage /\ (pc'[i] = "split" \/ (pc'[i] # "idle" /\ phase'[i] = "async" /\ step'[i] = 0)) =>
          recv_buffer'[i][Whole] = Body(i, Place(request[i], Warmup, Whole, 1))'
    <3> SUFFICES ASSUME i = FirstStage, phase[i] = "async", step[i] = 0
                 PROVE  recv_buffer'[i][Whole] = Body(i, Place(request[i], Warmup, Whole, 1))'
      BY <1>14, <2>3
    <3>1. recv_buffer[i][Whole] = Body(i, Place(request[i], Warmup, Whole, 1))
      BY <1>1, <1>2 DEF Buffers
    <3>2. recv_buffer'[i][Whole] = recv_buffer[i][Whole]
      BY <1>3, <1>15, SegmentFacts
    <3>3. Body(i, Place(request[i], Warmup, Whole, 1))' = Body(i, Place(request[i], Warmup, Whole, 1))
      BY <1>14, <1>19 DEF Body
    <3> QED  BY <3>1, <3>2, <3>3
  <2> QED  BY <2>2, <2>3, <2>4 DEF Buffers
<1>31. SkipBuffers(i)'
  <2>1. SkipBody(i, Wanted(i, 1))' = SkipBody(i, Wanted(i, 1)) /\ Wanted(i, 1)' = Wanted(i, 1)
    BY <1>19, <1>20 DEF SkipBody
  <2>2. pc'[i] # "compute"
    BY <1>2, <1>14
  <2> QED  BY <1>1, <1>14, <2>1, <2>2 DEF SkipBuffers
<1>32. Latents(i)'
  BY <1>1, <1>14, <1>18, <1>19 DEF Latents, Made, Held
<1> QED  BY <1>13, <1>16, <1>17, <1>21, <1>22, <1>26, <1>27, <1>28, <1>29, <1>30, <1>31, <1>32, Together DEF Local

\* The same of the skips; the mirrored stage has as many blocks.
LEMMA DeliverSkipStep ==
    ASSUME EvenSkips, Inv, NEW i \in Stages, DeliverSkip(i)
    PROVE  Inv'
<1>1. /\ Types /\ Local(i) /\ Ctl(i) /\ Receipts(i) /\ Shapes(i) /\ Buffers(i) /\ SkipBuffers(i) /\ Latents(i)
      /\ model \in Models /\ plan \in Plans
      /\ receiving_skip_tasks[i] \in Seq(Tasks) /\ receiving_skip_tasks[i] # <<>>
      /\ ~Head(receiving_skip_tasks[i]).arrived
      /\ skip_link[skip_rank(i)] # <<>> /\ request[i] \in Nat
  BY StageFacts, TypesAt DEF DeliverSkip, Awaits
<1>2. SkipOutstanding(i) /\ pc[i] # "idle" /\ request[i] \in 1 .. Len(plan) /\ ReceivesSkip(i)
      /\ pc[i] \in {"get", "get_skip", "receive", "advance"}
  <2>1. SkipOutstanding(i)
    BY <1>1 DEF Receipts
  <2>2. ReceivesSkip(i) /\ pc[i] \in {"get", "get_skip", "receive", "advance"}
    BY <2>1 DEF SkipOutstanding, Outstanding
  <2> QED  BY <2>1, <2>2, StageFacts
<1>3. PICK t \in Nat, p \in Segments :
               /\ \A m : Wanted(i, m) = Place(request[i], t, p, m)
               /\ FirstReceipt(i, p) <= t /\ t < ReceiptsEnd(i, request[i], p)
  BY <1>2, Awaited
<1> DEFINE q == Place(request[i], t, p, 1)
<1>4. /\ q \in DueSkips(i) /\ SkipRecvPos(i) = q /\ Wanted(i, 1) = q /\ q.patch = p
  <2>1. SkipRecvPos(i) = Wanted(i, 1)
    BY <1>1, <1>2 DEF SkipRecvPos, Arrived
  <2> QED  BY <1>1, <1>2, <1>3, <2>1, TensorDue, PlaceParts
<1>5. OneTask(receiving_skip_tasks[i], p)
  BY <1>1, <1>2, <1>4 DEF Receipts
<1>6. Head(receiving_skip_tasks[i]).idx = p
  BY <1>1, <1>5, OneLess
<1>7. Head(skip_link[skip_rank(i)]) = SkipBody(i, q)
  <2>1. Same(DueSkips(i), SkipRecvPos(i), q)
    BY <1>4, SameFacts
  <2> QED  BY <1>1, <1>2, <1>4, <2>1, FirstSkip
<1>8. Shape(SkipBody(i, q)) = [size |-> plan[request[i]].size, patch |-> p]
      /\ Len(SkipBody(i, q).blocks) = Len(Blocks(i))
  <2>1. Shape(SkipBody(i, q)) = [size |-> plan[request[i]].size, patch |-> p]
        /\ SkipBody(i, q).blocks = Blocks(skip_rank(i))
    BY PlaceParts DEF Shape, SkipBody, Tensor
  <2>2. model.skips
    BY <1>2 DEF ReceivesSkip
  <2> QED  BY <1>1, <2>1, <2>2, MirrorBlocks
<1>9. /\ receiving_skip_tasks' = [receiving_skip_tasks EXCEPT ![i][1].arrived = TRUE]
      /\ skip_buffer' = [skip_buffer EXCEPT ![i][p] = SkipBody(i, q)] /\ pc' = pc
      /\ skip_link' = [skip_link EXCEPT ![skip_rank(i)] = Tail(@)]
  BY <1>6, <1>7, <1>8 DEF DeliverSkip
<1>10. /\ skip_rank(i) \in Stages /\ skip_rank(i) # i /\ skip_link[skip_rank(i)] \in Seq(Tensors)
       /\ ~SendsSkip(i)
  BY <1>1, <1>2, Mirror, TypesAt
<1>11. skip_link'[skip_rank(i)] = Tail(skip_link[skip_rank(i)]) /\ skip_link'[i] = skip_link[i] /\ link' = link
  BY <1>1, <1>9, <1>10 DEF DeliverSkip, Types
<1>12. /\ receiving_skip_tasks'[i] # <<>> /\ Head(receiving_skip_tasks'[i]).arrived
       /\ OneTask(receiving_skip_tasks'[i], p) /\ Arrived(receiving_skip_tasks'[i]) = 2
       /\ receiving_skip_tasks'[i] \in Seq(Tasks)
  <2>1. receiving_skip_tasks'[i] = [receiving_skip_tasks[i] EXCEPT ![1].arrived = TRUE]
    BY <1>1, <1>9 DEF Types
  <2> QED  BY <1>1, <1>5, <2>1, OneArrived
<1>13. Static /\ SameWhere(i)
  BY DEF DeliverSkip, Static, SameWhere, where
<1>14. /\ pc'[i] = pc[i] /\ io'[i] = io[i] /\ first_async_recv'[i] = first_async_recv[i]
       /\ request'[i] = request[i] /\ phase'[i] = phase[i] /\ step'[i] = step[i] /\ patch'[i] = patch[i]
       /\ pipeline_patch_idx'[i] = pipeline_patch_idx[i] /\ plan' = plan
       /\ recv_shape'[i] = recv_shape[i] /\ send_shape'[i] = send_shape[i]
       /\ recv_buffer'[i] = recv_buffer[i]
       /\ recv_tasks_queue'[i] = recv_tasks_queue[i] /\ recv_skip_tasks_queue'[i] = recv_skip_tasks_queue[i]
       /\ receiving_tasks'[i] = receiving_tasks[i]
       /\ latents'[i] = latents[i] /\ patch_latents'[i] = patch_latents[i]
  BY <1>9 DEF DeliverSkip, where, tensors
<1>15. skip_buffer'[i][p] = SkipBody(i, q)
  BY <1>1, <1>9 DEF Types
<1>16. Others(i)
  <2>1. ASSUME NEW k \in Stages, k # i
        PROVE  receiving_skip_tasks'[k] = receiving_skip_tasks[k] /\ skip_buffer'[k] = skip_buffer[k]
    BY <1>1, <1>9, <2>1 DEF Types
  <2>2. \A k \in Stages : k # skip_rank(i) => skip_link'[k] = skip_link[k]
    BY <1>1, <1>9, <1>10 DEF Types
  <2> QED  BY <1>9, <1>11, <2>1, <2>2
           DEF DeliverSkip, Others, Kept, SameWhere, SameTasks, SameBuffers, where, tensors
<1>17. Types'
  <2>1. receiving_skip_tasks' \in [Stages -> Seq(Tasks)]
    <3>1. receiving_skip_tasks' = [receiving_skip_tasks EXCEPT ![i] = [@ EXCEPT ![1].arrived = TRUE]]
      BY <1>9
    <3>2. [receiving_skip_tasks[i] EXCEPT ![1].arrived = TRUE] \in Seq(Tasks)
      BY <1>1, <1>5, OneArrived
    <3> QED  BY <1>1, <3>1, <3>2 DEF Types
  <2>2. DOMAIN skip_buffer' = Stages /\ \A k \in Stages : DOMAIN skip_buffer'[k] = Segments
    BY <1>1, <1>9 DEF Types
  <2>3. skip_link' \in [Stages -> Seq(Tensors)]
    <3>1. Tail(skip_link[skip_rank(i)]) \in Seq(Tensors)
      BY <1>1, <1>10, HeadTailProperties
    <3> QED  BY <1>1, <1>9, <3>1 DEF Types
  <2> QED  BY <1>1, <1>9, <2>1, <2>2, <2>3 DEF DeliverSkip, Types, where, tensors
<1>18. /\ Timestep(i)' = Timestep(i) /\ Segment(i)' = Segment(i) /\ LoopSteps(i)' = LoopSteps(i)
       /\ NeedsReceive(i)' = NeedsReceive(i) /\ InLastStep(i)' = InLastStep(i)
       /\ Sends(i)' = Sends(i) /\ Prefetches(i)' = Prefetches(i) /\ ToPost(i)' = ToPost(i)
       /\ \A m : Here(i, m)' = Here(i, m) /\ Following(i, m)' = Following(i, m)
  BY <1>13, WhereRules
<1>19. /\ SendsSkip(i)' = SendsSkip(i) /\ ReceivesSkip(i)' = ReceivesSkip(i) /\ NextRequest(i)' = NextRequest(i)
       /\ Prefix(i)' = Prefix(i) /\ Prefix(i + 1)' = Prefix(i + 1)
       /\ Blocks(skip_rank(i))' = Blocks(skip_rank(i))
  BY <1>13, WhereRules, StaticRules
<1>20. \A m : Wanted(i, m)' = Wanted(i, m)
  BY <1>14, <1>18 DEF Wanted
<1>21. Ctl(i)'
  <2>1. CallsReceive(i)' = CallsReceive(i)
    BY <1>14, <1>18 DEF CallsReceive
  <2> QED  BY <1>1, <1>14, <1>18, <1>19, <2>1 DEF Ctl
<1>22. Receipts(i)'
  <2>1. SkipOutstanding(i)' /\ Outstanding(i)' = Outstanding(i)
    <3>1. Outstanding(i)' = Outstanding(i)
      BY <1>14, <1>18 DEF Outstanding
    <3> QED  BY <1>2, <1>14, <1>19, <3>1 DEF SkipOutstanding
  <2>2. Queue(i)'
    <3>1. Posted(i)' = Posted(i)
      BY <1>14, <1>18 DEF Posted
    <3> QED  BY <1>1, <1>14, <1>18, <3>1 DEF Receipts, Queue
  <2>3. Wanted(i, 1)'.patch = Wanted(i, 1).patch
    BY <1>20
  <2> QED  BY <1>1, <1>4, <1>12, <1>14, <1>19, <2>1, <2>2, <2>3 DEF Receipts
<1>23. SkipRecvPos(i)' = Place(request[i], t, p, 2)
  BY <1>2, <1>3, <1>12, <1>14, <1>20 DEF SkipRecvPos
<1>24. SendPos(i)' = SendPos(i) /\ RecvPos(i)' = RecvPos(i)
  BY <1>14, <1>18, <1>19, <1>20 DEF SendPos, RecvPos
<1>25. SendStays(i) /\ RecvStays(i) /\ SkipSendStays(i)
  BY <1>10, <1>24, SameFacts DEF SendStays, RecvStays, SkipSendStays
<1>26. SkipLink(skip_rank(i))'
  <2>1. Same(DueSkips(i), SkipRecvPos(i), q)
    BY <1>4, SameFacts
  <2> QED  BY <1>1, <1>2, <1>4, <1>11, <1>13, <1>16, <1>23, <2>1, SkipRecvTakes
<1>27. Link(i)' /\ SkipLink(i)' /\ Link(prev_rank(i))'
  <2>1. Link(prev_rank(i))'
    <3>1. link'[prev_rank(i)] = link[prev_rank(i)]
      BY <1>11
    <3> QED  BY <1>13, <1>16, <1>25, <3>1, RecvKeeps
  <2> QED  BY <1>11, <1>13, <1>16, <1>25, <2>1, SendKeeps, SkipSendKeeps
<1>28. Shapes(i)'
  BY <1>2, <1>13, <1>14, <1>25, ShapesStay, SameIsSameShapes DEF SendStays, RecvStays
<1>29. Buffers(i)'
  <2>1. Wanted(i, 1)' = Wanted(i, 1) /\ Body(i, Wanted(i, 1))' = Body(i, Wanted(i, 1))
        /\ Here(i, 1)' = Here(i, 1) /\ Body(i, Here(i, 1))' = Body(i, Here(i, 1))
        /\ Body(i, Place(request[i], Warmup, Whole, 1))' = Body(i, Place(request[i], Warmup, Whole, 1))
    BY <1>14, <1>18, <1>19, <1>20 DEF Body
  <2> QED  BY <1>1, <1>14, <1>18, <2>1 DEF Buffers
<1>30. SkipBuffers(i)'
  <2>1. Wanted(i, 1)' = q /\ SkipBody(i, Wanted(i, 1))' = SkipBody(i, q)
    BY <1>4, <1>14, <1>19, <1>20 DEF SkipBody
  <2>2. skip_buffer'[i][Wanted(i, 1)'.patch] = SkipBody(i, Wanted(i, 1))'
    BY <1>4, <1>15, <2>1
  <2>3. pc'[i] # "compute"
    BY <1>2, <1>14
  <2> QED  BY <2>2, <2>3 DEF SkipBuffers
<1>31. Latents(i)'
  BY <1>1, <1>14, <1>18, <1>19 DEF Latents, Made, Held
<1> QED  BY <1>13, <1>16, <1>17, <1>21, <1>22, <1>26, <1>27, <1>28, <1>29, <1>30, <1>31, Together DEF Local

-----------------------------------------------------------------------------
(* The computation. *)

\* What a stage computes from.
LEMMA InputFacts ==
    ASSUME Inv, NEW i \in Stages, pc[i] = "compute"
    PROVE  /\ InputLatent(i) = Tensor(request[i], Timestep(i), Segment(i), Prefix(i))
           /\ i = LastStage => PreviousLatent(i) = Tensor(request[i], Timestep(i), Segment(i), <<>>)
           /\ phase[i] # "handover"
<1>1. /\ Ctl(i) /\ Buffers(i) /\ Latents(i) /\ pc[i] # "idle" /\ ~Made(i) /\ model \in Models
      /\ phase[i] \in {"warmup", "alone", "handover", "async"}
  BY StageFacts, TypesAt DEF Made
<1>2. phase[i] # "handover"
  BY <1>1 DEF Ctl
<1>3. InputLatent(i) = Tensor(request[i], Timestep(i), Segment(i), Prefix(i))
  <2>1. CASE NeedsReceive(i)
    <3>1. recv_buffer[i][Segment(i)] = Body(i, Here(i, 1))
      BY <1>1, <2>1 DEF Buffers
    <3>2. Body(i, Here(i, 1)) = Tensor(request[i], Timestep(i), Segment(i), Prefix(i))
      BY PlaceParts DEF Body, Here
    <3> QED  BY <2>1, <3>1, <3>2 DEF InputLatent
  <2>2. CASE ~NeedsReceive(i)
    <3>1. i = FirstStage /\ step[i] = 0
      BY <1>1, <2>2, NotNeeded
    <3>2. Prefix(i) = <<>>
      BY <1>1, <3>1, PrefixEnds DEF FirstStage
    <3>3. CASE phase[i] = "async"
      <4>1. recv_buffer[i][Whole] = Body(i, Place(request[i], Warmup, Whole, 1))
        BY <1>1, <3>1, <3>3 DEF Buffers
      <4>2. Body(i, Place(request[i], Warmup, Whole, 1)) = Tensor(request[i], Warmup, Whole, Prefix(i))
        BY PlaceParts DEF Body
      <4>3. Timestep(i) = Warmup /\ Segment(i) = patch[i]
        BY <3>1, <3>3, SegmentFacts DEF Timestep, Segment
      <4>4. [Tensor(request[i], Warmup, Whole, Prefix(i)) EXCEPT !.patch = patch[i]] =
                Tensor(request[i], Warmup, patch[i], Prefix(i))
        BY DEF Tensor
      <4> QED  BY <2>2, <3>3, <4>1, <4>2, <4>3, <4>4 DEF InputLatent
    <3>4. CASE phase[i] # "async"
      <4>1. latents[i] = Tensor(request[i], 0, Whole, <<>>)
        BY <1>1, <1>2, <3>1, <3>4 DEF Latents
      <4>2. Timestep(i) = 0 /\ Segment(i) = Whole
        BY <3>1, <3>4 DEF Timestep, Segment
      <4> QED  BY <2>2, <3>2, <3>4, <4>1, <4>2 DEF InputLatent
    <3> QED  BY <3>3, <3>4
  <2> QED  BY <2>1, <2>2
<1>4. i = LastStage => PreviousLatent(i) = Tensor(request[i], Timestep(i), Segment(i), <<>>)
  <2> SUFFICES ASSUME i = LastStage
               PROVE  PreviousLatent(i) = Tensor(request[i], Timestep(i), Segment(i), <<>>)
    OBVIOUS
  <2>1. Timestep(i) \in Nat
    BY PlacesTyped, StageFacts
  <2>2. CASE phase[i] = "async"
    <3>1. patch[i] \in Patches /\ patch[i] \in Nat
      BY StageFacts, TypesAt, SegmentFacts
    <3>2. patch_latents[i][patch[i]] = Tensor(request[i], Timestep(i) + 0, patch[i], <<>>)
      BY <1>1, <2>2, <3>1 DEF Latents
    <3>3. Timestep(i) + 0 = Timestep(i) /\ Segment(i) = patch[i]
      BY <2>1, <2>2 DEF Segment
    <3> QED  BY <2>2, <3>2, <3>3 DEF PreviousLatent, Held
  <2>3. CASE phase[i] # "async"
    <3>1. latents[i] = Tensor(request[i], Timestep(i) + 0, Whole, <<>>)
      BY <1>1, <2>3 DEF Latents
    <3>2. Timestep(i) + 0 = Timestep(i) /\ Segment(i) = Whole
      BY <2>1, <2>3 DEF Segment
    <3> QED  BY <2>3, <3>1, <3>2 DEF PreviousLatent, Held
  <2> QED  BY <2>2, <2>3
<1> QED  BY <1>2, <1>3, <1>4

\* A stage that does not send is at the end of a request.
LEMMA NotSent ==
    ASSUME Inv, NEW i \in Stages, pc[i] = "compute", ~Sends(i)
    PROVE  /\ i = LastStage /\ ~SendsSkip(i)
           /\ \A m \in 0 .. 1 :
                  Place(request[i], Timestep(i) + Lag(next_rank(i)), Segment(i), m) \notin Due(next_rank(i))
<1>1. /\ i = LastStage /\ phase[i] \in {"async", "alone"} /\ InLastStep(i) /\ pc[i] # "idle"
      /\ plan \in Plans /\ model \in Models /\ request[i] \in 1 .. Len(plan) /\ plan[request[i]].steps \in Nat
      /\ Warmup \in Nat
  BY StageFacts, SegmentFacts DEF Sends
<1>2. ~SendsSkip(i)
  BY <1>1, Mirror
<1>3. Lag(next_rank(i)) = 1
  BY <1>1, Ring, LagFacts
<1>4. Timestep(i) + 1 = plan[request[i]].steps
  <2>1. CASE phase[i] = "async"
    BY SMTT(30), <1>1, <2>1, AsyncFacts DEF InLastStep
  <2>2. CASE phase[i] = "alone"
    BY <1>1, <2>2, SyncFacts DEF InLastStep
  <2> QED  BY <1>1, <2>1, <2>2
<1>5. ASSUME NEW m \in 0 .. 1, Place(request[i], Timestep(i) + 1, Segment(i), m) \in Due(next_rank(i))
      PROVE  FALSE
  <2>1. Timestep(i) + 1 < plan[request[i]].steps
    BY <1>1, <1>5, DueFacts, PlaceParts
  <2> QED  BY <1>1, <1>4, <2>1
<1> QED  BY <1>1, <1>2, <1>3, <1>5

\* The backbone, and the scheduler's step of the last stage.
LEMMA ComputeStep ==
    ASSUME EvenSkips, Inv, NEW i \in Stages, Compute(i)
    PROVE  Inv'
<1>1. /\ Types /\ Local(i) /\ Ctl(i) /\ Receipts(i) /\ Shapes(i) /\ Buffers(i) /\ SkipBuffers(i) /\ Latents(i)
      /\ model \in Models /\ plan \in Plans /\ pc[i] = "compute" /\ io[i] = "idle" /\ pc[i] # "idle"
      /\ request[i] \in Nat /\ Timestep(i) \in Nat /\ Segment(i) \in Segments /\ patch[i] \in Patches
      /\ phase[i] \in {"warmup", "alone", "handover", "async"}
  <2>1. pc[i] = "compute" /\ io[i] = "idle"
    BY Idle DEF Compute, CallsReceive
  <2> QED  BY <2>1, StageFacts, TypesAt, PlacesTyped
<1>2. /\ InputLatent(i) = Tensor(request[i], Timestep(i), Segment(i), Prefix(i))
      /\ i = LastStage => PreviousLatent(i) = Tensor(request[i], Timestep(i), Segment(i), <<>>)
      /\ phase[i] # "handover"
  BY <1>1, InputFacts
<1> DEFINE made == IF i = LastStage THEN Tensor(request[i], Timestep(i) + 1, Segment(i), <<>>)
                   ELSE Tensor(request[i], Timestep(i), Segment(i), Prefix(i + 1))
<1>3. (IF i = LastStage THEN [PreviousLatent(i) EXCEPT !.step = @ + 1]
                ELSE [InputLatent(i) EXCEPT !.blocks = @ \o Blocks(i)]) = made
  <2>1. [Tensor(request[i], Timestep(i), Segment(i), <<>>) EXCEPT !.step = @ + 1] =
            Tensor(request[i], Timestep(i) + 1, Segment(i), <<>>)
    BY DEF Tensor
  <2>2. [Tensor(request[i], Timestep(i), Segment(i), Prefix(i)) EXCEPT !.blocks = @ \o Blocks(i)] =
            Tensor(request[i], Timestep(i), Segment(i), Prefix(i) \o Blocks(i))
    <3>1. \A b : [Tensor(request[i], Timestep(i), Segment(i), Prefix(i)) EXCEPT !.blocks = b] =
                     Tensor(request[i], Timestep(i), Segment(i), b)
      BY DEF Tensor
    <3>2. Tensor(request[i], Timestep(i), Segment(i), Prefix(i)).blocks = Prefix(i)
      BY DEF Tensor
    <3> QED  BY <3>1, <3>2
  <2>3. Prefix(i) \o Blocks(i) = Prefix(i + 1)
    BY <1>1, PrefixStep
  <2> QED  BY <1>2, <2>1, <2>2, <2>3
<1> HIDE DEF made
<1>4. /\ phase[i] = "async" => patch_latents' = [patch_latents EXCEPT ![i][patch[i]] = made] /\ latents' = latents
      /\ phase[i] # "async" => latents' = [latents EXCEPT ![i] = made] /\ patch_latents' = patch_latents
  BY <1>3 DEF Compute
<1>5. pc' = [pc EXCEPT ![i] = IF Sends(i) THEN "send" ELSE IF phase[i] = "async" THEN "prefetch" ELSE "advance"]
  BY DEF Compute
<1>6. Static /\ SameWhere(i) /\ SameTasks(i) /\ skip_link' = skip_link /\ link' = link
  BY DEF Compute, Static, SameWhere, SameTasks, where, queues, buffers, links
<1>7. /\ pc'[i] = IF Sends(i) THEN "send" ELSE IF phase[i] = "async" THEN "prefetch" ELSE "advance"
      /\ io'[i] = "idle" /\ first_async_recv'[i] = first_async_recv[i]
      /\ recv_tasks_queue'[i] = recv_tasks_queue[i] /\ recv_skip_tasks_queue'[i] = recv_skip_tasks_queue[i]
      /\ receiving_tasks'[i] = receiving_tasks[i] /\ receiving_skip_tasks'[i] = receiving_skip_tasks[i]
      /\ request'[i] = request[i] /\ phase'[i] = phase[i] /\ step'[i] = step[i] /\ patch'[i] = patch[i]
      /\ pipeline_patch_idx'[i] = pipeline_patch_idx[i] /\ plan' = plan
      /\ recv_shape'[i] = recv_shape[i] /\ send_shape'[i] = send_shape[i]
      /\ recv_buffer'[i] = recv_buffer[i] /\ skip_buffer'[i] = skip_buffer[i]
  BY <1>1, <1>5, <1>6 DEF Compute, Types, SameWhere, SameTasks, Static, where, buffers
<1>8. pc'[i] \in {"send", "prefetch", "advance"} /\ pc'[i] # "idle"
  BY <1>7
<1>9. Others(i)
  <2>1. ASSUME NEW k \in Stages, k # i
        PROVE  pc'[k] = pc[k] /\ latents'[k] = latents[k] /\ patch_latents'[k] = patch_latents[k]
    BY <1>1, <1>4, <1>5, <2>1 DEF Types
  <2> QED  BY <2>1, <1>6
           DEF Compute, Others, Kept, SameWhere, SameTasks, SameBuffers, where, queues, buffers, links
<1>10. Types'
  <2>1. pc' \in [Stages -> Places]
    BY <1>1, <1>5 DEF Types, Places
  <2>2. DOMAIN latents' = Stages /\ DOMAIN patch_latents' = Stages
        /\ \A k \in Stages : DOMAIN patch_latents'[k] = Patches
    <3>1. CASE phase[i] = "async"
      <4>1. patch_latents' = [patch_latents EXCEPT ![i] = [@ EXCEPT ![patch[i]] = made]] /\ latents' = latents
        BY <1>4, <3>1
      <4>2. DOMAIN patch_latents' = Stages
        BY <1>1, <4>1 DEF Types
      <4>3. ASSUME NEW k \in Stages PROVE DOMAIN patch_latents'[k] = Patches
        <5>1. CASE k = i
          BY <1>1, <4>1, <5>1 DEF Types
        <5>2. CASE k # i
          BY <1>1, <4>1, <5>2 DEF Types
        <5> QED  BY <5>1, <5>2
      <4> QED  BY <1>1, <4>1, <4>2, <4>3 DEF Types
    <3>2. CASE phase[i] # "async"
      BY <1>1, <1>4, <3>2 DEF Types
    <3> QED  BY <3>1, <3>2
  <2> QED  BY <1>1, <2>1, <2>2 DEF Compute, Types, where, queues, buffers, links
<1>11. /\ Timestep(i)' = Timestep(i) /\ Segment(i)' = Segment(i) /\ LoopSteps(i)' = LoopSteps(i)
       /\ NeedsReceive(i)' = NeedsReceive(i) /\ InLastStep(i)' = InLastStep(i)
       /\ Sends(i)' = Sends(i) /\ Prefetches(i)' = Prefetches(i) /\ ToPost(i)' = ToPost(i)
       /\ \A m : Here(i, m)' = Here(i, m)
  BY <1>6, WhereRules
<1>12. /\ SendsSkip(i)' = SendsSkip(i) /\ ReceivesSkip(i)' = ReceivesSkip(i) /\ NextRequest(i)' = NextRequest(i)
       /\ Prefix(i)' = Prefix(i) /\ Prefix(i + 1)' = Prefix(i + 1)
       /\ Blocks(skip_rank(i))' = Blocks(skip_rank(i))
  BY <1>6, WhereRules, StaticRules
<1>13. Ctl(i)'
  BY <1>1, <1>2, <1>7, <1>8, <1>11, <1>12 DEF Ctl
<1>14. /\ ~Outstanding(i) /\ ~SkipOutstanding(i) /\ ~Outstanding(i)' /\ ~SkipOutstanding(i)'
       /\ receiving_tasks[i] = <<>> /\ receiving_skip_tasks[i] = <<>>
  <2>1. ~Outstanding(i) /\ ~SkipOutstanding(i)
    BY <1>1 DEF Outstanding, SkipOutstanding
  <2>2. ~Outstanding(i)'
    BY <1>7 DEF Outstanding
  <2>3. ~SkipOutstanding(i)'
    BY <1>7, <2>2 DEF SkipOutstanding
  <2> QED  BY <1>1, <2>1, <2>2, <2>3 DEF Receipts
<1>15. Receipts(i)'
  <2>1. Queue(i)'
    <3>1. phase[i] = "async" => Posted(i)' = Posted(i)
      BY <1>1, <1>7, <1>8 DEF Posted
    <3> QED  BY <1>1, <1>7, <1>8, <1>11, <3>1 DEF Receipts, Queue
  <2> QED  BY <1>1, <1>7, <1>12, <1>14, <2>1 DEF Receipts
<1>16. RecvPos(i)' = RecvPos(i) /\ SkipRecvPos(i)' = SkipRecvPos(i)
  <2>1. RecvPos(i) = Here(i, 2) /\ SkipRecvPos(i) = Here(i, 2)
    BY <1>1, <1>14 DEF RecvPos, SkipRecvPos
  <2>2. RecvPos(i)' = Here(i, 2) /\ SkipRecvPos(i)' = Here(i, 2)
    BY <1>7, <1>8, <1>11, <1>14 DEF RecvPos, SkipRecvPos
  <2> QED  BY <2>1, <2>2
<1>17. SendStays(i) /\ SkipSendStays(i)
  <2>1. SendPos(i) = Place(request[i], Timestep(i) + Lag(next_rank(i)), Segment(i), 0)
    BY <1>1 DEF SendPos
  <2>2. CASE Sends(i)
    <3>1. SendPos(i)' = SendPos(i) /\ SkipSendPos(i)' = SkipSendPos(i)
      BY <1>1, <1>7, <1>11, <2>2 DEF SendPos, SkipSendPos
    <3> QED  BY <3>1, SameFacts DEF SendStays, SkipSendStays
  <2>3. CASE ~Sends(i)
    <3>1. /\ ~SendsSkip(i)
          /\ \A m \in 0 .. 1 :
                  Place(request[i], Timestep(i) + Lag(next_rank(i)), Segment(i), m) \notin Due(next_rank(i))
      BY <1>1, <2>3, NotSent
    <3>2. SendPos(i)' = Place(request[i], Timestep(i) + Lag(next_rank(i)), Segment(i), 2)
      BY <1>7, <1>11, <2>3 DEF SendPos
    <3>3. Timestep(i) + Lag(next_rank(i)) \in Nat /\ Due(next_rank(i)) \in SUBSET Position
      BY <1>1, LagFacts, DueTypes
    <3>4. Same(Due(next_rank(i)), SendPos(i), SendPos(i)')
      BY <1>1, <2>1, <3>1, <3>2, <3>3, PassedOver
    <3> QED  BY <3>1, <3>4 DEF SendStays, SkipSendStays
  <2> QED  BY <2>2, <2>3
<1>18. RecvStays(i) /\ SkipRecvStays(i)
  BY <1>16, SameFacts DEF RecvStays, SkipRecvStays
<1>19. Shapes(i)'
  BY <1>1, <1>6, <1>7, <1>17, <1>18, ShapesStay, SameIsSameShapes DEF RecvStays, SendStays
<1>20. Buffers(i)'
  <2>1. Body(i, Place(request[i], Warmup, Whole, 1))' = Body(i, Place(request[i], Warmup, Whole, 1))
    BY <1>7, <1>12 DEF Body
  <2> QED  BY <1>1, <1>7, <1>8, <1>14, <2>1 DEF Buffers
<1>21. SkipBuffers(i)'
  BY <1>7, <1>8, <1>14 DEF SkipBuffers
<1>22. Latents(i)'
  <2>1. Made(i)' /\ ~Made(i)
    BY <1>1, <1>8 DEF Made
  <2>2. CASE phase[i] = "async"
    <3>1. patch_latents'[i] = [patch_latents[i] EXCEPT ![patch[i]] = made]
          /\ \A p \in Patches : patch_latents'[i][p] = IF p = patch[i] THEN made ELSE patch_latents[i][p]
      BY <1>1, <1>4, <2>2 DEF Types
    <3>2. Held(i)' = made
      BY <1>1, <1>7, <2>2, <3>1 DEF Held
    <3>3. i # LastStage => Held(i)' = Tensor(request[i], Timestep(i), Segment(i), Prefix(i + 1))
      BY <3>2 DEF made
    <3>4. i = LastStage => made = Tensor(request[i], Timestep(i) + 1, patch[i], <<>>)
      BY <2>2 DEF made, Segment
    <3>5. i = LastStage => \A p \in Patches :
              patch_latents'[i][p] =
                  Tensor(request[i],
                         Timestep(i) + (IF p < patch[i] \/ p = patch[i] THEN 1 ELSE 0),
                         p, <<>>)
      <4> SUFFICES ASSUME i = LastStage, NEW p \in Patches
                   PROVE  patch_latents'[i][p] =
                            Tensor(request[i],
                                   Timestep(i) + (IF p < patch[i] \/ p = patch[i] THEN 1 ELSE 0),
                                   p, <<>>)
        OBVIOUS
      <4>1. patch_latents[i][p] = Tensor(request[i], Timestep(i) + (IF p < patch[i] THEN 1 ELSE 0), p, <<>>)
        BY <1>1, <2>1, <2>2 DEF Latents
      <4>2. CASE p = patch[i]
        BY <3>1, <3>4, <4>2
      <4>3. CASE p # patch[i]
        BY <3>1, <4>1, <4>3
      <4> QED  BY <4>2, <4>3
    <3> QED  BY <1>7, <1>8, <1>11, <1>12, <2>1, <2>2, <3>3, <3>5 DEF Latents
  <2>3. CASE phase[i] # "async"
    <3>1. latents'[i] = made /\ Held(i)' = made
      BY <1>1, <1>4, <1>7, <2>3 DEF Held, Types
    <3>2. i # LastStage => Held(i)' = Tensor(request[i], Timestep(i), Segment(i), Prefix(i + 1))
      BY <3>1 DEF made
    <3>3. i = LastStage => latents'[i] = Tensor(request[i], Timestep(i) + 1, Whole, <<>>)
      BY <2>3, <3>1 DEF made, Segment
    <3> QED  BY <1>7, <1>8, <1>11, <1>12, <2>1, <2>3, <3>2, <3>3 DEF Latents
  <2> QED  BY <2>2, <2>3
<1> QED  BY <1>6, <1>9, <1>10, <1>13, <1>15, <1>17, <1>18, <1>19, <1>20, <1>21, <1>22, Quiet DEF Local

-----------------------------------------------------------------------------
(* The sends. *)

\* What a stage sends is due to the stage that receives it.
LEMMA SentDue ==
    ASSUME Inv, NEW i \in Stages, pc[i] # "idle", phase[i] # "handover",
           NEW j \in Stages, j = FirstStage => i = LastStage /\ Sends(i)
    PROVE  /\ Timestep(i) + Lag(j) \in Nat
           /\ FirstReceipt(j, Segment(i)) <= Timestep(i) + Lag(j)
           /\ Timestep(i) + Lag(j) < ReceiptsEnd(j, request[i], Segment(i))
<1>1. /\ request[i] \in 1 .. Len(plan) /\ plan[request[i]].steps \in Nat /\ Warmup \in Nat
      /\ phase[i] \in {"warmup", "alone", "async"} /\ Timestep(i) \in Nat
      /\ Lag(j) \in 0 .. 1 /\ (j # FirstStage => Lag(j) = 0) /\ (j = FirstStage => Lag(j) = 1)
  BY StageFacts, TypesAt, SegmentFacts, PlacesTyped, LagFacts
<1>2. j = FirstStage /\ phase[i] \in {"alone", "async"} => ~InLastStep(i)
  BY DEF Sends
<1>3. CASE phase[i] = "async"
  <2>1. /\ step[i] < plan[request[i]].steps - Warmup /\ step[i] \in Nat
        /\ Timestep(i) = step[i] + Warmup /\ Segment(i) # Whole
        /\ InLastStep(i) <=> step[i] = plan[request[i]].steps - Warmup - 1
    BY <1>3, AsyncFacts DEF InLastStep
  <2>2. FirstReceipt(j, Segment(i)) = Warmup + Lag(j)
        /\ ReceiptsEnd(j, request[i], Segment(i)) = plan[request[i]].steps
    BY <2>1 DEF FirstReceipt, ReceiptsEnd
  <2>3. PICK S \in Nat, z \in Nat, l \in 0 .. 1 :
            S = plan[request[i]].steps /\ z = step[i] /\ l = Lag(j) /\ z < S - Warmup
    BY <1>1, <2>1
  <2>4. l = 1 => z # S - Warmup - 1
    BY <1>1, <1>2, <1>3, <2>1, <2>3
  <2>5. (z + Warmup) + l \in Nat /\ Warmup + l <= (z + Warmup) + l /\ (z + Warmup) + l < S
    <3>1. PICK W \in Nat : W = Warmup
      BY <1>1
    <3>2. z < S - W /\ (l = 1 => z # S - W - 1)
      BY <2>3, <2>4, <3>1
    <3>3. (z + W) + l \in Nat /\ W + l <= (z + W) + l /\ (z + W) + l < S
      <4>1. z + W < S
        BY <3>2
      <4>2. l = 0 \/ l = 1
        OBVIOUS
      <4>3. l = 1 => z + W + 1 < S
        BY <3>2
      <4> QED  BY <4>1, <4>2, <4>3
    <3> QED  BY <3>1, <3>3
  <2> QED  BY <2>1, <2>2, <2>3, <2>5
<1>4. CASE phase[i] = "alone"
  <2>1. /\ plan[request[i]].steps <= Warmup /\ step[i] < plan[request[i]].steps /\ step[i] \in Nat
        /\ Timestep(i) = step[i] /\ Segment(i) = Whole
        /\ InLastStep(i) <=> step[i] = plan[request[i]].steps - 1
    BY <1>4, SyncFacts DEF InLastStep
  <2>2. FirstReceipt(j, Segment(i)) = Lag(j)
        /\ ReceiptsEnd(j, request[i], Segment(i)) = plan[request[i]].steps
    BY <2>1 DEF FirstReceipt, ReceiptsEnd
  <2> QED  BY <1>1, <1>2, <1>4, <2>1, <2>2
<1>5. CASE phase[i] = "warmup"
  <2>1. /\ plan[request[i]].steps > Warmup /\ step[i] < Warmup /\ step[i] \in Nat
        /\ Timestep(i) = step[i] /\ Segment(i) = Whole
    BY <1>5, SyncFacts
  <2>2. FirstReceipt(j, Segment(i)) = Lag(j)
        /\ ReceiptsEnd(j, request[i], Segment(i)) = Warmup + Lag(j)
    BY <1>1, <2>1 DEF FirstReceipt, ReceiptsEnd
  <2> QED  BY <1>1, <2>1, <2>2
<1> QED  BY <1>1, <1>3, <1>4, <1>5

\* What a stage holds when it sends is what the next one is due.
LEMMA HeldFacts ==
    ASSUME Inv, NEW i \in Stages, Made(i)
    PROVE  /\ phase[i] # "handover"
           /\ \A m : Held(i) = Body(next_rank(i), Place(request[i], Timestep(i) + Lag(next_rank(i)), Segment(i), m))
           /\ Held(i) \in Tensors
           /\ Held(i).request = request[i] /\ Held(i).patch = Segment(i)
           /\ i # LastStage => Held(i).step = Timestep(i)
<1>1. /\ Ctl(i) /\ Latents(i) /\ pc[i] # "idle" /\ model \in Models /\ request[i] \in Nat
      /\ Timestep(i) \in Nat /\ Segment(i) \in Segments /\ patch[i] \in Patches
  BY StageFacts, TypesAt, PlacesTyped DEF Made
<1>2. phase[i] # "handover"
  BY <1>1 DEF Ctl, Made
<1> DEFINE j == next_rank(i)
<1>3. Held(i) = Tensor(request[i], Timestep(i) + Lag(j), Segment(i), Prefix(j))
  <2>1. CASE i = LastStage
    <3>1. j = FirstStage /\ Lag(j) = 1 /\ Prefix(j) = <<>>
      BY <1>1, <2>1, Ring, LagFacts, PrefixEnds DEF FirstStage
    <3>2. CASE phase[i] = "async"
      <4>1. patch_latents[i][patch[i]] = Tensor(request[i], Timestep(i) + 1, patch[i], <<>>)
        BY <1>1, <2>1, <3>2 DEF Latents
      <4> QED  BY <3>1, <3>2, <4>1 DEF Held, Segment
    <3>3. CASE phase[i] # "async"
      BY <1>1, <2>1, <3>1, <3>3 DEF Latents, Held, Segment
    <3> QED  BY <3>2, <3>3
  <2>2. CASE i # LastStage
    <3>1. j = i + 1 /\ Timestep(i) + Lag(j) = Timestep(i)
      <4>1. j = i + 1 /\ j # FirstStage
        BY <2>2, Ring
      <4> QED  BY <1>1, <4>1, LagFacts
    <3>2. Held(i) = Tensor(request[i], Timestep(i), Segment(i), Prefix(i + 1))
      BY <1>1, <2>2 DEF Latents
    <3> QED  BY <3>1, <3>2
  <2> QED  BY <2>1, <2>2
<1>4. \A m : Body(j, Place(request[i], Timestep(i) + Lag(j), Segment(i), m)) =
                 Tensor(request[i], Timestep(i) + Lag(j), Segment(i), Prefix(j))
  BY PlaceParts DEF Body
<1>5. Prefix(j) \in Seq(Nat)
  <2>1. \A k \in 0 .. NumStages : Bound(k) \in Nat
    BY <1>1, Bounds
  <2>2. j \in 0 .. NumStages
    BY Ring DEF Stages
  <2>3. Bound(j) \in Nat
    BY <2>1, <2>2
  <2> QED  BY <2>3 DEF Prefix
<1>6. Held(i) \in Tensors
  BY <1>1, <1>3, <1>5, LagFacts DEF Tensors, Tensor
<1>7. i # LastStage => Timestep(i) + Lag(j) = Timestep(i)
  BY <1>1, Ring, LagFacts
<1> QED  BY <1>2, <1>3, <1>4, <1>6, <1>7 DEF Tensor

\* The shape of a segment is due in the first step it is received in, and known later.
LEMMA KnownAt ==
    ASSUME plan \in Plans, NEW j \in Stages, NEW r \in 1 .. Len(plan), NEW t \in Nat, NEW p \in Segments,
           FirstReceipt(j, p) <= t, t < ReceiptsEnd(j, r, p)
    PROVE  /\ Known(j, r, p, Place(r, t, p, 0)) <=> FirstReceipt(j, p) < t
           /\ Place(r, t, p, 0) \in Due(j) <=> FirstReceipt(j, p) = t
           /\ Place(r, t, p, 0) \in Due(j) =>
                  \A s \in Segments : Known(j, r, s, Place(r, t, p, 1))
                                          <=> (Known(j, r, s, Place(r, t, p, 0)) \/ s = p)
<1>1. r \in Nat /\ FirstReceipt(j, p) \in Nat /\ p \in Int
  BY PlanFacts, SegmentFacts, LagFacts DEF FirstReceipt
<1>2. FirstShape(j, r, p) \in Due(j)
  BY TensorDue DEF Known
<1>3. Before(FirstShape(j, r, p), Place(r, t, p, 0)) <=> FirstReceipt(j, p) < t
  BY <1>1, BeforePlace, PlaceParts DEF FirstShape
<1>4. Known(j, r, p, Place(r, t, p, 0)) <=> FirstReceipt(j, p) < t
  BY <1>2, <1>3 DEF Known
<1>5. Place(r, t, p, 0) \in Due(j) <=> FirstReceipt(j, p) = t
  <2>1. Place(r, t, p, 0) \in Due(j) => FirstReceipt(j, p) = t
    BY PlaceParts DEF Due
  <2>2. FirstReceipt(j, p) = t => Place(r, t, p, 0) = FirstShape(j, r, p)
    BY DEF FirstShape
  <2> QED  BY <1>2, <2>1, <2>2
<1>6. ASSUME Place(r, t, p, 0) \in Due(j), NEW s \in Segments
      PROVE  Known(j, r, s, Place(r, t, p, 1)) <=> (Known(j, r, s, Place(r, t, p, 0)) \/ s = p)
  <2>1. Passes(Due(j), Place(r, t, p, 0), Place(r, t, p, 0), Place(r, t, p, 1))
    <3>1. Passes(Due(j), Place(r, t, p, 0), Place(r, t, p, 0), Place(r, t, p, 0 + 1))
      BY <1>1, <1>6, Passed, DueTypes
    <3>2. 0 + 1 = 1
      OBVIOUS
    <3> QED  BY <3>1, <3>2, Zenon
  <2>2. FirstShape(j, r, s) = Place(r, t, p, 0) <=> s = p
    BY <1>5, <1>6, PlaceParts DEF FirstShape
  <2>3. FirstShape(j, r, s) \in Due(j) =>
            (Before(FirstShape(j, r, s), Place(r, t, p, 1)) <=>
                (Before(FirstShape(j, r, s), Place(r, t, p, 0)) \/ s = p))
    BY <2>1, <2>2 DEF Passes
  <2>4. s = p => FirstShape(j, r, s) \in Due(j)
    BY <1>2
  <2> QED  BY <2>3, <2>4 DEF Known
<1> QED  BY <1>4, <1>5, <1>6

\* The send of a shape, which goes once for every segment of a request.
LEMMA SendShapeStep ==
    ASSUME Inv, NEW i \in Stages, SendShape(i)
    PROVE  Inv'
<1>1. /\ Types /\ Local(i) /\ Ctl(i) /\ Receipts(i) /\ Shapes(i) /\ Buffers(i) /\ SkipBuffers(i) /\ Latents(i)
      /\ model \in Models /\ plan \in Plans /\ pc[i] = "send" /\ io[i] = "idle" /\ pc[i] # "idle"
      /\ request[i] \in Nat /\ Timestep(i) \in Nat /\ Segment(i) \in Segments
      /\ request[i] \in 1 .. Len(plan) /\ Made(i) /\ Sends(i)
  <2>1. pc[i] = "send" /\ io[i] = "idle" /\ Made(i)
    BY DEF SendShape, Made
  <2>2. Sends(i)
    BY <2>1, StageFacts DEF Ctl
  <2> QED  BY <2>1, <2>2, StageFacts, TypesAt, PlacesTyped
<1>2. PICK j \in Stages : j = next_rank(i) /\ (j = FirstStage => i = LastStage)
  BY Ring
<1>3. PICK t \in Nat, p \in Segments, r \in 1 .. Len(plan) :
        /\ t = Timestep(i) + Lag(j) /\ p = Segment(i) /\ r = request[i] /\ r \in Nat
        /\ FirstReceipt(j, p) <= t /\ t < ReceiptsEnd(j, r, p)
        /\ Held(i) = Body(j, Place(r, t, p, 0)) /\ Held(i) \in Tensors
  <2>1. phase[i] # "handover" /\ Held(i) \in Tensors
        /\ Held(i) = Body(j, Place(request[i], Timestep(i) + Lag(j), Segment(i), 0))
    BY <1>1, <1>2, HeldFacts
  <2>2. /\ Timestep(i) + Lag(j) \in Nat
        /\ FirstReceipt(j, Segment(i)) <= Timestep(i) + Lag(j)
        /\ Timestep(i) + Lag(j) < ReceiptsEnd(j, request[i], Segment(i))
    BY <1>1, <1>2, <2>1, SentDue
  <2> QED  BY <1>1, <2>1, <2>2
<1>4. SendPos(i) = Place(r, t, p, 0)
  BY <1>1, <1>2, <1>3 DEF SendPos
<1>5. p \in send_shape[i] <=> FirstReceipt(j, p) # t
  <2>1. Known(j, r, p, Place(r, t, p, 0)) <=> FirstReceipt(j, p) < t
    BY <1>1, <1>3, KnownAt
  <2>2. p \in send_shape[i] <=> Known(j, r, p, Place(r, t, p, 0))
    BY <1>1, <1>2, <1>3, <1>4 DEF Shapes
  <2>3. FirstReceipt(j, p) \in Nat
    BY SegmentFacts, LagFacts DEF FirstReceipt
  <2> QED  BY <1>3, <2>1, <2>2, <2>3
<1>6. /\ io' = [io EXCEPT ![i] = "sync"] /\ io'[i] = "sync"
      /\ send_shape' = [send_shape EXCEPT ![i] = @ \union {p}] /\ send_shape'[i] = send_shape[i] \union {p}
      /\ pc' = pc /\ skip_link' = skip_link
  BY <1>1, <1>3 DEF SendShape, Types
<1>7. Static /\ SameWhere(i) /\ KeptData(i)
  BY DEF SendShape, Static, SameWhere, KeptData, SameTasks, where, queues, tensors
<1>8. Receipts(i)' /\ Buffers(i)' /\ SkipBuffers(i)' /\ Latents(i)'
  BY <1>1, <1>7, DataKept
<1>9. /\ request'[i] = request[i] /\ phase'[i] = phase[i] /\ step'[i] = step[i] /\ patch'[i] = patch[i]
      /\ first_async_recv'[i] = first_async_recv[i] /\ pipeline_patch_idx'[i] = pipeline_patch_idx[i]
      /\ receiving_tasks'[i] = receiving_tasks[i] /\ receiving_skip_tasks'[i] = receiving_skip_tasks[i]
      /\ plan' = plan /\ recv_shape'[i] = recv_shape[i] /\ pc'[i] = pc[i]
  BY <1>7 DEF SameWhere, SameTasks, Static, KeptData, SendShape
<1>10. /\ Timestep(i)' = Timestep(i) /\ Segment(i)' = Segment(i) /\ LoopSteps(i)' = LoopSteps(i)
       /\ NeedsReceive(i)' = NeedsReceive(i)
       /\ Sends(i)' = Sends(i) /\ Prefetches(i)' = Prefetches(i)
       /\ \A m : Here(i, m)' = Here(i, m) /\ Following(i, m)' = Following(i, m)
       /\ SendsSkip(i)' = SendsSkip(i) /\ ReceivesSkip(i)' = ReceivesSkip(i)
       /\ NextRequest(i)' = NextRequest(i)
  BY <1>7, WhereRules, StaticRules
<1>11. \A m : Wanted(i, m)' = Wanted(i, m)
  BY <1>9, <1>10 DEF Wanted
<1>12. Ctl(i)'
  BY <1>1, <1>9, <1>10 DEF Ctl
<1>13. RecvPos(i)' = RecvPos(i) /\ SkipRecvPos(i)' = SkipRecvPos(i) /\ SkipSendPos(i)' = SkipSendPos(i)
  BY <1>1, <1>9, <1>10, <1>11 DEF RecvPos, SkipRecvPos, SkipSendPos
<1>14. SendPos(i)' = Place(r, t, p, 1)
  BY <1>1, <1>2, <1>3, <1>6, <1>9, <1>10 DEF SendPos
<1>15. RecvStays(i) /\ SkipRecvStays(i) /\ SkipSendStays(i)
  BY <1>13, SameFacts DEF RecvStays, SkipRecvStays, SkipSendStays
<1>16. io' \in [Stages -> {"idle", "sync"}] /\ send_shape' \in [Stages -> SUBSET Segments]
  BY <1>1, <1>6 DEF Types
<1>17. \A k \in Stages : k # i => io'[k] = io[k] /\ send_shape'[k] = send_shape[k]
  BY <1>1, <1>6 DEF Types
<1>18. CASE FirstReceipt(j, p) # t
  <2>1. link' = link
    BY <1>1, <1>3, <1>5, <1>18 DEF SendShape
  <2>2. send_shape'[i] = send_shape[i]
    BY <1>5, <1>6, <1>18
  <2>3. Types'
    BY ZenonT(40), <1>1, <1>6, <1>16, <2>1 DEF SendShape, Types, where, queues, tensors
  <2>4. Others(i)
    BY <1>6, <1>17, <2>1 DEF SendShape, Others, Kept, SameWhere, SameTasks, SameBuffers, where, queues, tensors
  <2>5. SendStays(i)
    <3>1. Place(r, t, p, 0) \notin Due(j)
      BY <1>1, <1>3, <1>18, KnownAt
    <3>2. Same(Due(j), Place(r, t, p, 0), Place(r, t, p, 0 + 1))
      BY <1>1, <1>3, <3>1, ShapePassed, DueTypes
    <3>3. 0 + 1 = 1
      OBVIOUS
    <3>4. Same(Due(j), Place(r, t, p, 0), Place(r, t, p, 1))
      BY <3>2, <3>3, Zenon
    <3> QED  BY <1>2, <1>4, <1>14, <3>4 DEF SendStays
  <2>6. Shapes(i)'
    BY <1>1, <1>7, <1>9, <1>15, <2>2, <2>5, ShapesStay, SameIsSameShapes DEF RecvStays, SendStays
  <2> QED  BY <1>6, <1>7, <1>8, <1>12, <1>15, <2>1, <2>3, <2>4, <2>5, <2>6, Quiet DEF Local
<1>19. CASE FirstReceipt(j, p) = t
  <2> DEFINE msg == [kind |-> "shape", body |-> Held(i)]
  <2>1. link' = [link EXCEPT ![i] = Append(@, msg)]
    BY <1>1, <1>3, <1>5, <1>19 DEF SendShape, Output
  <2>2. /\ msg \in Messages /\ msg.kind = "shape" /\ msg.body = Body(j, Place(r, t, p, 0))
        /\ link'[i] = Append(link[i], msg) /\ \A k \in Stages : k # i => link'[k] = link[k]
        /\ link[i] \in Seq(Messages)
    BY <1>1, <1>3, <2>1, TypesAt DEF Messages, Types
  <2> HIDE DEF msg
  <2>3. Types'
    <3>1. link' \in [Stages -> Seq(Messages)]
      <4>1. Append(link[i], msg) \in Seq(Messages)
        BY <2>2, AppendProperties
      <4> QED  BY <1>1, <2>1, <4>1 DEF Types
    <3> QED  BY <1>1, <1>6, <1>16, <3>1 DEF SendShape, Types, where, queues, tensors
  <2>4. Others(i)
    BY <1>6, <1>17, <2>2 DEF SendShape, Others, Kept, SameWhere, SameTasks, SameBuffers, where, queues, tensors
  <2>5. Place(r, t, p, 0) \in Due(j)
    BY <1>1, <1>3, <1>19, KnownAt
  <2>6. Link(i)'
    <3>1. SendPos(i)' = Place(r, t, p, 0 + 1) /\ Same(Due(j), SendPos(i), Place(r, t, p, 0))
      BY <1>4, <1>14, SameFacts
    <3> QED  BY <1>2, <1>3, <1>7, <2>2, <2>4, <2>5, <3>1, SendPuts
  <2>7. Link(prev_rank(i))'
    <3>1. link'[prev_rank(i)] = link[prev_rank(i)]
      BY <2>2, Ring
    <3> QED  BY <1>7, <1>15, <2>4, <3>1, RecvKeeps
  <2>8. SkipLink(i)' /\ SkipLink(skip_rank(i))'
    <3>1. SkipLink(i)' /\ (skip_rank(i) # i => SkipLink(skip_rank(i))')
      BY <1>6, <1>7, <1>15, <2>4, SkipSendKeeps, SkipRecvKeeps
    <3> QED  BY <3>1
  <2>9. Shapes(i)'
    <3>1. Due(i)' = Due(i) /\ Due(next_rank(i))' = Due(next_rank(i))
      BY <1>7, StaticDue
    <3>2. ASSUME NEW s \in Segments
          PROVE  /\ Known(i, request[i], s, RecvPos(i))' <=> Known(i, request[i], s, RecvPos(i))
                 /\ Known(next_rank(i), request[i], s, SendPos(i))' <=>
                        (Known(next_rank(i), request[i], s, SendPos(i)) \/ s = p)
      <4>1. Known(j, r, s, SendPos(i)') <=> (Known(j, r, s, SendPos(i)) \/ s = p)
        BY <1>1, <1>3, <1>4, <1>14, <2>5, KnownAt
      <4> QED  BY <1>2, <1>3, <1>9, <1>13, <3>1, <4>1 DEF Known
    <3>3. \A s \in Segments : s \in send_shape'[i] <=> (s \in send_shape[i] \/ s = p)
      BY <1>6
    <3> QED  BY <1>1, <1>9, <3>2, <3>3 DEF Shapes
  <2> QED  BY <1>7, <1>8, <1>12, <2>3, <2>4, <2>6, <2>7, <2>8, <2>9, Together DEF Local
<1> QED  BY <1>18, <1>19

\* What a stage sends over its skip link is due to the mirrored stage.
LEMMA SkipsHeld ==
    ASSUME EvenSkips, Inv, NEW i \in Stages, Made(i), SendsSkip(i)
    PROVE  /\ Skips(i) = SkipBody(skip_rank(i), Place(request[i], Timestep(i), Segment(i), 1))
           /\ Skips(i) \in Tensors
           /\ Place(request[i], Timestep(i), Segment(i), 1) \in DueSkips(skip_rank(i))
<1>1. /\ model \in Models /\ plan \in Plans /\ pc[i] # "idle" /\ request[i] \in 1 .. Len(plan)
      /\ Timestep(i) \in Nat /\ Segment(i) \in Segments /\ request[i] \in Nat
  <2>1. pc[i] # "idle"
    BY DEF Made
  <2> QED  BY <2>1, StageFacts, TypesAt, PlacesTyped
<1>2. PICK j \in Stages : j = skip_rank(i) /\ skip_rank(j) = i /\ j # FirstStage /\ i # LastStage
  BY <1>1, Mirror
<1>3. /\ phase[i] # "handover" /\ Held(i) \in Tensors
      /\ Held(i).request = request[i] /\ Held(i).patch = Segment(i) /\ Held(i).step = Timestep(i)
  BY <1>2, HeldFacts
<1>4. Skips(i) = Tensor(request[i], Timestep(i), Segment(i), Blocks(i))
  <2>1. [Held(i) EXCEPT !.blocks = Blocks(i)] = Tensor(Held(i).request, Held(i).step, Held(i).patch, Blocks(i))
    BY <1>3 DEF Tensors, Tensor
  <2> QED  BY <1>3, <2>1 DEF Skips, Output
<1>5. Skips(i) = SkipBody(j, Place(request[i], Timestep(i), Segment(i), 1))
  BY <1>2, <1>4, PlaceParts DEF SkipBody
<1>6. Skips(i) \in Tensors
  <2>1. Blocks(i) \in Seq(Nat)
    BY <1>1, BlocksOf
  <2> QED  BY <1>1, <1>4, <2>1 DEF Tensors, Tensor
<1>7. Place(request[i], Timestep(i), Segment(i), 1) \in DueSkips(j)
  <2>1. Lag(j) = 0 /\ Timestep(i) + 0 = Timestep(i)
    BY <1>1, <1>2, LagFacts
  <2>2. /\ FirstReceipt(j, Segment(i)) <= Timestep(i)
        /\ Timestep(i) < ReceiptsEnd(j, request[i], Segment(i))
    <3>1. /\ FirstReceipt(j, Segment(i)) <= Timestep(i) + Lag(j)
          /\ Timestep(i) + Lag(j) < ReceiptsEnd(j, request[i], Segment(i))
      BY <1>1, <1>2, <1>3, SentDue
    <3> QED  BY <2>1, <3>1
  <2> QED  BY <1>1, <2>2, TensorDue
<1> QED  BY <1>2, <1>5, <1>6, <1>7

\* A stage that gets on with its sends disturbs nothing else.
LEMMA SendingKeeps ==
    ASSUME Inv, Static, NEW i \in Stages, SameWhere(i), SameTasks(i), SameBuffers(i),
           pipeline_patch_idx'[i] = pipeline_patch_idx[i], first_async_recv'[i] = first_async_recv[i],
           pc[i] \in {"send", "sent", "skip_sent"}, io'[i] = "idle",
           IF phase[i] = "async" THEN pc'[i] = "prefetch" ELSE pc'[i] \in {"sent", "skip_sent", "advance"},
           pc'[i] = "skip_sent" => SendsSkip(i)
    PROVE  /\ Ctl(i)' /\ Receipts(i)' /\ Buffers(i)' /\ SkipBuffers(i)' /\ Latents(i)'
           /\ RecvStays(i) /\ SkipRecvStays(i)
<1>1. /\ Ctl(i) /\ Receipts(i) /\ Shapes(i) /\ Buffers(i) /\ SkipBuffers(i) /\ Latents(i)
      /\ pc[i] # "idle" /\ pc'[i] # "idle" /\ plan' = plan
      /\ pc'[i] \in {"sent", "skip_sent", "prefetch", "advance"}
  BY StageFacts DEF Static
<1>2. /\ request'[i] = request[i] /\ phase'[i] = phase[i] /\ step'[i] = step[i] /\ patch'[i] = patch[i]
      /\ recv_shape'[i] = recv_shape[i] /\ send_shape'[i] = send_shape[i]
      /\ recv_buffer'[i] = recv_buffer[i] /\ skip_buffer'[i] = skip_buffer[i]
      /\ latents'[i] = latents[i] /\ patch_latents'[i] = patch_latents[i]
      /\ recv_tasks_queue'[i] = recv_tasks_queue[i] /\ recv_skip_tasks_queue'[i] = recv_skip_tasks_queue[i]
      /\ receiving_tasks'[i] = receiving_tasks[i] /\ receiving_skip_tasks'[i] = receiving_skip_tasks[i]
  BY DEF SameWhere, SameTasks, SameBuffers
<1>3. /\ Timestep(i)' = Timestep(i) /\ Segment(i)' = Segment(i) /\ LoopSteps(i)' = LoopSteps(i)
      /\ NeedsReceive(i)' = NeedsReceive(i)
      /\ Sends(i)' = Sends(i) /\ Prefetches(i)' = Prefetches(i) /\ ToPost(i)' = ToPost(i)
      /\ \A m : Here(i, m)' = Here(i, m)
  BY WhereRules
<1>4. /\ SendsSkip(i)' = SendsSkip(i) /\ ReceivesSkip(i)' = ReceivesSkip(i)
      /\ Prefix(i)' = Prefix(i) /\ Prefix(i + 1)' = Prefix(i + 1)
  BY StaticRules
<1>5. Ctl(i)'
  BY <1>1, <1>2, <1>3, <1>4 DEF Ctl
<1>6. /\ ~Outstanding(i) /\ ~SkipOutstanding(i) /\ ~Outstanding(i)' /\ ~SkipOutstanding(i)'
      /\ receiving_tasks[i] = <<>> /\ receiving_skip_tasks[i] = <<>>
  <2>1. ~Outstanding(i) /\ ~SkipOutstanding(i)
    BY <1>1 DEF Outstanding, SkipOutstanding
  <2>2. ~Outstanding(i)'
    BY <1>1, <1>2 DEF Outstanding
  <2>3. ~SkipOutstanding(i)'
    BY <1>1, <2>2 DEF SkipOutstanding
  <2> QED  BY <1>1, <2>1, <2>2, <2>3 DEF Receipts
<1>7. Receipts(i)'
  <2>1. Queue(i)'
    <3>1. phase[i] = "async" => Posted(i)' = Posted(i)
      BY <1>1, <1>2 DEF Posted
    <3> QED  BY <1>1, <1>2, <1>3, <3>1 DEF Receipts, Queue
  <2> QED  BY <1>1, <1>2, <1>4, <1>6, <2>1 DEF Receipts
<1>8. RecvPos(i)' = RecvPos(i) /\ SkipRecvPos(i)' = SkipRecvPos(i)
  <2>1. RecvPos(i) = Here(i, 2) /\ SkipRecvPos(i) = Here(i, 2)
    BY <1>1, <1>6 DEF RecvPos, SkipRecvPos
  <2>2. RecvPos(i)' = Here(i, 2) /\ SkipRecvPos(i)' = Here(i, 2)
    BY <1>1, <1>2, <1>3, <1>6 DEF RecvPos, SkipRecvPos
  <2> QED  BY <2>1, <2>2
<1>9. RecvStays(i) /\ SkipRecvStays(i)
  BY <1>8, SameFacts DEF RecvStays, SkipRecvStays
<1>10. Buffers(i)'
  <2>1. Body(i, Place(request[i], Warmup, Whole, 1))' = Body(i, Place(request[i], Warmup, Whole, 1))
    BY <1>2, <1>4 DEF Body
  <2> QED  BY <1>1, <1>2, <1>6, <2>1 DEF Buffers
<1>11. SkipBuffers(i)'
  BY <1>1, <1>2, <1>6 DEF SkipBuffers
<1>12. Latents(i)'
  <2>1. Made(i) /\ Made(i)'
    BY <1>1 DEF Made
  <2>2. Held(i)' = Held(i)
    BY <1>2 DEF Held
  <2> QED  BY <1>1, <1>2, <1>3, <1>4, <2>1, <2>2 DEF Latents
<1> QED  BY <1>5, <1>7, <1>9, <1>10, <1>11, <1>12

\* The send of a tensor; the asynchronous loop sends the skips along.
LEMMA SendPostStep ==
    ASSUME EvenSkips, Inv, NEW i \in Stages, SendPost(i)
    PROVE  Inv'
<1>1. /\ Types /\ Ctl(i) /\ Shapes(i)
      /\ model \in Models /\ plan \in Plans /\ pc[i] = "send" /\ io[i] = "sync" /\ pc[i] # "idle"
      /\ request[i] \in Nat /\ Timestep(i) \in Nat /\ Segment(i) \in Segments
      /\ request[i] \in 1 .. Len(plan) /\ Made(i) /\ Sends(i)
  <2>1. pc[i] = "send" /\ io[i] = "sync" /\ Made(i)
    BY DEF SendPost, Made
  <2>2. Sends(i)
    BY <2>1, StageFacts DEF Ctl
  <2> QED  BY <2>1, <2>2, StageFacts, TypesAt, PlacesTyped
<1>2. PICK j \in Stages : j = next_rank(i) /\ (j = FirstStage => i = LastStage)
  BY Ring
<1>3. PICK t \in Nat, p \in Segments, r \in 1 .. Len(plan) :
        /\ t = Timestep(i) + Lag(j) /\ p = Segment(i) /\ r = request[i] /\ r \in Nat
        /\ Place(r, t, p, 1) \in Due(j)
        /\ Held(i) = Body(j, Place(r, t, p, 1)) /\ Held(i) \in Tensors
  <2>1. phase[i] # "handover" /\ Held(i) \in Tensors
        /\ Held(i) = Body(j, Place(request[i], Timestep(i) + Lag(j), Segment(i), 1))
    BY <1>1, <1>2, HeldFacts
  <2>2. /\ Timestep(i) + Lag(j) \in Nat
        /\ FirstReceipt(j, Segment(i)) <= Timestep(i) + Lag(j)
        /\ Timestep(i) + Lag(j) < ReceiptsEnd(j, request[i], Segment(i))
    BY <1>1, <1>2, <2>1, SentDue
  <2>3. Place(request[i], Timestep(i) + Lag(j), Segment(i), 1) \in Due(j)
    BY <1>1, <2>2, TensorDue
  <2> QED  BY <1>1, <2>1, <2>2, <2>3
<1> DEFINE msg == [kind |-> "data", body |-> Held(i)]
<1>4. link' = [link EXCEPT ![i] = Append(@, msg)]
  BY DEF SendPost, Output
<1>5. /\ msg \in Messages /\ msg.kind = "data" /\ msg.body = Body(j, Place(r, t, p, 1))
      /\ link'[i] = Append(link[i], msg) /\ \A k \in Stages : k # i => link'[k] = link[k]
      /\ link[i] \in Seq(Messages)
  BY <1>1, <1>3, <1>4, TypesAt DEF Messages, Types
<1> HIDE DEF msg
<1>6. /\ io' = [io EXCEPT ![i] = "idle"] /\ io'[i] = "idle"
      /\ pc' = [pc EXCEPT ![i] = IF phase[i] = "async" THEN "prefetch" ELSE "sent"]
      /\ pc'[i] = IF phase[i] = "async" THEN "prefetch" ELSE "sent"
  BY <1>1 DEF SendPost, Types
<1>7. Static /\ SameWhere(i) /\ SameTasks(i) /\ SameBuffers(i)
      /\ pipeline_patch_idx'[i] = pipeline_patch_idx[i] /\ first_async_recv'[i] = first_async_recv[i]
  BY DEF SendPost, Static, SameWhere, SameTasks, SameBuffers, where, queues, buffers, tensors
<1>8. /\ Ctl(i)' /\ Receipts(i)' /\ Buffers(i)' /\ SkipBuffers(i)' /\ Latents(i)'
      /\ RecvStays(i) /\ SkipRecvStays(i)
  BY <1>1, <1>6, <1>7, SendingKeeps
<1>9. /\ SendPos(i) = Place(r, t, p, 1) /\ SendPos(i)' = Place(r, t, p, 2)
      /\ SkipSendPos(i) = Here(i, 0)
      /\ SkipSendPos(i)' = Here(i, IF phase[i] = "async" THEN 2 ELSE 0)
  <2>1. /\ Timestep(i)' = Timestep(i) /\ Segment(i)' = Segment(i) /\ request'[i] = request[i]
        /\ \A m : Here(i, m)' = Here(i, m)
    BY <1>7, WhereRules DEF SameWhere
  <2> QED  BY <1>1, <1>2, <1>3, <1>6, <2>1 DEF SendPos, SkipSendPos
<1>10. /\ phase[i] = "async" /\ SendsSkip(i) =>
             /\ skip_link' = [skip_link EXCEPT ![i] = Append(@, Skips(i))]
             /\ Skips(i) \in Tensors
             /\ Skips(i) = SkipBody(skip_rank(i), Place(r, Timestep(i), p, 1))
             /\ Place(r, Timestep(i), p, 1) \in DueSkips(skip_rank(i))
       /\ ~(phase[i] = "async" /\ SendsSkip(i)) => skip_link' = skip_link
  BY <1>1, <1>3, SkipsHeld DEF SendPost
<1>11. /\ skip_link' \in [Stages -> Seq(Tensors)]
       /\ \A k \in Stages : k # i => skip_link'[k] = skip_link[k]
       /\ phase[i] = "async" /\ SendsSkip(i) => skip_link'[i] = Append(skip_link[i], Skips(i))
  <2>1. CASE phase[i] = "async" /\ SendsSkip(i)
    <3>1. Append(skip_link[i], Skips(i)) \in Seq(Tensors)
      BY <1>1, <1>10, <2>1, TypesAt, AppendProperties
    <3>2. skip_link \in [Stages -> Seq(Tensors)] /\ skip_link' = [skip_link EXCEPT ![i] = Append(@, Skips(i))]
      BY <1>1, <1>10, <2>1 DEF Types
    <3> QED  BY <3>1, <3>2
  <2>2. CASE ~(phase[i] = "async" /\ SendsSkip(i))
    BY <1>1, <1>10, <2>2 DEF Types
  <2> QED  BY <2>1, <2>2
<1>12. Types'
  <2>1. link' \in [Stages -> Seq(Messages)]
    <3>1. Append(link[i], msg) \in Seq(Messages)
      BY <1>5, AppendProperties
    <3> QED  BY <1>1, <1>4, <3>1 DEF Types
  <2>2. pc' \in [Stages -> Places] /\ io' \in [Stages -> {"idle", "sync"}]
    BY <1>1, <1>6 DEF Types, Places
  <2> QED  BY <1>1, <1>11, <2>1, <2>2 DEF SendPost, Types, where, queues, buffers, tensors
<1>13. Others(i)
  <2>1. \A k \in Stages : k # i => pc'[k] = pc[k] /\ io'[k] = io[k]
    BY <1>1, <1>6 DEF Types
  <2> QED  BY <1>5, <1>11, <2>1
           DEF SendPost, Others, Kept, SameWhere, SameTasks, SameBuffers, where, queues, buffers, tensors
<1>14. Link(i)'
  <2>1. SendPos(i)' = Place(r, t, p, 1 + 1) /\ Same(Due(j), SendPos(i), Place(r, t, p, 1))
    BY <1>9, SameFacts
  <2> QED  BY <1>2, <1>3, <1>5, <1>7, <1>13, <2>1, SendPuts
<1>15. Link(prev_rank(i))'
  <2>1. link'[prev_rank(i)] = link[prev_rank(i)]
    BY <1>5, Ring
  <2> QED  BY <1>7, <1>8, <1>13, <2>1, RecvKeeps
<1>16. SkipLink(i)'
  <2>1. CASE phase[i] = "async" /\ SendsSkip(i)
    <3>1. Same(DueSkips(skip_rank(i)), SkipSendPos(i), Place(r, Timestep(i), p, 1))
      BY <1>1, <1>3, <1>9, SkipShape DEF Here
    <3>2. SkipSendPos(i)' = Place(r, Timestep(i), p, 2)
      BY <1>3, <1>9, <2>1 DEF Here
    <3> QED  BY <1>1, <1>3, <1>7, <1>10, <1>11, <1>13, <2>1, <3>1, <3>2, SkipSendPuts
  <2>2. CASE ~(phase[i] = "async" /\ SendsSkip(i))
    <3>1. SkipSendStays(i)
      BY <1>9, <2>2, SameFacts DEF SkipSendStays
    <3> QED  BY <1>7, <1>10, <1>13, <2>2, <3>1, SkipSendKeeps
  <2> QED  BY <2>1, <2>2
<1>17. SkipLink(skip_rank(i))'
  <2>1. skip_rank(i) \in Stages
    BY <1>1, Mirror
  <2>2. CASE skip_rank(i) # i
    BY <1>7, <1>8, <1>11, <1>13, <2>1, <2>2, SkipRecvKeeps
  <2>3. CASE skip_rank(i) = i
    BY <1>16, <2>3
  <2> QED  BY <2>2, <2>3
<1>18. Shapes(i)'
  <2>1. SameShapes(Due(i), RecvPos(i), RecvPos(i)')
    BY <1>8, SameIsSameShapes DEF RecvStays
  <2>2. SameShapes(Due(j), SendPos(i), SendPos(i)')
    <3>1. Passes(Due(j), Place(r, t, p, 1), Place(r, t, p, 1), Place(r, t, p, 2))
      <4>1. Passes(Due(j), Place(r, t, p, 1), Place(r, t, p, 1), Place(r, t, p, 1 + 1))
        BY <1>3, Passed, DueTypes
      <4>2. 1 + 1 = 2
        OBVIOUS
      <4> QED  BY <4>1, <4>2, Zenon
    <3>2. ASSUME NEW q \in Due(j), q.sub = 0
          PROVE  Before(q, Place(r, t, p, 2)) = Before(q, Place(r, t, p, 1))
      <4>1. q # Place(r, t, p, 1)
        BY <3>2, PlaceParts
      <4>2. Before(q, Place(r, t, p, 2)) = (Before(q, Place(r, t, p, 1)) \/ q = Place(r, t, p, 1))
        BY <3>1 DEF Passes
      <4> QED  BY <4>1, <4>2 DEF Before
    <3> QED  BY <1>9, <3>2 DEF SameShapes
  <2> QED  BY <1>1, <1>2, <1>7, <2>1, <2>2, ShapesStay DEF SameWhere, SameBuffers
<1> QED  BY <1>7, <1>8, <1>12, <1>13, <1>14, <1>15, <1>16, <1>17, <1>18, Together DEF Local

\* The waits of the synchronous sends, and their skips.
LEMMA SendWaitStep ==
    ASSUME EvenSkips, Inv, NEW i \in Stages, SendWait(i)
    PROVE  Inv'
<1>1. /\ Types /\ Ctl(i)
      /\ model \in Models /\ plan \in Plans /\ pc[i] \in {"sent", "skip_sent"} /\ pc[i] # "idle"
      /\ request[i] \in Nat /\ Timestep(i) \in Nat /\ Segment(i) \in Segments
      /\ Made(i) /\ phase[i] # "async" /\ io[i] = "idle" /\ SendsSkip(i) \in BOOLEAN
      /\ pc[i] = "skip_sent" => SendsSkip(i)
  <2>1. pc[i] \in {"sent", "skip_sent"} /\ Made(i)
    BY DEF SendWait, Made
  <2>2. phase[i] # "async" /\ (pc[i] = "skip_sent" => SendsSkip(i))
    BY <2>1, StageFacts DEF Ctl
  <2>3. io[i] = "idle"
    BY <2>1, Idle DEF CallsReceive
  <2> QED  BY <2>1, <2>2, <2>3, StageFacts, TypesAt, PlacesTyped, Mirror
<1> DEFINE puts == pc[i] = "sent" /\ SendsSkip(i)
<1>2. /\ pc' = [pc EXCEPT ![i] = IF puts THEN "skip_sent" ELSE "advance"]
      /\ puts => skip_link' = [skip_link EXCEPT ![i] = Append(@, Skips(i))]
      /\ ~puts => skip_link' = skip_link
      /\ link' = link
  BY <1>1 DEF SendWait
<1>3. puts => /\ Skips(i) \in Tensors
              /\ Skips(i) = SkipBody(skip_rank(i), Here(i, 1))
              /\ Here(i, 1) \in DueSkips(skip_rank(i))
  BY <1>1, SkipsHeld DEF Here
<1>4. /\ pc'[i] = (IF puts THEN "skip_sent" ELSE "advance") /\ io'[i] = "idle"
      /\ \A k \in Stages : k # i => pc'[k] = pc[k] /\ skip_link'[k] = skip_link[k]
      /\ pc' \in [Stages -> Places]
      /\ puts => skip_link'[i] = Append(skip_link[i], Skips(i))
  BY <1>1, <1>2 DEF SendWait, Types, Places
<1>5. skip_link' \in [Stages -> Seq(Tensors)]
  <2>1. CASE puts
    <3>1. Append(skip_link[i], Skips(i)) \in Seq(Tensors)
      BY <1>1, <1>3, <2>1, TypesAt, AppendProperties
    <3> QED  BY <1>1, <1>2, <2>1, <3>1 DEF Types
  <2>2. CASE ~puts
    BY <1>1, <1>2, <2>2 DEF Types
  <2> QED  BY <2>1, <2>2
<1>6. Static /\ SameWhere(i) /\ SameTasks(i) /\ SameBuffers(i)
      /\ pipeline_patch_idx'[i] = pipeline_patch_idx[i] /\ first_async_recv'[i] = first_async_recv[i]
  BY DEF SendWait, Static, SameWhere, SameTasks, SameBuffers, where, queues, buffers, tensors
<1>7. /\ Ctl(i)' /\ Receipts(i)' /\ Buffers(i)' /\ SkipBuffers(i)' /\ Latents(i)'
      /\ RecvStays(i) /\ SkipRecvStays(i)
  BY <1>1, <1>4, <1>6, SendingKeeps
<1>8. Types'
  BY <1>1, <1>2, <1>4, <1>5 DEF SendWait, Types, where, queues, buffers, tensors
<1>9. Others(i)
  BY <1>2, <1>4
     DEF SendWait, Others, Kept, SameWhere, SameTasks, SameBuffers, where, queues, buffers, tensors
<1>10. /\ SendPos(i)' = SendPos(i)
       /\ SkipSendPos(i) = Here(i, IF pc[i] = "sent" THEN 0 ELSE 2)
       /\ SkipSendPos(i)' = Here(i, 2)
  <2>1. /\ Timestep(i)' = Timestep(i) /\ Segment(i)' = Segment(i) /\ request'[i] = request[i]
        /\ \A m : Here(i, m)' = Here(i, m)
    BY <1>6, WhereRules DEF SameWhere
  <2> QED  BY <1>1, <1>4, <2>1 DEF SendPos, SkipSendPos
<1>11. SendStays(i)
  BY <1>10, SameFacts DEF SendStays
<1>12. SkipLink(i)'
  <2>1. CASE puts
    <3>1. Same(DueSkips(skip_rank(i)), SkipSendPos(i), Place(request[i], Timestep(i), Segment(i), 1))
      BY <1>1, <1>10, <2>1, SkipShape DEF Here
    <3> QED  BY <1>1, <1>3, <1>4, <1>6, <1>9, <1>10, <2>1, <3>1, SkipSendPuts DEF Here
  <2>2. CASE ~puts
    <3>1. SkipSendStays(i)
      BY <1>1, <1>10, <2>2, SameFacts DEF SkipSendStays
    <3> QED  BY <1>2, <1>6, <1>9, <2>2, <3>1, SkipSendKeeps
  <2> QED  BY <2>1, <2>2
<1>13. SkipLink(skip_rank(i))'
  <2>1. skip_rank(i) \in Stages
    BY <1>1, Mirror
  <2>2. CASE skip_rank(i) # i
    BY <1>4, <1>6, <1>7, <1>9, <2>1, <2>2, SkipRecvKeeps
  <2>3. CASE skip_rank(i) = i
    BY <1>12, <2>3
  <2> QED  BY <2>2, <2>3
<1>14. Link(i)' /\ Link(prev_rank(i))'
  BY <1>2, <1>6, <1>7, <1>9, <1>11, SendKeeps, RecvKeeps
<1>15. Shapes(i)'
  BY <1>1, <1>6, <1>7, <1>11, ShapesStay, SameIsSameShapes DEF RecvStays, SendStays, SameWhere, SameBuffers
<1> QED  BY <1>6, <1>7, <1>8, <1>9, <1>12, <1>13, <1>14, <1>15, Together DEF Local

-----------------------------------------------------------------------------
(* The loops. *)

\* The six ways a stage gets on: to the next patch, the next round of patches, the
\* end of the request, the next image of the warm-up, the hand-over, and the end
\* of a request of whole images.
ToPatch(i) ==
    /\ phase[i] = "async" /\ phase'[i] = "async" /\ pc'[i] = "receive"
    /\ patch[i] < NumPatches - 1 /\ patch'[i] = patch[i] + 1 /\ step'[i] = step[i]

ToRound(i) ==
    /\ phase[i] = "async" /\ phase'[i] = "async" /\ pc'[i] = "receive"
    /\ patch[i] = NumPatches - 1 /\ patch'[i] = 0 /\ step'[i] = step[i] + 1
    /\ step[i] + 1 < plan[request[i]].steps - Warmup

FromRounds(i) ==
    /\ phase[i] = "async" /\ pc'[i] = "idle"
    /\ patch[i] = NumPatches - 1 /\ patch'[i] = 0
    /\ step[i] + 1 = plan[request[i]].steps - Warmup

ToImage(i) ==
    /\ phase[i] \in {"warmup", "alone"} /\ phase'[i] = phase[i] /\ pc'[i] = "receive"
    /\ patch'[i] = 0 /\ step'[i] = step[i] + 1 /\ step[i] + 1 < LoopSteps(i)

ToHandover(i) ==
    /\ phase[i] = "warmup" /\ phase'[i] = "handover"
    /\ pc'[i] = IF i = FirstStage THEN "receive" ELSE "split"
    /\ patch'[i] = 0 /\ step'[i] = step[i] + 1 /\ step[i] + 1 = Warmup

FromImages(i) ==
    /\ phase[i] = "alone" /\ pc'[i] = "idle" /\ patch'[i] = 0
    /\ step[i] + 1 = plan[request[i]].steps

\* One of the six, and from which indices.
LEMMA AdvanceFacts ==
    ASSUME Inv, NEW i \in Stages, Advance(i)
    PROVE  /\ pc[i] = "advance" /\ io[i] = "idle" /\ request[i] \in 1 .. Len(plan)
           /\ plan[request[i]].steps \in Nat /\ step[i] \in Nat /\ patch[i] \in Patches
           /\ phase[i] = "async" => patch[i] \in Nat
           /\ \/ ToPatch(i) \/ ToRound(i) \/ FromRounds(i)
              \/ ToImage(i) \/ ToHandover(i) \/ FromImages(i)
<1>1. /\ Types /\ Ctl(i) /\ pc[i] = "advance" /\ io[i] = "idle" /\ request[i] \in 1 .. Len(plan)
      /\ plan[request[i]].steps \in Nat /\ step[i] \in Nat /\ patch[i] \in Patches
      /\ patch[i] \in Nat /\ patch[i] <= NumPatches - 1 /\ Warmup \in Nat /\ NumPatches \in Nat
      /\ phase[i] \in {"warmup", "alone", "handover", "async"} /\ phase[i] # "handover"
  <2>1. pc[i] = "advance" /\ io[i] = "idle"
    BY Idle DEF Advance, CallsReceive
  <2>2. phase[i] # "handover"
    BY <2>1, StageFacts DEF Ctl
  <2> QED  BY <2>1, <2>2, StageFacts, TypesAt, SegmentFacts
<1>2. /\ phase[i] = "async" /\ patch[i] < NumPatches - 1 =>
            patch'[i] = patch[i] + 1 /\ step'[i] = step[i] /\ phase'[i] = phase[i] /\ pc'[i] = "receive"
      /\ ~(phase[i] = "async" /\ patch[i] < NumPatches - 1) =>
            /\ patch'[i] = 0 /\ step'[i] = step[i] + 1
            /\ ~InLastStep(i) => phase'[i] = phase[i] /\ pc'[i] = "receive"
            /\ InLastStep(i) /\ phase[i] # "warmup" => phase'[i] = phase[i] /\ pc'[i] = "idle"
            /\ InLastStep(i) /\ phase[i] = "warmup" =>
                  phase'[i] = "handover" /\ pc'[i] = IF i = FirstStage THEN "receive" ELSE "split"
  BY <1>1 DEF Advance, Types
<1> SUFFICES \/ ToPatch(i) \/ ToRound(i) \/ FromRounds(i)
             \/ ToImage(i) \/ ToHandover(i) \/ FromImages(i)
  BY <1>1
<1>3. CASE phase[i] = "async"
  <2>1. PICK S \in Nat, W \in Nat, z \in Nat, N \in Nat, p \in Nat :
            S = plan[request[i]].steps /\ W = Warmup /\ z = step[i] /\ N = NumPatches /\ p = patch[i]
    BY <1>1
  <2>2. /\ z < S - W /\ p <= N - 1
        /\ InLastStep(i) <=> z = S - W - 1
    BY <1>1, <1>3, <2>1, AsyncFacts DEF InLastStep
  <2>3. CASE p < N - 1
    BY <1>2, <1>3, <2>1, <2>3 DEF ToPatch
  <2>4. CASE ~(p < N - 1) /\ ~InLastStep(i)
    <3>1. p = N - 1 /\ z + 1 < S - W
      BY <2>2, <2>4
    <3> QED  BY <1>2, <1>3, <2>1, <2>4, <3>1 DEF ToRound
  <2>5. CASE ~(p < N - 1) /\ InLastStep(i)
    <3>1. p = N - 1 /\ z + 1 = S - W
      BY <2>2, <2>5
    <3> QED  BY <1>2, <1>3, <2>1, <2>5, <3>1 DEF FromRounds
  <2> QED  BY <1>1, <2>3, <2>4, <2>5
<1>4. CASE phase[i] # "async"
  <2>1. /\ phase[i] = "warmup" => step[i] < Warmup /\ LoopSteps(i) = Warmup
        /\ phase[i] = "alone" => step[i] < plan[request[i]].steps /\ LoopSteps(i) = plan[request[i]].steps
    BY <1>1, <1>4, SyncFacts
  <2>2. CASE ~InLastStep(i)
    <3>1. step[i] + 1 < LoopSteps(i)
      BY <1>1, <1>4, <2>1, <2>2 DEF InLastStep
    <3> QED  BY <1>1, <1>2, <1>4, <2>2, <3>1 DEF ToImage
  <2>3. CASE InLastStep(i) /\ phase[i] = "warmup"
    <3>1. step[i] + 1 = Warmup
      BY <1>1, <2>1, <2>3 DEF InLastStep
    <3> QED  BY <1>2, <1>4, <2>3, <3>1 DEF ToHandover
  <2>4. CASE InLastStep(i) /\ phase[i] = "alone"
    <3>1. step[i] + 1 = plan[request[i]].steps
      BY <1>1, <2>1, <2>4 DEF InLastStep
    <3> QED  BY <1>2, <1>4, <2>4, <3>1 DEF FromImages
  <2> QED  BY <1>1, <1>4, <2>2, <2>3, <2>4
<1> QED  BY <1>1, <1>3, <1>4

\* Nothing is due between what a stage has done and what it does next.
LEMMA Onward ==
    ASSUME Inv, NEW i \in Stages, Advance(i), NEW j, NEW d \in 0 .. 1, d <= Lag(j)
    PROVE  Same(Due(j), Place(request[i], Timestep(i) + d, Segment(i), 2),
                IF pc'[i] = "idle" THEN Place(request[i] + 1, 0, Whole, 0)
                                   ELSE Place(request[i], Timestep(i)' + d, Segment(i)', 0))
<1>1. /\ plan \in Plans /\ pc[i] # "idle" /\ request[i] \in 1 .. Len(plan) /\ request[i] \in Nat
      /\ plan[request[i]].steps \in Nat /\ step[i] \in Nat /\ patch[i] \in Patches
      /\ Warmup \in Nat /\ NumPatches \in Nat /\ Lag(j) \in 0 .. 1
      /\ \/ ToPatch(i) \/ ToRound(i) \/ FromRounds(i)
         \/ ToImage(i) \/ ToHandover(i) \/ FromImages(i)
  BY AdvanceFacts, StageFacts, TypesAt, SegmentFacts, LagFacts
<1>2. CASE ToPatch(i) \/ ToRound(i) \/ FromRounds(i)
  <2>1. /\ plan[request[i]].steps > Warmup /\ Timestep(i) = step[i] + Warmup /\ Segment(i) = patch[i]
        /\ patch[i] \in Nat
    BY <1>1, <1>2, AsyncFacts, SegmentFacts DEF ToPatch, ToRound, FromRounds
  <2>2. PICK t \in Nat : t = Timestep(i) + d /\ t >= Warmup /\ t = step[i] + Warmup + d
    BY <1>1, <2>1
  <2>3. CASE ToPatch(i)
    <3>1. Timestep(i)' + d = t /\ Segment(i)' = patch[i] + 1 /\ pc'[i] # "idle"
      BY <1>1, <2>1, <2>2, <2>3 DEF ToPatch, Timestep, Segment
    <3>2. Same(Due(j), Place(request[i], t, patch[i], 2), Place(request[i], t, patch[i] + 1, 0))
      <4>1. patch[i] \in Int
        BY <2>1
      <4> QED  BY <1>1, <4>1, NextSegment
    <3> QED  BY <2>1, <2>2, <3>1, <3>2
  <2>4. CASE ToRound(i)
    <3>1. Timestep(i)' + d = t + 1 /\ Segment(i)' = 0 /\ pc'[i] # "idle" /\ patch[i] = NumPatches - 1
      BY <1>1, <2>1, <2>2, <2>4 DEF ToRound, Timestep, Segment
    <3>2. t + 1 >= Warmup + Lag(j)
      BY <1>1, <2>2
    <3>3. Same(Due(j), Place(request[i], t, NumPatches - 1, 2), Place(request[i], t + 1, 0, 0))
      BY <1>1, <2>1, <3>2, NextRound
    <3> QED  BY <2>1, <2>2, <3>1, <3>3
  <2>5. CASE FromRounds(i)
    <3>1. pc'[i] = "idle" /\ patch[i] = NumPatches - 1
      BY <2>5 DEF FromRounds
    <3>2. t + 1 >= plan[request[i]].steps
      <4>1. PICK S \in Nat, W \in Nat, z \in Nat : S = plan[request[i]].steps /\ W = Warmup /\ z = step[i]
        BY <1>1
      <4>2. z + 1 = S - W /\ t = z + W + d
        BY <2>2, <2>5, <4>1 DEF FromRounds
      <4>3. t + 1 >= S
        BY <4>2
      <4> QED  BY <4>1, <4>3
    <3>3. Same(Due(j), Place(request[i], t, NumPatches - 1, 2), Place(request[i] + 1, 0, Whole, 0))
      BY <1>1, <3>2, NextImageAsync
    <3> QED  BY <2>1, <2>2, <3>1, <3>3
  <2> QED  BY <1>2, <2>3, <2>4, <2>5
<1>3. CASE ToImage(i) \/ ToHandover(i) \/ FromImages(i)
  <2>1. /\ Timestep(i) = step[i] /\ Segment(i) = Whole
        /\ phase[i] = "alone" => plan[request[i]].steps <= Warmup /\ step[i] < plan[request[i]].steps
        /\ phase[i] = "warmup" => step[i] < Warmup
        /\ phase[i] \in {"warmup", "alone"}
    BY <1>1, <1>3, SyncFacts DEF ToImage, ToHandover, FromImages
  <2>2. PICK t \in Nat : t = Timestep(i) + d /\ t = step[i] + d /\ step[i] < Warmup
    <3>1. step[i] < Warmup
      BY <1>1, <2>1
    <3>2. step[i] \in Nat
      BY <1>1
    <3>3. step[i] + d \in Nat
      BY <3>2
    <3> QED  BY <2>1, <3>1, <3>3
  <2>3. CASE ToImage(i) \/ ToHandover(i)
    <3>1. Timestep(i)' + d = t + 1 /\ Segment(i)' = Whole /\ pc'[i] # "idle"
      BY <1>1, <2>1, <2>2, <2>3 DEF ToImage, ToHandover, Timestep, Segment
    <3>2. t < Warmup + Lag(j)
      BY <1>1, <2>2
    <3>3. Same(Due(j), Place(request[i], t, Whole, 2), Place(request[i], t + 1, Whole, 0))
      BY <1>1, <3>2, NextWhole
    <3> QED  BY <2>1, <2>2, <3>1, <3>3
  <2>4. CASE FromImages(i)
    <3>1. pc'[i] = "idle" /\ plan[request[i]].steps <= Warmup
      BY <2>1, <2>4 DEF FromImages
    <3>2. t + 1 >= plan[request[i]].steps
      BY <1>1, <2>2, <2>4 DEF FromImages
    <3>3. Same(Due(j), Place(request[i], t, Whole, 2), Place(request[i] + 1, 0, Whole, 0))
      BY <1>1, <3>1, <3>2, NextImage
    <3> QED  BY <2>1, <2>2, <3>1, <3>3
  <2> QED  BY <1>3, <2>3, <2>4
<1> QED  BY <1>1, <1>2, <1>3

\* What a stage keeps when it gets on.
LEMMA AdvanceKeeps ==
    ASSUME Inv, NEW i \in Stages, Advance(i)
    PROVE  /\ Static /\ Others(i) /\ Types' /\ link' = link /\ skip_link' = skip_link
           /\ SameTasks(i) /\ SameBuffers(i)
           /\ request'[i] = request[i] /\ io'[i] = io[i] /\ first_async_recv'[i] = first_async_recv[i]
           /\ pipeline_patch_idx'[i] = IF phase[i] = "async" THEN next_patch(pipeline_patch_idx[i])
                                                             ELSE pipeline_patch_idx[i]
<1>1. /\ Types /\ pc[i] = "advance" /\ step[i] \in Nat /\ patch[i] \in Patches
      /\ patch[i] \in Nat /\ NumPatches \in Nat /\ NumPatches > 0 /\ pipeline_patch_idx[i] \in Patches
  <2>1. Types /\ pipeline_patch_idx[i] \in Patches
    BY StageFacts DEF Types
  <2> QED  BY <2>1, AdvanceFacts, SegmentFacts, TypesAt
<1>2. Static /\ SameTasks(i) /\ SameBuffers(i) /\ link' = link /\ skip_link' = skip_link
      /\ request'[i] = request[i] /\ io'[i] = io[i] /\ first_async_recv'[i] = first_async_recv[i]
  BY DEF Advance, Static, SameTasks, SameBuffers, queues, buffers, tensors, links
<1>3. Others(i)
  <2>1. ASSUME NEW k \in Stages, k # i
        PROVE  /\ pc'[k] = pc[k] /\ phase'[k] = phase[k] /\ step'[k] = step[k] /\ patch'[k] = patch[k]
               /\ pipeline_patch_idx'[k] = pipeline_patch_idx[k]
    BY <1>1, <2>1 DEF Advance, Types
  <2> QED  BY <2>1
           DEF Advance, Others, Kept, SameWhere, SameTasks, SameBuffers, queues, buffers, tensors, links
<1>4. pipeline_patch_idx'[i] = IF phase[i] = "async" THEN next_patch(pipeline_patch_idx[i])
                                                     ELSE pipeline_patch_idx[i]
  BY <1>1 DEF Advance, Types
<1>5. Types'
  <2>1. next_patch(pipeline_patch_idx[i]) \in Patches
    BY <1>1, SegmentFacts, Quotient DEF next_patch, Patches
  <2>2. patch[i] < NumPatches - 1 => patch[i] + 1 \in Patches
    BY <1>1 DEF Patches
  <2>3. pipeline_patch_idx' \in [Stages -> Patches]
    BY <1>1, <2>1 DEF Advance, Types
  <2>4. patch' \in [Stages -> Patches]
    BY <1>1, <2>2, SegmentFacts DEF Advance, Types
  <2>5. step' \in [Stages -> Nat]
    BY <1>1 DEF Advance, Types
  <2>6. phase' \in [Stages -> {"warmup", "alone", "handover", "async"}]
    BY <1>1 DEF Advance, Types
  <2>7. pc' \in [Stages -> Places]
    BY <1>1 DEF Advance, Types, Places
  <2> QED  BY <1>1, <2>3, <2>4, <2>5, <2>6, <2>7 DEF Advance, Types, queues, buffers, tensors, links
<1> QED  BY <1>2, <1>3, <1>4, <1>5

\* The loop indices of the next step; the runtime state's patch goes with the loop's.
LEMMA AdvanceCtl ==
    ASSUME Inv, NEW i \in Stages, Advance(i)
    PROVE  Ctl(i)'
<1>1. /\ Types /\ Ctl(i) /\ plan' = plan /\ pc[i] = "advance" /\ io[i] = "idle" /\ pc[i] # "idle"
      /\ request[i] \in 1 .. Len(plan) /\ plan \in Plans
      /\ plan[request[i]].steps \in Nat /\ step[i] \in Nat /\ patch[i] \in Patches
      /\ patch[i] \in Nat /\ Warmup \in Nat /\ NumPatches \in Nat /\ NumPatches > 0 /\ Lag(i) \in Nat
      /\ first_async_recv[i] \in BOOLEAN /\ Len(plan) \in Nat /\ Len(plan)' = Len(plan)
  <2>1. plan' = plan
    BY AdvanceKeeps DEF Static
  <2> QED  BY <2>1, AdvanceFacts, StageFacts, TypesAt, SegmentFacts, LagFacts
<1>2. /\ request'[i] = request[i] /\ io'[i] = "idle" /\ first_async_recv'[i] = first_async_recv[i]
      /\ pipeline_patch_idx'[i] = (IF phase[i] = "async" THEN next_patch(pipeline_patch_idx[i])
                                                        ELSE pipeline_patch_idx[i])
  BY <1>1, AdvanceKeeps
<1>3. CASE ToPatch(i) \/ ToRound(i)
  <2>1. /\ phase[i] = "async" /\ phase'[i] = "async" /\ pc'[i] = "receive"
        /\ plan[request[i]].steps > Warmup /\ step[i] < plan[request[i]].steps - Warmup
    BY <1>1, <1>3, AsyncFacts DEF ToPatch, ToRound
  <2>2. LoopSteps(i)' = plan[request[i]].steps - Warmup
    BY <1>1, <1>2, <2>1 DEF LoopSteps
  <2>3. step'[i] < LoopSteps(i)'
    BY <1>1, <1>3, <2>1, <2>2 DEF ToPatch, ToRound
  <2>4. pipeline_patch_idx'[i] = patch'[i]
    <3>1. pipeline_patch_idx'[i] = (patch[i] + 1) % NumPatches
      BY <1>1, <1>2, <2>1 DEF Ctl, next_patch
    <3>2. CASE ToPatch(i)
      <4>1. patch[i] + 1 \in Nat /\ patch[i] + 1 < NumPatches
        BY <1>1, <3>2 DEF ToPatch
      <4>2. (patch[i] + 1) % NumPatches = patch[i] + 1
        <5>1. patch[i] + 1 \in Patches
          BY <1>1, <4>1 DEF Patches
        <5>2. Nth(0, patch[i] + 1) % NumPatches = patch[i] + 1
          BY <5>1, NthFacts
        <5>3. Nth(0, patch[i] + 1) = patch[i] + 1
          BY <1>1 DEF Nth
        <5> QED  BY <5>2, <5>3
      <4> QED  BY <3>1, <3>2, <4>2 DEF ToPatch
    <3>3. CASE ToRound(i)
      <4>1. patch[i] + 1 = NumPatches
        BY <1>1, <3>3 DEF ToRound
      <4>2. NumPatches % NumPatches = 0
        BY <1>1
      <4> QED  BY <3>1, <3>3, <4>1, <4>2 DEF ToRound
    <3> QED  BY <1>3, <3>2, <3>3
  <2>5. first_async_recv'[i] <=>
           (step'[i] < Lag(i) \/ (step'[i] = Lag(i) /\ patch'[i] = 0 /\ pc'[i] = "receive"))
    <3>1. first_async_recv[i] <=> step[i] < Lag(i)
      BY <1>1, <2>1 DEF Ctl
    <3>2. CASE ToPatch(i)
      <4>1. step'[i] = step[i] /\ patch'[i] # 0
        BY <1>1, <3>2 DEF ToPatch
      <4> QED  BY <1>2, <3>1, <4>1
    <3>3. CASE ToRound(i)
      <4>1. step'[i] = step[i] + 1 /\ patch'[i] = 0 /\ pc'[i] = "receive"
        BY <3>3 DEF ToRound
      <4>2. step[i] < Lag(i) <=> (step[i] + 1 < Lag(i) \/ step[i] + 1 = Lag(i))
        <5>1. PICK z \in Nat, l \in Nat : z = step[i] /\ l = Lag(i)
          BY <1>1
        <5>2. z < l <=> (z + 1 < l \/ z + 1 = l)
          OBVIOUS
        <5> QED  BY <5>1, <5>2
      <4> QED  BY <1>2, <3>1, <4>1, <4>2
    <3> QED  BY <1>3, <3>2, <3>3
  <2>6. Lag(i)' = Lag(i)
    BY DEF Lag
  <2> QED  BY <1>1, <1>2, <2>1, <2>3, <2>4, <2>5, <2>6 DEF Ctl
<1>4. CASE FromRounds(i) \/ FromImages(i)
  BY <1>1, <1>2, <1>4 DEF Ctl, FromRounds, FromImages
<1>5. CASE ToImage(i) \/ ToHandover(i)
  <2>1. /\ phase[i] # "async" /\ phase'[i] # "async" /\ pc'[i] \in {"receive", "split"}
        /\ pipeline_patch_idx'[i] = 0 /\ patch'[i] = 0
    BY <1>1, <1>2, <1>5 DEF Ctl, ToImage, ToHandover
  <2>2. CASE ToImage(i)
    <3>1. LoopSteps(i)' = LoopSteps(i)
      BY <1>1, <1>2, <2>1 DEF LoopSteps, SyncSteps
    <3>2. step'[i] < LoopSteps(i)' /\ phase'[i] = phase[i] /\ phase'[i] # "handover" /\ pc'[i] = "receive"
      BY <2>2, <3>1 DEF ToImage
    <3> QED  BY <1>1, <1>2, <2>1, <3>2 DEF Ctl
  <2>3. CASE ToHandover(i)
    <3>1. /\ step'[i] = Warmup /\ phase'[i] = "handover" /\ phase[i] = "warmup"
          /\ i # FirstStage => pc'[i] = "split"
      BY <1>1, <2>3 DEF ToHandover
    <3> QED  BY <1>1, <1>2, <2>1, <3>1 DEF Ctl
  <2> QED  BY <1>5, <2>2, <2>3
<1> QED  BY <1>3, <1>4, <1>5, AdvanceFacts

\* A receive posted ahead is the one the next step waits for.
LEMMA AdvanceReceipts ==
    ASSUME Inv, NEW i \in Stages, Advance(i)
    PROVE  /\ Receipts(i)'
           /\ receiving_tasks[i] # <<>> => /\ ToPatch(i) \/ ToRound(i)
                                           /\ \A m : Here(i, m)' = Wanted(i, m)
           /\ receiving_skip_tasks[i] # <<>> => receiving_tasks[i] # <<>>
           /\ (receiving_skip_tasks[i] = <<>> /\ ReceivesSkip(i)) => receiving_tasks[i] = <<>>
           /\ ToPatch(i) \/ ToRound(i) => \A m : Here(i, m)' = Following(i, m)
<1>1. /\ Types /\ Ctl(i) /\ Receipts(i) /\ plan' = plan /\ pc[i] = "advance" /\ io[i] = "idle" /\ pc[i] # "idle"
      /\ request[i] \in 1 .. Len(plan) /\ plan \in Plans /\ model \in Models
      /\ plan[request[i]].steps \in Nat /\ step[i] \in Nat /\ patch[i] \in Patches
      /\ patch[i] \in Nat /\ Warmup \in Nat /\ NumPatches \in Nat /\ NumPatches > 0 /\ Lag(i) \in 0 .. 1
      /\ Lag(i) \in Nat
      /\ first_async_recv[i] \in BOOLEAN
      /\ request'[i] = request[i] /\ io'[i] = "idle" /\ first_async_recv'[i] = first_async_recv[i]
  <2>1. plan' = plan
    BY AdvanceKeeps DEF Static
  <2> QED  BY <2>1, AdvanceKeeps, AdvanceFacts, StageFacts, TypesAt, SegmentFacts, LagFacts
<1>2. /\ receiving_tasks'[i] = receiving_tasks[i] /\ receiving_skip_tasks'[i] = receiving_skip_tasks[i]
      /\ recv_tasks_queue'[i] = recv_tasks_queue[i] /\ recv_skip_tasks_queue'[i] = recv_skip_tasks_queue[i]
  BY AdvanceKeeps DEF SameTasks
<1>3. ReceivesSkip(i)' = ReceivesSkip(i)
  BY AdvanceKeeps, StaticRules
<1>4. CASE ToPatch(i) \/ ToRound(i)
  <2>1. /\ phase[i] = "async" /\ phase'[i] = "async" /\ pc'[i] = "receive"
        /\ plan[request[i]].steps > Warmup /\ step[i] < plan[request[i]].steps - Warmup
        /\ LoopSteps(i) = plan[request[i]].steps - Warmup
        /\ Timestep(i) = step[i] + Warmup
        /\ (NeedsReceive(i) <=> step[i] >= Lag(i))
    BY <1>1, <1>4, AsyncFacts DEF ToPatch, ToRound
  <2>2. ~(InLastStep(i) /\ patch[i] = NumPatches - 1)
    <3>1. CASE ToPatch(i)
      BY <1>1, <3>1 DEF ToPatch
    <3>2. CASE ToRound(i)
      <4>1. PICK z \in Nat, n \in Int : z = step[i] /\ n = plan[request[i]].steps - Warmup
        BY <1>1
      <4>2. z + 1 < n
        BY <3>2, <4>1 DEF ToRound
      <4>3. z # n - 1
        BY <4>2
      <4> QED  BY <2>1, <4>1, <4>3 DEF InLastStep
    <3> QED  BY <1>4, <3>1, <3>2
  <2>3. Outstanding(i) <=> step[i] >= Lag(i)
    BY <1>1, <2>1, <2>2 DEF Outstanding, Prefetches
  <2>4. (first_async_recv[i] <=> step[i] < Lag(i)) /\ (step[i] < Lag(i) <=> ~(step[i] >= Lag(i)))
    BY <1>1, <2>1 DEF Ctl
  <2>5. Outstanding(i)' <=> step[i] >= Lag(i)
    BY <1>1, <2>1, <2>4 DEF Outstanding
  <2>6. (SkipOutstanding(i) <=> ReceivesSkip(i) /\ Outstanding(i))
        /\ (SkipOutstanding(i)' <=> ReceivesSkip(i) /\ Outstanding(i)')
    BY <1>1, <1>3, <2>1 DEF SkipOutstanding
  <2>7. \A m : Here(i, m)' = Following(i, m)
    <3>1. CASE ToPatch(i)
      <4>1. Timestep(i)' = Timestep(i) /\ Segment(i)' = patch[i] + 1
        BY <2>1, <3>1 DEF ToPatch, Timestep, Segment
      <4> QED  BY <1>1, <3>1, <4>1 DEF ToPatch, Here, Following
    <3>2. CASE ToRound(i)
      <4>1. Timestep(i)' = Timestep(i) + 1 /\ Segment(i)' = 0
        BY <1>1, <2>1, <3>2 DEF ToRound, Timestep, Segment
      <4>2. ~(patch[i] < NumPatches - 1)
        BY <1>1, <3>2 DEF ToRound
      <4> QED  BY <1>1, <4>1, <4>2 DEF Here, Following
    <3> QED  BY <1>4, <3>1, <3>2
  <2>8. \A m : Wanted(i, m) = Following(i, m) /\ Wanted(i, m)' = Here(i, m)'
    BY <1>1, <2>1 DEF Wanted
  <2>9. Posted(i)' = Posted(i) /\ ToPost(i)' = ToPost(i)
    <3>1. ToPost(i)' = ToPost(i)
      BY <1>1 DEF ToPost, Nth, Lag
    <3>2. Lag(i)' = Lag(i)
      BY DEF Lag
    <3> SUFFICES Posted(i)' = Posted(i)
      BY <3>1
    <3>3. CASE step[i] < Lag(i)
      <4>1. Posted(i) = 0
        BY <3>3 DEF Posted
      <4>2. CASE ToPatch(i)
        BY <3>2, <3>3, <4>1, <4>2 DEF ToPatch, Posted
      <4>3. CASE ToRound(i)
        <5>1. step'[i] = Lag(i) /\ ~(step'[i] < Lag(i)) /\ step'[i] - Lag(i) = 0 /\ patch'[i] = 0
          BY <1>1, <3>3, <4>3 DEF ToRound
        <5>2. first_async_recv'[i] /\ Nth(0, 0) = 0
          BY <1>1, <2>4, <3>3 DEF Nth
        <5>3. Posted(i)' = Nth(0, 0)' + 0
          BY <2>1, <3>2, <5>1, <5>2 DEF Posted, Nth
        <5> QED  BY <4>1, <5>2, <5>3 DEF Nth
      <4> QED  BY <1>4, <4>2, <4>3
    <3>4. CASE step[i] >= Lag(i)
      <4>1. PICK s \in Nat : s = step[i] - Lag(i)
        BY <1>1, <3>4
      <4>2. Posted(i) = Nth(s, patch[i]) + 2
        <5>1. Prefetches(i)
          BY <2>1, <2>2, <3>4 DEF Prefetches
        <5> QED  BY <1>1, <2>4, <3>4, <4>1, <5>1 DEF Posted
      <4>3. ~first_async_recv'[i] /\ ~(step[i] < Lag(i))
        BY <1>1, <2>4, <3>4
      <4>4. CASE ToPatch(i)
        <5>1. step'[i] = step[i] /\ patch'[i] = patch[i] + 1 /\ patch[i] < NumPatches - 1
          BY <4>4 DEF ToPatch
        <5>2. Posted(i)' = Nth(s, patch[i] + 1) + 1
          BY <2>1, <3>2, <4>1, <4>3, <5>1 DEF Posted, Nth
        <5>3. Nth(s, patch[i]) + 1 = Nth(s, patch[i] + 1) /\ Nth(s, patch[i]) \in Nat
          BY <1>1, <5>1, NthFacts
        <5> QED  BY <4>2, <5>2, <5>3
      <4>5. CASE ToRound(i)
        <5>1. step'[i] = step[i] + 1 /\ patch'[i] = 0 /\ ~(patch[i] < NumPatches - 1)
          BY <1>1, <4>5 DEF ToRound
        <5>2. ~(step'[i] < Lag(i)) /\ step'[i] - Lag(i) = s + 1
          BY <1>1, <3>4, <4>1, <5>1
        <5>3. Posted(i)' = Nth(s + 1, 0) + 1
          BY <2>1, <3>2, <4>3, <5>1, <5>2 DEF Posted, Nth
        <5>4. Nth(s, patch[i]) + 1 = Nth(s + 1, 0) /\ Nth(s, patch[i]) \in Nat
          BY <1>1, <5>1, NthFacts
        <5> QED  BY <4>2, <5>3, <5>4
      <4> QED  BY <1>4, <4>4, <4>5
    <3> QED  BY <1>1, <3>1, <3>3, <3>4
  <2>10. Queue(i)'
    BY <1>1, <1>2, <2>1, <2>9 DEF Receipts, Queue
  <2>11. Receipts(i)'
    BY <1>1, <1>2, <1>3, <2>3, <2>5, <2>6, <2>7, <2>8, <2>10 DEF Receipts
  <2>12. /\ receiving_tasks[i] = <<>> <=> ~Outstanding(i)
         /\ receiving_skip_tasks[i] = <<>> <=> ~SkipOutstanding(i)
    BY <1>1, EmptySeq DEF Receipts, OneTask
  <2> QED  BY <1>4, <2>6, <2>7, <2>8, <2>11, <2>12
<1>5. CASE FromRounds(i) \/ FromImages(i) \/ ToImage(i) \/ ToHandover(i)
  <2>1. ~Outstanding(i) /\ ~SkipOutstanding(i) /\ recv_tasks_queue[i] = <<>>
    <3>1. CASE FromRounds(i)
      <4>1. phase[i] = "async" /\ step[i] + 1 = plan[request[i]].steps - Warmup /\ patch[i] = NumPatches - 1
        BY <3>1 DEF FromRounds
      <4>2. LoopSteps(i) = plan[request[i]].steps - Warmup
        BY <4>1 DEF LoopSteps
      <4>3. InLastStep(i)
        <5>1. PICK S \in Nat, W \in Nat, z \in Nat : S = plan[request[i]].steps /\ W = Warmup /\ z = step[i]
          BY <1>1
        <5>2. z + 1 = S - W => z = S - W - 1
          OBVIOUS
        <5> QED  BY <4>1, <4>2, <5>1, <5>2 DEF InLastStep
      <4>4. ~Outstanding(i) /\ ~Prefetches(i)
        BY <1>1, <4>1, <4>3 DEF Outstanding, Prefetches
      <4>5. Posted(i) = ToPost(i)
        <5>1. CASE step[i] < Lag(i)
          <6>1. (plan[request[i]].steps - Warmup) - Lag(i) = 0
            BY <1>1, <4>1, <5>1
          <6>2. ToPost(i) = Nth(0, 0) /\ Posted(i) = 0
            BY <5>1, <6>1 DEF ToPost, Posted
          <6> QED  BY <1>1, <6>2 DEF Nth
        <5>2. CASE step[i] >= Lag(i)
          <6>1. PICK s \in Nat : s = step[i] - Lag(i)
            BY <1>1, <5>2
          <6>2. (plan[request[i]].steps - Warmup) - Lag(i) = s + 1
            <7>1. PICK z \in Nat, l \in Nat : z = step[i] /\ l = Lag(i)
              BY <1>1
            <7>2. plan[request[i]].steps - Warmup = z + 1 /\ s = z - l
              BY <4>1, <6>1, <7>1
            <7> QED  BY <7>1, <7>2
          <6>3. ToPost(i) = Nth(s + 1, 0)
            BY <6>2 DEF ToPost
          <6>4. Posted(i) = Nth(s, patch[i]) + 1
            BY <1>1, <4>4, <5>2, <6>1 DEF Posted
          <6>5. ~(patch[i] < NumPatches - 1)
            BY <1>1, <4>1
          <6>6. Nth(s, patch[i]) + 1 = Nth(s + 1, 0)
            BY <1>1, <6>5, NthFacts
          <6> QED  BY <6>3, <6>4, <6>6
        <5> QED  BY <1>1, <5>1, <5>2
      <4>6. Len(recv_tasks_queue[i]) = 0
        <5>1. ToPost(i) \in Nat /\ Len(recv_tasks_queue[i]) = ToPost(i) - Posted(i)
          BY <1>1, <4>1, PostedFacts DEF Receipts, Queue
        <5> QED  BY <4>5, <5>1
      <4>7. recv_tasks_queue[i] = <<>>
        BY <1>1, <4>6, TypesAt, EmptySeq
      <4> QED  BY <1>1, <4>4, <4>7 DEF SkipOutstanding
    <3>2. CASE FromImages(i) \/ ToImage(i) \/ ToHandover(i)
      BY <1>1, <3>2 DEF FromImages, ToImage, ToHandover, Outstanding, SkipOutstanding, Receipts, Queue
    <3> QED  BY <1>5, <3>1, <3>2
  <2>2. receiving_tasks[i] = <<>> /\ receiving_skip_tasks[i] = <<>> /\ recv_skip_tasks_queue[i] = <<>>
    BY <1>1, <2>1 DEF Receipts
  <2>3. /\ pc'[i] \in {"receive", "split", "idle"}
        /\ pc'[i] # "idle" => phase'[i] # "async"
        /\ pc'[i] = "idle" => pc'[i] # "receive"
    BY <1>5 DEF FromRounds, FromImages, ToImage, ToHandover
  <2>4. ~Outstanding(i)' /\ ~SkipOutstanding(i)'
    <3>1. ~Outstanding(i)'
      BY <2>3 DEF Outstanding
    <3> QED  BY <2>3, <3>1 DEF SkipOutstanding
  <2>5. Receipts(i)'
    BY <1>2, <1>3, <2>1, <2>2, <2>3, <2>4 DEF Receipts, Queue
  <2>6. ~(ToPatch(i) \/ ToRound(i))
    BY <1>5 DEF ToPatch, ToRound, FromRounds, FromImages, ToImage, ToHandover
  <2> QED  BY <2>2, <2>5, <2>6
<1> QED  BY <1>4, <1>5, AdvanceFacts

\* Where the messages of a stage are when it gets on: at what it does next.
LEMMA AdvancePlaces ==
    ASSUME Inv, NEW i \in Stages, Advance(i)
    PROVE  RecvStays(i) /\ SendStays(i) /\ SkipRecvStays(i) /\ SkipSendStays(i)
<1>1. /\ Types /\ plan \in Plans /\ model \in Models /\ pc[i] = "advance" /\ io[i] = "idle"
      /\ io'[i] = "idle" /\ request'[i] = request[i] /\ request[i] \in 1 .. Len(plan)
      /\ receiving_tasks'[i] = receiving_tasks[i] /\ receiving_skip_tasks'[i] = receiving_skip_tasks[i]
      /\ Timestep(i) \in Nat /\ Static /\ request[i] \in Nat /\ Types'
  BY AdvanceKeeps, AdvanceFacts, StageFacts, TypesAt, PlacesTyped DEF SameTasks
<1>2. pc'[i] \in {"receive", "split", "idle"} /\ (i = FirstStage => pc'[i] # "split")
  BY AdvanceFacts DEF ToPatch, ToRound, FromRounds, ToImage, ToHandover, FromImages
<1>3. ReceivesSkip(i)' = ReceivesSkip(i) /\ SendsSkip(i)' = SendsSkip(i)
  BY <1>1, StaticRules
<1>4. NextRequest(i)' = Place(request[i] + 1, 0, Whole, 0) /\ Timestep(i)' \in Nat
  <2>1. NextRequest(i)' = Place(request[i] + 1, 0, Whole, 0)
    BY <1>1 DEF NextRequest
  <2>2. Timestep(i)' \in Nat
    <3>1. step'[i] \in Nat /\ Warmup \in Nat
      BY <1>1, SegmentFacts DEF Types
    <3> QED  BY <3>1 DEF Timestep
  <2> QED  BY <2>1, <2>2
<1> DEFINE next == IF pc'[i] = "idle" THEN NextRequest(i)' ELSE Here(i, 0)'
\* Without the lag: where it receives, and where it sends skips.
<1>5. \A j : Same(Due(j), Here(i, 2), next)
  <2> TAKE j
  <2>1. 0 <= Lag(j) /\ 0 \in 0 .. 1 /\ Timestep(i) + 0 = Timestep(i) /\ Timestep(i)' + 0 = Timestep(i)'
    BY <1>1, <1>4, LagFacts
  <2>2. Same(Due(j), Place(request[i], Timestep(i) + 0, Segment(i), 2),
             IF pc'[i] = "idle" THEN Place(request[i] + 1, 0, Whole, 0)
                                ELSE Place(request[i], Timestep(i)' + 0, Segment(i)', 0))
    BY <2>1, Onward
  <2> QED  BY <1>1, <1>4, <2>1, <2>2 DEF Here
<1>6. SendStays(i)
  <2> DEFINE j == next_rank(i)
  <2>1. Lag(j) \in 0 .. 1 /\ Lag(j) <= Lag(j) /\ Lag(j)' = Lag(j)
    BY LagFacts DEF Lag
  <2>2. Same(Due(j), Place(request[i], Timestep(i) + Lag(j), Segment(i), 2),
             IF pc'[i] = "idle" THEN Place(request[i] + 1, 0, Whole, 0)
                                ELSE Place(request[i], Timestep(i)' + Lag(j), Segment(i)', 0))
    BY <2>1, Onward
  <2>3. SendPos(i) = Place(request[i], Timestep(i) + Lag(j), Segment(i), 2)
    BY <1>1 DEF SendPos
  <2>4. SendPos(i)' = IF pc'[i] = "idle" THEN Place(request[i] + 1, 0, Whole, 0)
                      ELSE Place(request[i], Timestep(i)' + Lag(j), Segment(i)', 0)
    BY <1>1, <1>2, <1>4, <2>1 DEF SendPos
  <2> QED  BY <2>2, <2>3, <2>4 DEF SendStays
<1>7. SkipSendStays(i)
  <2>1. SkipSendPos(i) = Here(i, 2)
    BY <1>1 DEF SkipSendPos
  <2>2. SkipSendPos(i)' = next
    BY <1>1, <1>2 DEF SkipSendPos
  <2>3. Same(DueSkips(skip_rank(i)), Here(i, 2), next)
    BY <1>1, <1>5, SkipsToo
  <2> QED  BY <2>1, <2>2, <2>3 DEF SkipSendStays
\* A stage that hands over without a receive has no more images to receive.
<1>8. pc'[i] = "split" => Same(Due(i), Here(i, 0)', Here(i, 2)')
  <2> SUFFICES ASSUME pc'[i] = "split"
               PROVE  Same(Due(i), Here(i, 0)', Here(i, 2)')
    OBVIOUS
  <2>1. ToHandover(i)
    BY AdvanceFacts DEF ToPatch, ToRound, FromRounds, ToImage, ToHandover, FromImages
  <2>2. Timestep(i)' = Warmup /\ Segment(i)' = Whole /\ i # FirstStage
    <3>1. phase'[i] = "handover" /\ step'[i] = Warmup /\ i # FirstStage
      BY <1>2, <2>1 DEF ToHandover
    <3> QED  BY <3>1, SegmentFacts DEF Timestep, Segment
  <2>3. plan[request[i]].steps > Warmup /\ phase[i] = "warmup"
    BY <1>1, <2>1, SyncFacts DEF ToHandover
  <2>4. ASSUME NEW m \in 0 .. 1, Place(request[i], Warmup, Whole, m) \in Due(i)
        PROVE  FALSE
    <3>1. Warmup < Warmup + Lag(i)
      BY <1>1, <2>3, <2>4, DueFacts, PlaceParts
    <3> QED  BY <2>2, <3>1, LagFacts, SegmentFacts
  <2>5. Same(Due(i), Place(request[i], Warmup, Whole, 0), Place(request[i], Warmup, Whole, 2))
    BY <1>1, <2>4, PassedOver, DueTypes, SegmentFacts
  <2> QED  BY <1>1, <2>2, <2>5 DEF Here
<1>9. RecvStays(i)
  <2>1. CASE receiving_tasks[i] # <<>>
    <3>1. pc'[i] = "receive" /\ \A m : Here(i, m)' = Wanted(i, m)
      BY <2>1, AdvanceReceipts DEF ToPatch, ToRound
    <3>2. RecvPos(i)' = RecvPos(i)
      BY <1>1, <2>1, <3>1 DEF RecvPos, Wanted
    <3> QED  BY <3>2, SameFacts DEF RecvStays
  <2>2. CASE receiving_tasks[i] = <<>>
    <3>1. RecvPos(i) = Here(i, 2)
      BY <1>1, <2>2 DEF RecvPos
    <3>2. RecvPos(i)' = IF pc'[i] = "split" THEN Here(i, 2)' ELSE next
      BY <1>1, <1>2, <2>2 DEF RecvPos
    <3> QED  BY <1>5, <1>8, <3>1, <3>2, SameFacts DEF RecvStays
  <2> QED  BY <2>1, <2>2
<1>10. SkipRecvStays(i)
  <2> SUFFICES ASSUME ReceivesSkip(i)
               PROVE  Same(DueSkips(i), SkipRecvPos(i), SkipRecvPos(i)')
    BY DEF SkipRecvStays
  <2>1. CASE receiving_skip_tasks[i] # <<>>
    <3>1. pc'[i] = "receive" /\ \A m : Here(i, m)' = Wanted(i, m)
      BY <2>1, AdvanceReceipts DEF ToPatch, ToRound
    <3>2. SkipRecvPos(i)' = SkipRecvPos(i)
      BY <1>1, <2>1, <3>1 DEF SkipRecvPos, Wanted
    <3> QED  BY <3>2, SameFacts
  <2>2. CASE receiving_skip_tasks[i] = <<>>
    <3>1. SkipRecvPos(i) = Here(i, 2)
      BY <1>1, <2>2 DEF SkipRecvPos
    <3>2. SkipRecvPos(i)' = IF pc'[i] = "split" THEN Here(i, 2)' ELSE next
      BY <1>1, <1>2, <2>2 DEF SkipRecvPos
    <3>3. Same(Due(i), SkipRecvPos(i), SkipRecvPos(i)')
      BY <1>5, <1>8, <3>1, <3>2, SameFacts
    <3> QED  BY <1>1, <3>3, SkipsToo
  <2> QED  BY <2>1, <2>2
<1> QED  BY <1>6, <1>7, <1>9, <1>10

\* What a stage holds when it gets on is what the next step starts from.
LEMMA AdvanceData ==
    ASSUME Inv, NEW i \in Stages, Advance(i)
    PROVE  Buffers(i)' /\ SkipBuffers(i)' /\ Latents(i)'
<1>1. /\ Types /\ Buffers(i) /\ SkipBuffers(i) /\ Latents(i)
      /\ pc[i] = "advance" /\ pc[i] # "idle" /\ Made(i)
      /\ request'[i] = request[i] /\ Static /\ step[i] \in Nat /\ patch[i] \in Patches
      /\ receiving_tasks'[i] = receiving_tasks[i] /\ receiving_skip_tasks'[i] = receiving_skip_tasks[i]
      /\ recv_buffer'[i] = recv_buffer[i] /\ skip_buffer'[i] = skip_buffer[i]
      /\ latents'[i] = latents[i] /\ patch_latents'[i] = patch_latents[i]
      /\ NumPatches \in Nat /\ Warmup \in Nat
  BY AdvanceKeeps, AdvanceFacts, StageFacts, TypesAt, SegmentFacts DEF SameTasks, SameBuffers, Made
<1>2. /\ pc'[i] \in {"receive", "split", "idle"} /\ ~Made(i)'
      /\ pc'[i] = "split" => i # FirstStage /\ ToHandover(i)
  <2>1. /\ pc'[i] \in {"receive", "split", "idle"}
        /\ pc'[i] = "split" => i # FirstStage /\ ToHandover(i)
    BY AdvanceFacts DEF ToPatch, ToRound, FromRounds, ToImage, ToHandover, FromImages
  <2> QED  BY <2>1 DEF Made
<1>3. \A m : Wanted(i, m)' = Here(i, m)'
  BY <1>2 DEF Wanted
<1>4. \A q : Body(i, q)' = Body(i, q) /\ SkipBody(i, q)' = SkipBody(i, q)
  BY <1>1, StaticBodies
<1>5. receiving_tasks[i] # <<>> \/ receiving_skip_tasks[i] # <<>> =>
          Wanted(i, 1)' = Wanted(i, 1)
  BY <1>3, AdvanceReceipts
<1>6. Buffers(i)'
  <2>1. receiving_tasks'[i] # <<>> /\ Head(receiving_tasks'[i]).arrived =>
            recv_buffer'[i][Wanted(i, 1)'.patch] = Body(i, Wanted(i, 1))'
    <3>1. receiving_tasks[i] # <<>> => Body(i, Wanted(i, 1))' = Body(i, Wanted(i, 1))
      <4>1. Body(i, Wanted(i, 1))' = Tensor(Wanted(i, 1)'.request, Wanted(i, 1)'.step, Wanted(i, 1)'.patch, Prefix(i)')
        BY DEF Body, Tensor
      <4>2. Prefix(i)' = Prefix(i)
        BY <1>1, StaticRules
      <4> QED  BY <1>5, <4>1, <4>2 DEF Body
    <3> QED  BY <1>1, <1>5, <3>1 DEF Buffers
  <2>2. i = FirstStage /\ (pc'[i] = "split" \/ (pc'[i] # "idle" /\ phase'[i] = "async" /\ step'[i] = 0)) =>
            recv_buffer'[i][Whole] = Body(i, Place(request[i], Warmup, Whole, 1))'
    <3> SUFFICES ASSUME i = FirstStage, pc'[i] # "idle", phase'[i] = "async", step'[i] = 0
                 PROVE  recv_buffer'[i][Whole] = Body(i, Place(request[i], Warmup, Whole, 1))'
      BY <1>2
    <3>1. ToPatch(i)
      <4>1. step'[i] # step[i] + 1
        BY <1>1
      <4> QED  BY <4>1, AdvanceFacts DEF ToPatch, ToRound, FromRounds, ToImage, ToHandover, FromImages
    <3>2. phase[i] = "async" /\ step[i] = 0
      BY <3>1 DEF ToPatch
    <3>3. recv_buffer[i][Whole] = Body(i, Place(request[i], Warmup, Whole, 1))
      BY <1>1, <3>2 DEF Buffers
    <3>4. Body(i, Place(request[i], Warmup, Whole, 1))' = Body(i, Place(request[i], Warmup, Whole, 1))
      <4>1. Prefix(i)' = Prefix(i)
        BY <1>1, StaticRules
      <4> QED  BY <1>1, <4>1 DEF Body
    <3> QED  BY <1>1, <3>3, <3>4
  <2> QED  BY <1>1, <1>2, <2>1, <2>2 DEF Buffers
<1>7. SkipBuffers(i)'
  <2>1. receiving_skip_tasks[i] # <<>> => SkipBody(i, Wanted(i, 1))' = SkipBody(i, Wanted(i, 1))
    <3>1. Blocks(skip_rank(i))' = Blocks(skip_rank(i))
      BY <1>1, StaticRules
    <3> QED  BY <1>5, <3>1 DEF SkipBody, Tensor
  <2> QED  BY <1>1, <1>2, <1>5, <2>1 DEF SkipBuffers
<1>8. Latents(i)'
  <2>1. CASE ToPatch(i) \/ ToRound(i)
    <3>1. /\ phase[i] = "async" /\ phase'[i] = "async" /\ Timestep(i) = step[i] + Warmup
          /\ Timestep(i)' = step'[i] + Warmup /\ Timestep(i) \in Nat
      BY <1>1, <2>1 DEF ToPatch, ToRound, Timestep
    <3>2. i = LastStage => \A p \in Patches :
              patch_latents'[i][p] = Tensor(request[i], Timestep(i)' + (IF p < patch'[i] THEN 1 ELSE 0), p, <<>>)
      <4> SUFFICES ASSUME i = LastStage, NEW p \in Patches
                   PROVE  patch_latents'[i][p] =
                              Tensor(request[i], Timestep(i)' + (IF p < patch'[i] THEN 1 ELSE 0), p, <<>>)
        OBVIOUS
      <4>1. patch_latents[i][p] =
                Tensor(request[i], Timestep(i) + (IF p < patch[i] \/ p = patch[i] THEN 1 ELSE 0), p, <<>>)
        BY <1>1, <3>1 DEF Latents
      <4>2. p \in Nat /\ p <= NumPatches - 1 /\ patch[i] \in Nat
        BY <1>1, SegmentFacts
      <4>3. Timestep(i) + (IF p < patch[i] \/ p = patch[i] THEN 1 ELSE 0) =
                Timestep(i)' + (IF p < patch'[i] THEN 1 ELSE 0)
        <5>1. CASE ToPatch(i)
          <6>1. Timestep(i)' = Timestep(i) /\ patch'[i] = patch[i] + 1
            BY <3>1, <5>1 DEF ToPatch
          <6> QED  BY <4>2, <6>1
        <5>2. CASE ToRound(i)
          <6>1. Timestep(i)' = Timestep(i) + 1 /\ patch'[i] = 0 /\ patch[i] = NumPatches - 1
            BY <1>1, <3>1, <5>2 DEF ToRound
          <6> QED  BY <1>1, <3>1, <4>2, <6>1
        <5> QED  BY <2>1, <5>1, <5>2
      <4> QED  BY <1>1, <4>1, <4>3
    <3> QED  BY <1>1, <1>2, <3>1, <3>2 DEF Latents
  <2>2. CASE ToImage(i) \/ ToHandover(i)
    <3>1. /\ phase[i] # "async" /\ phase'[i] # "async" /\ Timestep(i)' = Timestep(i) + 1
          /\ step'[i] # 0 /\ Timestep(i) \in Nat
      BY <1>1, <2>2 DEF ToImage, ToHandover, Timestep
    <3>2. i = LastStage => latents'[i] = Tensor(request[i], Timestep(i)' + 0, Whole, <<>>)
      <4>1. i = LastStage => latents[i] = Tensor(request[i], Timestep(i) + 1, Whole, <<>>)
        BY <1>1, <3>1 DEF Latents
      <4>2. Timestep(i)' + 0 = Timestep(i) + 1
        BY <3>1
      <4> QED  BY <1>1, <4>1, <4>2
    <3> QED  BY <1>1, <1>2, <3>1, <3>2 DEF Latents
  <2>3. CASE FromRounds(i) \/ FromImages(i)
    BY <2>3 DEF FromRounds, FromImages, Latents
  <2> QED  BY <2>1, <2>2, <2>3, AdvanceFacts
<1> QED  BY <1>6, <1>7, <1>8

\* Advance: the loops, the hand-over and the end of a request.
LEMMA AdvanceStep ==
    ASSUME Inv, NEW i \in Stages, Advance(i)
    PROVE  Inv'
<1>1. /\ Static /\ Others(i) /\ Types' /\ link' = link /\ skip_link' = skip_link
      /\ request'[i] = request[i] /\ recv_shape'[i] = recv_shape[i] /\ send_shape'[i] = send_shape[i]
      /\ pc[i] # "idle"
  BY AdvanceKeeps, AdvanceFacts DEF SameBuffers
<1>2. RecvStays(i) /\ SendStays(i) /\ SkipRecvStays(i) /\ SkipSendStays(i)
  BY AdvancePlaces
<1>3. Shapes(i)'
  BY <1>1, <1>2, ShapesStay, SameIsSameShapes DEF RecvStays, SendStays
<1>4. Local(i)'
  BY <1>3, AdvanceCtl, AdvanceReceipts, AdvanceData DEF Local
<1> QED  BY <1>1, <1>2, <1>4, Quiet

-----------------------------------------------------------------------------
(* The hand-over. *)

\* The queue of all receives of a loop.
LEMMA RoundsFacts ==
    ASSUME NEW n \in Nat
    PROVE  /\ Rounds(n) \in Seq(Patches) /\ Len(Rounds(n)) = Nth(n, 0)
           /\ \A k \in 1 .. Nth(n, 0) : Rounds(n)[k] = (0 + k - 1) % NumPatches
<1>1. /\ NumPatches \in Nat /\ NumPatches > 0
  BY SegmentFacts
<1>2. n * NumPatches \in Nat /\ Nth(n, 0) = n * NumPatches
  BY <1>1 DEF Nth
<1>3. PICK l \in Nat : l = n * NumPatches
  BY <1>2
<1>4. Rounds(n) = [k \in 1 .. l |-> (k - 1) % NumPatches]
  BY <1>3 DEF Rounds
<1>5. \A k \in 1 .. l : (k - 1) % NumPatches \in Patches /\ Rounds(n)[k] = (0 + k - 1) % NumPatches
  <2> TAKE k \in 1 .. l
  <2>1. k - 1 \in Nat /\ 0 + k - 1 = k - 1
    OBVIOUS
  <2> QED  BY <1>1, <1>4, <2>1, Quotient DEF Patches
<1> QED  BY <1>2, <1>3, <1>4, <1>5

\* _init_async_pipeline: the split of the latents and the queue of the receives.
LEMMA SplitStep ==
    ASSUME Inv, NEW i \in Stages, Split(i)
    PROVE  Inv'
<1>1. /\ Types /\ Ctl(i) /\ Receipts(i) /\ Buffers(i) /\ Latents(i)
      /\ plan \in Plans /\ model \in Models /\ pc[i] = "split" /\ pc[i] # "idle" /\ io[i] = "idle"
      /\ phase[i] = "handover" /\ step[i] = Warmup /\ patch[i] = 0 /\ plan[request[i]].steps > Warmup
      /\ Timestep(i) = Warmup /\ Segment(i) = Whole /\ plan[request[i]].steps \in Nat
      /\ request[i] \in 1 .. Len(plan) /\ request[i] \in Nat
      /\ Warmup \in Nat /\ Lag(i) \in 0 .. 1 /\ Lag(i) \in Nat /\ Whole \in Segments /\ 0 \in Patches
  <2>1. pc[i] = "split" /\ io[i] = "idle"
    BY Idle DEF Split, CallsReceive
  <2>2. phase[i] = "handover"
    BY <2>1, StageFacts DEF Ctl
  <2> QED  BY <2>1, <2>2, SyncFacts, StageFacts, TypesAt, SegmentFacts, LagFacts
<1>2. PICK n \in Nat : n = (plan[request[i]].steps - Warmup) - Lag(i)
  <2>1. plan[request[i]].steps - Warmup \in Nat /\ plan[request[i]].steps - Warmup >= 1
    BY <1>1
  <2> QED  BY <1>1, <2>1
<1>3. /\ Outstanding(i) <=> FALSE
      /\ receiving_tasks[i] = <<>> /\ receiving_skip_tasks[i] = <<>>
      /\ recv_tasks_queue[i] = <<>> /\ recv_skip_tasks_queue[i] = <<>>
  <2>1. ~Outstanding(i) /\ ~SkipOutstanding(i)
    BY <1>1 DEF Outstanding, SkipOutstanding
  <2> QED  BY <1>1, <2>1 DEF Receipts, Queue
<1>4. /\ recv_tasks_queue' = [recv_tasks_queue EXCEPT ![i] = Rounds(n)]
      /\ recv_skip_tasks_queue' = [recv_skip_tasks_queue EXCEPT ![i] = IF ReceivesSkip(i) THEN Rounds(n) ELSE <<>>]
  <2>1. (IF i = FirstStage THEN (plan[request[i]].steps - Warmup) - 1 ELSE plan[request[i]].steps - Warmup) = n
    BY <1>1, <1>2, LagFacts
  <2>2. ReceivesSkip(i) => plan[request[i]].steps - Warmup = n
    BY <1>1, <2>1, Mirror
  <2>3. Rounds(n) \in Seq(Patches) /\ <<>> \o Rounds(n) = Rounds(n)
    BY RoundsFacts, EmptySeq
  <2>4. recv_tasks_queue' = [recv_tasks_queue EXCEPT ![i] = Rounds(n)]
    <3>1. recv_tasks_queue' = [recv_tasks_queue EXCEPT ![i] = @ \o Rounds(n)]
      BY <2>1 DEF Split
    <3> QED  BY <1>1, <1>3, <2>3, <3>1 DEF Types
  <2>5. recv_skip_tasks_queue' = [recv_skip_tasks_queue EXCEPT ![i] = IF ReceivesSkip(i) THEN Rounds(n) ELSE <<>>]
    <3>1. recv_skip_tasks_queue' = [recv_skip_tasks_queue EXCEPT ![i] = IF ReceivesSkip(i) THEN @ \o Rounds(n) ELSE @]
      <4>1. CASE ReceivesSkip(i)
        BY <2>2, <4>1 DEF Split
      <4>2. CASE ~ReceivesSkip(i)
        BY <4>2 DEF Split
      <4> QED  BY <4>1, <4>2
    <3> QED  BY <1>1, <1>3, <2>3, <3>1 DEF Types
  <2> QED  BY <2>4, <2>5
<1>5. /\ phase'[i] = "async" /\ pc'[i] = "receive" /\ step'[i] = 0 /\ patch'[i] = 0
      /\ pipeline_patch_idx'[i] = 0 /\ first_async_recv'[i] = TRUE /\ io'[i] = "idle"
      /\ request'[i] = request[i] /\ latents'[i] = latents[i]
      /\ patch_latents'[i] = [p \in Patches |-> IF i = LastStage THEN [latents[i] EXCEPT !.patch = p] ELSE None]
      /\ recv_tasks_queue'[i] = Rounds(n)
      /\ recv_skip_tasks_queue'[i] = (IF ReceivesSkip(i) THEN Rounds(n) ELSE <<>>)
      /\ receiving_tasks'[i] = <<>> /\ receiving_skip_tasks'[i] = <<>>
      /\ recv_shape'[i] = recv_shape[i] /\ send_shape'[i] = send_shape[i]
      /\ recv_buffer'[i] = recv_buffer[i] /\ skip_buffer'[i] = skip_buffer[i]
      /\ Static /\ link' = link /\ skip_link' = skip_link /\ plan' = plan
  <2>1. /\ phase'[i] = "async" /\ pc'[i] = "receive" /\ step'[i] = 0 /\ patch'[i] = 0
        /\ pipeline_patch_idx'[i] = 0 /\ first_async_recv'[i] = TRUE /\ io'[i] = "idle"
        /\ request'[i] = request[i] /\ latents'[i] = latents[i]
    BY <1>1 DEF Split, Types
  <2>2. patch_latents'[i] = [p \in Patches |-> IF i = LastStage THEN [latents[i] EXCEPT !.patch = p] ELSE None]
    BY <1>1 DEF Split, Types
  <2>3. /\ recv_tasks_queue'[i] = Rounds(n)
        /\ recv_skip_tasks_queue'[i] = (IF ReceivesSkip(i) THEN Rounds(n) ELSE <<>>)
    BY <1>1, <1>4 DEF Types
  <2> QED  BY <1>3, <2>1, <2>2, <2>3 DEF Split, Static, buffers, links
<1>6. Types'
  <2>1. Rounds(n) \in Seq(Patches)
    BY RoundsFacts
  <2>2. recv_tasks_queue' \in [Stages -> Seq(Patches)]
    BY <1>1, <1>4, <2>1 DEF Types
  <2>3. recv_skip_tasks_queue' \in [Stages -> Seq(Patches)]
    <3>1. (IF ReceivesSkip(i) THEN Rounds(n) ELSE <<>>) \in Seq(Patches)
      BY <2>1
    <3> QED  BY <1>1, <1>4, <3>1 DEF Types
  <2>4. /\ phase' \in [Stages -> {"warmup", "alone", "handover", "async"}] /\ pc' \in [Stages -> Places]
        /\ step' \in [Stages -> Nat] /\ pipeline_patch_idx' \in [Stages -> Patches]
        /\ first_async_recv' \in [Stages -> BOOLEAN]
    BY <1>1 DEF Split, Types, Places
  <2>5. DOMAIN patch_latents' = Stages /\ \A k \in Stages : DOMAIN patch_latents'[k] = Patches
    BY <1>1 DEF Split, Types
  <2> QED  BY <1>1, <2>2, <2>3, <2>4, <2>5 DEF Split, Types, buffers, links
<1>7. Others(i)
  <2>1. ASSUME NEW k \in Stages, k # i
        PROVE  /\ pc'[k] = pc[k] /\ phase'[k] = phase[k] /\ step'[k] = step[k]
               /\ pipeline_patch_idx'[k] = pipeline_patch_idx[k] /\ first_async_recv'[k] = first_async_recv[k]
               /\ patch_latents'[k] = patch_latents[k]
    BY <1>1, <2>1 DEF Split, Types
  <2>2. ASSUME NEW k \in Stages, k # i
        PROVE  /\ recv_tasks_queue'[k] = recv_tasks_queue[k]
               /\ recv_skip_tasks_queue'[k] = recv_skip_tasks_queue[k]
    BY <1>1, <1>4, <2>2 DEF Types
  <2> QED  BY ZenonT(30), <1>5, <2>1, <2>2
           DEF Split, Others, Kept, SameWhere, SameTasks, SameBuffers, buffers
<1>8. /\ Timestep(i)' = Warmup /\ Segment(i)' = 0 /\ LoopSteps(i)' = plan[request[i]].steps - Warmup
      /\ \A m : Here(i, m)' = Place(request[i], Warmup, 0, m)
      /\ ~Made(i)' /\ Lag(i)' = Lag(i)
  <2>1. Timestep(i)' = Warmup /\ Segment(i)' = 0 /\ LoopSteps(i)' = plan[request[i]].steps - Warmup
    BY <1>1, <1>5 DEF Timestep, Segment, LoopSteps
  <2> QED  BY <1>5, <2>1 DEF Here, Made, Lag
<1>9. ReceivesSkip(i)' = ReceivesSkip(i) /\ SendsSkip(i)' = SendsSkip(i)
      /\ \A q : Body(i, q)' = Body(i, q)
  BY <1>5, StaticRules, StaticBodies
<1>10. Ctl(i)'
  <2>1. 0 < LoopSteps(i)'
    BY <1>1, <1>8
  <2>2. 0 < Lag(i) \/ 0 = Lag(i)
    BY <1>1
  <2>3. ~(plan[request[i]].steps <= Warmup) /\ request[i] <= Len(plan) /\ request[i] >= 1
    BY <1>1, PlanFacts
  <2> QED  BY <1>5, <1>8, <2>1, <2>2, <2>3 DEF Ctl
<1>11. Receipts(i)'
  <2>1. ~Outstanding(i)' /\ ~SkipOutstanding(i)'
    <3>1. ~Outstanding(i)'
      BY <1>5 DEF Outstanding
    <3> QED  BY <1>5, <3>1 DEF SkipOutstanding
  <2>2. Posted(i)' = 0
    <3>1. CASE Lag(i) = 1
      BY <1>5, <1>8, <3>1 DEF Posted
    <3>2. CASE Lag(i) = 0
      <4>1. Posted(i)' = Nth(0, 0) + 0
        BY <1>5, <1>8, <3>2 DEF Posted, Nth
      <4>2. Nth(0, 0) = 0
        BY SegmentFacts DEF Nth
      <4> QED  BY <4>1, <4>2
    <3> QED  BY <1>1, <3>1, <3>2
  <2>3. ToPost(i)' = Nth(n, 0)
    BY <1>2, <1>5, <1>8 DEF ToPost, Nth
  <2>4. /\ Len(Rounds(n)) = Nth(n, 0) - 0 /\ Nth(n, 0) \in Nat /\ Len(Rounds(n)) = Nth(n, 0)
        /\ \A k \in 1 .. Nth(n, 0) : Rounds(n)[k] = (0 + k - 1) % NumPatches
    <3>1. Nth(n, 0) \in Nat
      BY NthFacts, SegmentFacts
    <3>2. Nth(n, 0) - 0 = Nth(n, 0)
      BY <3>1
    <3> QED  BY <3>1, <3>2, RoundsFacts
  <2>5. Queue(i)'
    BY <1>5, <2>2, <2>3, <2>4 DEF Queue
  <2> QED  BY <1>5, <1>9, <2>1, <2>5 DEF Receipts
<1>12. RecvStays(i) /\ SkipRecvStays(i)
  <2>1. Same(Due(i), Place(request[i], Warmup, Whole, 2), Place(request[i], Warmup, 0, 0))
    <3>1. Whole + 1 = 0 /\ Whole \in Int
      BY SegmentFacts
    <3>2. Same(Due(i), Place(request[i], Warmup, Whole, 2), Place(request[i], Warmup, Whole + 1, 0))
      BY <1>1, <3>1, NextSegment
    <3> QED  BY <3>1, <3>2
  <2>2. RecvPos(i) = Place(request[i], Warmup, Whole, 2) /\ SkipRecvPos(i) = Place(request[i], Warmup, Whole, 2)
    BY <1>1, <1>3 DEF RecvPos, SkipRecvPos, Here
  <2>3. RecvPos(i)' = Place(request[i], Warmup, 0, 0) /\ SkipRecvPos(i)' = Place(request[i], Warmup, 0, 0)
    BY <1>5, <1>8 DEF RecvPos, SkipRecvPos
  <2> QED  BY <1>1, <2>1, <2>2, <2>3, SkipsToo DEF RecvStays, SkipRecvStays
<1>13. SendStays(i)
  <2> DEFINE j == next_rank(i)
  <2>1. Warmup + Lag(j) \in Nat /\ Warmup + Lag(j) >= Warmup + Lag(j) /\ 0 \in 0 .. 2 /\ Lag(j)' = Lag(j)
    BY <1>1, LagFacts DEF Lag
  <2>2. Same(Due(j), Place(request[i], Warmup + Lag(j), Whole, 0), Place(request[i], Warmup + Lag(j), 0, 0))
    BY <1>1, <2>1, WholeOver
  <2>3. SendPos(i) = Place(request[i], Warmup + Lag(j), Whole, 0)
    BY <1>1 DEF SendPos
  <2>4. SendPos(i)' = Place(request[i], Warmup + Lag(j), 0, 0)
    BY <1>5, <1>8, <2>1 DEF SendPos
  <2> QED  BY <2>2, <2>3, <2>4 DEF SendStays
<1>14. SkipSendStays(i)
  <2> SUFFICES ASSUME SendsSkip(i)
               PROVE  Same(DueSkips(skip_rank(i)), SkipSendPos(i), SkipSendPos(i)')
    BY DEF SkipSendStays
  <2> DEFINE j == skip_rank(i)
  <2>1. Lag(j) = 0 /\ Warmup >= Warmup + Lag(j) /\ 0 \in 0 .. 2
    BY <1>1, Mirror, LagFacts
  <2>2. Same(Due(j), Place(request[i], Warmup, Whole, 0), Place(request[i], Warmup, 0, 0))
    BY <1>1, <2>1, WholeOver
  <2>3. SkipSendPos(i) = Place(request[i], Warmup, Whole, 0)
    BY <1>1 DEF SkipSendPos, Here
  <2>4. SkipSendPos(i)' = Place(request[i], Warmup, 0, 0)
    BY <1>5, <1>8 DEF SkipSendPos
  <2> QED  BY <1>1, <2>2, <2>3, <2>4, SkipsToo
<1>15. Shapes(i)'
  BY <1>1, <1>5, <1>12, <1>13, ShapesStay, SameIsSameShapes DEF RecvStays, SendStays
<1>16. Buffers(i)' /\ SkipBuffers(i)'
  <2>1. Body(i, Place(request[i], Warmup, Whole, 1))' = Body(i, Place(request[i], Warmup, Whole, 1))
    <3>1. Prefix(i)' = Prefix(i)
      BY <1>5, StaticRules
    <3> QED  BY <1>5, <3>1 DEF Body
  <2>2. i = FirstStage => recv_buffer[i][Whole] = Body(i, Place(request[i], Warmup, Whole, 1))
    BY <1>1 DEF Buffers
  <2> QED  BY <1>5, <2>1, <2>2 DEF Buffers, SkipBuffers
<1>17. Latents(i)'
  <2>1. i = LastStage => \A p \in Patches :
            patch_latents'[i][p] = Tensor(request[i], Warmup + (IF p < 0 THEN 1 ELSE 0), p, <<>>)
    <3> SUFFICES ASSUME i = LastStage, NEW p \in Patches
                 PROVE  patch_latents'[i][p] = Tensor(request[i], Warmup + (IF p < 0 THEN 1 ELSE 0), p, <<>>)
      OBVIOUS
    <3>1. latents[i] = Tensor(request[i], Warmup + 0, Whole, <<>>)
      BY <1>1 DEF Latents, Made
    <3>2. patch_latents'[i][p] = [latents[i] EXCEPT !.patch = p]
      BY <1>5
    <3>3. p \in Nat /\ Warmup + 0 = Warmup /\ Warmup + (IF p < 0 THEN 1 ELSE 0) = Warmup
      BY <1>1, SegmentFacts
    <3>4. [Tensor(request[i], Warmup, Whole, <<>>) EXCEPT !.patch = p] = Tensor(request[i], Warmup, p, <<>>)
      BY DEF Tensor
    <3> QED  BY <3>1, <3>2, <3>3, <3>4
  <2> QED  BY <1>5, <1>8, <2>1 DEF Latents
<1>18. Local(i)'
  BY <1>10, <1>11, <1>15, <1>16, <1>17 DEF Local
<1> QED  BY <1>5, <1>6, <1>7, <1>12, <1>13, <1>14, <1>18, Quiet

-----------------------------------------------------------------------------
(* The invariant and what it gives. *)

\* Before the first request all is empty.
LEMMA Start == Init => Inv
<1> SUFFICES ASSUME Init
             PROVE  Inv
  OBVIOUS
<1>1. 0 \in Patches
  BY SegmentFacts
<1>2. Types
  <2>1. DOMAIN Empty = Segments
    BY DEF Empty, Segments
  <2> QED  BY <1>1, <2>1 DEF Init, Types, Places
<1>3. ASSUME NEW i \in Stages
      PROVE  Local(i)
  <2>1. /\ pc[i] = "idle" /\ io[i] = "idle" /\ request[i] = 0 /\ patch[i] = 0
        /\ receiving_tasks[i] = <<>> /\ receiving_skip_tasks[i] = <<>>
        /\ recv_tasks_queue[i] = <<>> /\ recv_skip_tasks_queue[i] = <<>>
    BY DEF Init
  <2>2. Ctl(i)
    <3>1. Len(plan) \in Nat
      BY <1>2, PlanFacts DEF Types
    <3> QED  BY <2>1, <3>1 DEF Ctl
  <2>3. Receipts(i)
    BY <2>1 DEF Receipts, Outstanding, SkipOutstanding, Queue
  <2>4. Shapes(i) /\ Buffers(i) /\ SkipBuffers(i) /\ Latents(i)
    BY <2>1 DEF Shapes, Buffers, SkipBuffers, Latents
  <2> QED  BY <2>2, <2>3, <2>4 DEF Local
<1>4. \A i \in Stages : /\ RecvPos(i) = Place(0 + 1, 0, Whole, 0) /\ SendPos(i) = Place(0 + 1, 0, Whole, 0)
                        /\ SkipRecvPos(i) = Place(0 + 1, 0, Whole, 0)
                        /\ SkipSendPos(i) = Place(0 + 1, 0, Whole, 0)
  BY DEF Init, RecvPos, SendPos, SkipRecvPos, SkipSendPos, NextRequest
<1>5. \A S, a : Holds(<<>>, S, a, a)
  BY DEF Holds
<1>6. Posns(<<>>) = <<>> /\ SkipPosns(<<>>) = <<>>
  BY DEF Posns, SkipPosns
<1>7. \A j, a : Carries(<<>>, j, a, a) /\ CarriesSkips(<<>>, j, a, a)
  BY <1>5, <1>6 DEF Carries, CarriesSkips
<1>8. ASSUME NEW i \in Stages
      PROVE  Link(i) /\ SkipLink(i)
  <2>1. link[i] = <<>> /\ skip_link[i] = <<>>
    BY DEF Init
  <2>2. next_rank(i) \in Stages /\ skip_rank(i) \in Stages
    BY <1>2, Ring, Mirror DEF Types
  <2> QED  BY <1>4, <1>7, <2>1, <2>2 DEF Link, SkipLink
<1> QED  BY <1>2, <1>3, <1>8 DEF Inv

\* A step that changes nothing.
LEMMA Stutter ==
    ASSUME Inv, UNCHANGED vars
    PROVE  Inv'
<1>1. /\ Static /\ link' = link /\ skip_link' = skip_link /\ \A k \in Stages : Kept(k)
      /\ FirstStage \in Stages
  <2>1. Static /\ link' = link /\ skip_link' = skip_link
    BY DEF vars, links, Static
  <2>2. \A k \in Stages : Kept(k)
    BY DEF vars, where, tensors, queues, buffers, Kept, SameWhere, SameTasks, SameBuffers
  <2>3. FirstStage \in Stages
    BY RequestsAssumption DEF FirstStage, Stages
  <2> QED  BY <2>1, <2>2, <2>3
<1>2. Types'
  BY DEF Inv, Types, vars, where, tensors, queues, buffers, links
<1>3. Local(FirstStage) /\ Local(FirstStage)' /\ Others(FirstStage)
  BY <1>1, StageFacts, KeptLocal DEF Others
<1>4. RecvStays(FirstStage) /\ SendStays(FirstStage) /\ SkipRecvStays(FirstStage) /\ SkipSendStays(FirstStage)
  BY <1>1, KeptPlaces, SameFacts DEF RecvStays, SendStays, SkipRecvStays, SkipSendStays
<1> QED  BY <1>1, <1>2, <1>3, <1>4, Quiet

\* Every step of the system keeps the invariant.
LEMMA Step ==
    ASSUME EvenSkips, Inv, Next
    PROVE  Inv'
<1>1. ASSUME NEW i \in Stages, Host(i)
      PROVE  Inv'
  BY <1>1, SetInputStep, PassOverStep, RecvShapeStep, RecvPostStep, GetStep, GetSkipStep, ComputeStep,
     SendShapeStep, SendPostStep, SendWaitStep, AdvanceStep, SplitStep DEF Host
<1>2. ASSUME NEW i \in Stages, Deliver(i) \/ DeliverSkip(i)
      PROVE  Inv'
  BY <1>2, DeliverStep, DeliverSkipStep
<1>3. CASE Terminated
  BY <1>3, Stutter DEF Terminated
<1> QED  BY <1>1, <1>2, <1>3 DEF Next

\* The inductive invariant, when no model with skips is given a split of its blocks.
THEOREM Invariance == EvenSkips /\ Spec => []Inv
<1> SUFFICES ASSUME EvenSkips
             PROVE  Spec => []Inv
  OBVIOUS
<1>1. Init => Inv
  BY Start
<1>2. Inv /\ [Next]_vars => Inv'
  BY Step, Stutter
<1> QED  BY <1>1, <1>2, PTL DEF Spec

\* A stage computes from what the stage before it made of the same request, step
\* and patch, and from the skips of the mirrored blocks (_backbone_forward,
\* InputLatent in the hand-written loops).
THEOREM ComputesFromTheMatching == EvenSkips /\ Spec => []InputsMatch
<1> SUFFICES ASSUME EvenSkips
             PROVE  Spec => []InputsMatch
  OBVIOUS
<1>0. Spec => []Inv
  BY Invariance
<1>1. ASSUME Inv
      PROVE  InputsMatch
  <2> SUFFICES ASSUME NEW i \in Stages, pc[i] = "compute"
               PROVE  /\ InputLatent(i) = Expected(i, FlattenSeq([k \in 1 .. i |-> Blocks(k - 1)]))
                      /\ i = LastStage => PreviousLatent(i) = Expected(i, <<>>)
                      /\ ReceivesSkip(i) =>
                            skip_buffer[i][Segment(i)] =
                              Expected(i, Reverse([k \in DOMAIN Blocks(i) |-> NumBlocks + 1 - Blocks(i)[k]]))
                      /\ phase[i] = "async" => pipeline_patch_idx[i] = patch[i]
    BY DEF InputsMatch
  <2>1. \A b : Expected(i, b) = Tensor(request[i], Timestep(i), Segment(i), b)
    BY DEF Expected, Tensor
  <2>2. model \in Models /\ Ctl(i) /\ SkipBuffers(i)
    BY <1>1, StageFacts
  <2>3. InputLatent(i) = Expected(i, FlattenSeq([k \in 1 .. i |-> Blocks(k - 1)]))
    BY <1>1, <2>1, <2>2, InputFacts, FlattenBlocks
  <2>4. i = LastStage => PreviousLatent(i) = Expected(i, <<>>)
    BY <1>1, <2>1, InputFacts
  <2>5. ASSUME ReceivesSkip(i)
        PROVE  skip_buffer[i][Segment(i)] =
                   Expected(i, Reverse([k \in DOMAIN Blocks(i) |-> NumBlocks + 1 - Blocks(i)[k]]))
    <3>1. skip_buffer[i][Segment(i)] = Tensor(request[i], Timestep(i), Segment(i), Blocks(skip_rank(i)))
      BY <2>2, <2>5, PlaceParts DEF SkipBuffers, SkipBody, Here
    <3>2. model.skips
      BY <2>5 DEF ReceivesSkip
    <3> QED  BY <1>1, <2>1, <2>2, <3>1, <3>2, MirrorBlocks
  <2>6. phase[i] = "async" => pipeline_patch_idx[i] = patch[i]
    BY <2>2 DEF Ctl
  <2> QED  BY <2>3, <2>4, <2>5, <2>6
<1> QED  BY <1>0, <1>1, PTL

\* What the scheduler steps with went through all blocks, in order
\* (_split_transformer_blocks and the sends of the stages).
THEOREM StepsWithAllBlocks == EvenSkips /\ Spec => []EveryBlockOnce
<1> SUFFICES ASSUME EvenSkips
             PROVE  Spec => []EveryBlockOnce
  OBVIOUS
<1>0. Spec => []Inv
  BY Invariance
<1>1. ASSUME Inv
      PROVE  EveryBlockOnce
  <2> SUFFICES ASSUME pc[LastStage] = "compute"
               PROVE  InputLatent(LastStage).blocks \o Blocks(LastStage) = AllBlocks
    BY DEF EveryBlockOnce
  <2>1. LastStage \in Stages /\ LastStage + 1 = NumStages
    BY RequestsAssumption DEF LastStage, Stages
  <2>2. model \in Models
    BY <1>1, <2>1, StageFacts
  <2>3. InputLatent(LastStage).blocks = Prefix(LastStage)
    BY <1>1, <2>1, InputFacts DEF Tensor
  <2>4. Prefix(LastStage) \o Blocks(LastStage) = AllBlocks
    BY <1>1, <2>1, <2>2, PrefixStep, PrefixEnds
  <2> QED  BY <2>3, <2>4
<1> QED  BY <1>0, <1>1, PTL

\* Only the start of a request changes the request of a stage.
LEMMA RequestStarts ==
    ASSUME Next, NEW i \in Stages, request'[i] # request[i], Types
    PROVE  pc[i] = "idle"
<1>1. request \in [Stages -> Nat]
  BY DEF Types
<1>2. ASSUME NEW k \in Stages, SetInput(k)
      PROVE  pc[i] = "idle"
  BY <1>1, <1>2 DEF SetInput
<1>3. ASSUME NEW k \in Stages, Host(k), ~SetInput(k)
      PROVE  request' = request
  BY <1>3 DEF Host, PassOver, RecvShape, RecvPost, Get, GetSkip, Compute, SendShape, SendPost, SendWait,
              Advance, Split, where
<1>4. ASSUME NEW k \in Stages, Deliver(k) \/ DeliverSkip(k)
      PROVE  request' = request
  BY <1>4 DEF Deliver, DeliverSkip, where
<1>5. Terminated => request' = request
  BY DEF Terminated, vars, where
<1> QED  BY <1>2, <1>3, <1>4, <1>5 DEF Next

\* A stage between requests has received all of the earlier ones.
LEMMA NothingLeft ==
    ASSUME Inv, NEW i \in Stages, pc[i] = "idle"
    PROVE  /\ recv_tasks_queue[i] = <<>> /\ receiving_tasks[i] = <<>>
           /\ recv_skip_tasks_queue[i] = <<>> /\ receiving_skip_tasks[i] = <<>>
           /\ \A m \in ToSet(link[prev_rank(i)]) : m.body.request > request[i]
           /\ ReceivesSkip(i) =>
                 \A t \in ToSet(skip_link[skip_rank(i)]) : t.request > request[i]
<1>1. /\ Types /\ Receipts(i) /\ model \in Models /\ plan \in Plans /\ request[i] \in Nat
      /\ prev_rank(i) \in Stages /\ next_rank(prev_rank(i)) = i
  BY StageFacts, TypesAt, Ring
<1>2. /\ recv_tasks_queue[i] = <<>> /\ receiving_tasks[i] = <<>>
      /\ recv_skip_tasks_queue[i] = <<>> /\ receiving_skip_tasks[i] = <<>>
  BY <1>1 DEF Receipts, Outstanding, SkipOutstanding, Queue
<1>3. /\ RecvPos(i) = Place(request[i] + 1, 0, Whole, 0)
      /\ SkipRecvPos(i) = Place(request[i] + 1, 0, Whole, 0)
  BY DEF RecvPos, SkipRecvPos, NextRequest
<1>4. ASSUME NEW q, q.request \in Nat, ~Before(q, Place(request[i] + 1, 0, Whole, 0))
      PROVE  q.request > request[i]
  BY <1>1, <1>4, BeforePlace
<1>5. ASSUME NEW m \in ToSet(link[prev_rank(i)])
      PROVE  m.body.request > request[i]
  <2>1. link[prev_rank(i)] \in Seq(Messages)
    BY <1>1, TypesAt
  <2>2. PICK k \in 1 .. Len(link[prev_rank(i)]) : m = link[prev_rank(i)][k]
    BY <2>1 DEF ToSet
  <2>3. m.body.request \in Nat
    <3>1. m \in Messages
      BY <2>1, <2>2, ElementOfSeq
    <3> QED  BY <3>1 DEF Messages, Tensors
  <2>4. Holds(Posns(link[prev_rank(i)]), Due(i), RecvPos(i), SendPos(prev_rank(i)))
    <3>1. Link(prev_rank(i))
      BY <1>1 DEF Inv
    <3> QED  BY <1>1, <3>1 DEF Link, Carries
  <2>5. Posns(link[prev_rank(i)])[k] = PosOf(m) /\ k \in 1 .. Len(Posns(link[prev_rank(i)]))
    BY <2>1, <2>2, PosnsFacts
  <2>6. ~Before(PosOf(m), Place(request[i] + 1, 0, Whole, 0)) /\ PosOf(m).request = m.body.request
    BY <1>3, <2>4, <2>5, PlaceParts DEF Holds, PosOf
  <2> QED  BY <1>4, <2>3, <2>6
<1>6. ASSUME ReceivesSkip(i), NEW t \in ToSet(skip_link[skip_rank(i)])
      PROVE  t.request > request[i]
  <2>1. /\ skip_rank(i) \in Stages /\ skip_rank(skip_rank(i)) = i /\ SendsSkip(skip_rank(i))
        /\ skip_link[skip_rank(i)] \in Seq(Tensors)
    BY <1>1, <1>6, Mirror, TypesAt
  <2>2. PICK k \in 1 .. Len(skip_link[skip_rank(i)]) : t = skip_link[skip_rank(i)][k]
    BY <2>1 DEF ToSet
  <2>3. t.request \in Nat
    <3>1. t \in Tensors
      BY <2>1, <2>2, ElementOfSeq
    <3> QED  BY <3>1 DEF Tensors
  <2>4. Holds(SkipPosns(skip_link[skip_rank(i)]), DueSkips(i), SkipRecvPos(i), SkipSendPos(skip_rank(i)))
    <3>1. SkipLink(skip_rank(i))
      BY <2>1 DEF Inv
    <3> QED  BY <2>1, <3>1 DEF SkipLink, CarriesSkips
  <2>5. SkipPosns(skip_link[skip_rank(i)])[k] = SkipPosOf(t)
        /\ k \in 1 .. Len(SkipPosns(skip_link[skip_rank(i)]))
    BY <2>1, <2>2, SkipPosnsFacts
  <2>6. ~Before(SkipPosOf(t), Place(request[i] + 1, 0, Whole, 0)) /\ SkipPosOf(t).request = t.request
    BY <1>3, <2>4, <2>5, PlaceParts DEF Holds, SkipPosOf
  <2> QED  BY <1>4, <2>3, <2>6
<1> QED  BY <1>2, <1>5, <1>6

\* set_input_parameters resets the buffers of a stage only when every receive of
\* the earlier requests is over and every message sent to it in them received.
THEOREM StartsClean == EvenSkips /\ Spec => CleanBoundary
<1> SUFFICES ASSUME EvenSkips
             PROVE  Spec => CleanBoundary
  OBVIOUS
<1>0. Spec => []Inv
  BY Invariance
<1> DEFINE Clean == \A i \in Stages : request'[i] # request[i] =>
          /\ recv_tasks_queue[i] = <<>> /\ receiving_tasks[i] = <<>>
          /\ recv_skip_tasks_queue[i] = <<>> /\ receiving_skip_tasks[i] = <<>>
          /\ \A m \in ToSet(link[prev_rank(i)]) : m.body.request > request[i]
          /\ ReceivesSkip(i) =>
                \A t \in ToSet(skip_link[skip_rank(i)]) : t.request > request[i]
<1>1. ASSUME Inv, [Next]_vars
      PROVE  [Clean]_vars
  <2>1. CASE Next
    <3>1. Types
      BY <1>1 DEF Inv
    <3> QED  BY <1>1, <2>1, <3>1, RequestStarts, NothingLeft
  <2>2. CASE UNCHANGED vars
    BY <2>2
  <2> QED  BY <1>1, <2>1, <2>2
<1> QED  BY <1>0, <1>1, PTL DEF Spec, CleanBoundary
=============================================================================
