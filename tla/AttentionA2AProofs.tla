------------------------- MODULE AttentionA2AProofs -------------------------
(***************************************************************************)
(* What the host of a rank keeps of the attention all-to-all is right for  *)
(* every group, schedule, buffer count and number of requests: the types,  *)
(* whose trio a registered wait belongs to, and the recipe of a trio.      *)
(* The waits of the pass that is being put together are those of its       *)
(* roles not yet taken; between passes they belong to the pending trio,    *)
(* which keeps every later pass from submitting anything.                  *)
(***************************************************************************)
EXTENDS AttentionA2A, TLAPS, FiniteSetTheorems

Jobs == [kind : {"announce", "send", "receive"}, trio : Trios, slot : Slots,
         epoch : Nat, after : Nat]
Reads == [kind : {"read"}, trio : Trios, slots : Seq(Slots)]
Awaits == [kind : {"await"}, after : Nat]

PcValues == {"local", "hosts", "errors", "raised", "idle", "forward", "trio", "failed", "shut"}

Queues ==
    /\ side \in [Ranks -> Seq(Jobs)] /\ compute \in [Ranks -> Seq(Reads \union Awaits)]
    /\ side_done \in [Ranks -> Nat] /\ compute_done \in [Ranks -> Nat]
    /\ tier \in {1, 2} /\ scheduled \in BOOLEAN

\* A pass is under way and has queued a role.
Submitting(r) == pc[r] = "trio" /\ role[r] > 0

\* Where the host of a rank stands.
Control(r) ==
    /\ pc[r] \in {"local", "hosts"} => gathers[r] = 0
    /\ pc[r] = "errors" => gathers[r] \in 0 .. 1
    /\ pc[r] \in {"forward", "trio"} => request[r] \in 1 .. NumRequests
    /\ pc[r] # "shut" => recipe[r] \in Recipes
    /\ pc[r] = "failed" => r \in aborted

\* The roles of the pass under way, and the trio the runtime holds for it.
Pass(r) ==
    /\ pc[r] = "trio" => /\ Len(outputs[r]) = role[r] /\ taken[r] <= role[r]
                         /\ \A i \in 1 .. role[r] : /\ outputs[r][i][1] = recipe[r]
                                                    /\ outputs[r][i][3] = i - 1
    /\ Submitting(r) /\ tier = 2 => Len(trio_waits[r].events) = role[r]
    /\ Submitting(r) /\ role[r] < 3 => pending[r] # None
    /\ Submitting(r) /\ pending[r] # None =>
            pending[r].trio = Trio(r) /\ pending[r].next_role = role[r]

\* Whose the registered waits are.
Owned(r) ==
    \A s \in Slots : waits[r][s] # None =>
        /\ tier = 2
        /\ Submitting(r) =>
            \E i \in taken[r] + 1 .. role[r] :
                s = outputs[r][i] /\ waits[r][s] = [trio |-> Trio(r), role |-> i - 1]
        /\ ~Submitting(r) => pending[r] # None /\ waits[r][s].trio = pending[r].trio

\* The step counter follows the pass until a request is cut short.
Counter(r) ==
    /\ scheduled /\ r \notin aborted =>
        /\ pc[r] \in {"local", "hosts", "errors", "idle"} => step_counter[r] = 1
        /\ pc[r] = "forward" => step_counter[r] = step[r]
        /\ pc[r] = "trio" => /\ step_counter[r] = NextCount(step[r])
                             /\ recipe[r] = Schedule[step[r]]
    /\ ~scheduled /\ pc[r] # "shut" => recipe[r] = Schedule[1]

IInv == TypeOK /\ Queues
        /\ \A r \in Ranks : Control(r) /\ Pass(r) /\ Owned(r) /\ Counter(r)

-----------------------------------------------------------------------------
\* The schedule has a first recipe, and every entry is a recipe.
LEMMA Sizes ==
    /\ NumSteps \in Nat \ {0} /\ Schedule \in [1 .. NumSteps -> Recipes]
    /\ NumRequests \in Nat /\ NumBuffers \in Nat \ {0}
    /\ 1 \in 1 .. NumSteps /\ Schedule[1] \in Recipes
<1>1. Schedule \in Seq(Recipes) /\ NumSteps = Len(Schedule) /\ NumSteps > 0
    BY ScheduleAssumption DEF NumSteps
<1>2. NumSteps \in Nat \ {0} /\ Schedule \in [1 .. NumSteps -> Recipes]
    BY <1>1
<1>3. NumRequests \in Nat /\ NumBuffers \in Nat \ {0}
    BY BoundsAssumption
<1> QED BY <1>2, <1>3

\* The step counter stays within the schedule.
LEMMA CounterMoves ==
    ASSUME NEW c \in 1 .. NumSteps
    PROVE  NextCount(c) \in 1 .. NumSteps
BY Sizes DEF NextCount

\* The buffer of the next epoch is one of the buffers.
LEMMA SlotOfEpoch ==
    ASSUME NEW c \in Recipes, NEW k \in Roles, NEW e \in Nat
    PROVE  /\ <<c, e % NumBuffers, k>> \in Slots
           /\ <<c, e % NumBuffers, k>>[1] = c /\ <<c, e % NumBuffers, k>>[3] = k
<1>1. e % NumBuffers \in 0 .. NumBuffers - 1
    BY Sizes
<1> QED BY <1>1 DEF Slots

-----------------------------------------------------------------------------
\* What a submission queues and registers is of the right kind.
LEMMA SubmitQueues ==
    ASSUME IInv, NEW p \in Ranks, Submit(p)
    PROVE  /\ recipe[p] \in Recipes /\ role[p] \in Roles /\ pc[p] = "trio"
           /\ Trio(p) \in Trios
           /\ NextSlot(p) \in Slots /\ NextSlot(p)[1] = recipe[p] /\ NextSlot(p)[3] = role[p]
           /\ [Epochs(p) EXCEPT ![role[p]] = NextEpoch(p)] \in [Roles -> Nat]
           /\ <<Job(p, "announce"), Job(p, "send"), Job(p, "receive")>> \in Seq(Jobs)
           /\ ReceiveEvent(p) \in Nat
<1> USE DEF IInv
<1>1. recipe[p] \in Recipes /\ role[p] \in Roles /\ pc[p] = "trio"
    BY DEF Control, Submit, Accepted
<1>2. Epochs(p) \in [Roles -> Nat]
    BY <1>1 DEF TypeOK, Epochs
<1>3. NextEpoch(p) \in Nat
    BY <1>1, <1>2 DEF NextEpoch
<1>4. NextSlot(p) \in Slots /\ NextSlot(p)[1] = recipe[p] /\ NextSlot(p)[3] = role[p]
    BY <1>1, <1>3, SlotOfEpoch DEF NextSlot
<1>5. Trio(p) \in Trios
    BY <1>1 DEF Trio, Trios, TypeOK, Control
<1>6. AfterProducer(p) \in Nat /\ ReceiveEvent(p) \in Nat
    BY DEF Queues, AfterProducer, ReceiveEvent
<1>7. \A kind \in {"announce", "send", "receive"} : Job(p, kind) \in Jobs
    BY <1>3, <1>4, <1>5, <1>6 DEF Job, Jobs
<1>8. <<Job(p, "announce"), Job(p, "send"), Job(p, "receive")>> \in Seq(Jobs)
    BY <1>7
<1>9. [Epochs(p) EXCEPT ![role[p]] = NextEpoch(p)] \in [Roles -> Nat]
    BY <1>2, <1>3
<1> QED BY <1>1, <1>4, <1>5, <1>6, <1>8, <1>9

-----------------------------------------------------------------------------
\* The value of one rank may be replaced by another of its kind.
LEMMA Replaced ==
    ASSUME NEW S, NEW f \in [Ranks -> S], NEW p \in Ranks, NEW v \in S
    PROVE  [f EXCEPT ![p] = v] \in [Ranks -> S]
OBVIOUS

\* The types, over the preflight and the begin of a request.
LEMMA TypePreflight ==
    ASSUME IInv, NEW p \in Ranks,
           LocalChecks(p) \/ GatherHosts(p) \/ GatherErrors(p) \/ BeginRequest(p)
    PROVE  TypeOK' /\ Queues'
<1> USE DEF IInv
<1>1. CASE LocalChecks(p)
    <2>1. pc' \in [Ranks -> PcValues]
        BY <1>1 DEF LocalChecks, TypeOK, PcValues
    <2>2. error' \in [Ranks -> BOOLEAN]
        <3>1. error \in [Ranks -> BOOLEAN] /\ (p \in bad) \in BOOLEAN
            BY DEF TypeOK
        <3>2. error' = [error EXCEPT ![p] = (p \in bad)]
            BY <1>1 DEF LocalChecks
        <3> QED BY <3>1, <3>2, Zenon
    <2> QED BY <1>1, <2>1, <2>2 DEF LocalChecks, TypeOK, Queues, PcValues, given, runtime, device
<1>2. CASE GatherHosts(p)
    <2>1. pc' \in [Ranks -> PcValues] /\ gathers' \in [Ranks -> 0 .. 2]
        BY <1>2 DEF GatherHosts, TypeOK, PcValues, Control
    <2>2. error' \in [Ranks -> BOOLEAN]
        <3>1. error \in [Ranks -> BOOLEAN] /\ (bad # {}) \in BOOLEAN
            BY DEF TypeOK
        <3>2. error' = [error EXCEPT ![p] = (bad # {})]
            BY <1>2 DEF GatherHosts
        <3> QED BY <3>1, <3>2, Zenon
    <2> QED BY <1>2, <2>1, <2>2 DEF GatherHosts, TypeOK, Queues, PcValues, given, runtime, device
<1>3. CASE GatherErrors(p)
    <2>1. gathers' \in [Ranks -> 0 .. 2]
        <3>1. gathers \in [Ranks -> 0 .. 2] /\ gathers[p] \in 0 .. 1
            BY <1>3 DEF GatherErrors, TypeOK, Control
        <3>2. gathers' = [gathers EXCEPT ![p] = @ + 1]
            BY <1>3 DEF GatherErrors
        <3> QED BY <3>1, <3>2
    <2>2. pc' = [pc EXCEPT ![p] = "raised"] \/ pc' = [pc EXCEPT ![p] = "idle"]
        BY <1>3 DEF GatherErrors
    <2>3. pc' \in [Ranks -> PcValues]
        BY <2>2 DEF TypeOK, PcValues
    <2> QED BY <1>3, <2>1, <2>3 DEF GatherErrors, TypeOK, Queues, PcValues, given, runtime, device
<1>4. CASE BeginRequest(p)
    <2>1. /\ pc' \in [Ranks -> PcValues] /\ request' \in [Ranks -> 0 .. NumRequests]
          /\ step' \in [Ranks -> 1 .. NumSteps]
        BY <1>4, Sizes DEF BeginRequest, TypeOK, PcValues
    <2> QED BY <1>4, <2>1 DEF BeginRequest, TypeOK, Queues, PcValues, given, runtime, device
<1> QED BY <1>1, <1>2, <1>3, <1>4

\* The types, over a submission.
LEMMA TypeSubmit ==
    ASSUME IInv, NEW p \in Ranks, Submit(p)
    PROVE  TypeOK' /\ Queues'
<1>1. TypeOK /\ Queues
    BY DEF IInv
<1>2. /\ recipe[p] \in Recipes /\ role[p] \in Roles /\ Trio(p) \in Trios
      /\ NextSlot(p) \in Slots /\ ReceiveEvent(p) \in Nat
      /\ [Epochs(p) EXCEPT ![role[p]] = NextEpoch(p)] \in [Roles -> Nat]
      /\ <<Job(p, "announce"), Job(p, "send"), Job(p, "receive")>> \in Seq(Jobs)
    BY SubmitQueues
<1>3. op_cache' \in [Ranks -> [Recipes -> [Roles -> Nat] \union {None}]]
    <2> DEFINE m == [Epochs(p) EXCEPT ![role[p]] = NextEpoch(p)]
    <2>1. op_cache' = [op_cache EXCEPT ![p][recipe[p]] = m] /\ m \in [Roles -> Nat]
        BY <1>2 DEF Submit
    <2> HIDE DEF m
    <2> QED BY <1>1, <1>2, <2>1 DEF TypeOK
<1>4. side' \in [Ranks -> Seq(Jobs)]
    <2> DEFINE q == <<Job(p, "announce"), Job(p, "send"), Job(p, "receive")>>
    <2>1. side' = [side EXCEPT ![p] = @ \o q] /\ q \in Seq(Jobs)
        BY <1>2 DEF Submit
    <2> HIDE DEF q
    <2> QED BY <1>1, <2>1 DEF Queues
<1>5. pending' \in [Ranks -> Held \union {None}]
    <2>1. [trio |-> Trio(p), recipe |-> recipe[p], next_role |-> role[p] + 1] \in Held
        BY <1>2 DEF Held, Roles
    <2> QED BY <1>1, <2>1 DEF TypeOK, Submit
<1>6. waits' \in [Ranks -> [Slots -> Awaited \union {None}]]
    <2> DEFINE w == [trio |-> Trio(p), role |-> role[p]]
    <2>1. w \in Awaited /\ (waits' = [waits EXCEPT ![p][NextSlot(p)] = w] \/ waits' = waits)
        BY <1>2 DEF Awaited, Submit
    <2> DEFINE S == Awaited \union {None}
               f == [waits[p] EXCEPT ![NextSlot(p)] = w]
    <2>2. waits \in [Ranks -> [Slots -> S]] /\ w \in S
        BY <1>1, <2>1 DEF TypeOK
    <2> HIDE DEF w, S
    <2>3. f \in [Slots -> S] /\ (waits' = [waits EXCEPT ![p] = f] \/ waits' = waits)
        BY <1>2, <2>1, <2>2
    <2> HIDE DEF f
    <2>4. waits' \in [Ranks -> [Slots -> S]]
        BY <2>2, <2>3
    <2> QED BY <2>4 DEF S
<1>7. trio_waits' \in [Ranks -> [events : Seq(Nat), waited : 0 .. 3]]
    <2> DEFINE T == [events : Seq(Nat), waited : 0 .. 3]
    <2>1. trio_waits \in [Ranks -> T]
        BY <1>1 DEF TypeOK
    <2>2. /\ trio_waits[p].events \in Seq(Nat) /\ trio_waits[p].waited \in 0 .. 3
          /\ trio_waits[p] = [events |-> trio_waits[p].events, waited |-> trio_waits[p].waited]
        BY <2>1
    <2>3. NextEvents(p) \in T
        <3>1. [events |-> <<ReceiveEvent(p)>>, waited |-> 0] \in T
            BY <1>2
        <3>2. Append(trio_waits[p].events, ReceiveEvent(p)) \in Seq(Nat)
            BY <1>2, <2>2
        <3>3. [trio_waits[p] EXCEPT !.events = Append(@, ReceiveEvent(p))] \in T
            BY <2>2, <3>2
        <3> QED BY <3>1, <3>3 DEF NextEvents
    <2>4. trio_waits' = [trio_waits EXCEPT ![p] = NextEvents(p)] \/ trio_waits' = trio_waits
        BY DEF Submit
    <2> HIDE DEF T
    <2>5. trio_waits' \in [Ranks -> T]
        BY <2>1, <2>3, <2>4
    <2> QED BY <2>5 DEF T
<1>8. outputs' \in [Ranks -> Seq(Slots)] /\ role' \in [Ranks -> 0 .. 3]
    BY <1>1, <1>2 DEF TypeOK, Submit, Roles
<1> QED BY <1>1, <1>3, <1>4, <1>5, <1>6, <1>7, <1>8 DEF TypeOK, Queues, Submit, given

\* The types, over a wait.
LEMMA TypeWait ==
    ASSUME IInv, NEW p \in Ranks, Wait(p)
    PROVE  TypeOK' /\ Queues'
<1>1. TypeOK /\ Queues
    BY DEF IInv
<1>2. Submitting(p) /\ Len(trio_waits[p].events) = role[p] /\ role[p] \in 1 .. 3
    <2>1. taken[p] \in 0 .. 3 /\ role[p] \in 0 .. 3 /\ taken[p] < role[p] /\ pc[p] = "trio" /\ tier = 2
        BY <1>1 DEF TypeOK, Wait
    <2>2. Pass(p) /\ Submitting(p)
        BY <2>1 DEF IInv, Submitting
    <2> QED BY <2>1, <2>2 DEF Pass
<1>3. trio_waits[p].events \in Seq(Nat)
    BY <1>1 DEF TypeOK
<1>4. trio_waits[p].events[Len(trio_waits[p].events)] \in Nat
    BY <1>2, <1>3
<1>5. compute' \in [Ranks -> Seq(Reads \union Awaits)]
    <2> DEFINE a == AwaitSide(trio_waits[p].events[Len(trio_waits[p].events)])
    <2>1. a \in Reads \union Awaits
        BY <1>4 DEF AwaitSide, Awaits
    <2>2. compute' = [compute EXCEPT ![p] = Append(@, a)] \/ compute' = compute
        BY DEF Wait
    <2> DEFINE S == Reads \union Awaits
    <2>3. compute \in [Ranks -> Seq(S)] /\ a \in S
        BY <1>1, <2>1 DEF Queues
    <2> HIDE DEF a, S
    <2>4. compute' \in [Ranks -> Seq(S)]
        <3>1. Append(compute[p], a) \in Seq(S)
            BY <2>3
        <3> QED BY <2>2, <2>3, <3>1
    <2> QED BY <2>4 DEF S
<1>6. trio_waits' \in [Ranks -> [events : Seq(Nat), waited : 0 .. 3]]
    <2> DEFINE T == [events : Seq(Nat), waited : 0 .. 3]
               n == Len(trio_waits[p].events)
    <2>1. trio_waits \in [Ranks -> T] /\ n \in 0 .. 3
        BY <1>1, <1>2 DEF TypeOK
    <2>2. trio_waits' = [trio_waits EXCEPT ![p].waited = n] \/ trio_waits' = trio_waits
        BY DEF Wait
    <2> HIDE DEF n
    <2> QED BY <2>1, <2>2
<1>7. waits' \in [Ranks -> [Slots -> Awaited \union {None}]]
    <2> DEFINE S == Awaited \union {None}
               f == [waits[p] EXCEPT ![outputs[p][taken[p] + 1]] = None]
    <2>1. waits \in [Ranks -> [Slots -> S]] /\ waits' = [waits EXCEPT ![p] = f] /\ None \in S
        BY <1>1 DEF TypeOK, Wait
    <2> HIDE DEF S
    <2>2. f \in [Slots -> S]
        BY <2>1
    <2> HIDE DEF f
    <2>3. waits' \in [Ranks -> [Slots -> S]]
        BY <2>1, <2>2
    <2> QED BY <2>3 DEF S
<1>8. pending' \in [Ranks -> Held \union {None}] /\ taken' \in [Ranks -> 0 .. 3]
    <2>1. taken \in [Ranks -> 0 .. 3] /\ taken[p] + 1 \in 0 .. 3
        <3>1. taken \in [Ranks -> 0 .. 3] /\ taken[p] < role[p]
            BY <1>1 DEF TypeOK, Wait
        <3> QED BY <1>2, <3>1
    <2>3. taken' = [taken EXCEPT ![p] = @ + 1]
        BY DEF Wait
    <2>4. taken' \in [Ranks -> 0 .. 3]
        BY <2>1, <2>3
    <2>2. pending' = [pending EXCEPT ![p] = None] \/ pending' = pending
        BY DEF Wait
    <2> QED BY <1>1, <2>2, <2>4 DEF TypeOK
<1> QED BY <1>1, <1>5, <1>6, <1>7, <1>8 DEF TypeOK, Queues, Wait, given

\* The types, over an attention.
LEMMA TypeAttend ==
    ASSUME IInv, NEW p \in Ranks, Attend(p)
    PROVE  TypeOK' /\ Queues'
<1>1. TypeOK /\ Queues
    BY DEF IInv
<1>2. Trio(p) \in Trios
    BY <1>1 DEF IInv, Attend, Trio, Trios, TypeOK, Control
<1>3. Read(p) \in Reads /\ AwaitSide(side_done[p] + Len(side[p])) \in Awaits
    BY <1>1, <1>2 DEF Read, Reads, AwaitSide, Awaits, TypeOK, Queues
<1>4. compute' \in [Ranks -> Seq(Reads \union Awaits)]
    <2> DEFINE a == AwaitSide(side_done[p] + Len(side[p]))
               q == IF tier = 2 THEN <<Read(p)>> ELSE <<a, Read(p)>>
               S == Reads \union Awaits
    <2>1. Read(p) \in S /\ a \in S /\ compute \in [Ranks -> Seq(S)]
        BY <1>1, <1>3 DEF Queues
    <2>2. compute' = [compute EXCEPT ![p] = @ \o q]
        BY DEF Attend
    <2> HIDE DEF S, a
    <2>3. q \in Seq(S)
        BY <2>1
    <2> HIDE DEF q
    <2>4. compute' \in [Ranks -> Seq(S)]
        BY <2>1, <2>2, <2>3
    <2> QED BY <2>4 DEF S
<1>5. step' \in [Ranks -> 1 .. NumSteps] /\ pc' \in [Ranks -> PcValues]
    <2>1. step[p] \in 1 .. NumSteps /\ (step[p] # NumSteps => step[p] + 1 \in 1 .. NumSteps)
        BY <1>1, Sizes DEF TypeOK
    <2>2. step' \in [Ranks -> 1 .. NumSteps]
        <3>1. \/ step' = step
              \/ step' = [step EXCEPT ![p] = @ + 1] /\ step[p] # NumSteps
            BY DEF Attend
        <3> QED BY <1>1, <2>1, <3>1 DEF TypeOK
    <2>3. pc' = [pc EXCEPT ![p] = "idle"] \/ pc' = [pc EXCEPT ![p] = "forward"]
        BY DEF Attend
    <2>4. pc' \in [Ranks -> PcValues]
        BY <1>1, <2>3 DEF TypeOK, PcValues
    <2> QED BY <2>2, <2>4
<1>6. pending' \in [Ranks -> Held \union {None}]
    BY <1>1 DEF TypeOK, Attend
<1> QED BY <1>1, <1>4, <1>5, <1>6 DEF TypeOK, Queues, Attend, given, PcValues

\* The types, over the steps of the streams.
LEMMA TypeStreams ==
    ASSUME IInv, NEW p \in Ranks, SideStep(p) \/ ComputeStep(p)
    PROVE  TypeOK' /\ Queues'
<1> USE DEF IInv, given, host, runtime, device
<1>1. CASE SideStep(p)
    <2> DEFINE job == Head(side[p])
    <2>1. side[p] \in Seq(Jobs) /\ side[p] # <<>>
        BY <1>1 DEF Queues, SideStep
    <2>2. job \in Jobs /\ Tail(side[p]) \in Seq(Jobs)
        BY <2>1
    <2>3. job.epoch \in Nat /\ job.trio \in Trios
        BY <2>2 DEF Jobs
    <2> HIDE DEF job
    <2>4. side' \in [Ranks -> Seq(Jobs)] /\ side_done' \in [Ranks -> Nat]
        <3>1. side \in [Ranks -> Seq(Jobs)] /\ side_done \in [Ranks -> Nat]
            BY DEF Queues
        <3>2. /\ side' = [side EXCEPT ![p] = Tail(side[p])]
              /\ side_done' = [side_done EXCEPT ![p] = @ + 1]
            BY <1>1 DEF SideStep
        <3> QED BY <2>2, <3>1, <3>2
    <2>5. published' \in [Ranks -> [Channels -> Nat]] /\ put' \in [Ranks -> [Channels -> Nat]]
        <3> DEFINE F == [Channels -> Nat]
        <3>1. \A f \in F : [f EXCEPT ![Channel(job)] = job.epoch] \in F
            BY <2>3
        <3>4. published \in [Ranks -> F] /\ put \in [Ranks -> F]
            BY DEF TypeOK
        <3> HIDE DEF F
        <3>2. \/ published' = [published EXCEPT ![p] = [@ EXCEPT ![Channel(job)] = job.epoch]]
              \/ published' = published
            BY <1>1 DEF SideStep, job
        <3>3. \/ put' = [put EXCEPT ![p] = [@ EXCEPT ![Channel(job)] = job.epoch]]
              \/ put' = put
            BY <1>1 DEF SideStep, job
        <3>5. published' \in [Ranks -> F] /\ put' \in [Ranks -> F]
            BY <3>1, <3>2, <3>3, <3>4
        <3> QED BY <3>5 DEF F
    <2>6. buffer' \in [Ranks -> [Slots -> [Ranks -> Trios \union {None}]]]
        <3> DEFINE S == Trios \union {None}
        <3>1. buffer \in [Ranks -> [Slots -> [Ranks -> S]]] /\ job.trio \in S
            BY <2>3 DEF TypeOK
        <3> DEFINE g(f) == [f EXCEPT ![job.slot] = [f[job.slot] EXCEPT ![p] = job.trio]]
                   F == [Slots -> [Ranks -> S]]
        <3>2. buffer' = [q \in Ranks |-> g(buffer[q])] \/ buffer' = buffer
            BY <1>1 DEF SideStep, job
        <3> HIDE DEF S
        <3>3. \A f \in F : g(f) \in F
            BY <3>1
        <3>4. buffer \in [Ranks -> F]
            BY <3>1
        <3> HIDE DEF F, g
        <3>5. buffer' \in [Ranks -> F]
            BY <3>2, <3>3, <3>4
        <3> QED BY <3>5 DEF S, F
    <2> QED BY <1>1, <2>4, <2>5, <2>6 DEF TypeOK, Queues, SideStep
<1>2. CASE ComputeStep(p)
    <2>1. compute' \in [Ranks -> Seq(Reads \union Awaits)] /\ compute_done' \in [Ranks -> Nat]
        BY <1>2 DEF Queues, ComputeStep
    <2> QED BY <1>2, <2>1 DEF TypeOK, Queues, ComputeStep
<1> QED BY <1>1, <1>2

\* The types, over the begin of a pass, what fails, and the shutdown.
LEMMA TypeRaise ==
    ASSUME IInv, NEW p \in Ranks,
           Forward(p) \/ SubmitFails(p) \/ TransportFails(p) \/ Shutdown(p)
    PROVE  TypeOK' /\ Queues'
<1>1. TypeOK /\ Queues
    BY DEF IInv
<1>2. CASE Forward(p)
    <2>1. /\ role' \in [Ranks -> 0 .. 3] /\ taken' \in [Ranks -> 0 .. 3]
          /\ outputs' \in [Ranks -> Seq(Slots)]
        BY <1>1, <1>2 DEF TypeOK, Forward
    <2>2. aborted' \subseteq Ranks
        BY <1>1, <1>2 DEF TypeOK, Forward, Raise
    <2>3. pc' = [pc EXCEPT ![p] = "trio"] \/ pc' = [pc EXCEPT ![p] = "failed"]
        BY <1>2 DEF Forward, Raise
    <2>4. pc' \in [Ranks -> PcValues]
        BY <1>1, <2>3 DEF TypeOK, PcValues
    <2>5. step_counter[p] \in 1 .. NumSteps /\ Schedule[step_counter[p]] \in Recipes
        BY <1>1, Sizes DEF TypeOK
    <2>6. \/ recipe' = recipe /\ step_counter' = step_counter
          \/ /\ recipe' = [recipe EXCEPT ![p] = Schedule[step_counter[p]]]
             /\ step_counter' = [step_counter EXCEPT ![p] = NextCount(step_counter[p])]
        BY <1>2 DEF Forward
    <2>7. recipe' \in [Ranks -> Recipes \union {None}]
        BY <1>1, <2>5, <2>6 DEF TypeOK
    <2>8. step_counter' \in [Ranks -> 1 .. NumSteps]
        <3> DEFINE n == NextCount(step_counter[p])
        <3>1. n \in 1 .. NumSteps
            BY <2>5, CounterMoves
        <3>2. step_counter' = step_counter \/ step_counter' = [step_counter EXCEPT ![p] = n]
            BY <2>6
        <3> HIDE DEF n
        <3>3. step_counter \in [Ranks -> 1 .. NumSteps]
            BY <1>1 DEF TypeOK
        <3> QED BY <3>1, <3>2, <3>3
    <2> QED BY <1>1, <1>2, <2>1, <2>2, <2>4, <2>7, <2>8
            DEF TypeOK, Queues, Forward, PcValues, given, runtime, device
<1>3. CASE SubmitFails(p) \/ TransportFails(p)
    <2>1. pc' \in [Ranks -> PcValues] /\ aborted' \subseteq Ranks
        BY <1>1, <1>3 DEF TypeOK, SubmitFails, TransportFails, Raise, PcValues
    <2>2. lost' \subseteq Ranks \X Roles
        <3>1. lost' = lost \/ (lost' = lost \union {<<p, role[p]>>} /\ role[p] \in Roles)
            BY <1>3 DEF SubmitFails, TransportFails, Accepted
        <3> QED BY <1>1, <3>1 DEF TypeOK
    <2>3. pending' = pending \/ pending' = [pending EXCEPT ![p] = None]
        BY <1>3 DEF SubmitFails, TransportFails, Cleanup
    <2>4. pending' \in [Ranks -> Held \union {None}]
        BY <1>1, <2>3 DEF TypeOK
    <2>5. poisoned' = poisoned \/ poisoned' = [poisoned EXCEPT ![p] = TRUE]
        BY <1>3 DEF SubmitFails, TransportFails, Cleanup
    <2>6. poisoned' \in [Ranks -> BOOLEAN]
        <3>1. poisoned \in [Ranks -> BOOLEAN] /\ TRUE \in BOOLEAN
            BY <1>1 DEF TypeOK
        <3> QED BY <2>5, <3>1, Zenon
    <2>7. UNCHANGED <<given, gathers, error, request, step, role, outputs, taken, step_counter,
                      recipe, op_cache, waits, trio_waits, device>>
        BY <1>3 DEF SubmitFails, TransportFails
    <2> QED BY <1>1, <2>1, <2>2, <2>4, <2>6, <2>7 DEF TypeOK, Queues, PcValues, given, device
<1>4. CASE Shutdown(p)
    <2>1. pc' \in [Ranks -> PcValues]
        BY <1>1, <1>4 DEF TypeOK, Shutdown, PcValues
    <2>2. pending' \in [Ranks -> Held \union {None}] /\ recipe' \in [Ranks -> Recipes \union {None}]
        BY <1>1, <1>4 DEF TypeOK, Shutdown
    <2>3. waits' \in [Ranks -> [Slots -> Awaited \union {None}]]
        BY <1>1, <1>4 DEF TypeOK, Shutdown
    <2>4. op_cache' \in [Ranks -> [Recipes -> [Roles -> Nat] \union {None}]]
        BY <1>1, <1>4 DEF TypeOK, Shutdown
    <2>5. poisoned' \in [Ranks -> BOOLEAN]
        <3>1. poisoned \in [Ranks -> BOOLEAN] /\ FALSE \in BOOLEAN
            BY <1>1 DEF TypeOK
        <3>2. poisoned' = [poisoned EXCEPT ![p] = FALSE]
            BY <1>4 DEF Shutdown
        <3> QED BY <3>1, <3>2, Zenon
    <2> QED BY <1>1, <1>4, <2>1, <2>2, <2>3, <2>4, <2>5
            DEF TypeOK, Queues, Shutdown, PcValues, given, device
<1> QED BY <1>2, <1>3, <1>4

\* The types, over every step.
LEMMA TypeStep ==
    ASSUME IInv, Next
    PROVE  TypeOK' /\ Queues'
<1>1. PICK p \in Ranks : Host(p) \/ TransportFails(p) \/ Shutdown(p) \/ SideStep(p) \/ ComputeStep(p)
    BY DEF Next
<1> QED BY <1>1, TypePreflight, TypeRaise, TypeSubmit, TypeWait, TypeAttend, TypeStreams DEF Host

-----------------------------------------------------------------------------
\* What a rank's part of the invariant speaks about.
Frame(r) == <<pc[r], gathers[r], request[r], step[r], role[r], outputs[r], taken[r],
              step_counter[r], recipe[r], pending[r], waits[r], trio_waits[r],
              tier, scheduled, r \in aborted>>

Part(r) == Control(r) /\ Pass(r) /\ Owned(r) /\ Counter(r)

\* A step that leaves a rank's frame alone leaves its part alone.
LEMMA Framed ==
    ASSUME NEW r \in Ranks, Part(r), UNCHANGED Frame(r)
    PROVE  Part(r)'
<1>1. /\ pc'[r] = pc[r] /\ gathers'[r] = gathers[r] /\ request'[r] = request[r]
      /\ step'[r] = step[r] /\ role'[r] = role[r] /\ outputs'[r] = outputs[r]
      /\ taken'[r] = taken[r] /\ step_counter'[r] = step_counter[r]
      /\ recipe'[r] = recipe[r] /\ pending'[r] = pending[r] /\ waits'[r] = waits[r]
      /\ trio_waits'[r] = trio_waits[r] /\ tier' = tier /\ scheduled' = scheduled
      /\ (r \in aborted') = (r \in aborted)
    BY DEF Frame
<1>2. Control(r)'
    BY <1>1 DEF Part, Control
<1>3. Submitting(r)' = Submitting(r) /\ Trio(r)' = Trio(r)
    BY <1>1 DEF Submitting, Trio
<1>4. Pass(r)'
    BY <1>1, <1>3 DEF Part, Pass
<1>5. Owned(r)'
    <2>1. Owned(r)
        BY DEF Part
    <2>2. ASSUME NEW s \in Slots, waits[r][s] # None
          PROVE  /\ tier' = 2
                 /\ Submitting(r)' =>
                      \E i \in taken'[r] + 1 .. role'[r] :
                          s = outputs'[r][i] /\ waits'[r][s] = [trio |-> Trio(r)', role |-> i - 1]
                 /\ ~Submitting(r)' => pending'[r] # None /\ waits'[r][s].trio = pending'[r].trio
        BY <1>1, <1>3, <2>1, <2>2 DEF Owned
    <2> QED BY <1>1, <2>2 DEF Owned
<1>6. Counter(r)'
    BY <1>1 DEF Part, Counter
<1> QED BY <1>2, <1>4, <1>5, <1>6 DEF Part

\* A rank's step leaves the other ranks' frames alone.
LEMMA Others ==
    ASSUME IInv, NEW p \in Ranks, NEW r \in Ranks, r # p,
           Host(p) \/ TransportFails(p) \/ Shutdown(p) \/ SideStep(p) \/ ComputeStep(p)
    PROVE  UNCHANGED Frame(r)
<1> USE DEF Frame, given, runtime, device, host
<1>1. TypeOK
    BY DEF IInv
<1>2. CASE LocalChecks(p)
    BY <1>1, <1>2 DEF LocalChecks, TypeOK
<1>3. CASE GatherHosts(p)
    BY <1>1, <1>3 DEF GatherHosts, TypeOK
<1>4. CASE GatherErrors(p)
    BY <1>1, <1>4 DEF GatherErrors, TypeOK
<1>5. CASE BeginRequest(p)
    BY <1>1, <1>5 DEF BeginRequest, TypeOK
<1>6. CASE Forward(p)
    BY <1>1, <1>6 DEF Forward, Raise, TypeOK
<1>7. CASE Submit(p)
    BY <1>1, <1>7 DEF Submit, TypeOK
<1>8. CASE SubmitFails(p)
    BY <1>1, <1>8 DEF SubmitFails, Raise, Cleanup, TypeOK
<1>9. CASE TransportFails(p)
    BY <1>1, <1>9 DEF TransportFails, Raise, Cleanup, TypeOK
<1>10. CASE Wait(p)
    BY <1>1, <1>10 DEF Wait, TypeOK
<1>11. CASE Attend(p)
    BY <1>1, <1>11 DEF Attend, TypeOK
<1>12. CASE Shutdown(p)
    BY <1>1, <1>12 DEF Shutdown, TypeOK
<1>13. CASE SideStep(p) \/ ComputeStep(p)
    BY <1>13 DEF SideStep, ComputeStep
<1> QED BY <1>2, <1>3, <1>4, <1>5, <1>6, <1>7, <1>8, <1>9, <1>10, <1>11, <1>12, <1>13 DEF Host

-----------------------------------------------------------------------------
\* The rank's own part, over the preflight, the begin of a request and the
\* shutdown: no pass is under way.
LEMMA OwnPreflight ==
    ASSUME IInv, NEW p \in Ranks,
           LocalChecks(p) \/ GatherHosts(p) \/ GatherErrors(p) \/ BeginRequest(p) \/ Shutdown(p)
    PROVE  Part(p)'
<1>1. TypeOK /\ Control(p) /\ Pass(p) /\ Owned(p) /\ Counter(p)
    BY DEF IInv
<1>2. pc[p] # "trio" /\ pc'[p] # "trio"
    BY <1>1 DEF LocalChecks, GatherHosts, GatherErrors, BeginRequest, Shutdown, TypeOK
<1>3. Pass(p)'
    BY <1>2 DEF Pass, Submitting
<1>4. CASE LocalChecks(p) \/ GatherHosts(p) \/ GatherErrors(p) \/ BeginRequest(p)
    <2>1. /\ recipe'[p] = recipe[p] /\ step_counter'[p] = step_counter[p]
          /\ pending'[p] = pending[p] /\ waits'[p] = waits[p]
          /\ tier' = tier /\ scheduled' = scheduled /\ aborted' = aborted
        BY <1>4 DEF LocalChecks, GatherHosts, GatherErrors, BeginRequest, given, runtime
    <2>2. Owned(p)'
        BY <1>1, <1>2, <2>1 DEF Owned, Submitting
    <2>3. Control(p)' /\ Counter(p)'
        <3>1. CASE LocalChecks(p)
            <4>1. pc[p] = "local" /\ pc'[p] \in {"hosts", "errors"} /\ gathers'[p] = gathers[p]
                BY <1>1, <3>1 DEF LocalChecks, TypeOK
            <4> QED BY <1>1, <2>1, <4>1 DEF Control, Counter
        <3>2. CASE GatherHosts(p)
            BY <1>1, <2>1, <3>2 DEF GatherHosts, Control, Counter, TypeOK
        <3>3. CASE GatherErrors(p)
            <4>1. pc[p] = "errors" /\ pc'[p] \in {"raised", "idle"}
                BY <1>1, <3>3 DEF GatherErrors, TypeOK
            <4> QED BY <1>1, <2>1, <4>1 DEF Control, Counter
        <3>4. CASE BeginRequest(p)
            BY <1>1, <2>1, <3>4, Sizes DEF BeginRequest, Control, Counter, TypeOK
        <3> QED BY <1>4, <3>1, <3>2, <3>3, <3>4
    <2> QED BY <1>3, <2>2, <2>3 DEF Part
<1>5. CASE Shutdown(p)
    <2>1. pc'[p] = "shut" /\ waits'[p] = [s \in Slots |-> None]
        BY <1>1, <1>5 DEF Shutdown, TypeOK
    <2>2. Owned(p)' /\ Control(p)' /\ Counter(p)'
        BY <2>1 DEF Owned, Control, Counter
    <2> QED BY <1>3, <2>2 DEF Part
<1> QED BY <1>4, <1>5

\* The rank's own part, over the begin of a pass: it takes the recipe at the
\* counter, or the request is cut short.
LEMMA OwnForward ==
    ASSUME IInv, NEW p \in Ranks, Forward(p)
    PROVE  Part(p)'
<1>1. TypeOK /\ Queues /\ Control(p) /\ Pass(p) /\ Owned(p) /\ Counter(p)
    BY DEF IInv
<1>2. /\ pc[p] = "forward" /\ request'[p] = request[p] /\ step'[p] = step[p]
      /\ role'[p] = 0 /\ outputs'[p] = <<>> /\ taken'[p] = 0
      /\ pending' = pending /\ waits' = waits /\ tier' = tier /\ scheduled' = scheduled
    BY <1>1 DEF Forward, TypeOK, given, runtime
<1>3. step_counter[p] \in 1 .. NumSteps /\ Schedule[step_counter[p]] \in Recipes
    BY <1>1, Sizes DEF TypeOK
<1>4. \/ pc'[p] = "failed" /\ p \in aborted' /\ recipe'[p] = recipe[p]
      \/ /\ pc'[p] = "trio" /\ aborted' = aborted
         /\ IF scheduled THEN /\ recipe'[p] = Schedule[step_counter[p]]
                              /\ step_counter'[p] = NextCount(step_counter[p])
            ELSE recipe'[p] = recipe[p]
    BY <1>1 DEF Forward, Raise, TypeOK
<1>5. Control(p)'
    BY <1>1, <1>2, <1>3, <1>4 DEF Control
<1>6. ~Submitting(p) /\ ~Submitting(p)'
    BY <1>2 DEF Submitting
<1>7. Pass(p)'
    BY <1>2, <1>6 DEF Pass
<1>8. Owned(p)'
    BY <1>1, <1>2, <1>6 DEF Owned
<1>9. Counter(p)'
    BY <1>1, <1>2, <1>4 DEF Counter
<1> QED BY <1>5, <1>7, <1>8, <1>9 DEF Part

\* The rank's own part, over a submission that fails: in tier 2 the trio and
\* its waits stay, in tier 1 there are no waits.
LEMMA OwnRaise ==
    ASSUME IInv, NEW p \in Ranks, SubmitFails(p) \/ TransportFails(p)
    PROVE  Part(p)'
<1>1. TypeOK /\ Queues /\ Control(p) /\ Pass(p) /\ Owned(p) /\ Counter(p)
    BY DEF IInv
<1>2. /\ pc[p] = "trio" /\ role[p] \in Roles /\ pc'[p] = "failed" /\ p \in aborted'
      /\ recipe' = recipe /\ waits' = waits /\ tier' = tier /\ scheduled' = scheduled
    BY <1>1 DEF SubmitFails, TransportFails, Accepted, Raise, TypeOK, given
<1>3. tier = 2 => pending' = pending
    BY DEF SubmitFails, TransportFails, Cleanup, Poisons
<1>4. Control(p)' /\ Pass(p)' /\ Counter(p)' /\ ~Submitting(p)'
    BY <1>1, <1>2 DEF Control, Pass, Counter, Submitting
<1>5. Owned(p)'
    <2> SUFFICES ASSUME NEW s \in Slots, waits[p][s] # None
                 PROVE  tier = 2 /\ pending[p] # None /\ waits[p][s].trio = pending[p].trio
        BY <1>2, <1>3, <1>4 DEF Owned
    <2>1. tier = 2
        BY <1>1 DEF Owned
    <2>2. CASE Submitting(p)
        <3>1. pending[p] # None /\ pending[p].trio = Trio(p)
            BY <1>1, <1>2, <2>2 DEF Pass, Roles
        <3>2. \E i \in taken[p] + 1 .. role[p] : waits[p][s] = [trio |-> Trio(p), role |-> i - 1]
            BY <1>1, <2>2 DEF Owned
        <3>3. waits[p][s].trio = Trio(p)
            BY <3>2
        <3> QED BY <2>1, <3>1, <3>3
    <2>3. CASE ~Submitting(p)
        BY <1>1, <2>1, <2>3 DEF Owned
    <2> QED BY <2>2, <2>3
<1> QED BY <1>4, <1>5 DEF Part

\* The rank's own part, over a submission: the new role is the last of the
\* pass, and no wait of an earlier pass is left.
LEMMA OwnSubmit ==
    ASSUME IInv, NEW p \in Ranks, Submit(p)
    PROVE  Part(p)'
<1>1. TypeOK /\ Queues /\ Control(p) /\ Pass(p) /\ Owned(p) /\ Counter(p)
    BY DEF IInv
<1>2. /\ recipe[p] \in Recipes /\ role[p] \in Roles /\ pc[p] = "trio"
      /\ NextSlot(p) \in Slots /\ NextSlot(p)[1] = recipe[p] /\ NextSlot(p)[3] = role[p]
    BY SubmitQueues
<1>3. /\ pc' = pc /\ gathers' = gathers /\ request' = request /\ step' = step
      /\ recipe' = recipe /\ step_counter' = step_counter /\ taken' = taken
      /\ tier' = tier /\ scheduled' = scheduled /\ aborted' = aborted
    BY DEF Submit, given
<1>4. /\ role'[p] = role[p] + 1 /\ outputs'[p] = Append(outputs[p], NextSlot(p))
      /\ pending'[p] = [trio |-> Trio(p), recipe |-> recipe[p], next_role |-> role[p] + 1]
    BY <1>1 DEF Submit, TypeOK
<1>5. Control(p)' /\ Counter(p)'
    BY <1>1, <1>3 DEF Control, Counter
<1>6. Trio(p)' = Trio(p) /\ Submitting(p)'
    BY <1>2, <1>3, <1>4 DEF Trio, Submitting, Roles
<1>7. outputs[p] \in Seq(Slots) /\ Len(outputs[p]) = role[p] /\ taken[p] \in 0 .. role[p]
    <2>1. taken[p] \in 0 .. 3 /\ outputs[p] \in Seq(Slots)
        BY <1>1 DEF TypeOK
    <2>2. Len(outputs[p]) = role[p] /\ taken[p] <= role[p]
        BY <1>1, <1>2 DEF Pass
    <2> QED BY <1>2, <2>1, <2>2 DEF Roles
<1>8. /\ Len(outputs'[p]) = role'[p] /\ outputs'[p][role[p] + 1] = NextSlot(p)
      /\ \A i \in 1 .. role[p] : outputs'[p][i] = outputs[p][i]
    BY <1>2, <1>4, <1>7 DEF Roles
<1>9. Pass(p)'
    <2>1. \A i \in 1 .. role'[p] : outputs'[p][i][1] = recipe'[p] /\ outputs'[p][i][3] = i - 1
        <3> TAKE i \in 1 .. role'[p]
        <3>1. CASE i = role[p] + 1
            BY <1>2, <1>3, <1>8, <3>1 DEF Roles
        <3>2. CASE i # role[p] + 1
            <4>1. i \in 1 .. role[p]
                BY <1>2, <1>4, <3>2 DEF Roles
            <4>2. outputs[p][i][1] = recipe[p] /\ outputs[p][i][3] = i - 1
                BY <1>1, <1>2, <4>1 DEF Pass
            <4> QED BY <1>3, <1>8, <4>1, <4>2
        <3> QED BY <3>1, <3>2
    <2>2. tier = 2 => Len(trio_waits'[p].events) = role'[p]
        <3> SUFFICES ASSUME tier = 2
                     PROVE  Len(trio_waits'[p].events) = role'[p]
            OBVIOUS
        <3>1. trio_waits[p] \in [events : Seq(Nat), waited : 0 .. 3]
            BY <1>1 DEF TypeOK
        <3>2. trio_waits'[p] = NextEvents(p)
            BY <1>1 DEF Submit, TypeOK
        <3>3. CASE role[p] = 0
            BY <1>4, <3>2, <3>3 DEF NextEvents
        <3>4. CASE role[p] # 0
            <4>1. Len(trio_waits[p].events) = role[p]
                BY <1>1, <1>2, <3>4 DEF Pass, Submitting, Roles
            <4>2. NextEvents(p).events = Append(trio_waits[p].events, ReceiveEvent(p))
                BY <3>1, <3>4 DEF NextEvents
            <4>3. trio_waits[p].events \in Seq(Nat)
                BY <3>1
            <4> QED BY <1>2, <1>4, <3>2, <4>1, <4>2, <4>3
        <3> QED BY <3>3, <3>4
    <2>3. pending'[p] # None /\ pending'[p].trio = Trio(p)' /\ pending'[p].next_role = role'[p]
        <3>1. pending'[p] \in Held
            <4>1. Trio(p) \in Trios
                BY SubmitQueues
            <4> QED BY <1>2, <1>4, <4>1 DEF Held, Roles
        <3> QED BY <1>4, <1>6, <3>1, NoneAssumption
    <2>4. taken'[p] <= role'[p]
        BY <1>2, <1>3, <1>4, <1>7 DEF Roles
    <2> QED BY <1>3, <1>6, <1>8, <2>1, <2>2, <2>3, <2>4 DEF Pass
<1>10. Owned(p)'
    <2>1. role[p] = 0 => pending[p] = None
        BY DEF Submit, Accepted, InputUnconsumed
    <2>2. \A s \in Slots : waits[p][s] # None => tier = 2 /\ Submitting(p)
        BY <1>1, <1>2, <2>1 DEF Owned, Submitting, Roles
    <2> SUFFICES ASSUME NEW s \in Slots, waits'[p][s] # None
                 PROVE  /\ tier = 2
                        /\ \E i \in taken[p] + 1 .. role[p] + 1 :
                             s = outputs'[p][i] /\ waits'[p][s] = [trio |-> Trio(p), role |-> i - 1]
        BY <1>3, <1>4, <1>6 DEF Owned
    <2> DEFINE w == [trio |-> Trio(p), role |-> role[p]]
    <2>3. CASE tier # 2
        <3>1. waits'[p] = waits[p]
            BY <2>3 DEF Submit
        <3> QED BY <2>2, <2>3, <3>1
    <2>4. CASE tier = 2
        <3>1. waits' = [waits EXCEPT ![p][NextSlot(p)] = w]
            BY <2>4 DEF Submit
        <3>2. waits \in [Ranks -> [Slots -> Awaited \union {None}]]
            BY <1>1 DEF TypeOK
        <3>3. CASE s = NextSlot(p)
            <4>1. waits'[p][s] = w
                BY <1>2, <3>1, <3>2, <3>3
            <4>2. role[p] + 1 \in taken[p] + 1 .. role[p] + 1 /\ (role[p] + 1) - 1 = role[p]
                BY <1>2, <1>7 DEF Roles
            <4> QED BY <1>8, <2>4, <3>3, <4>1, <4>2
        <3>4. CASE s # NextSlot(p)
            <4>1. waits'[p][s] = waits[p][s]
                BY <1>2, <3>1, <3>2, <3>4
            <4>2. PICK i \in taken[p] + 1 .. role[p] :
                      s = outputs[p][i] /\ waits[p][s] = [trio |-> Trio(p), role |-> i - 1]
                BY <1>1, <2>2, <4>1 DEF Owned
            <4>3. i \in 1 .. role[p] /\ i \in taken[p] + 1 .. role[p] + 1
                BY <1>2, <1>7 DEF Roles
            <4> QED BY <1>8, <2>4, <4>1, <4>2, <4>3
        <3> QED BY <3>3, <3>4
    <2> QED BY <2>3, <2>4
<1> QED BY <1>5, <1>9, <1>10 DEF Part

\* The rank's own part, over a wait: what is registered for the next role is
\* that role's wait, and the last one frees the runtime.
LEMMA OwnWait ==
    ASSUME IInv, NEW p \in Ranks, Wait(p)
    PROVE  Part(p)'
<1> DEFINE slot == outputs[p][taken[p] + 1]
<1>1. TypeOK /\ Queues /\ Control(p) /\ Pass(p) /\ Owned(p) /\ Counter(p)
    BY DEF IInv
<1>2. /\ pc[p] = "trio" /\ tier = 2 /\ taken[p] \in 0 .. 3 /\ role[p] \in 0 .. 3
      /\ taken[p] < role[p] /\ waits[p][slot] # None
    BY <1>1 DEF Wait, TypeOK
<1>3. /\ pc' = pc /\ gathers' = gathers /\ request' = request /\ step' = step /\ role' = role
      /\ outputs' = outputs /\ recipe' = recipe /\ step_counter' = step_counter
      /\ tier' = tier /\ scheduled' = scheduled /\ aborted' = aborted
    BY DEF Wait, given
<1>4. taken'[p] = taken[p] + 1 /\ waits' = [waits EXCEPT ![p][slot] = None]
    BY <1>1 DEF Wait, TypeOK
<1>5. Control(p)' /\ Counter(p)'
    BY <1>1, <1>3 DEF Control, Counter
<1>6. Submitting(p) /\ Submitting(p)' /\ Trio(p)' = Trio(p)
    BY <1>2, <1>3 DEF Trio, Submitting
<1>7. outputs[p] \in Seq(Slots) /\ Len(outputs[p]) = role[p] /\ slot \in Slots
    BY <1>1, <1>2 DEF TypeOK, Pass
<1>8. waits[p][slot].role = taken[p]
    <2>1. PICK i \in taken[p] + 1 .. role[p] :
              slot = outputs[p][i] /\ waits[p][slot] = [trio |-> Trio(p), role |-> i - 1]
        BY <1>1, <1>2, <1>6, <1>7 DEF Owned
    <2>2. i \in 1 .. role[p] /\ taken[p] + 1 \in 1 .. role[p]
        BY <1>2
    <2>3. outputs[p][i][3] = i - 1 /\ slot[3] = (taken[p] + 1) - 1
        BY <1>1, <1>2, <2>2 DEF Pass
    <2> QED BY <1>2, <2>1, <2>2, <2>3
<1>9. Pass(p)'
    <2>1. trio_waits'[p].events = trio_waits[p].events
        <3>1. \/ trio_waits' = trio_waits
              \/ trio_waits' = [trio_waits EXCEPT ![p].waited = Len(trio_waits[p].events)]
            BY DEF Wait
        <3>2. trio_waits \in [Ranks -> [events : Seq(Nat), waited : 0 .. 3]]
            BY <1>1 DEF TypeOK
        <3> QED BY <3>1, <3>2
    <2>2. pending' = pending \/ (pending'[p] = None /\ taken[p] = 2)
        BY <1>1, <1>8 DEF Wait, FreesInput, TypeOK
    <2> QED BY <1>1, <1>2, <1>3, <1>4, <1>6, <2>1, <2>2 DEF Pass
<1>10. Owned(p)'
    <2> SUFFICES ASSUME NEW s \in Slots, waits'[p][s] # None
                 PROVE  \E i \in taken[p] + 2 .. role[p] :
                             s = outputs[p][i] /\ waits'[p][s] = [trio |-> Trio(p), role |-> i - 1]
        BY <1>2, <1>3, <1>4, <1>6 DEF Owned
    <2>1. waits \in [Ranks -> [Slots -> Awaited \union {None}]]
        BY <1>1 DEF TypeOK
    <2>2. s # slot /\ waits'[p][s] = waits[p][s]
        BY <1>4, <1>7, <2>1
    <2>3. PICK i \in taken[p] + 1 .. role[p] :
              s = outputs[p][i] /\ waits[p][s] = [trio |-> Trio(p), role |-> i - 1]
        BY <1>1, <1>6, <2>2 DEF Owned
    <2>4. i \in taken[p] + 2 .. role[p]
        <3>1. i # taken[p] + 1
            BY <2>2, <2>3
        <3> QED BY <1>2, <3>1
    <2> QED BY <2>2, <2>3, <2>4
<1> QED BY <1>5, <1>9, <1>10 DEF Part

\* The rank's own part, over an attention: no wait is left behind it.
LEMMA OwnAttend ==
    ASSUME IInv, NEW p \in Ranks, Attend(p)
    PROVE  Part(p)'
<1>1. TypeOK /\ Queues /\ Control(p) /\ Pass(p) /\ Owned(p) /\ Counter(p)
    BY DEF IInv
<1>2. /\ pc[p] = "trio" /\ role[p] = 3 /\ (tier = 2 => taken[p] = 3)
      /\ request' = request /\ recipe' = recipe /\ step_counter' = step_counter
      /\ waits' = waits /\ tier' = tier /\ scheduled' = scheduled /\ aborted' = aborted
    BY DEF Attend, given
<1>3. step[p] \in 1 .. NumSteps /\ NumSteps \in Nat \ {0}
    BY <1>1, Sizes DEF TypeOK
<1>4. \/ pc'[p] = "idle" /\ step[p] = NumSteps
      \/ pc'[p] = "forward" /\ step[p] # NumSteps /\ step'[p] = step[p] + 1
    BY <1>1 DEF Attend, TypeOK
<1>5. Control(p)'
    BY <1>1, <1>2, <1>4 DEF Control
<1>6. ~Submitting(p)' /\ Pass(p)'
    BY <1>4 DEF Submitting, Pass
<1>7. Owned(p)'
    <2>1. \A s \in Slots : waits[p][s] = None
        <3> SUFFICES ASSUME NEW s \in Slots, waits[p][s] # None
                     PROVE  FALSE
            OBVIOUS
        <3>1. Submitting(p)
            BY <1>2 DEF Submitting
        <3>2. tier = 2 /\ \E i \in taken[p] + 1 .. role[p] : s = outputs[p][i]
            BY <1>1, <3>1 DEF Owned
        <3> QED BY <1>2, <3>2
    <2> QED BY <1>2, <2>1 DEF Owned
<1>8. Counter(p)'
    BY <1>1, <1>2, <1>3, <1>4 DEF Counter, NextCount
<1> QED BY <1>5, <1>6, <1>7, <1>8 DEF Part

-----------------------------------------------------------------------------
\* The rank's own part, over the steps of its streams.
LEMMA OwnStreams ==
    ASSUME IInv, NEW p \in Ranks, SideStep(p) \/ ComputeStep(p)
    PROVE  Part(p)'
<1>1. Part(p)
    BY DEF IInv, Part
<1>2. UNCHANGED Frame(p)
    BY DEF SideStep, ComputeStep, Frame, given, host, runtime
<1> QED BY <1>1, <1>2, Framed

\* The invariant holds at the start.
LEMMA Start == Init => IInv
<1> SUFFICES ASSUME Init PROVE IInv
    OBVIOUS
<1>1. TypeOK
    <2>1. /\ recipe \in [Ranks -> Recipes \union {None}] /\ step \in [Ranks -> 1 .. NumSteps]
          /\ step_counter \in [Ranks -> 1 .. NumSteps] /\ request \in [Ranks -> 0 .. NumRequests]
        BY Sizes DEF Init
    <2>2. trio_waits \in [Ranks -> [events : Seq(Nat), waited : 0 .. 3]]
        BY DEF Init, NoEvents
    <2>3. error \in [Ranks -> BOOLEAN] /\ poisoned \in [Ranks -> BOOLEAN]
        BY Zenon DEF Init
    <2>4. /\ gathers \in [Ranks -> 0 .. 2] /\ role \in [Ranks -> 0 .. 3]
          /\ taken \in [Ranks -> 0 .. 3] /\ outputs \in [Ranks -> Seq(Slots)]
          /\ pending \in [Ranks -> Held \union {None}]
          /\ op_cache \in [Ranks -> [Recipes -> [Roles -> Nat] \union {None}]]
        BY DEF Init
    <2>5. /\ waits \in [Ranks -> [Slots -> Awaited \union {None}]]
          /\ buffer \in [Ranks -> [Slots -> [Ranks -> Trios \union {None}]]]
          /\ published \in [Ranks -> [Channels -> Nat]] /\ put \in [Ranks -> [Channels -> Nat]]
        BY DEF Init
    <2> QED BY <2>1, <2>2, <2>3, <2>4, <2>5 DEF Init, TypeOK
<1>2. Queues
    BY DEF Init, Queues
<1>3. ASSUME NEW r \in Ranks PROVE Part(r)
    <2>1. /\ pc[r] = "local" /\ gathers[r] = 0 /\ recipe[r] = Schedule[1] /\ step_counter[r] = 1
          /\ waits[r] = [s \in Slots |-> None]
        BY DEF Init
    <2>2. Control(r) /\ Pass(r) /\ Owned(r) /\ Counter(r)
        BY <2>1, Sizes DEF Control, Pass, Owned, Counter, Submitting
    <2> QED BY <2>2 DEF Part
<1> QED BY <1>1, <1>2, <1>3 DEF IInv, Part

\* No step breaks the invariant.
LEMMA Preserved == IInv /\ [Next]_vars => IInv'
<1> SUFFICES ASSUME IInv, [Next]_vars PROVE IInv'
    OBVIOUS
<1>1. CASE Next
    <2>1. TypeOK' /\ Queues'
        BY <1>1, TypeStep
    <2>2. PICK p \in Ranks : Host(p) \/ TransportFails(p) \/ Shutdown(p)
                              \/ SideStep(p) \/ ComputeStep(p)
        BY <1>1 DEF Next
    <2>3. ASSUME NEW r \in Ranks PROVE Part(r)'
        <3>1. CASE r # p
            <4>1. Part(r)
                BY DEF IInv, Part
            <4> QED BY <2>2, <3>1, <4>1, Others, Framed
        <3>2. CASE r = p
            BY <2>2, <3>2, OwnPreflight, OwnForward, OwnRaise, OwnSubmit, OwnWait, OwnAttend,
               OwnStreams DEF Host
        <3> QED BY <3>1, <3>2
    <2> QED BY <2>1, <2>3 DEF IInv, Part
<1>2. CASE UNCHANGED vars
    <2>1. TypeOK' /\ Queues'
        BY <1>2 DEF IInv, TypeOK, Queues, vars, given, host, runtime, device
    <2>2. ASSUME NEW r \in Ranks PROVE Part(r)'
        <3>1. UNCHANGED Frame(r)
            BY <1>2 DEF Frame, vars, given, host, runtime, device
        <3>2. Part(r)
            BY DEF IInv, Part
        <3> QED BY <3>1, <3>2, Framed
    <2> QED BY <2>1, <2>2 DEF IInv, Part
<1> QED BY <1>1, <1>2

-----------------------------------------------------------------------------
\* The host's part of the attention all-to-all keeps its invariant, for every
\* group, schedule, number of buffers and of requests.
THEOREM Invariance == Spec => []IInv
<1>1. Init => IInv
    BY Start
<1>2. IInv /\ [Next]_vars => IInv'
    BY Preserved
<1> QED BY <1>1, <1>2, PTL DEF Spec

\* The variables keep their types.
THEOREM TypeCorrect == Spec => []TypeOK
<1>1. IInv => TypeOK
    BY DEF IInv
<1> QED BY <1>1, Invariance, PTL

\* A wait left over from a request that raised is never taken for that of a
\* later trio in the same buffer (_consume_input_collective_wait looks the
\* buffer up by its address).
THEOREM WaitsBelongToTheirTrio == Spec => []WaitsAreOwn
<1>1. IInv => WaitsAreOwn
    <2> SUFFICES ASSUME IInv, NEW r \in Ranks, NEW s \in Slots, waits[r][s] # None
                 PROVE  \/ pending[r] # None /\ waits[r][s].trio = pending[r].trio
                        \/ pc[r] = "trio" /\ waits[r][s].trio = Trio(r)
        BY DEF WaitsAreOwn
    <2>1. Owned(r)
        BY DEF IInv
    <2>2. CASE Submitting(r)
        <3>1. \E i \in taken[r] + 1 .. role[r] : waits[r][s] = [trio |-> Trio(r), role |-> i - 1]
            BY <2>1, <2>2 DEF Owned
        <3>2. waits[r][s].trio = Trio(r)
            BY <3>1
        <3> QED BY <2>2, <3>2 DEF Submitting
    <2>3. CASE ~Submitting(r)
        BY <2>1, <2>3 DEF Owned
    <2> QED BY <2>2, <2>3
<1> QED BY <1>1, Invariance, PTL

\* One recipe encodes all roles of a trio, the schedule's for the step, until
\* a request of the rank is cut short.
THEOREM RecipeFollowsSchedule == Spec => []RecipeOfStep
<1>1. IInv => RecipeOfStep
    <2> SUFFICES ASSUME IInv, NEW r \in Ranks, pc[r] = "trio", r \notin aborted
                 PROVE  /\ recipe[r] = IF scheduled THEN Schedule[step[r]] ELSE Schedule[1]
                        /\ \A i \in DOMAIN outputs[r] : outputs[r][i][1] = recipe[r]
        BY DEF RecipeOfStep
    <2>1. Pass(r) /\ Counter(r) /\ outputs[r] \in Seq(Slots)
        BY DEF IInv, TypeOK
    <2>2. recipe[r] = IF scheduled THEN Schedule[step[r]] ELSE Schedule[1]
        BY <2>1 DEF Counter
    <2>3. DOMAIN outputs[r] = 1 .. role[r]
        BY <2>1 DEF Pass
    <2>4. \A i \in 1 .. role[r] : outputs[r][i][1] = recipe[r]
        BY <2>1 DEF Pass
    <2> QED BY <2>2, <2>3, <2>4
<1> QED BY <1>1, Invariance, PTL

-----------------------------------------------------------------------------
(***************************************************************************)
(* An attention reads the Q, K and V of its own trio, of every rank, for   *)
(* every group, schedule, number of buffers, requests and failures.        *)
(*                                                                         *)
(* The peers of a rank know only the epochs of a channel, and may be many  *)
(* trios ahead of it or behind.  So there is one itinerary for all ranks:  *)
(* the positions a host that nothing stops goes through, pass after pass,  *)
(* and the trios that the passes of a recipe submit.  A rank is at one of  *)
(* the positions until a submission of its own fails, and then submits     *)
(* nothing more; so the epoch of a channel is the same trio on every rank. *)
(* The rest is the flow control of one channel: a rank receives an epoch   *)
(* before the read that waits for it, and announces the next epoch after   *)
(* that read, so at the read every peer has sent that epoch and no other.  *)
(***************************************************************************)

(* The itinerary *)

\* Where a host stands before a pass: the pass, the step counter, and how many
\* passes have submitted with each recipe.
Positions == [request : Nat, step : 1 .. NumSteps, counter : 1 .. NumSteps,
              used : [Recipes -> Nat]]

RecipeAt(p) == IF scheduled THEN Schedule[p.counter] ELSE Schedule[1]
CounterAfter(p) == IF scheduled THEN NextCount(p.counter) ELSE p.counter
TrioAt(p) == [request |-> p.request, step |-> p.step]

\* The cache has no room for the operation of the pass.
Full(p) == /\ p.used[RecipeAt(p)] = 0
           /\ Cardinality({c \in Recipes : p.used[c] # 0}) >= MaxOps

\* The passes of a recipe, the one at the position included.
UsedAfter(p, c) == p.used[c] + IF ~Full(p) /\ c = RecipeAt(p) THEN 1 ELSE 0

\* The position after the pass.
Following(p) ==
    LET over == Full(p) \/ p.step = NumSteps
    IN  [request |-> IF over THEN p.request + 1 ELSE p.request,
         step    |-> IF over THEN 1 ELSE p.step + 1,
         counter |-> CounterAfter(p),
         used    |-> [c \in Recipes |-> UsedAfter(p, c)]]

First == [request |-> 1, step |-> 1, counter |-> 1, used |-> [c \in Recipes |-> 0]]

\* The trios that the passes with a recipe submit, in their order.
Passes == [request : Nat, step : 1 .. NumSteps]

Itinerary(path, trios) ==
    /\ path \in Seq(Positions) /\ Len(path) > 0 /\ path[1] = First
    /\ \A n \in 1 .. Len(path) - 1 : path[n + 1] = Following(path[n])
    /\ trios \in [Recipes -> Seq(Passes)]
    /\ \A c \in Recipes : Len(trios[c]) = UsedAfter(path[Len(path)], c)
    /\ \A n \in 1 .. Len(path) : ~Full(path[n]) =>
          LET c == RecipeAt(path[n])
          IN  /\ path[n].used[c] + 1 \in 1 .. Len(trios[c])
              /\ trios[c][path[n].used[c] + 1] = TrioAt(path[n])

-----------------------------------------------------------------------------
(* The hosts on the itinerary *)

\* The epochs a rank has submitted to a channel.
Issued(r, c, k) == IF op_cache[r][c] = None THEN 0 ELSE op_cache[r][c][k]

\* The host submits nothing any more.
Dead(r) == poisoned[r] \/ pc[r] = "shut" \/ (~Submitting(r) /\ pending[r] # None)

\* The pass that a host has under way, or does next.
Place(r, p) ==
    /\ pc[r] \in {"forward", "trio"} => TrioAt(p) = Trio(r)
    /\ pc[r] \notin {"forward", "trio"} => p.request = request[r] + 1 /\ p.step = 1
    /\ step_counter[r] = IF pc[r] = "trio" THEN CounterAfter(p) ELSE p.counter
    /\ pc[r] = "trio" => recipe[r] = RecipeAt(p)
    /\ Submitting(r) => ~Full(p)

\* What the passes before it, and the roles of this one, have submitted.
Adds(r, c, k) == IF Submitting(r) /\ c = recipe[r] /\ k < role[r] THEN 1 ELSE 0
Counted(r, p) ==
    \A c \in Recipes :
        /\ op_cache[r][c] = None <=> p.used[c] = 0 /\ ~(Submitting(r) /\ c = recipe[r])
        /\ \A k \in Roles : Issued(r, c, k) = p.used[c] + Adds(r, c, k)

At(r, p) == Place(r, p) /\ Counted(r, p)

Live(r, path) == Dead(r) \/ \E n \in 1 .. Len(path) : At(r, path[n])

-----------------------------------------------------------------------------
(* The streams *)

\* The job j of the side stream is of this kind and channel.
IsJob(r, j, kind, c, k) ==
    /\ j \in 1 .. Len(side[r])
    /\ side[r][j].kind = kind /\ side[r][j].slot[1] = c /\ side[r][j].slot[3] = k

Kinds == {"announce", "send", "receive"}

\* What is queued carries the trio of its epoch.
Labelled(r, trios) ==
    \A j \in 1 .. Len(side[r]) :
        LET job == side[r][j]
            sent == trios[job.slot[1]]
        IN  /\ job.epoch \in 1 .. Len(sent) /\ job.trio = sent[job.epoch]
            /\ job.slot[2] = job.epoch % NumBuffers

\* The epochs of a channel are issued, queued and done in their order.
Ordered(r) ==
    /\ pc[r] = "shut" => side[r] = <<>>
    /\ \A c \in Recipes, k \in Roles :
        /\ pc[r] # "shut" =>
              /\ published[r][<<c, k>>] <= Issued(r, c, k) /\ put[r][<<c, k>>] <= Issued(r, c, k)
              /\ \A kind \in Kinds, j \in 1 .. Len(side[r]) :
                    IsJob(r, j, kind, c, k) => side[r][j].epoch <= Issued(r, c, k)
        /\ \A kind \in Kinds, j \in 1 .. Len(side[r]), i \in 1 .. Len(side[r]) :
              IsJob(r, j, kind, c, k) /\ IsJob(r, i, kind, c, k) /\ i < j =>
                  side[r][i].epoch < side[r][j].epoch
        /\ \A j \in 1 .. Len(side[r]) :
              /\ IsJob(r, j, "announce", c, k) => published[r][<<c, k>>] < side[r][j].epoch
              /\ IsJob(r, j, "send", c, k) => put[r][<<c, k>>] < side[r][j].epoch

\* No rank is sent an epoch it has not announced.
Announced == \A r, q \in Ranks, ch \in Channels : put[q][ch] <= published[r][ch]

\* The buffers hold what was sent last.
Delivered(trios) ==
    \A q \in Ranks, c \in Recipes, k \in Roles :
        LET e == put[q][<<c, k>>]
        IN  e > 0 => /\ e <= Len(trios[c])
                     /\ \A r \in Ranks :
                            buffer[r][<<c, e % NumBuffers, k>>][q] = trios[c][e]

-----------------------------------------------------------------------------
(* From a submission to the read *)

\* The event n of the side stream is the receive of an epoch.
Arrives(r, c, k, e, n) ==
    \/ \A q \in Ranks : put[q][<<c, k>>] >= e
    \/ \E j \in 1 .. Len(side[r]) :
          IsJob(r, j, "receive", c, k) /\ side[r][j].epoch = e /\ n = side_done[r] + j

\* The compute stream waits for the event before its operation a.
AwaitedBefore(r, n, a) ==
    \/ n <= side_done[r]
    \/ \E i \in 1 .. Len(compute[r]) :
          i < a /\ compute[r][i].kind = "await" /\ n <= compute[r][i].after

\* No later epoch is announced before the operation a is done.
Kept(r, c, k, e, a) ==
    /\ published[r][<<c, k>>] <= e
    /\ \A j \in 1 .. Len(side[r]) :
          IsJob(r, j, "announce", c, k) /\ side[r][j].epoch > e =>
              compute_done[r] + a <= side[r][j].after

\* The read is of the buffers of an epoch whose receive it waits for, and that
\* are not announced free again before it.
Fresh(r, a, c, k, e) ==
    /\ compute[r][a].slots[k + 1] = <<c, e % NumBuffers, k>>
    /\ Kept(r, c, k, e, a)
    /\ \E n \in Nat : Arrives(r, c, k, e, n) /\ AwaitedBefore(r, n, a)
Served(r, trios, a) ==
    \E c \in Recipes : \E e \in 1 .. Len(trios[c]) :
        compute[r][a].trio = trios[c][e] /\ \A k \in Roles : Fresh(r, a, c, k, e)
Readable(r, trios) ==
    \A a \in 1 .. Len(compute[r]) : compute[r][a].kind = "read" => Served(r, trios, a)

\* The roles of the pass under way, and in tier 2 the events of their receives
\* and how many of them are waited for.
OnItsWay(r, k) ==
    LET e == Issued(r, recipe[r], k)
    IN  /\ outputs[r][k + 1] = <<recipe[r], e % NumBuffers, k>>
        /\ \E n \in Nat : /\ Arrives(r, recipe[r], k, e, n)
                          /\ n <= side_done[r] + Len(side[r])
                          /\ tier = 2 => n = trio_waits[r].events[k + 1]
Covering(r) ==
    /\ taken[r] <= trio_waits[r].waited /\ trio_waits[r].waited <= role[r]
    /\ \A k \in Roles : k < role[r] =>
          LET n == trio_waits[r].events[k + 1]
          IN  /\ n <= side_done[r] + Len(side[r])
              /\ n <= trio_waits[r].events[role[r]]
              /\ k < trio_waits[r].waited => AwaitedBefore(r, n, Len(compute[r]) + 1)
Underway(r) ==
    Submitting(r) => /\ ~poisoned[r]
                     /\ \A k \in Roles : k < role[r] => OnItsWay(r, k)
                     /\ tier = 2 => Covering(r)

Streams(r, trios) ==
    Labelled(r, trios) /\ Ordered(r) /\ Readable(r, trios) /\ Underway(r)

Exchange(path, trios) ==
    /\ Itinerary(path, trios) /\ Announced /\ Delivered(trios)
    /\ \A r \in Ranks : Live(r, path) /\ Streams(r, trios)

EInv == IInv /\ (~QLost => \E path, trios : Exchange(path, trios))

-----------------------------------------------------------------------------
\* A position of the itinerary, and the one after it.
LEMMA PositionKinds ==
    ASSUME scheduled \in BOOLEAN, NEW p \in Positions
    PROVE  /\ p.request \in Nat /\ p.step \in 1 .. NumSteps /\ p.counter \in 1 .. NumSteps
           /\ p.used \in [Recipes -> Nat]
           /\ RecipeAt(p) \in Recipes /\ CounterAfter(p) \in 1 .. NumSteps
           /\ TrioAt(p) \in Passes /\ \A c \in Recipes : UsedAfter(p, c) \in Nat
           /\ Following(p) \in Positions
<1>1. /\ p.request \in Nat /\ p.step \in 1 .. NumSteps /\ p.counter \in 1 .. NumSteps
      /\ p.used \in [Recipes -> Nat]
    BY DEF Positions
<1>2. RecipeAt(p) \in Recipes /\ CounterAfter(p) \in 1 .. NumSteps
    BY <1>1, Sizes, CounterMoves DEF RecipeAt, CounterAfter
<1>3. TrioAt(p) \in Passes
    BY <1>1 DEF TrioAt, Passes
<1>4. \A c \in Recipes : UsedAfter(p, c) \in Nat
    BY <1>1 DEF UsedAfter
<1>5. Following(p) \in Positions
    <2> DEFINE over == Full(p) \/ p.step = NumSteps
               req  == IF over THEN p.request + 1 ELSE p.request
               st   == IF over THEN 1 ELSE p.step + 1
               u    == [c \in Recipes |-> UsedAfter(p, c)]
    <2>1. req \in Nat /\ st \in 1 .. NumSteps
        BY <1>1, Sizes
    <2>2. u \in [Recipes -> Nat]
        BY <1>4
    <2>3. Following(p) = [request |-> req, step |-> st, counter |-> CounterAfter(p), used |-> u]
        BY DEF Following
    <2> HIDE DEF req, st, u
    <2> QED BY <1>2, <2>1, <2>2, <2>3 DEF Positions
<1> QED BY <1>1, <1>2, <1>3, <1>4, <1>5

\* What one itinerary says, another that goes on from it says too.
Extends(path2, trios2, path, trios) ==
    /\ Len(path2) >= Len(path) /\ \A n \in 1 .. Len(path) : path2[n] = path[n]
    /\ \A c \in Recipes : /\ Len(trios2[c]) >= Len(trios[c])
                          /\ \A e \in 1 .. Len(trios[c]) : trios2[c][e] = trios[c][e]

\* There is always one more pass.
LEMMA Grown ==
    ASSUME scheduled \in BOOLEAN, NEW path, NEW trios, Itinerary(path, trios)
    PROVE  \E path2, trios2 : /\ Itinerary(path2, trios2) /\ Len(path2) = Len(path) + 1
                              /\ Extends(path2, trios2, path, trios)
<1> DEFINE last == path[Len(path)]
           q == Following(last)
           c0 == RecipeAt(q)
           path2 == Append(path, q)
           trios2 == IF Full(q) THEN trios
                     ELSE [trios EXCEPT ![c0] = Append(trios[c0], TrioAt(q))]
<1>1. /\ path \in Seq(Positions) /\ Len(path) \in Nat \ {0} /\ last \in Positions
      /\ trios \in [Recipes -> Seq(Passes)]
    BY DEF Itinerary
<1>2. q \in Positions /\ c0 \in Recipes /\ TrioAt(q) \in Passes /\ q.used \in [Recipes -> Nat]
    BY <1>1, PositionKinds
<1>3. \A c \in Recipes : q.used[c] = Len(trios[c])
    BY <1>1 DEF Following, Itinerary
<1>4. trios2 \in [Recipes -> Seq(Passes)]
    <2> DEFINE t == Append(trios[c0], TrioAt(q))
    <2>1. t \in Seq(Passes)
        BY <1>1, <1>2
    <2> HIDE DEF t, q, c0
    <2> QED BY <1>1, <1>2, <2>1
<1>5. \A c \in Recipes : /\ Len(trios2[c]) = UsedAfter(q, c)
                         /\ \A e \in 1 .. Len(trios[c]) : trios2[c][e] = trios[c][e]
    <2> TAKE c \in Recipes
    <2> HIDE DEF q
    <2>1. CASE ~Full(q) /\ c = c0
        BY <1>1, <1>2, <1>3, <2>1 DEF UsedAfter
    <2>2. CASE Full(q) \/ c # c0
        BY <1>1, <1>2, <1>3, <2>2 DEF UsedAfter
    <2> QED BY <2>1, <2>2
<1>6. ~Full(q) => q.used[c0] + 1 \in 1 .. Len(trios2[c0]) /\ trios2[c0][q.used[c0] + 1] = TrioAt(q)
    <2> HIDE DEF q
    <2> QED BY <1>1, <1>2, <1>3
<1>7. /\ path2 \in Seq(Positions) /\ Len(path2) = Len(path) + 1 /\ path2[Len(path) + 1] = q
      /\ \A n \in 1 .. Len(path) : path2[n] = path[n]
    <2> HIDE DEF q
    <2> QED BY <1>1, <1>2
<1>8. \A c \in Recipes : Len(trios2[c]) >= Len(trios[c])
    <2> TAKE c \in Recipes
    <2>1. UsedAfter(q, c) >= q.used[c]
        <3> HIDE DEF q
        <3> QED BY <1>2 DEF UsedAfter
    <2>2. Len(trios2[c]) = UsedAfter(q, c) /\ q.used[c] = Len(trios[c])
        BY <1>3, <1>5
    <2> QED BY <2>1, <2>2
<1>9. Extends(path2, trios2, path, trios)
    <2> HIDE DEF path2, trios2
    <2> QED BY <1>1, <1>5, <1>7, <1>8 DEF Extends
<1>10. \A n \in 1 .. Len(path2) : ~Full(path2[n]) =>
            LET c == RecipeAt(path2[n])
            IN  /\ path2[n].used[c] + 1 \in 1 .. Len(trios2[c])
                /\ trios2[c][path2[n].used[c] + 1] = TrioAt(path2[n])
    <2> SUFFICES ASSUME NEW n \in 1 .. Len(path2), ~Full(path2[n]), NEW c, c = RecipeAt(path2[n])
                 PROVE  /\ path2[n].used[c] + 1 \in 1 .. Len(trios2[c])
                        /\ trios2[c][path2[n].used[c] + 1] = TrioAt(path2[n])
        OBVIOUS
    <2>1. CASE n = Len(path) + 1
        <3> HIDE DEF path2, trios2, q
        <3> QED BY <1>6, <1>7, <2>1
    <2>2. CASE n # Len(path) + 1
        <3>1. n \in 1 .. Len(path) /\ path2[n] = path[n]
            <4> HIDE DEF path2
            <4> QED BY <1>1, <1>7, <2>2
        <3>2. path[n] \in Positions /\ c \in Recipes
            BY <1>1, <3>1, PositionKinds
        <3>3. /\ path[n].used[c] + 1 \in 1 .. Len(trios[c])
              /\ trios[c][path[n].used[c] + 1] = TrioAt(path[n])
            BY <3>1 DEF Itinerary
        <3>4. Len(trios[c]) \in Nat /\ Len(trios2[c]) \in Nat
            <4> HIDE DEF trios2
            <4> QED BY <1>1, <1>4, <3>2
        <3> HIDE DEF path2, trios2
        <3> QED BY <1>5, <1>8, <3>1, <3>2, <3>3, <3>4
    <2> QED BY <2>1, <2>2
<1>11. /\ path2[1] = First /\ Len(path2) > 0
       /\ \A n \in 1 .. Len(path2) - 1 : path2[n + 1] = Following(path2[n])
    <2>1. path[1] = First /\ \A n \in 1 .. Len(path) - 1 : path[n + 1] = Following(path[n])
        BY DEF Itinerary
    <2> SUFFICES ASSUME NEW n \in 1 .. Len(path2) - 1
                 PROVE  path2[n + 1] = Following(path2[n])
        BY <1>1, <1>7, <2>1
    <2>2. CASE n = Len(path)
        BY <1>1, <1>7, <2>2
    <2>3. CASE n # Len(path)
        <3>1. n \in 1 .. Len(path) - 1 /\ n + 1 \in 1 .. Len(path) /\ n \in 1 .. Len(path)
            <4> HIDE DEF path2
            <4> QED BY <1>1, <1>7, <2>3
        <3> HIDE DEF path2, q
        <3> QED BY <1>7, <2>1, <3>1
    <2> QED BY <2>2, <2>3
<1>12. Itinerary(path2, trios2)
    <2>1. \A c \in Recipes : Len(trios2[c]) = UsedAfter(path2[Len(path2)], c)
        <3> HIDE DEF path2, trios2, q
        <3> QED BY <1>5, <1>7
    <2> HIDE DEF path2, trios2, q
    <2> QED BY <1>4, <1>7, <1>10, <1>11, <2>1 DEF Itinerary
<1> QED BY <1>7, <1>9, <1>12

-----------------------------------------------------------------------------
\* A job that is queued, and an operation of the compute stream.
LEMMA JobKinds ==
    ASSUME Queues, NEW r \in Ranks
    PROVE  /\ side[r] \in Seq(Jobs) /\ side_done[r] \in Nat /\ compute_done[r] \in Nat
           /\ compute[r] \in Seq(Reads \union Awaits)
           /\ Len(side[r]) \in Nat /\ Len(compute[r]) \in Nat
           /\ \A j \in 1 .. Len(side[r]) :
                /\ side[r][j] \in Jobs /\ side[r][j].slot \in Slots
                /\ side[r][j].slot[1] \in Recipes /\ side[r][j].slot[3] \in Roles
                /\ side[r][j].slot = <<side[r][j].slot[1], side[r][j].slot[2], side[r][j].slot[3]>>
                /\ side[r][j].kind \in Kinds /\ side[r][j].epoch \in Nat
                /\ side[r][j].after \in Nat
           /\ \A a \in 1 .. Len(compute[r]) :
                /\ compute[r][a] \in Reads \union Awaits
                /\ compute[r][a].kind = "await" => compute[r][a].after \in Nat
<1>1. /\ side[r] \in Seq(Jobs) /\ side_done[r] \in Nat /\ compute_done[r] \in Nat
      /\ compute[r] \in Seq(Reads \union Awaits)
    BY DEF Queues
<1>2. ASSUME NEW j \in 1 .. Len(side[r])
      PROVE  /\ side[r][j] \in Jobs /\ side[r][j].slot \in Slots
             /\ side[r][j].kind \in Kinds /\ side[r][j].epoch \in Nat
             /\ side[r][j].after \in Nat
    <2>1. side[r][j] \in Jobs
        BY <1>1
    <2> QED BY <2>1 DEF Jobs, Kinds
<1>3. ASSUME NEW s \in Slots PROVE s[1] \in Recipes /\ s[3] \in Roles /\ s = <<s[1], s[2], s[3]>>
    BY DEF Slots
<1>4. ASSUME NEW a \in 1 .. Len(compute[r])
      PROVE  /\ compute[r][a] \in Reads \union Awaits
             /\ compute[r][a].kind = "await" => compute[r][a].after \in Nat
    <2>1. compute[r][a] \in Reads \union Awaits
        <3> DEFINE S == Reads \union Awaits
        <3>1. compute[r] \in Seq(S)
            BY <1>1
        <3> HIDE DEF S
        <3>2. compute[r][a] \in S
            BY <3>1
        <3> QED BY <3>2 DEF S
    <2> QED BY <2>1 DEF Reads, Awaits
<1> QED BY <1>1, <1>2, <1>3, <1>4

\* The exchange on an itinerary is the exchange on every itinerary that goes on
\* from it.
LEMMA Extended ==
    ASSUME IInv, NEW path, NEW trios, NEW path2, NEW trios2, Exchange(path, trios),
           Itinerary(path2, trios2), Extends(path2, trios2, path, trios)
    PROVE  Exchange(path2, trios2)
<1>1. /\ \A c \in Recipes : trios[c] \in Seq(Passes) /\ trios2[c] \in Seq(Passes)
      /\ path \in Seq(Positions) /\ path2 \in Seq(Positions)
    BY DEF Exchange, Itinerary
<1>2. \A c \in Recipes : \A e \in 1 .. Len(trios[c]) :
          e \in 1 .. Len(trios2[c]) /\ trios2[c][e] = trios[c][e]
    BY <1>1 DEF Extends
<1>3. \A n \in 1 .. Len(path) : n \in 1 .. Len(path2) /\ path2[n] = path[n]
    BY <1>1 DEF Extends
<1>4. Delivered(trios2)
    <2> SUFFICES ASSUME NEW q \in Ranks, NEW c \in Recipes, NEW k \in Roles,
                        put[q][<<c, k>>] > 0
                 PROVE  /\ put[q][<<c, k>>] <= Len(trios2[c])
                        /\ \A r \in Ranks : buffer[r][<<c, put[q][<<c, k>>] % NumBuffers, k>>][q]
                                                = trios2[c][put[q][<<c, k>>]]
        BY DEF Delivered
    <2>1. put[q][<<c, k>>] \in Nat
        BY DEF IInv, TypeOK, Channels
    <2>2. /\ put[q][<<c, k>>] <= Len(trios[c])
          /\ \A r \in Ranks : buffer[r][<<c, put[q][<<c, k>>] % NumBuffers, k>>][q]
                                  = trios[c][put[q][<<c, k>>]]
        BY DEF Exchange, Delivered
    <2>3. put[q][<<c, k>>] \in 1 .. Len(trios[c])
        BY <1>1, <2>1, <2>2
    <2>4. put[q][<<c, k>>] \in 1 .. Len(trios2[c]) /\ trios2[c][put[q][<<c, k>>]] = trios[c][put[q][<<c, k>>]]
        BY <1>2, <2>3
    <2> QED BY <2>2, <2>4
<1>5. ASSUME NEW r \in Ranks PROVE Live(r, path2) /\ Streams(r, trios2)
    <2>1. Live(r, path) /\ Labelled(r, trios) /\ Ordered(r) /\ Readable(r, trios) /\ Underway(r)
        BY DEF Exchange, Streams
    <2>2. Live(r, path2)
        BY <1>3, <2>1 DEF Live
    <2>3. Labelled(r, trios2)
        <3> SUFFICES ASSUME NEW j \in 1 .. Len(side[r])
                     PROVE  /\ side[r][j].epoch \in 1 .. Len(trios2[side[r][j].slot[1]])
                            /\ side[r][j].trio = trios2[side[r][j].slot[1]][side[r][j].epoch]
                            /\ side[r][j].slot[2] = side[r][j].epoch % NumBuffers
            BY DEF Labelled
        <3>1. /\ side[r][j].epoch \in 1 .. Len(trios[side[r][j].slot[1]])
              /\ side[r][j].trio = trios[side[r][j].slot[1]][side[r][j].epoch]
              /\ side[r][j].slot[2] = side[r][j].epoch % NumBuffers
            BY <2>1 DEF Labelled
        <3>2. side[r][j].slot[1] \in Recipes
            BY JobKinds DEF IInv
        <3> QED BY <1>2, <3>1, <3>2
    <2>4. Readable(r, trios2)
        <3> SUFFICES ASSUME NEW a \in 1 .. Len(compute[r]), compute[r][a].kind = "read"
                     PROVE  Served(r, trios2, a)
            BY DEF Readable
        <3>1. Served(r, trios, a)
            BY <2>1 DEF Readable
        <3> QED BY <1>2, <3>1 DEF Served
    <2> QED BY <2>1, <2>2, <2>3, <2>4 DEF Streams
<1> QED BY <1>4, <1>5 DEF Exchange

\* A host that goes on has a position after its own.
Ahead(r, path) == Dead(r) \/ \E n \in 1 .. Len(path) - 1 : At(r, path[n])

LEMMA OneMore ==
    ASSUME IInv, NEW path, NEW trios, Exchange(path, trios), NEW r \in Ranks
    PROVE  \E path2, trios2 : Exchange(path2, trios2) /\ Ahead(r, path2)
<1>1. scheduled \in BOOLEAN /\ Itinerary(path, trios) /\ Live(r, path)
    BY DEF IInv, Queues, Exchange
<1>2. PICK path2, trios2 : /\ Itinerary(path2, trios2) /\ Len(path2) = Len(path) + 1
                           /\ Extends(path2, trios2, path, trios)
    BY <1>1, Grown
<1>3. Exchange(path2, trios2)
    BY <1>2, Extended
<1>4. Ahead(r, path2)
    <2>1. Len(path) \in Nat
        BY <1>1 DEF Itinerary
    <2> QED BY <1>1, <1>2, <2>1 DEF Live, Ahead, Extends
<1> QED BY <1>3, <1>4

-----------------------------------------------------------------------------
\* What a rank's part of the exchange speaks about, besides what the peers sent.
OwnPart(r) == <<pc[r], request[r], step[r], role[r], outputs[r], taken[r], step_counter[r],
                recipe[r], pending[r], poisoned[r], op_cache[r], trio_waits[r], compute[r],
                side[r], compute_done[r], side_done[r], published[r], put[r], tier, scheduled>>

PutGrows == \A q \in Ranks, ch \in Channels : put[q][ch] \in Nat /\ put'[q][ch] \in Nat
                                              /\ put[q][ch] <= put'[q][ch]

\* An epoch that has arrived stays, whatever the peers send after it.
LEMMA ArrivedStays ==
    ASSUME PutGrows, NEW r \in Ranks, NEW c \in Recipes, NEW k \in Roles, NEW e \in Nat, NEW n,
           Arrives(r, c, k, e, n), side'[r] = side[r], side_done'[r] = side_done[r]
    PROVE  Arrives(r, c, k, e, n)'
<1>1. <<c, k>> \in Channels
    BY DEF Channels
<1>2. CASE \A q \in Ranks : put[q][<<c, k>>] >= e
    <2>1. ASSUME NEW q \in Ranks PROVE put'[q][<<c, k>>] >= e
        BY <1>1, <1>2 DEF PutGrows
    <2> QED BY <2>1 DEF Arrives
<1>3. CASE ~ \A q \in Ranks : put[q][<<c, k>>] >= e
    BY <1>3 DEF Arrives, IsJob
<1> QED BY <1>2, <1>3

\* The epochs of a channel.
LEMMA IssuedKinds ==
    ASSUME IInv, NEW r \in Ranks
    PROVE  /\ \A c \in Recipes, k \in Roles : Issued(r, c, k) \in Nat
           /\ pc[r] # "shut" => recipe[r] \in Recipes
           /\ \A c \in Recipes : op_cache[r][c] # None => op_cache[r][c] \in [Roles -> Nat]
           /\ role[r] \in 0 .. 3
<1>1. /\ \A c \in Recipes : op_cache[r][c] \in [Roles -> Nat] \union {None}
      /\ role[r] \in 0 .. 3
    BY DEF IInv, TypeOK
<1>2. \A c \in Recipes, k \in Roles : Issued(r, c, k) \in Nat
    BY <1>1 DEF Issued
<1> QED BY <1>1, <1>2 DEF IInv, Control

\* A step that leaves a rank alone leaves its part of the exchange alone.
LEMMA Undisturbed ==
    ASSUME IInv, PutGrows, NEW r \in Ranks, UNCHANGED OwnPart(r), NEW path, NEW trios,
           Itinerary(path, trios), Live(r, path), Streams(r, trios)
    PROVE  Live(r, path)' /\ Streams(r, trios)'
<1>1. /\ pc'[r] = pc[r] /\ request'[r] = request[r] /\ step'[r] = step[r] /\ role'[r] = role[r]
      /\ outputs'[r] = outputs[r] /\ taken'[r] = taken[r] /\ step_counter'[r] = step_counter[r]
      /\ recipe'[r] = recipe[r] /\ pending'[r] = pending[r] /\ poisoned'[r] = poisoned[r]
      /\ op_cache'[r] = op_cache[r] /\ trio_waits'[r] = trio_waits[r] /\ compute'[r] = compute[r]
      /\ side'[r] = side[r] /\ compute_done'[r] = compute_done[r] /\ side_done'[r] = side_done[r]
      /\ published'[r] = published[r] /\ put'[r] = put[r] /\ tier' = tier
      /\ scheduled' = scheduled
    BY DEF OwnPart
<1>2. Submitting(r)' = Submitting(r) /\ Trio(r)' = Trio(r) /\ Dead(r)' = Dead(r)
    BY <1>1 DEF Submitting, Trio, Dead
<1>3. \A c, k : Issued(r, c, k)' = Issued(r, c, k) /\ Adds(r, c, k)' = Adds(r, c, k)
    BY <1>1, <1>2 DEF Issued, Adds
<1>4. ASSUME NEW p, At(r, p) PROVE At(r, p)'
    <2>1. Place(r, p)'
        BY <1>1, <1>2, <1>4 DEF At, Place, CounterAfter, RecipeAt, TrioAt, Full
    <2>2. Counted(r, p)'
        BY <1>1, <1>2, <1>3, <1>4 DEF At, Counted
    <2> QED BY <2>1, <2>2 DEF At
<1>5. Live(r, path)'
    BY <1>2, <1>4 DEF Live
<1>6. \A c, k, e, n, a : /\ AwaitedBefore(r, n, a)' = AwaitedBefore(r, n, a)
                         /\ Kept(r, c, k, e, a)' = Kept(r, c, k, e, a)
    BY <1>1 DEF AwaitedBefore, Kept, IsJob
<1>7. Labelled(r, trios)' /\ Ordered(r)'
    <2>1. Labelled(r, trios) /\ Ordered(r)
        BY DEF Streams
    <2>2. Labelled(r, trios)'
        BY <1>1, <2>1 DEF Labelled
    <2>3. \A kind, j, c, k : IsJob(r, j, kind, c, k)' = IsJob(r, j, kind, c, k)
        BY <1>1 DEF IsJob
    <2> QED BY <1>1, <1>3, <2>1, <2>2, <2>3 DEF Ordered
<1>8. Readable(r, trios)'
    <2> SUFFICES ASSUME NEW a \in 1 .. Len(compute[r]), compute[r][a].kind = "read"
                 PROVE  Served(r, trios, a)'
        BY <1>1 DEF Readable
    <2>0. PICK c \in Recipes : \E e \in 1 .. Len(trios[c]) :
              compute[r][a].trio = trios[c][e] /\ \A k \in Roles : Fresh(r, a, c, k, e)
        BY DEF Streams, Readable, Served
    <2>1. PICK e \in 1 .. Len(trios[c]) :
              compute[r][a].trio = trios[c][e] /\ \A k \in Roles : Fresh(r, a, c, k, e)
        BY <2>0
    <2>2. e \in Nat
        OBVIOUS
    <2>3. ASSUME NEW k \in Roles PROVE Fresh(r, a, c, k, e)'
        <3>1. PICK n \in Nat : Arrives(r, c, k, e, n) /\ AwaitedBefore(r, n, a)
            BY <2>1 DEF Fresh
        <3>2. Arrives(r, c, k, e, n)' /\ AwaitedBefore(r, n, a)'
            BY <1>1, <1>6, <2>2, <3>1, ArrivedStays
        <3> QED BY <1>1, <1>6, <2>1, <3>2 DEF Fresh
    <2> QED BY <1>1, <2>1, <2>3 DEF Served
<1>9. Underway(r)'
    <2> SUFFICES ASSUME Submitting(r)
                 PROVE  /\ ~poisoned[r]
                        /\ \A k \in Roles : k < role[r] => OnItsWay(r, k)'
                        /\ tier = 2 => Covering(r)'
        BY <1>1, <1>2 DEF Underway
    <2>1. /\ ~poisoned[r] /\ \A k \in Roles : k < role[r] => OnItsWay(r, k)
          /\ tier = 2 => Covering(r)
        BY DEF Streams, Underway
    <2>2. tier = 2 => Covering(r)'
        BY <1>1, <1>6, <2>1 DEF Covering
    <2>3. ASSUME NEW k \in Roles, k < role[r] PROVE OnItsWay(r, k)'
        <3>1. recipe[r] \in Recipes /\ Issued(r, recipe[r], k) \in Nat
            BY IssuedKinds DEF Submitting
        <3>2. PICK c \in Recipes, e \in Nat : c = recipe[r] /\ e = Issued(r, c, k)
            BY <3>1
        <3>3. PICK n \in Nat : /\ Arrives(r, c, k, e, n)
                               /\ n <= side_done[r] + Len(side[r])
                               /\ tier = 2 => n = trio_waits[r].events[k + 1]
            BY <2>1, <2>3, <3>2 DEF OnItsWay
        <3>4. Arrives(r, c, k, e, n)'
            BY <1>1, <3>3, ArrivedStays
        <3> QED BY <1>1, <1>3, <2>1, <2>3, <3>2, <3>3, <3>4 DEF OnItsWay
    <2> QED BY <2>1, <2>2, <2>3
<1> QED BY <1>5, <1>7, <1>8, <1>9 DEF Streams

-----------------------------------------------------------------------------
\* The host steps that queue nothing leave the streams as they are.
LEMMA HostStreams ==
    ASSUME IInv, NEW r \in Ranks, NEW trios, Streams(r, trios), UNCHANGED device,
           ~Submitting(r)', pc[r] # "shut",
           pc'[r] = "shut" => side[r] = <<>>, pc'[r] # "shut" => op_cache'[r] = op_cache[r]
    PROVE  Streams(r, trios)'
<1>1. /\ side' = side /\ compute' = compute /\ side_done' = side_done
      /\ compute_done' = compute_done /\ published' = published /\ put' = put
    BY DEF device
<1>2. Labelled(r, trios) /\ Ordered(r) /\ Readable(r, trios)
    BY DEF Streams
<1>3. Labelled(r, trios)'
    BY <1>1, <1>2 DEF Labelled
<1>4. \A kind, j, c, k : IsJob(r, j, kind, c, k)' = IsJob(r, j, kind, c, k)
    BY <1>1 DEF IsJob
<1>5. Ordered(r)'
    <2>1. CASE pc'[r] = "shut"
        <3>1. \A j : j \notin 1 .. Len(side[r])
            BY <2>1
        <3>2. \A kind, j, c, k : ~IsJob(r, j, kind, c, k)'
            BY <1>4, <3>1 DEF IsJob
        <3> QED BY <1>1, <1>2, <2>1, <3>1, <3>2 DEF Ordered, Issued
    <2>2. CASE pc'[r] # "shut"
        BY <1>1, <1>2, <1>4, <2>2 DEF Ordered, Issued
    <2> QED BY <2>1, <2>2
<1>6. Readable(r, trios)'
    <2>1. \A c, k, e, n, a : /\ AwaitedBefore(r, n, a)' = AwaitedBefore(r, n, a)
                             /\ Kept(r, c, k, e, a)' = Kept(r, c, k, e, a)
                             /\ Arrives(r, c, k, e, n)' = Arrives(r, c, k, e, n)
        BY <1>1, <1>4 DEF Kept, Arrives, AwaitedBefore
    <2>2. \A c, k, e, a : Fresh(r, a, c, k, e)' = Fresh(r, a, c, k, e)
        BY <1>1, <2>1 DEF Fresh
    <2>3. \A a : Served(r, trios, a)' = Served(r, trios, a)
        BY <1>1, <2>2 DEF Served
    <2> QED BY <1>1, <1>2, <2>3 DEF Readable
<1>7. Underway(r)'
    BY DEF Underway
<1> QED BY <1>3, <1>5, <1>6, <1>7 DEF Streams

\* Where a host goes that queues nothing, but for a failed submission: the
\* same pass, or the pass the position says comes next.
LEMMA HostGoesOn ==
    ASSUME IInv, NEW r \in Ranks, NEW path, NEW trios, Itinerary(path, trios), Live(r, path),
           LocalChecks(r) \/ GatherHosts(r) \/ GatherErrors(r) \/ BeginRequest(r)
    PROVE  Live(r, path)'
<1>0. TypeOK /\ Control(r) /\ path \in Seq(Positions)
    BY DEF IInv, Itinerary
<1>1. /\ step_counter' = step_counter /\ recipe' = recipe /\ pending' = pending
      /\ poisoned' = poisoned /\ op_cache' = op_cache /\ scheduled' = scheduled
    BY DEF LocalChecks, GatherHosts, GatherErrors, BeginRequest, given, runtime
<1>2. /\ pc[r] \notin {"trio", "forward", "shut"} /\ pc'[r] \notin {"trio", "shut"}
      /\ pc'[r] = "forward" => request'[r] = request[r] + 1 /\ step'[r] = 1
      /\ pc'[r] # "forward" => request'[r] = request[r]
    BY <1>0 DEF LocalChecks, GatherHosts, GatherErrors, BeginRequest, TypeOK
<1>3. ~Submitting(r) /\ ~Submitting(r)' /\ (Dead(r) => Dead(r)')
    BY <1>1, <1>2 DEF Submitting, Dead
<1>4. ASSUME NEW n \in 1 .. Len(path), At(r, path[n]) PROVE At(r, path[n])'
    <2>1. Place(r, path[n])'
        <3>1. path[n].request = request[r] + 1 /\ path[n].step = 1
            BY <1>2, <1>4 DEF At, Place
        <3> QED BY <1>1, <1>2, <1>3, <1>4, <3>1 DEF At, Place, TrioAt, Trio
    <2>2. Counted(r, path[n])'
        BY <1>1, <1>3, <1>4 DEF At, Counted, Issued, Adds
    <2> QED BY <2>1, <2>2 DEF At
<1> QED BY <1>3, <1>4 DEF Live

LEMMA HostForwards ==
    ASSUME IInv, NEW r \in Ranks, NEW path, NEW trios, Itinerary(path, trios), Live(r, path),
           Forward(r)
    PROVE  Live(r, path)'
<1>0. TypeOK /\ Control(r) /\ Counter(r) /\ path \in Seq(Positions)
    BY DEF IInv, Itinerary
<1>1. /\ request' = request /\ step' = step /\ pending' = pending
      /\ poisoned' = poisoned /\ op_cache' = op_cache /\ scheduled' = scheduled
      /\ pc[r] = "forward" /\ role'[r] = 0
    BY <1>0 DEF Forward, given, runtime, TypeOK
<1>2. CASE MaySwitch(r)
    <2>1. /\ pc'[r] = "trio"
          /\ scheduled => /\ recipe'[r] = Schedule[step_counter[r]]
                          /\ step_counter'[r] = NextCount(step_counter[r])
          /\ ~scheduled => recipe'[r] = recipe[r] /\ step_counter'[r] = step_counter[r]
        BY <1>0, <1>2 DEF Forward, TypeOK
    <2>2. ~Submitting(r) /\ ~Submitting(r)' /\ (Dead(r) => Dead(r)')
        BY <1>1, <2>1 DEF Submitting, Dead
    <2>3. ASSUME NEW n \in 1 .. Len(path), At(r, path[n]) PROVE At(r, path[n])'
        <3>1. Place(r, path[n])'
            <4>1. recipe[r] = Schedule[1] \/ scheduled
                BY <1>0, <1>1 DEF Counter
            <4> QED BY <1>1, <2>1, <2>2, <2>3, <4>1
                    DEF At, Place, TrioAt, Trio, CounterAfter, RecipeAt
        <3>2. Counted(r, path[n])'
            BY <1>1, <2>2, <2>3 DEF At, Counted, Issued, Adds
        <3> QED BY <3>1, <3>2 DEF At
    <2> QED BY <2>2, <2>3 DEF Live
<1>3. CASE ~MaySwitch(r)
    <2>1. pc'[r] = "failed" /\ pending'[r] # None
        BY <1>0, <1>1, <1>3 DEF Forward, MaySwitch, Raise, TypeOK
    <2> QED BY <2>1 DEF Live, Dead, Submitting
<1> QED BY <1>2, <1>3

\* The cache is full for a host exactly where the itinerary says so.
LEMMA FullAt ==
    ASSUME IInv, NEW r \in Ranks, NEW p, At(r, p), pc[r] = "trio", role[r] = 0
    PROVE  CacheFull(r) <=> Full(p)
<1>1. ~Submitting(r) /\ recipe[r] = RecipeAt(p) /\ recipe[r] \in Recipes
    BY IssuedKinds DEF At, Place, Submitting
<1>2. \A c \in Recipes : op_cache[r][c] = None <=> p.used[c] = 0
    BY <1>1 DEF At, Counted
<1>3. {c \in Recipes : op_cache[r][c] # None} = {c \in Recipes : p.used[c] # 0}
    BY <1>2
<1> QED BY <1>1, <1>2, <1>3 DEF CacheFull, Full

LEMMA HostRaises ==
    ASSUME IInv, NEW r \in Ranks, NEW path, NEW trios, Itinerary(path, trios), Ahead(r, path),
           ~QLost', SubmitFails(r) \/ TransportFails(r) \/ Shutdown(r)
    PROVE  Live(r, path)'
<1>0. TypeOK /\ Control(r) /\ Pass(r) /\ Queues /\ path \in Seq(Positions)
    BY DEF IInv, Itinerary
<1>1. CASE Shutdown(r)
    BY <1>0, <1>1 DEF Shutdown, Live, Dead, TypeOK
<1>2. CASE TransportFails(r)
    <2>1. pc[r] = "trio" /\ pc'[r] = "failed" /\ tier' = tier /\ <<r, role[r]>> \in lost'
        BY <1>0, <1>2 DEF TransportFails, Accepted, Raise, TypeOK, given
    <2>2. CASE tier = 1
        BY <1>0, <1>2, <2>2 DEF TransportFails, Cleanup, Poisons, Live, Dead, TypeOK
    <2>3. CASE tier = 2
        <3>1. role[r] # 0
            BY <2>1, <2>3 DEF QLost
        <3>2. pending' = pending /\ role[r] \in {1, 2}
            BY <1>2, <2>3, <3>1 DEF TransportFails, Cleanup, Poisons, Accepted, Roles
        <3>3. pending[r] # None
            BY <1>0, <2>1, <3>2 DEF Pass, Submitting
        <3> QED BY <2>1, <3>2, <3>3 DEF Live, Dead, Submitting
    <2> QED BY <1>0, <2>2, <2>3 DEF Queues
<1>3. CASE SubmitFails(r)
    <2>1. /\ pc[r] = "trio" /\ pc'[r] = "failed" /\ role[r] \in Roles /\ tier' = tier
          /\ request' = request /\ step_counter' = step_counter /\ op_cache' = op_cache
          /\ recipe' = recipe /\ scheduled' = scheduled
        BY <1>0, <1>3 DEF SubmitFails, Raise, TypeOK, given
    <2>2. CASE poisoned[r] \/ InputUnconsumed(r)
        <3>1. poisoned' = poisoned /\ pending' = pending
            BY <1>3, <2>2 DEF SubmitFails
        <3> QED BY <2>1, <2>2, <3>1 DEF InputUnconsumed, Live, Dead, Submitting
    <2>3. CASE ~poisoned[r] /\ ~InputUnconsumed(r)
        <3>1. (OutOfOrder(r) \/ CacheFull(r)) /\ Cleanup(r)
            BY <1>3, <2>3 DEF SubmitFails
        <3>2. ~OutOfOrder(r)
            <4> SUFFICES ASSUME role[r] > 0 PROVE pending[r] # None /\ pending[r].next_role = role[r]
                BY DEF OutOfOrder
            <4> QED BY <1>0, <2>1 DEF Pass, Submitting, Roles
        <3>3. CacheFull(r) /\ role[r] = 0
            BY <3>1, <3>2 DEF CacheFull
        <3>4. CASE tier = 1
            BY <1>0, <3>1, <3>4 DEF Cleanup, Poisons, Live, Dead, TypeOK
        <3>5. CASE tier = 2
            <4>1. pending' = pending /\ poisoned' = poisoned /\ pending[r] = None
                BY <2>3, <3>1, <3>3, <3>5 DEF Cleanup, Poisons, InputUnconsumed
            <4>2. ~Dead(r) /\ ~Submitting(r) /\ ~Submitting(r)'
                BY <2>1, <2>3, <3>3, <4>1 DEF Dead, Submitting
            <4>3. PICK n \in 1 .. Len(path) - 1 : At(r, path[n])
                BY <4>2 DEF Ahead
            <4>4. /\ n + 1 \in 1 .. Len(path) /\ path[n] \in Positions
                  /\ path[n + 1] = Following(path[n])
                BY <1>0 DEF Itinerary
            <4>5. Full(path[n])
                BY <2>1, <3>3, <4>3, FullAt
            <4>6. /\ path[n + 1].request = path[n].request + 1 /\ path[n + 1].step = 1
                  /\ path[n + 1].counter = CounterAfter(path[n])
                  /\ \A c \in Recipes : path[n + 1].used[c] = path[n].used[c]
                <5>1. scheduled \in BOOLEAN
                    BY <1>0 DEF Queues
                <5>2. path[n].used \in [Recipes -> Nat]
                    BY <4>4, <5>1, PositionKinds
                <5> QED BY <4>4, <4>5, <5>2 DEF Following, UsedAfter
            <4>7. Place(r, path[n + 1])'
                <5>1. path[n].request = request[r] /\ step_counter[r] = CounterAfter(path[n])
                    BY <2>1, <4>3 DEF At, Place, TrioAt, Trio
                <5> QED BY <2>1, <4>2, <4>6, <5>1 DEF Place
            <4>8. Counted(r, path[n + 1])'
                BY <2>1, <4>2, <4>3, <4>6 DEF At, Counted, Issued, Adds
            <4> QED BY <4>4, <4>7, <4>8 DEF Live, At
        <3> QED BY <1>0, <3>4, <3>5 DEF Queues
    <2> QED BY <2>2, <2>3
<1> QED BY <1>1, <1>2, <1>3

-----------------------------------------------------------------------------
(* Submitting a role *)

\* What a submission adds to the epochs of its rank, and to its side stream.
NewJob(r, j, kind) ==
    /\ side'[r][j].kind = kind /\ side'[r][j].slot = NextSlot(r)
    /\ side'[r][j].epoch = NextEpoch(r) /\ side'[r][j].trio = Trio(r)
    /\ side'[r][j].after = AfterProducer(r)

LEMMA SubmitHost ==
    ASSUME IInv, NEW r \in Ranks, NEW trios, Streams(r, trios), Submit(r)
    PROVE  /\ ~Dead(r) /\ ~poisoned[r] /\ pc[r] = "trio" /\ pc'[r] = "trio"
           /\ role[r] \in Roles /\ role'[r] = role[r] + 1 /\ recipe[r] \in Recipes
           /\ Submitting(r)' /\ Trio(r)' = Trio(r) /\ recipe'[r] = recipe[r]
           /\ NextEpoch(r) = Issued(r, recipe[r], role[r]) + 1
           /\ \A c \in Recipes : op_cache'[r][c] = None <=> op_cache[r][c] = None /\ c # recipe[r]
           /\ \A c \in Recipes, k \in Roles : Issued(r, c, k)' =
                 IF c = recipe[r] /\ k = role[r] THEN Issued(r, c, k) + 1 ELSE Issued(r, c, k)
<1>0. TypeOK
    BY DEF IInv
<1>1. /\ recipe[r] \in Recipes /\ role[r] \in Roles /\ pc[r] = "trio" /\ ~poisoned[r]
      /\ [Epochs(r) EXCEPT ![role[r]] = NextEpoch(r)] \in [Roles -> Nat]
    BY SubmitQueues DEF Submit, Accepted
<1>2. pc'[r] = "trio" /\ role'[r] = role[r] + 1 /\ recipe'[r] = recipe[r] /\ Trio(r)' = Trio(r)
    BY <1>0, <1>1 DEF Submit, TypeOK, Trio
<1>3. ~Dead(r)
    <2>1. ~Submitting(r) => pending[r] = None
        BY <1>1 DEF Submitting, Submit, Accepted, InputUnconsumed, Roles
    <2> QED BY <1>1, <2>1 DEF Dead
<1>4. Submitting(r)'
    BY <1>1, <1>2 DEF Submitting, Roles
<1>5. \A k \in Roles : Epochs(r)[k] = Issued(r, recipe[r], k)
    BY DEF Epochs, Issued
<1>6. NextEpoch(r) = Issued(r, recipe[r], role[r]) + 1
    BY <1>1, <1>5 DEF NextEpoch
<1>7. Epochs(r) \in [Roles -> Nat]
    BY <1>0, <1>1 DEF TypeOK, Epochs
<1> DEFINE m == [Epochs(r) EXCEPT ![role[r]] = NextEpoch(r)]
<1>8. op_cache'[r] = [op_cache[r] EXCEPT ![recipe[r]] = m]
    BY <1>0 DEF Submit, TypeOK
<1>9. m # None /\ \A k \in Roles : m[k] = IF k = role[r] THEN NextEpoch(r) ELSE Epochs(r)[k]
    BY <1>1, <1>7, NoneAssumption
<1>10. op_cache[r] \in [Recipes -> [Roles -> Nat] \union {None}]
    BY <1>0 DEF TypeOK
<1> HIDE DEF m
<1>11. \A c \in Recipes : op_cache'[r][c] = IF c = recipe[r] THEN m ELSE op_cache[r][c]
    BY <1>1, <1>8, <1>10
<1>12. \A c \in Recipes : op_cache'[r][c] = None <=> op_cache[r][c] = None /\ c # recipe[r]
    BY <1>9, <1>11
<1>13. \A c \in Recipes, k \in Roles : Issued(r, c, k)' =
           IF c = recipe[r] /\ k = role[r] THEN Issued(r, c, k) + 1 ELSE Issued(r, c, k)
    BY <1>5, <1>6, <1>9, <1>11 DEF Issued
<1> QED BY <1>1, <1>2, <1>3, <1>4, <1>6, <1>12, <1>13

LEMMA SubmitSide ==
    ASSUME IInv, NEW r \in Ranks, Submit(r)
    PROVE  /\ Len(side'[r]) = Len(side[r]) + 3
           /\ \A j \in 1 .. Len(side[r]) : side'[r][j] = side[r][j]
           /\ NewJob(r, Len(side[r]) + 1, "announce") /\ NewJob(r, Len(side[r]) + 2, "send")
           /\ NewJob(r, Len(side[r]) + 3, "receive")
           /\ NextSlot(r) = <<recipe[r], NextEpoch(r) % NumBuffers, role[r]>>
           /\ NextSlot(r)[1] = recipe[r] /\ NextSlot(r)[2] = NextEpoch(r) % NumBuffers
           /\ NextSlot(r)[3] = role[r]
<1>1. /\ side[r] \in Seq(Jobs)
      /\ <<Job(r, "announce"), Job(r, "send"), Job(r, "receive")>> \in Seq(Jobs)
    BY SubmitQueues DEF IInv, Queues
<1>2. side'[r] = side[r] \o <<Job(r, "announce"), Job(r, "send"), Job(r, "receive")>>
    BY DEF Submit, IInv, Queues
<1>3. /\ Len(side'[r]) = Len(side[r]) + 3
      /\ \A j \in 1 .. Len(side[r]) : side'[r][j] = side[r][j]
      /\ side'[r][Len(side[r]) + 1] = Job(r, "announce")
      /\ side'[r][Len(side[r]) + 2] = Job(r, "send")
      /\ side'[r][Len(side[r]) + 3] = Job(r, "receive")
    <2> DEFINE a == Job(r, "announce") b == Job(r, "send") c == Job(r, "receive")
    <2>1. /\ side'[r] = side[r] \o <<a, b, c>> /\ side[r] \in Seq(Jobs)
          /\ a \in Jobs /\ b \in Jobs /\ c \in Jobs
        <3>1. <<a, b, c>> \in Seq(Jobs)
            BY <1>1
        <3> HIDE DEF a, b, c
        <3>2. a \in Jobs /\ b \in Jobs /\ c \in Jobs
            BY <3>1
        <3>3. side'[r] = side[r] \o <<a, b, c>>
            BY <1>2 DEF a, b, c
        <3> QED BY <1>1, <3>2, <3>3
    <2> HIDE DEF a, b, c
    <2>2. /\ Len(side'[r]) = Len(side[r]) + 3
          /\ \A j \in 1 .. Len(side[r]) : side'[r][j] = side[r][j]
          /\ side'[r][Len(side[r]) + 1] = a /\ side'[r][Len(side[r]) + 2] = b
          /\ side'[r][Len(side[r]) + 3] = c
        BY <2>1
    <2> QED BY <2>2 DEF a, b, c
<1>4. /\ NextSlot(r) = <<recipe[r], NextEpoch(r) % NumBuffers, role[r]>>
      /\ NextSlot(r)[1] = recipe[r] /\ NextSlot(r)[2] = NextEpoch(r) % NumBuffers
      /\ NextSlot(r)[3] = role[r]
    BY DEF NextSlot
<1> QED BY <1>3, <1>4 DEF NewJob, Job

\* A job of the side stream behind a submission is an old one or one of its three.
LEMMA SubmitJobs ==
    ASSUME IInv, NEW r \in Ranks, NEW trios, Streams(r, trios), Submit(r)
    PROVE  \A kind, c, k, j :
             /\ j \in 1 .. Len(side[r]) => IsJob(r, j, kind, c, k)' = IsJob(r, j, kind, c, k)
             /\ IsJob(r, j, kind, c, k)' /\ j \notin 1 .. Len(side[r]) =>
                  /\ c = recipe[r] /\ k = role[r] /\ side'[r][j].epoch = NextEpoch(r)
                  /\ side'[r][j].trio = Trio(r) /\ side'[r][j].slot = NextSlot(r)
                  /\ side'[r][j].after = AfterProducer(r)
                  /\ kind = "announce" => j = Len(side[r]) + 1
                  /\ kind = "send" => j = Len(side[r]) + 2
                  /\ kind = "receive" => j = Len(side[r]) + 3
<1> TAKE kind, c, k, j
<1>1. Len(side[r]) \in Nat
    BY JobKinds DEF IInv
<1>2. j \in 1 .. Len(side[r]) => IsJob(r, j, kind, c, k)' = IsJob(r, j, kind, c, k)
    BY <1>1, SubmitSide DEF IsJob
<1>3. ASSUME IsJob(r, j, kind, c, k)', j \notin 1 .. Len(side[r])
      PROVE  /\ c = recipe[r] /\ k = role[r] /\ side'[r][j].epoch = NextEpoch(r)
             /\ side'[r][j].trio = Trio(r) /\ side'[r][j].slot = NextSlot(r)
             /\ side'[r][j].after = AfterProducer(r)
             /\ kind = "announce" => j = Len(side[r]) + 1
             /\ kind = "send" => j = Len(side[r]) + 2
             /\ kind = "receive" => j = Len(side[r]) + 3
    <2>1. /\ j \in 1 .. Len(side[r]) + 3 /\ side'[r][j].kind = kind
          /\ side'[r][j].slot[1] = c /\ side'[r][j].slot[3] = k
        BY <1>3, SubmitSide DEF IsJob
    <2>2. j \in {Len(side[r]) + 1, Len(side[r]) + 2, Len(side[r]) + 3}
        BY <1>1, <1>3, <2>1
    <2>3. PICK new \in {"announce", "send", "receive"} :
             /\ NewJob(r, j, new)
             /\ new = "announce" => j = Len(side[r]) + 1
             /\ new = "send" => j = Len(side[r]) + 2
             /\ new = "receive" => j = Len(side[r]) + 3
        BY <2>2, SubmitSide
    <2>4. kind = new /\ c = recipe[r] /\ k = role[r]
        BY <2>1, <2>3, SubmitSide DEF NewJob
    <2> QED BY <2>3, <2>4 DEF NewJob
<1> QED BY <1>2, <1>3

LEMMA HostSubmits ==
    ASSUME IInv, NEW r \in Ranks, NEW path, NEW trios, Itinerary(path, trios), Live(r, path),
           Streams(r, trios), Submit(r)
    PROVE  \E n \in 1 .. Len(path) : /\ At(r, path[n]) /\ At(r, path[n])' /\ ~Full(path[n])
                                     /\ TrioAt(path[n]) = Trio(r) /\ recipe[r] = RecipeAt(path[n])
                                     /\ Issued(r, recipe[r], role[r]) = path[n].used[recipe[r]]
<1>1. /\ ~Dead(r) /\ pc[r] = "trio" /\ pc'[r] = "trio" /\ role[r] \in Roles /\ recipe[r] \in Recipes
      /\ role'[r] = role[r] + 1 /\ Submitting(r)' /\ Trio(r)' = Trio(r) /\ recipe'[r] = recipe[r]
      /\ \A c \in Recipes : op_cache'[r][c] = None <=> op_cache[r][c] = None /\ c # recipe[r]
      /\ \A c \in Recipes, k \in Roles : Issued(r, c, k)' =
            IF c = recipe[r] /\ k = role[r] THEN Issued(r, c, k) + 1 ELSE Issued(r, c, k)
    BY SubmitHost
<1>2. PICK n \in 1 .. Len(path) : At(r, path[n])
    BY <1>1 DEF Live
<1>3. scheduled' = scheduled /\ step_counter' = step_counter
    BY DEF Submit, given
<1>4. ~Full(path[n])
    <2>1. CASE role[r] = 0
        BY <1>1, <1>2, <2>1, FullAt DEF Submit, Accepted
    <2>2. CASE role[r] # 0
        BY <1>1, <1>2, <2>2 DEF At, Place, Submitting, Roles
    <2> QED BY <2>1, <2>2
<1>5. TrioAt(path[n]) = Trio(r) /\ recipe[r] = RecipeAt(path[n])
    BY <1>1, <1>2 DEF At, Place
<1>6. Place(r, path[n])'
    BY <1>1, <1>2, <1>3, <1>4, <1>5 DEF At, Place, CounterAfter, RecipeAt, Full, TrioAt
<1>7. path[n] \in Positions /\ path[n].used \in [Recipes -> Nat]
    BY SMTT(30), PositionKinds DEF Itinerary, IInv, Queues
<1>8. Counted(r, path[n])'
    <2> SUFFICES ASSUME NEW c \in Recipes
                 PROVE  /\ op_cache'[r][c] = None <=> path[n].used[c] = 0 /\ c # recipe[r]
                        /\ \A k \in Roles : Issued(r, c, k)' = path[n].used[c] + Adds(r, c, k)'
        BY <1>1 DEF Counted
    <2>1. op_cache'[r][c] = None <=> path[n].used[c] = 0 /\ c # recipe[r]
        BY <1>1, <1>2 DEF At, Counted
    <2>2. ASSUME NEW k \in Roles PROVE Issued(r, c, k)' = path[n].used[c] + Adds(r, c, k)'
        <3>1. Issued(r, c, k) = path[n].used[c] + Adds(r, c, k)
            BY <1>2 DEF At, Counted
        <3>2. Adds(r, c, k) = IF c = recipe[r] /\ k < role[r] THEN 1 ELSE 0
            BY <1>1 DEF Adds, Submitting, Roles
        <3>3. Adds(r, c, k)' = IF c = recipe[r] /\ k < role[r] + 1 THEN 1 ELSE 0
            BY <1>1 DEF Adds
        <3>4. path[n].used[c] \in Nat
            BY <1>7
        <3> QED BY <1>1, <3>1, <3>2, <3>3, <3>4 DEF Roles
    <2> QED BY <2>1, <2>2
<1>9. Issued(r, recipe[r], role[r]) = path[n].used[recipe[r]]
    <2>1. Adds(r, recipe[r], role[r]) = 0
        BY <1>1 DEF Adds, Roles
    <2> QED BY <1>1, <1>2, <1>7, <2>1 DEF At, Counted
<1> QED BY <1>2, <1>4, <1>5, <1>6, <1>8, <1>9 DEF At

LEMMA SubmitOrdered ==
    ASSUME IInv, NEW r \in Ranks, NEW path, NEW trios, Itinerary(path, trios), Live(r, path),
           Streams(r, trios), Submit(r)
    PROVE  Labelled(r, trios)' /\ Ordered(r)'
<1> DEFINE L == Len(side[r])
           c0 == recipe[r]
           k0 == role[r]
<1>1. /\ pc[r] = "trio" /\ pc'[r] = "trio" /\ k0 \in Roles /\ c0 \in Recipes
      /\ NextEpoch(r) = Issued(r, c0, k0) + 1
      /\ \A c \in Recipes, k \in Roles : Issued(r, c, k)' =
            IF c = c0 /\ k = k0 THEN Issued(r, c, k) + 1 ELSE Issued(r, c, k)
      /\ \A c \in Recipes, k \in Roles : Issued(r, c, k) \in Nat
    BY SubmitHost, IssuedKinds
<1>2. Labelled(r, trios) /\ Ordered(r) /\ L \in Nat
    BY JobKinds DEF Streams, IInv
<1>3. PICK n \in 1 .. Len(path) : /\ ~Full(path[n]) /\ TrioAt(path[n]) = Trio(r)
                                  /\ c0 = RecipeAt(path[n])
                                  /\ Issued(r, c0, k0) = path[n].used[c0]
    BY HostSubmits
<1>4. NextEpoch(r) \in 1 .. Len(trios[c0]) /\ trios[c0][NextEpoch(r)] = Trio(r)
    BY <1>1, <1>3 DEF Itinerary
<1>11. pc[r] # "shut"
    BY <1>1
<1>5. Labelled(r, trios)'
    <2> SUFFICES ASSUME NEW j \in 1 .. L + 3
                 PROVE  /\ side'[r][j].epoch \in 1 .. Len(trios[side'[r][j].slot[1]])
                        /\ side'[r][j].trio = trios[side'[r][j].slot[1]][side'[r][j].epoch]
                        /\ side'[r][j].slot[2] = side'[r][j].epoch % NumBuffers
        BY SubmitSide DEF Labelled
    <2>1. CASE j \in 1 .. L
        BY ZenonT(30), <1>2, <2>1, SubmitSide DEF Labelled
    <2>2. CASE j \notin 1 .. L
        <3>1. j \in {L + 1, L + 2, L + 3}
            BY <1>2, <2>2
        <3>2. \E new : NewJob(r, j, new)
            BY <3>1, SubmitSide
        <3> QED BY <1>4, <3>2, SubmitSide DEF NewJob
    <2> QED BY <2>1, <2>2
<1>6. published' = published /\ put' = put
    BY DEF Submit
<1>7. ASSUME NEW c \in Recipes, NEW k \in Roles
      PROVE  /\ published'[r][<<c, k>>] <= Issued(r, c, k)' /\ put'[r][<<c, k>>] <= Issued(r, c, k)'
             /\ \A kind \in Kinds, j \in 1 .. Len(side'[r]) :
                    IsJob(r, j, kind, c, k)' => side'[r][j].epoch <= Issued(r, c, k)'
    <2>1. /\ published[r][<<c, k>>] \in Nat /\ put[r][<<c, k>>] \in Nat
          /\ published[r][<<c, k>>] <= Issued(r, c, k) /\ put[r][<<c, k>>] <= Issued(r, c, k)
          /\ \A kind \in Kinds, j \in 1 .. L :
                IsJob(r, j, kind, c, k) => side[r][j].epoch <= Issued(r, c, k)
        <3>1. published[r][<<c, k>>] \in Nat /\ put[r][<<c, k>>] \in Nat
            BY DEF IInv, TypeOK, Channels
        <3>2. published[r][<<c, k>>] <= Issued(r, c, k) /\ put[r][<<c, k>>] <= Issued(r, c, k)
            BY <1>2, <1>11 DEF Ordered
        <3>3. \A kind \in Kinds, j \in 1 .. L :
                IsJob(r, j, kind, c, k) => side[r][j].epoch <= Issued(r, c, k)
            BY <1>2, <1>11 DEF Ordered
        <3> QED BY <3>1, <3>2, <3>3
    <2>2. Issued(r, c, k) <= Issued(r, c, k)' /\ Issued(r, c, k)' \in Nat
        BY <1>1
    <2>3. ASSUME NEW kind \in Kinds, NEW j \in 1 .. Len(side'[r]), IsJob(r, j, kind, c, k)'
          PROVE  side'[r][j].epoch <= Issued(r, c, k)'
        <3>1. CASE j \in 1 .. L
            <4>1. IsJob(r, j, kind, c, k) /\ side'[r][j] = side[r][j] /\ side[r][j].epoch \in Nat
                <5>1. side'[r][j] = side[r][j] /\ side[r][j].epoch \in Nat
                    BY <3>1, SubmitSide, JobKinds DEF IInv
                <5>2. IsJob(r, j, kind, c, k)
                    BY <2>3, <3>1, SubmitJobs
                <5> QED BY <5>1, <5>2
            <4>2. side[r][j].epoch <= Issued(r, c, k)
                BY <2>1, <3>1, <4>1
            <4>3. Issued(r, c, k) \in Nat
                BY <1>1
            <4> QED BY <2>2, <4>1, <4>2, <4>3
        <3>2. CASE j \notin 1 .. L
            <4>1. c = c0 /\ k = k0 /\ side'[r][j].epoch = NextEpoch(r)
                BY <2>3, <3>2, SubmitJobs
            <4> QED BY <1>1, <4>1
        <3> QED BY <3>1, <3>2
    <2> QED BY SMTT(30), <1>1, <1>6, <2>1, <2>2, <2>3
<1>8. ASSUME NEW c \in Recipes, NEW k \in Roles, NEW kind \in Kinds,
             NEW j \in 1 .. Len(side'[r]), NEW i \in 1 .. Len(side'[r]),
             IsJob(r, j, kind, c, k)', IsJob(r, i, kind, c, k)', i < j
      PROVE  side'[r][i].epoch < side'[r][j].epoch
    <2>1. CASE j \in 1 .. L
        <3>1. /\ i \in 1 .. L /\ IsJob(r, i, kind, c, k) /\ IsJob(r, j, kind, c, k)
              /\ side'[r][i] = side[r][i] /\ side'[r][j] = side[r][j]
            <4>1. i \in 1 .. L
                BY <1>2, <1>8, <2>1
            <4> QED BY <1>8, <2>1, <4>1, SubmitJobs, SubmitSide
        <3> QED BY <1>2, <1>8, <2>1, <3>1 DEF Ordered
    <2>2. CASE j \notin 1 .. L
        <3>1. /\ c = c0 /\ k = k0 /\ side'[r][j].epoch = NextEpoch(r)
              /\ kind = "announce" => j = L + 1
              /\ kind = "send" => j = L + 2
              /\ kind = "receive" => j = L + 3
            BY <1>8, <2>2, SubmitJobs
        <3>2. i \in 1 .. L
            <4> SUFFICES ASSUME i \notin 1 .. L PROVE FALSE
                OBVIOUS
            <4>1. /\ kind = "announce" => i = L + 1
                  /\ kind = "send" => i = L + 2
                  /\ kind = "receive" => i = L + 3
                BY <1>8, SubmitJobs
            <4>2. kind = "announce" \/ kind = "send" \/ kind = "receive"
                BY DEF Kinds
            <4>3. i = j
                BY <3>1, <4>1, <4>2
            <4>4. Len(side'[r]) \in Nat
                BY <1>2, SubmitSide
            <4> QED BY <1>8, <4>3, <4>4
        <3>3. IsJob(r, i, kind, c, k) /\ side'[r][i] = side[r][i] /\ side[r][i].epoch \in Nat
            BY SMTT(30), <1>8, <3>2, SubmitJobs, SubmitSide, JobKinds DEF IInv
        <3>4. side[r][i].epoch <= Issued(r, c, k)
            BY <1>1, <1>2, <3>2, <3>3 DEF Ordered
        <3> QED BY <1>1, <3>1, <3>3, <3>4
    <2> QED BY <2>1, <2>2
<1>9. ASSUME NEW c \in Recipes, NEW k \in Roles, NEW j \in 1 .. Len(side'[r])
      PROVE  /\ IsJob(r, j, "announce", c, k)' => published'[r][<<c, k>>] < side'[r][j].epoch
             /\ IsJob(r, j, "send", c, k)' => put'[r][<<c, k>>] < side'[r][j].epoch
    <2>1. CASE j \in 1 .. L
        <3>1. \A kind : IsJob(r, j, kind, c, k)' = IsJob(r, j, kind, c, k)
            BY <2>1, SubmitJobs
        <3>2. side'[r][j] = side[r][j]
            BY <2>1, SubmitSide
        <3>3. /\ IsJob(r, j, "announce", c, k) => published[r][<<c, k>>] < side[r][j].epoch
              /\ IsJob(r, j, "send", c, k) => put[r][<<c, k>>] < side[r][j].epoch
            BY <1>2, <2>1 DEF Ordered
        <3> QED BY <1>6, <3>1, <3>2, <3>3
    <2>2. CASE j \notin 1 .. L
        <3>1. /\ published[r][<<c, k>>] \in Nat /\ put[r][<<c, k>>] \in Nat
              /\ published[r][<<c, k>>] <= Issued(r, c, k) /\ put[r][<<c, k>>] <= Issued(r, c, k)
            <4>1. published[r][<<c, k>>] \in Nat /\ put[r][<<c, k>>] \in Nat
                BY DEF IInv, TypeOK, Channels
            <4> QED BY <1>2, <1>11, <4>1 DEF Ordered
        <3>2. IsJob(r, j, "announce", c, k)' \/ IsJob(r, j, "send", c, k)' =>
                 c = c0 /\ k = k0 /\ side'[r][j].epoch = NextEpoch(r)
            BY <2>2, SubmitJobs
        <3> QED BY <1>1, <1>6, <3>1, <3>2
    <2> QED BY <2>1, <2>2
<1>10. Ordered(r)'
    BY SMTT(30), <1>1, <1>7, <1>8, <1>9 DEF Ordered
<1> QED BY <1>5, <1>10

\* A submission leaves what was queued before it where it was.
LEMMA SubmitKeeps ==
    ASSUME IInv, NEW r \in Ranks, NEW trios, Streams(r, trios), Submit(r),
           NEW c \in Recipes, NEW k \in Roles, NEW e \in Nat, NEW n \in Nat, Arrives(r, c, k, e, n)
    PROVE  Arrives(r, c, k, e, n)'
<1>1. put' = put /\ side_done' = side_done /\ Len(side[r]) \in Nat
    BY JobKinds DEF Submit, IInv
<1>2. CASE \A q \in Ranks : put[q][<<c, k>>] >= e
    BY <1>1, <1>2 DEF Arrives
<1>3. CASE \E j \in 1 .. Len(side[r]) :
              IsJob(r, j, "receive", c, k) /\ side[r][j].epoch = e /\ n = side_done[r] + j
    <2>1. PICK j \in 1 .. Len(side[r]) :
              IsJob(r, j, "receive", c, k) /\ side[r][j].epoch = e /\ n = side_done[r] + j
        BY <1>3
    <2>2. /\ j \in 1 .. Len(side'[r]) /\ IsJob(r, j, "receive", c, k)'
          /\ side'[r][j].epoch = e /\ n = side_done'[r] + j
        BY <1>1, <2>1, SubmitJobs, SubmitSide
    <2> QED BY <2>2 DEF Arrives
<1> QED BY <1>2, <1>3 DEF Arrives

LEMMA SubmitReadable ==
    ASSUME IInv, NEW r \in Ranks, NEW trios, Streams(r, trios), Submit(r)
    PROVE  Readable(r, trios)'
<1>1. /\ published' = published /\ side_done' = side_done /\ compute' = compute
      /\ compute_done' = compute_done
    BY DEF Submit
<1> SUFFICES ASSUME NEW a \in 1 .. Len(compute[r]), compute[r][a].kind = "read"
             PROVE  Served(r, trios, a)'
    BY <1>1 DEF Readable
<1>2. PICK c \in Recipes : \E e \in 1 .. Len(trios[c]) :
          compute[r][a].trio = trios[c][e] /\ \A k \in Roles : Fresh(r, a, c, k, e)
    BY DEF Streams, Readable, Served
<1>3. PICK e \in 1 .. Len(trios[c]) :
          compute[r][a].trio = trios[c][e] /\ \A k \in Roles : Fresh(r, a, c, k, e)
    BY <1>2
<1>4. ASSUME NEW k \in Roles PROVE Fresh(r, a, c, k, e)'
    <2>1. PICK n \in Nat : Arrives(r, c, k, e, n) /\ AwaitedBefore(r, n, a)
        BY <1>3 DEF Fresh
    <2>2. Arrives(r, c, k, e, n)'
        BY <2>1, SubmitKeeps
    <2>3. AwaitedBefore(r, n, a)'
        BY <1>1, <2>1 DEF AwaitedBefore
    <2>4. Kept(r, c, k, e, a)'
        <3>1. Kept(r, c, k, e, a)
            BY <1>3 DEF Fresh
        <3> SUFFICES ASSUME NEW j \in 1 .. Len(side'[r]), IsJob(r, j, "announce", c, k)',
                            side'[r][j].epoch > e
                     PROVE  compute_done'[r] + a <= side'[r][j].after
            BY <1>1, <3>1 DEF Kept
        <3>2. CASE j \in 1 .. Len(side[r])
            BY SMTT(30), <1>1, <3>1, <3>2, SubmitJobs, SubmitSide DEF Kept
        <3>3. CASE j \notin 1 .. Len(side[r])
            <4>1. side'[r][j].after = compute_done[r] + Len(compute[r])
                BY <3>3, SubmitJobs DEF AfterProducer
            <4>2. compute_done[r] \in Nat /\ Len(compute[r]) \in Nat
                BY JobKinds DEF IInv
            <4> QED BY <1>1, <4>1, <4>2
        <3> QED BY <3>2, <3>3
    <2> QED BY <1>1, <1>3, <2>2, <2>3, <2>4 DEF Fresh
<1> QED BY <1>1, <1>3, <1>4 DEF Served

LEMMA SubmitUnderway ==
    ASSUME IInv, NEW r \in Ranks, NEW trios, Streams(r, trios), Submit(r)
    PROVE  Underway(r)'
<1> DEFINE c0 == recipe[r]
           event == side_done[r] + Len(side[r]) + 3
<1>1. /\ ~poisoned[r] /\ pc[r] = "trio" /\ role[r] \in Roles /\ role'[r] = role[r] + 1
      /\ recipe[r] \in Recipes /\ recipe'[r] = recipe[r] /\ Submitting(r)'
      /\ NextEpoch(r) = Issued(r, c0, role[r]) + 1
      /\ \A k \in Roles : Issued(r, c0, k)' =
            IF k = role[r] THEN Issued(r, c0, k) + 1 ELSE Issued(r, c0, k)
      /\ \A k \in Roles : Issued(r, c0, k) \in Nat
    BY SubmitHost, IssuedKinds
<1>2. /\ tier' = tier /\ poisoned' = poisoned /\ compute' = compute /\ side_done' = side_done
      /\ taken' = taken /\ put' = put
    BY DEF Submit, given
<1>3. /\ Len(side'[r]) = Len(side[r]) + 3 /\ Len(side[r]) \in Nat /\ side_done[r] \in Nat
      /\ event \in Nat
    BY SubmitSide, JobKinds DEF IInv
<1>4. /\ outputs[r] \in Seq(Slots) /\ Len(outputs[r]) = role[r]
      /\ outputs'[r] = Append(outputs[r], NextSlot(r)) /\ NextSlot(r) \in Slots
    BY <1>1, SubmitQueues DEF IInv, TypeOK, Pass, Submit
<1>5. /\ outputs'[r][role[r] + 1] = NextSlot(r)
      /\ \A k \in Roles : k < role[r] => outputs'[r][k + 1] = outputs[r][k + 1]
    BY <1>1, <1>4 DEF Roles
<1>6. role[r] > 0 => /\ \A k \in Roles : k < role[r] => OnItsWay(r, k)
                     /\ tier = 2 => Covering(r) /\ Len(trio_waits[r].events) = role[r]
    BY <1>1 DEF Streams, Underway, Submitting, IInv, Pass
<1>7. tier = 2 => /\ trio_waits'[r].events[role[r] + 1] = event
                  /\ role[r] = 0 => trio_waits'[r].waited = 0
                  /\ role[r] > 0 =>
                       /\ trio_waits'[r].waited = trio_waits[r].waited
                       /\ \A k \in Roles : k < role[r] =>
                            trio_waits'[r].events[k + 1] = trio_waits[r].events[k + 1]
    <2> SUFFICES ASSUME tier = 2
                 PROVE  /\ trio_waits'[r].events[role[r] + 1] = event
                        /\ role[r] = 0 => trio_waits'[r].waited = 0
                        /\ role[r] > 0 =>
                             /\ trio_waits'[r].waited = trio_waits[r].waited
                             /\ \A k \in Roles : k < role[r] =>
                                  trio_waits'[r].events[k + 1] = trio_waits[r].events[k + 1]
        OBVIOUS
    <2>1. trio_waits'[r] = NextEvents(r) /\ ReceiveEvent(r) = event
        BY DEF Submit, IInv, TypeOK, ReceiveEvent
    <2>2. CASE role[r] = 0
        BY <2>1, <2>2 DEF NextEvents
    <2>3. CASE role[r] # 0
        <3>1. /\ trio_waits[r] \in [events : Seq(Nat), waited : 0 .. 3]
              /\ NextEvents(r) = [trio_waits[r] EXCEPT !.events = Append(@, event)]
            BY <2>1, <2>3 DEF NextEvents, IInv, TypeOK
        <3>2. /\ trio_waits'[r].waited = trio_waits[r].waited
              /\ trio_waits'[r].events = Append(trio_waits[r].events, event)
              /\ trio_waits[r].events \in Seq(Nat)
            BY <2>1, <3>1
        <3>3. Len(trio_waits[r].events) = role[r]
            BY <1>1, <1>6, <2>3 DEF Roles
        <3>4. PICK before \in Seq(Nat), e \in Nat :
                  before = trio_waits[r].events /\ e = event /\ Len(before) = role[r]
            BY <1>3, <3>2, <3>3
        <3>5. trio_waits'[r].events = Append(before, e)
            BY <3>2, <3>4
        <3>6. trio_waits'[r].events[role[r] + 1] = event
            BY <3>4, <3>5
        <3>7. ASSUME NEW k \in Roles, k < role[r]
              PROVE  trio_waits'[r].events[k + 1] = trio_waits[r].events[k + 1]
            <4>1. k + 1 \in 1 .. Len(before)
                BY <3>4, <3>7, <1>1 DEF Roles
            <4> QED BY <3>4, <3>5, <4>1
        <3> QED BY <2>3, <3>2, <3>6, <3>7
    <2> QED BY <2>2, <2>3
<1>8. ASSUME NEW k \in Roles, k < role'[r] PROVE OnItsWay(r, k)'
    <2>1. CASE k = role[r]
        <3>1. PICK c \in Recipes, e \in Nat, n \in Nat :
                  c = recipe[r] /\ e = NextEpoch(r) /\ n = event
            BY <1>1, <1>3, <2>1
        <3>2. Issued(r, recipe[r], k)' = e /\ outputs'[r][k + 1] = <<c, e % NumBuffers, k>>
            BY <1>1, <1>5, <2>1, <3>1, SubmitSide
        <3>3. Arrives(r, c, k, e, n)'
            <4>0. /\ Len(side[r]) + 3 \in 1 .. Len(side'[r])
                  /\ n = side_done'[r] + (Len(side[r]) + 3)
                BY <1>2, <1>3, <3>1
            <4>1. PICK j \in 1 .. Len(side'[r]) :
                      j = Len(side[r]) + 3 /\ n = side_done'[r] + j
                BY <4>0
            <4>2. /\ side'[r][j].kind = "receive" /\ side'[r][j].epoch = e
                  /\ side'[r][j].slot[1] = c /\ side'[r][j].slot[3] = k
                BY <2>1, <3>1, <4>1, SubmitSide DEF NewJob
            <4> QED BY <4>1, <4>2 DEF Arrives, IsJob
        <3>4. /\ n <= side_done'[r] + Len(side'[r])
              /\ tier = 2 => n = trio_waits'[r].events[k + 1]
            BY <1>2, <1>3, <1>7, <2>1, <3>1
        <3> QED BY <1>1, <1>2, <3>1, <3>2, <3>3, <3>4 DEF OnItsWay
    <2>2. CASE k # role[r]
        <3>1. k < role[r] /\ role[r] > 0
            BY <1>1, <1>8, <2>2 DEF Roles
        <3>2. PICK c \in Recipes, e \in Nat : c = recipe[r] /\ e = Issued(r, c, k)
            BY <1>1
        <3>3. PICK n \in Nat : /\ Arrives(r, c, k, e, n) /\ n <= side_done[r] + Len(side[r])
                               /\ tier = 2 => n = trio_waits[r].events[k + 1]
            BY <1>6, <3>1, <3>2 DEF OnItsWay
        <3>4. Arrives(r, c, k, e, n)'
            BY <3>3, SubmitKeeps
        <3>5. Issued(r, recipe[r], k)' = e /\ outputs'[r][k + 1] = <<c, e % NumBuffers, k>>
            BY <1>1, <1>5, <1>6, <2>2, <3>1, <3>2 DEF OnItsWay
        <3>6. n <= side_done'[r] + Len(side'[r]) /\ (tier = 2 => n = trio_waits'[r].events[k + 1])
            BY SMTT(30), <1>2, <1>3, <1>7, <3>1, <3>3
        <3> QED BY <1>1, <1>2, <3>2, <3>4, <3>5, <3>6 DEF OnItsWay
    <2> QED BY <2>1, <2>2
<1>9. ASSUME tier = 2 PROVE Covering(r)'
    <2>1. trio_waits[r].waited \in 0 .. 3 /\ taken[r] \in 0 .. 3 /\ taken[r] <= role[r]
        BY <1>1 DEF IInv, TypeOK, Pass
    <2>2. taken[r] <= trio_waits'[r].waited /\ trio_waits'[r].waited <= role[r] + 1
        BY <1>1, <1>6, <1>7, <1>9, <2>1 DEF Covering, Roles
    <2> SUFFICES ASSUME NEW k \in Roles, k < role'[r], NEW n, n = trio_waits'[r].events[k + 1],
                        NEW last, last = Len(compute'[r]) + 1
                 PROVE  /\ n <= side_done'[r] + Len(side'[r])
                        /\ n <= trio_waits'[r].events[role'[r]]
                        /\ k < trio_waits'[r].waited => AwaitedBefore(r, n, last)'
        BY <1>1, <1>2, <2>2 DEF Covering, AwaitedBefore
    <2>5. last = Len(compute[r]) + 1 /\ AwaitedBefore(r, n, last)' = AwaitedBefore(r, n, last)
        BY <1>2 DEF AwaitedBefore
    <2>6. trio_waits'[r].events[role'[r]] = event
        BY <1>1, <1>7, <1>9
    <2>7. side_done'[r] + Len(side'[r]) = event
        BY <1>2, <1>3
    <2> SUFFICES n <= event /\ (k < trio_waits'[r].waited => AwaitedBefore(r, n, last))
        BY <2>5, <2>6, <2>7
    <2>3. CASE k = role[r]
        <3>1. ~(k < trio_waits'[r].waited)
            BY SMTT(45), <1>1, <1>6, <1>7, <1>9, <2>1, <2>3 DEF Covering, Roles
        <3> QED BY <1>3, <1>7, <1>9, <2>3, <3>1
    <2>4. CASE k # role[r]
        <3>1. k < role[r] /\ role[r] > 0
            BY <1>1, <2>4 DEF Roles
        <3>2. n = trio_waits[r].events[k + 1] /\ n \in Nat
            <4>1. trio_waits[r].events \in Seq(Nat) /\ k + 1 \in 1 .. Len(trio_waits[r].events)
                BY SMTT(30), <1>1, <1>6, <1>9, <3>1 DEF IInv, TypeOK, Roles
            <4> QED BY SMTT(30), <1>7, <1>9, <3>1, <4>1
        <3>3. /\ n <= side_done[r] + Len(side[r])
              /\ k < trio_waits[r].waited => AwaitedBefore(r, n, last)
            BY <1>6, <1>9, <2>5, <3>1, <3>2 DEF Covering
        <3>4. side_done[r] + Len(side[r]) \in Nat
            BY JobKinds DEF IInv
        <3>5. n <= event
            BY <3>2, <3>3, <3>4
        <3>6. trio_waits'[r].waited = trio_waits[r].waited
            BY <1>7, <1>9, <3>1
        <3> QED BY <3>3, <3>5, <3>6
    <2> QED BY <2>3, <2>4
<1> QED BY <1>1, <1>2, <1>8, <1>9 DEF Underway

-----------------------------------------------------------------------------
(* Waiting for the roles, and the attention *)

\* What is queued behind the reads leaves them as they are.
LEMMA ComputeGrows ==
    ASSUME IInv, NEW r \in Ranks, side' = side, side_done' = side_done,
           compute_done' = compute_done, published' = published, put' = put,
           Len(compute'[r]) \in Nat, Len(compute[r]) <= Len(compute'[r]),
           \A i \in 1 .. Len(compute[r]) : compute'[r][i] = compute[r][i]
    PROVE  /\ \A n, a : AwaitedBefore(r, n, a) => AwaitedBefore(r, n, a)'
           /\ \A c, k, e, n, a : /\ Kept(r, c, k, e, a)' = Kept(r, c, k, e, a)
                                 /\ Arrives(r, c, k, e, n)' = Arrives(r, c, k, e, n)
           /\ \A trios : \A a \in 1 .. Len(compute[r]) : Served(r, trios, a) => Served(r, trios, a)'
<1>0. /\ Len(compute[r]) \in Nat
      /\ \A i \in 1 .. Len(compute[r]) : i \in 1 .. Len(compute'[r])
    BY JobKinds DEF IInv
<1>1. \A n, a : AwaitedBefore(r, n, a) => AwaitedBefore(r, n, a)'
    BY <1>0 DEF AwaitedBefore
<1>2. \A c, k, e, n, a : /\ Kept(r, c, k, e, a)' = Kept(r, c, k, e, a)
                         /\ Arrives(r, c, k, e, n)' = Arrives(r, c, k, e, n)
    <2>1. \A kind, j, c, k : IsJob(r, j, kind, c, k)' = IsJob(r, j, kind, c, k)
        BY DEF IsJob
    <2> QED BY <2>1 DEF Kept, Arrives
<1>3. \A c, k, e : \A a \in 1 .. Len(compute[r]) : Fresh(r, a, c, k, e) => Fresh(r, a, c, k, e)'
    BY SMTT(30), <1>1, <1>2 DEF Fresh
<1>4. \A trios : \A a \in 1 .. Len(compute[r]) : Served(r, trios, a) => Served(r, trios, a)'
    BY <1>3 DEF Served
<1> QED BY <1>1, <1>2, <1>4

\* Nothing that is queued or counted on the side stream changes.
LEMMA SideStays ==
    ASSUME NEW r \in Ranks, NEW trios, Streams(r, trios), side' = side, published' = published,
           put' = put, op_cache' = op_cache, pc[r] # "shut", pc'[r] # "shut"
    PROVE  Labelled(r, trios)' /\ Ordered(r)'
<1>1. Labelled(r, trios) /\ Ordered(r)
    BY DEF Streams
<1>2. \A kind, j, c, k : IsJob(r, j, kind, c, k)' = IsJob(r, j, kind, c, k)
    BY DEF IsJob
<1> QED BY SMTT(30), <1>1, <1>2 DEF Labelled, Ordered, Issued

\* A wait is for the next role, and waits for the newest event unless it is
\* covered.
LEMMA WaitFacts ==
    ASSUME IInv, NEW r \in Ranks, Wait(r)
    PROVE  /\ tier = 2 /\ pc[r] = "trio" /\ Submitting(r) /\ role[r] \in 1 .. 3
           /\ taken[r] \in 0 .. 2 /\ taken[r] < role[r] /\ taken'[r] = taken[r] + 1
           /\ trio_waits[r].events \in Seq(Nat) /\ Len(trio_waits[r].events) = role[r]
           /\ trio_waits[r].waited \in 0 .. 3
           /\ trio_waits'[r].events = trio_waits[r].events
           /\ trio_waits[r].waited > taken[r] =>
                compute' = compute /\ trio_waits'[r].waited = trio_waits[r].waited
           /\ ~(trio_waits[r].waited > taken[r]) =>
                /\ compute'[r] = Append(compute[r], AwaitSide(trio_waits[r].events[role[r]]))
                /\ trio_waits'[r].waited = role[r]
<1> DEFINE slot == outputs[r][taken[r] + 1]
<1>0. TypeOK /\ Queues /\ Pass(r) /\ Owned(r)
    BY DEF IInv
<1>1. /\ pc[r] = "trio" /\ tier = 2 /\ taken[r] \in 0 .. 3 /\ role[r] \in 0 .. 3
      /\ taken[r] < role[r] /\ waits[r][slot] # None
    BY <1>0 DEF Wait, TypeOK
<1>2. Submitting(r)
    BY <1>1 DEF Submitting
<1>3. outputs[r] \in Seq(Slots) /\ Len(outputs[r]) = role[r] /\ slot \in Slots
    BY <1>0, <1>1 DEF TypeOK, Pass
<1>4. waits[r][slot].role = taken[r]
    <2>1. PICK i \in taken[r] + 1 .. role[r] :
              slot = outputs[r][i] /\ waits[r][slot] = [trio |-> Trio(r), role |-> i - 1]
        BY <1>0, <1>1, <1>2, <1>3 DEF Owned
    <2>2. i \in 1 .. role[r] /\ taken[r] + 1 \in 1 .. role[r]
        BY <1>1
    <2>3. outputs[r][i][3] = i - 1 /\ slot[3] = (taken[r] + 1) - 1
        BY <1>0, <1>1, <2>2 DEF Pass
    <2> QED BY <1>1, <2>1, <2>2, <2>3
<1>5. /\ trio_waits \in [Ranks -> [events : Seq(Nat), waited : 0 .. 3]]
      /\ Len(trio_waits[r].events) = role[r] /\ taken'[r] = taken[r] + 1
    BY <1>0, <1>1, <1>2 DEF TypeOK, Pass, Wait
<1>6. CASE Covered(r, taken[r])
    BY <1>1, <1>2, <1>4, <1>5, <1>6 DEF Wait, Covered
<1>7. CASE ~Covered(r, taken[r])
    <2>1. /\ compute' = [compute EXCEPT ![r] = Append(@, AwaitSide(trio_waits[r].events[role[r]]))]
          /\ trio_waits' = [trio_waits EXCEPT ![r].waited = role[r]]
        BY <1>4, <1>5, <1>7 DEF Wait
    <2>2. compute'[r] = Append(compute[r], AwaitSide(trio_waits[r].events[role[r]]))
        BY <1>0, <2>1 DEF Queues
    <2>3. /\ trio_waits'[r].waited = role[r]
          /\ trio_waits'[r].events = trio_waits[r].events
        BY <1>5, <2>1
    <2> QED BY <1>1, <1>2, <1>5, <1>7, <2>2, <2>3 DEF Covered
<1> QED BY <1>6, <1>7

LEMMA WaitStep ==
    ASSUME IInv, NEW r \in Ranks, NEW path, NEW trios, Itinerary(path, trios), Live(r, path),
           Streams(r, trios), Wait(r)
    PROVE  Live(r, path)' /\ Streams(r, trios)'
<1>1. /\ pc' = pc /\ request' = request /\ step' = step /\ role' = role /\ outputs' = outputs
      /\ step_counter' = step_counter /\ recipe' = recipe /\ poisoned' = poisoned
      /\ op_cache' = op_cache /\ side' = side /\ compute_done' = compute_done
      /\ side_done' = side_done /\ published' = published /\ put' = put
      /\ tier' = tier /\ scheduled' = scheduled
    BY DEF Wait, given
<1>2. /\ tier = 2 /\ pc[r] = "trio" /\ Submitting(r) /\ role[r] \in 1 .. 3
      /\ taken[r] \in 0 .. 2 /\ taken[r] < role[r] /\ taken'[r] = taken[r] + 1
      /\ trio_waits[r].events \in Seq(Nat) /\ Len(trio_waits[r].events) = role[r]
      /\ trio_waits[r].waited \in 0 .. 3
      /\ trio_waits'[r].events = trio_waits[r].events
    BY WaitFacts
<1>3. Submitting(r)' = Submitting(r) /\ Trio(r)' = Trio(r)
    BY <1>1 DEF Submitting, Trio
<1>4. \A c, k : Issued(r, c, k)' = Issued(r, c, k) /\ Adds(r, c, k)' = Adds(r, c, k)
    BY <1>1, <1>3 DEF Issued, Adds
<1>5. Live(r, path)'
    <2>1. ~Dead(r)
        BY <1>2 DEF Dead, Streams, Underway
    <2>2. PICK n \in 1 .. Len(path) : At(r, path[n])
        BY <2>1 DEF Live
    <2>3. Place(r, path[n])'
        BY <1>1, <1>3, <2>2 DEF At, Place, CounterAfter, RecipeAt, TrioAt, Full
    <2>4. Counted(r, path[n])'
        BY <1>1, <1>3, <1>4, <2>2 DEF At, Counted
    <2> QED BY <2>3, <2>4 DEF Live, At
<1>6. Labelled(r, trios)' /\ Ordered(r)'
    BY <1>1, <1>2, SideStays
<1>7. /\ Len(compute[r]) \in Nat /\ Len(compute'[r]) \in Nat /\ Len(compute[r]) <= Len(compute'[r])
      /\ \A i \in 1 .. Len(compute[r]) : compute'[r][i] = compute[r][i]
      /\ \A a \in 1 .. Len(compute'[r]) : compute'[r][a].kind = "read" => a \in 1 .. Len(compute[r])
      /\ ~(trio_waits[r].waited > taken[r]) =>
            LET i == Len(compute[r]) + 1
            IN  /\ i \in 1 .. Len(compute'[r]) /\ compute'[r][i].kind = "await"
                /\ compute'[r][i].after = trio_waits[r].events[role[r]]
    <2>1. compute[r] \in Seq(Reads \union Awaits)
        BY JobKinds DEF IInv
    <2>2. CASE trio_waits[r].waited > taken[r]
        BY <2>1, <2>2, WaitFacts
    <2>3. CASE ~(trio_waits[r].waited > taken[r])
        <3> DEFINE a == AwaitSide(trio_waits[r].events[role[r]])
                   S == Reads \union Awaits
        <3>1. trio_waits[r].events[role[r]] \in Nat
            BY <1>2
        <3>2. a \in S /\ a.kind = "await" /\ a.after = trio_waits[r].events[role[r]]
            BY <3>1 DEF AwaitSide, Awaits
        <3>3. compute'[r] = Append(compute[r], a) /\ compute[r] \in Seq(S)
            BY <2>1, <2>3, WaitFacts
        <3> HIDE DEF a, S
        <3>4. /\ Len(compute'[r]) = Len(compute[r]) + 1 /\ Len(compute[r]) \in Nat
              /\ compute'[r][Len(compute[r]) + 1] = a
              /\ \A i \in 1 .. Len(compute[r]) : compute'[r][i] = compute[r][i]
            BY <3>2, <3>3
        <3>5. ASSUME NEW i \in 1 .. Len(compute'[r]), compute'[r][i].kind = "read"
              PROVE  i \in 1 .. Len(compute[r])
            <4>1. i # Len(compute[r]) + 1
                BY <3>2, <3>4, <3>5
            <4> QED BY <3>4, <3>5, <4>1
        <3> QED BY <3>2, <3>4, <3>5
    <2> QED BY <2>2, <2>3
<1>8. Readable(r, trios)'
    <2> SUFFICES ASSUME NEW a \in 1 .. Len(compute'[r]), compute'[r][a].kind = "read"
                 PROVE  Served(r, trios, a)'
        BY DEF Readable
    <2>1. a \in 1 .. Len(compute[r]) /\ compute[r][a].kind = "read"
        BY <1>7
    <2>2. Served(r, trios, a)
        BY <2>1 DEF Streams, Readable
    <2> QED BY <1>1, <1>7, <2>1, <2>2, ComputeGrows
<1>9. Underway(r)'
    <2>1. /\ ~poisoned[r] /\ Covering(r) /\ \A k \in Roles : k < role[r] => OnItsWay(r, k)
        BY <1>2 DEF Streams, Underway
    <2>2. ASSUME NEW k \in Roles, k < role[r] PROVE OnItsWay(r, k)'
        <3>1. \A c, e, n : Arrives(r, c, k, e, n)' = Arrives(r, c, k, e, n)
            BY <1>1, <1>7, ComputeGrows
        <3> QED BY <1>1, <1>2, <1>4, <2>1, <2>2, <3>1 DEF OnItsWay
    <2>3. taken[r] <= trio_waits[r].waited /\ trio_waits[r].waited <= role[r]
        BY <2>1 DEF Covering
    <2>4. taken'[r] <= trio_waits'[r].waited /\ trio_waits'[r].waited <= role[r]
        BY <1>2, <2>3, WaitFacts
    <2>5. Covering(r)'
        <3> SUFFICES ASSUME NEW k \in Roles, k < role[r], NEW n, n = trio_waits[r].events[k + 1]
                     PROVE  /\ n <= side_done[r] + Len(side[r])
                            /\ n <= trio_waits[r].events[role[r]]
                            /\ k < trio_waits'[r].waited =>
                                  \/ n <= side_done[r]
                                  \/ \E i \in 1 .. Len(compute'[r]) :
                                        i < Len(compute'[r]) + 1 /\ compute'[r][i].kind = "await"
                                        /\ n <= compute'[r][i].after
            BY <1>1, <1>2, <2>4 DEF Covering, AwaitedBefore
        <3>1. /\ n <= side_done[r] + Len(side[r]) /\ n <= trio_waits[r].events[role[r]]
              /\ k < trio_waits[r].waited => AwaitedBefore(r, n, Len(compute[r]) + 1)
            BY <2>1 DEF Covering
        <3>2. CASE trio_waits[r].waited > taken[r]
            BY <3>1, <3>2, WaitFacts DEF AwaitedBefore
        <3>3. CASE ~(trio_waits[r].waited > taken[r])
            BY <1>7, <3>1, <3>3
        <3> QED BY <3>1, <3>2, <3>3
    <2> QED BY <1>1, <2>1, <2>2, <2>5 DEF Underway
<1> QED BY <1>5, <1>6, <1>8, <1>9 DEF Streams

\* The attention is queued behind what was queued, in tier 1 behind a wait for
\* all of the side stream.
LEMMA AttendQueues ==
    ASSUME IInv, NEW r \in Ranks, Attend(r)
    PROVE  /\ Len(compute[r]) \in Nat /\ Len(compute'[r]) \in Nat
           /\ Len(compute'[r]) = Len(compute[r]) + IF tier = 2 THEN 1 ELSE 2
           /\ \A i \in 1 .. Len(compute[r]) : compute'[r][i] = compute[r][i]
           /\ compute'[r][Len(compute'[r])] = Read(r)
           /\ tier # 2 => compute'[r][Len(compute[r]) + 1] = AwaitSide(side_done[r] + Len(side[r]))
           /\ \A a \in 1 .. Len(compute'[r]) : compute'[r][a].kind = "read" =>
                 a \in 1 .. Len(compute[r]) \/ a = Len(compute'[r])
<1> DEFINE S == Reads \union Awaits
           w == AwaitSide(side_done[r] + Len(side[r]))
<1>1. /\ compute[r] \in Seq(S) /\ Len(compute[r]) \in Nat
      /\ side_done[r] + Len(side[r]) \in Nat
    BY JobKinds DEF IInv
<1>2. Trio(r) \in Trios /\ outputs[r] \in Seq(Slots)
    BY DEF IInv, Attend, Trio, Trios, TypeOK, Control
<1>3. Read(r) \in S /\ w \in S /\ w.kind = "await"
    BY <1>1, <1>2 DEF Read, Reads, AwaitSide, Awaits
<1>4. compute'[r] = compute[r] \o IF tier = 2 THEN <<Read(r)>> ELSE <<w, Read(r)>>
    BY DEF Attend, IInv, Queues
<1> HIDE DEF S, w
<1>5. CASE tier = 2
    <2>1. /\ Len(compute'[r]) = Len(compute[r]) + 1
          /\ \A i \in 1 .. Len(compute[r]) : compute'[r][i] = compute[r][i]
          /\ compute'[r][Len(compute[r]) + 1] = Read(r)
        BY <1>1, <1>3, <1>4, <1>5
    <2> QED BY <1>1, <1>5, <2>1
<1>6. CASE tier # 2
    <2>1. /\ Len(compute'[r]) = Len(compute[r]) + 2
          /\ \A i \in 1 .. Len(compute[r]) : compute'[r][i] = compute[r][i]
          /\ compute'[r][Len(compute[r]) + 1] = w
          /\ compute'[r][Len(compute[r]) + 2] = Read(r)
        BY <1>1, <1>3, <1>4, <1>6
    <2>2. ASSUME NEW a \in 1 .. Len(compute'[r]), compute'[r][a].kind = "read"
          PROVE  a \in 1 .. Len(compute[r]) \/ a = Len(compute'[r])
        <3>1. a # Len(compute[r]) + 1
            BY <1>3, <2>1, <2>2
        <3> QED BY <1>1, <2>1, <3>1
    <2> QED BY <1>1, <1>6, <2>1, <2>2 DEF w
<1> QED BY <1>5, <1>6

LEMMA AttendMoves ==
    ASSUME IInv, NEW r \in Ranks, NEW path, NEW trios, Itinerary(path, trios), Ahead(r, path),
           Streams(r, trios), Attend(r)
    PROVE  /\ Live(r, path)'
           /\ \E e \in 1 .. Len(trios[recipe[r]]) :
                 /\ trios[recipe[r]][e] = Trio(r)
                 /\ \A k \in Roles : Issued(r, recipe[r], k) = e
<1>1. /\ pc[r] = "trio" /\ role[r] = 3 /\ request' = request /\ recipe' = recipe
      /\ step_counter' = step_counter /\ op_cache' = op_cache /\ scheduled' = scheduled
    BY DEF Attend, given
<1>2. /\ Submitting(r) /\ recipe[r] \in Recipes /\ step[r] \in 1 .. NumSteps
      /\ scheduled \in BOOLEAN
    BY <1>1 DEF Submitting, IInv, Control, TypeOK, Queues
<1>3. ~Dead(r)
    BY <1>1, <1>2 DEF Dead, Streams, Underway
<1>4. PICK n \in 1 .. Len(path) - 1 : At(r, path[n])
    BY <1>3 DEF Ahead
<1>5. /\ n \in 1 .. Len(path) /\ n + 1 \in 1 .. Len(path) /\ path[n] \in Positions
      /\ path[n + 1] = Following(path[n])
    BY DEF Itinerary
<1>6. /\ ~Full(path[n]) /\ recipe[r] = RecipeAt(path[n])
      /\ path[n].request = request[r] /\ path[n].step = step[r] /\ TrioAt(path[n]) = Trio(r)
      /\ step_counter[r] = CounterAfter(path[n])
    BY <1>1, <1>2, <1>4 DEF At, Place, TrioAt, Trio
<1>7. path[n].used \in [Recipes -> Nat]
    BY <1>2, <1>5, PositionKinds
<1>8. \A c \in Recipes, k \in Roles :
          Issued(r, c, k) = path[n].used[c] + IF c = recipe[r] THEN 1 ELSE 0
    BY <1>1, <1>2, <1>4 DEF At, Counted, Adds, Roles
<1>9. /\ path[n].used[recipe[r]] + 1 \in 1 .. Len(trios[recipe[r]])
      /\ trios[recipe[r]][path[n].used[recipe[r]] + 1] = Trio(r)
    BY <1>5, <1>6 DEF Itinerary
<1>10. ~Submitting(r)'
    BY DEF Attend, IInv, TypeOK, Submitting
<1>11. /\ path[n + 1].counter = CounterAfter(path[n])
       /\ \A c \in Recipes : path[n + 1].used[c] = path[n].used[c] + IF c = recipe[r] THEN 1 ELSE 0
       /\ path[n + 1].request = IF step[r] = NumSteps THEN request[r] + 1 ELSE request[r]
       /\ path[n + 1].step = IF step[r] = NumSteps THEN 1 ELSE step[r] + 1
    BY <1>5, <1>6 DEF Following, UsedAfter
<1>12. \/ pc'[r] = "idle" /\ step[r] = NumSteps
       \/ pc'[r] = "forward" /\ step[r] # NumSteps /\ step'[r] = step[r] + 1
    BY DEF Attend, IInv, TypeOK
<1>13. Place(r, path[n + 1])'
    BY <1>1, <1>6, <1>10, <1>11, <1>12 DEF Place, TrioAt, Trio
<1>14. Counted(r, path[n + 1])'
    <2> SUFFICES ASSUME NEW c \in Recipes
                 PROVE  /\ op_cache[r][c] = None <=> path[n + 1].used[c] = 0
                        /\ \A k \in Roles : Issued(r, c, k)' = path[n + 1].used[c] + Adds(r, c, k)'
        BY <1>1, <1>10 DEF Counted
    <2>1. op_cache[r][c] = None <=> path[n].used[c] = 0 /\ c # recipe[r]
        BY <1>2, <1>4 DEF At, Counted
    <2>2. path[n].used[c] \in Nat
        BY <1>7
    <2>3. \A k \in Roles : Adds(r, c, k)' = 0
        BY <1>10 DEF Adds
    <2>4. \A k \in Roles : Issued(r, c, k)' = Issued(r, c, k)
        BY <1>1 DEF Issued
    <2>5. path[n + 1].used[c] = path[n].used[c] + IF c = recipe[r] THEN 1 ELSE 0
        BY <1>11
    <2>6. op_cache[r][c] = None <=> path[n + 1].used[c] = 0
        BY <2>1, <2>2, <2>5
    <2>7. ASSUME NEW k \in Roles PROVE Issued(r, c, k)' = path[n + 1].used[c] + Adds(r, c, k)'
        <3>1. Issued(r, c, k)' = path[n + 1].used[c]
            BY <1>8, <2>4, <2>5
        <3> QED BY <2>2, <2>3, <2>5, <3>1
    <2> QED BY <2>6, <2>7
<1>15. Live(r, path)'
    BY <1>5, <1>13, <1>14 DEF Live, At
<1>16. \A k \in Roles : Issued(r, recipe[r], k) = path[n].used[recipe[r]] + 1
    BY <1>2, <1>8
<1> QED BY <1>9, <1>15, <1>16

LEMMA AttendStep ==
    ASSUME IInv, NEW r \in Ranks, NEW path, NEW trios, Itinerary(path, trios), Ahead(r, path),
           Streams(r, trios), Attend(r)
    PROVE  Live(r, path)' /\ Streams(r, trios)'
<1>1. /\ side' = side /\ compute_done' = compute_done /\ side_done' = side_done
      /\ published' = published /\ put' = put /\ op_cache' = op_cache
      /\ pc[r] = "trio" /\ role[r] = 3 /\ (tier = 2 => taken[r] = 3)
    BY DEF Attend
<1>2. pc'[r] \in {"idle", "forward"}
    BY DEF Attend, IInv, TypeOK
<1>3. Labelled(r, trios)' /\ Ordered(r)'
    BY <1>1, <1>2, SideStays
<1>4. Underway(r)'
    BY <1>2 DEF Underway, Submitting
<1>5. Submitting(r) /\ recipe[r] \in Recipes /\ tier \in {1, 2}
    BY <1>1 DEF Submitting, IInv, Control, Queues
<1>6. PICK e \in 1 .. Len(trios[recipe[r]]) :
          trios[recipe[r]][e] = Trio(r) /\ \A k \in Roles : Issued(r, recipe[r], k) = e
    BY AttendMoves
<1>7. PICK c \in Recipes : c = recipe[r]
    BY <1>5
<1>8. PICK a \in Nat : a = Len(compute'[r])
    BY AttendQueues
<1>0. /\ Len(compute[r]) \in Nat /\ a \in 1 .. Len(compute'[r]) /\ Len(compute[r]) < a
      /\ \A i \in 1 .. Len(compute[r]) : compute'[r][i] = compute[r][i]
      /\ compute'[r][a].trio = Trio(r) /\ compute'[r][a].slots = outputs[r]
      /\ tier = 2 => a = Len(compute[r]) + 1
      /\ tier # 2 => /\ a = Len(compute[r]) + 2
                     /\ compute'[r][Len(compute[r]) + 1].kind = "await"
                     /\ compute'[r][Len(compute[r]) + 1].after = side_done[r] + Len(side[r])
    <2>1. /\ Len(compute[r]) \in Nat /\ a = Len(compute[r]) + IF tier = 2 THEN 1 ELSE 2
          /\ compute'[r][a] = Read(r)
        BY <1>8, AttendQueues
    <2>2. tier # 2 => compute'[r][Len(compute[r]) + 1] = AwaitSide(side_done[r] + Len(side[r]))
        BY AttendQueues
    <2>3. \A i \in 1 .. Len(compute[r]) : compute'[r][i] = compute[r][i]
        BY AttendQueues
    <2>4. /\ a \in 1 .. Len(compute'[r]) /\ Len(compute[r]) < a
          /\ tier = 2 => a = Len(compute[r]) + 1
          /\ tier # 2 => a = Len(compute[r]) + 2
        <3>1. CASE tier = 2
            BY <1>8, <2>1, <3>1
        <3>2. CASE tier # 2
            BY <1>8, <2>1, <3>2
        <3> QED BY <3>1, <3>2
    <2>5. compute'[r][a].trio = Trio(r) /\ compute'[r][a].slots = outputs[r]
        BY <2>1 DEF Read
    <2>6. tier # 2 => /\ compute'[r][Len(compute[r]) + 1].kind = "await"
                      /\ compute'[r][Len(compute[r]) + 1].after = side_done[r] + Len(side[r])
        BY <2>2 DEF AwaitSide
    <2> QED BY <2>1, <2>3, <2>4, <2>5, <2>6
<1>9. ASSUME NEW k \in Roles PROVE Fresh(r, a, c, k, e)'
    <2>1. k < role[r] /\ OnItsWay(r, k)
        BY <1>1, <1>5 DEF Streams, Underway, Roles
    <2>2. outputs[r][k + 1] = <<c, e % NumBuffers, k>>
        BY <1>6, <1>7, <2>1 DEF OnItsWay
    <2>3. compute'[r][a].slots[k + 1] = <<c, e % NumBuffers, k>>
        BY <1>0, <2>2
    <2>4. PICK n \in Nat : /\ Arrives(r, c, k, e, n) /\ n <= side_done[r] + Len(side[r])
                           /\ tier = 2 => n = trio_waits[r].events[k + 1]
        BY <1>6, <1>7, <2>1 DEF OnItsWay
    <2>5. Arrives(r, c, k, e, n)'
        <3>1. \A j : IsJob(r, j, "receive", c, k)' = IsJob(r, j, "receive", c, k)
            BY <1>1 DEF IsJob
        <3> QED BY <1>1, <2>4, <3>1 DEF Arrives
    <2>6. Kept(r, c, k, e, a)'
        <3>1. Ordered(r) /\ Issued(r, c, k) = e
            BY <1>6, <1>7 DEF Streams
        <3>2. published[r][<<c, k>>] <= e
            BY <1>1, <3>1 DEF Ordered
        <3>3. ASSUME NEW j \in 1 .. Len(side[r]), IsJob(r, j, "announce", c, k)
              PROVE  ~(side[r][j].epoch > e)
            <4>1. side[r][j].epoch <= e /\ side[r][j].epoch \in Nat
                BY <1>1, <3>1, <3>3, JobKinds DEF Ordered, Kinds, IInv
            <4> QED BY <4>1
        <3> QED BY <1>1, <3>2, <3>3 DEF Kept, IsJob
    <2>7. AwaitedBefore(r, n, a)'
        <3>1. CASE tier = 2
            <4>1. Covering(r) /\ trio_waits[r].waited \in 0 .. 3
                BY <1>5, <3>1 DEF Streams, Underway, IInv, TypeOK
            <4>2. k < trio_waits[r].waited
                BY <1>1, <3>1, <4>1 DEF Covering, Roles
            <4>3. AwaitedBefore(r, n, Len(compute[r]) + 1)
                BY <2>1, <2>4, <3>1, <4>1, <4>2 DEF Covering
            <4>4. a = Len(compute[r]) + 1
                BY <1>0, <3>1
            <4>5. AwaitedBefore(r, n, a)
                BY <4>3, <4>4
            <4>6. Len(compute[r]) <= Len(compute'[r])
                BY <1>0, <1>8
            <4> QED BY <1>0, <1>1, <1>8, <4>5, <4>6, ComputeGrows
        <3>2. CASE tier # 2
            <4>1. PICK i \in Nat : i = Len(compute[r]) + 1
                BY <1>0
            <4>2. i < a /\ i \in 1 .. Len(compute'[r])
                BY <1>0, <1>8, <3>2, <4>1
            <4>3. compute'[r][i].kind = "await" /\ n <= compute'[r][i].after
                BY <1>0, <2>4, <3>2, <4>1
            <4> QED BY <4>2, <4>3 DEF AwaitedBefore
        <3> QED BY <3>1, <3>2
    <2> QED BY <2>3, <2>5, <2>6, <2>7 DEF Fresh
<1>10. Served(r, trios, a)'
    <2>1. compute'[r][a].trio = trios[c][e] /\ e \in 1 .. Len(trios[c])
        BY <1>0, <1>6, <1>7
    <2> QED BY <1>9, <2>1 DEF Served
<1>11. Readable(r, trios)'
    <2> SUFFICES ASSUME NEW i \in 1 .. Len(compute'[r]), compute'[r][i].kind = "read"
                 PROVE  Served(r, trios, i)'
        BY DEF Readable
    <2>1. CASE i \in 1 .. Len(compute[r])
        <3>1. Served(r, trios, i)
            BY <1>0, <2>1 DEF Streams, Readable
        <3>2. Len(compute[r]) <= Len(compute'[r])
            BY <1>0, <1>8
        <3> QED BY <1>0, <1>1, <1>8, <2>1, <3>1, <3>2, ComputeGrows
    <2>2. CASE i \notin 1 .. Len(compute[r])
        <3>1. i = a
            BY <1>8, <2>2, AttendQueues
        <3> QED BY <1>10, <3>1
    <2> QED BY <2>1, <2>2
<1>12. Live(r, path)'
    BY AttendMoves
<1> QED BY <1>3, <1>4, <1>11, <1>12 DEF Streams

-----------------------------------------------------------------------------
(* The streams *)

\* The job that the side stream does next, and what doing it changes.
LEMMA SideFacts ==
    ASSUME IInv, NEW p \in Ranks, SideStep(p),
           NEW job, job = side[p][1], NEW c, c = job.slot[1], NEW k, k = job.slot[3]
    PROVE  /\ job \in Jobs /\ c \in Recipes /\ k \in Roles /\ job.slot = <<c, job.slot[2], k>>
           /\ job.kind \in Kinds /\ job.slot \in Slots /\ job.epoch \in Nat /\ job.after \in Nat
           /\ 1 \in 1 .. Len(side[p]) /\ Len(side[p]) \in Nat
           /\ Len(side'[p]) = Len(side[p]) - 1 /\ side_done'[p] = side_done[p] + 1
           /\ \A j \in 1 .. Len(side'[p]) : side'[p][j] = side[p][j + 1]
           /\ job.kind = "announce" => /\ compute_done[p] >= job.after
                                       /\ published' = [published EXCEPT ![p][<<c, k>>] = job.epoch]
           /\ job.kind # "announce" => published' = published
           /\ job.kind = "send" =>
                 /\ \A q \in Ranks : published[q][<<c, k>>] >= job.epoch
                 /\ put' = [put EXCEPT ![p][<<c, k>>] = job.epoch]
                 /\ buffer' = [q \in Ranks |-> [buffer[q] EXCEPT ![job.slot][p] = job.trio]]
           /\ job.kind # "send" => put' = put /\ buffer' = buffer
           /\ job.kind = "receive" => \A q \in Ranks : put[q][<<c, k>>] >= job.epoch
<1>1. /\ side[p] \in Seq(Jobs) /\ side[p] # <<>> /\ side_done \in [Ranks -> Nat]
      /\ side' = [side EXCEPT ![p] = Tail(@)] /\ side_done' = [side_done EXCEPT ![p] = @ + 1]
      /\ side \in [Ranks -> Seq(Jobs)]
    BY DEF IInv, Queues, SideStep
<1>2. /\ Len(side[p]) \in Nat /\ 1 \in 1 .. Len(side[p]) /\ job = Head(side[p]) /\ job \in Jobs
      /\ side'[p] = Tail(side[p]) /\ side_done'[p] = side_done[p] + 1
    BY <1>1
<1>3. /\ Len(side'[p]) = Len(side[p]) - 1
      /\ \A j \in 1 .. Len(side'[p]) : side'[p][j] = side[p][j + 1]
    BY <1>1, <1>2
<1>4. /\ job.kind \in Kinds /\ job.slot \in Slots /\ job.epoch \in Nat /\ job.after \in Nat
      /\ c \in Recipes /\ k \in Roles /\ job.slot = <<c, job.slot[2], k>>
    BY <1>2, JobKinds DEF IInv
<1>5. Channel(job) = <<c, k>>
    BY DEF Channel
<1>6. CASE job.kind = "announce"
    BY <1>2, <1>3, <1>4, <1>5, <1>6 DEF SideStep
<1>7. CASE job.kind = "send"
    BY <1>2, <1>3, <1>4, <1>5, <1>7 DEF SideStep
<1>8. CASE job.kind = "receive"
    BY <1>2, <1>3, <1>4, <1>5, <1>8 DEF SideStep
<1> QED BY <1>4, <1>6, <1>7, <1>8 DEF Kinds

\* What the side stream of a rank announces and sends.
LEMMA SideCounts ==
    ASSUME IInv, NEW p \in Ranks, SideStep(p), Ordered(p),
           NEW job, job = side[p][1], NEW c, c = job.slot[1], NEW k, k = job.slot[3]
    PROVE  /\ \A q \in Ranks, ch \in Channels :
                /\ published'[q][ch] = IF job.kind = "announce" /\ q = p /\ ch = <<c, k>>
                                       THEN job.epoch ELSE published[q][ch]
                /\ put'[q][ch] = IF job.kind = "send" /\ q = p /\ ch = <<c, k>>
                                 THEN job.epoch ELSE put[q][ch]
                /\ published[q][ch] \in Nat /\ published'[q][ch] \in Nat
                /\ published[q][ch] <= published'[q][ch]
           /\ PutGrows
<1>1. /\ 1 \in 1 .. Len(side[p]) /\ c \in Recipes /\ k \in Roles
      /\ job.kind \in Kinds /\ job.epoch \in Nat
      /\ job.kind = "announce" => published' = [published EXCEPT ![p][<<c, k>>] = job.epoch]
      /\ job.kind # "announce" => published' = published
      /\ job.kind = "send" => put' = [put EXCEPT ![p][<<c, k>>] = job.epoch]
      /\ job.kind # "send" => put' = put
    BY SideFacts
<1>2. /\ c \in Recipes /\ k \in Roles /\ job.kind \in Kinds /\ job.epoch \in Nat
      /\ <<c, k>> \in Channels
    BY <1>1 DEF Channels
<1>3. /\ published \in [Ranks -> [Channels -> Nat]] /\ put \in [Ranks -> [Channels -> Nat]]
    BY DEF IInv, TypeOK
<1>4. \A q \in Ranks, ch \in Channels :
        /\ published'[q][ch] = IF job.kind = "announce" /\ q = p /\ ch = <<c, k>>
                               THEN job.epoch ELSE published[q][ch]
        /\ put'[q][ch] = IF job.kind = "send" /\ q = p /\ ch = <<c, k>>
                         THEN job.epoch ELSE put[q][ch]
    <2> TAKE q \in Ranks, ch \in Channels
    <2> DEFINE d == <<c, k>>
    <2>0. /\ d \in Channels
          /\ job.kind = "announce" => published' = [published EXCEPT ![p][d] = job.epoch]
          /\ job.kind = "send" => put' = [put EXCEPT ![p][d] = job.epoch]
        BY <1>1, <1>2
    <2> HIDE DEF d
    <2>1. published'[q][ch] = IF job.kind = "announce" /\ q = p /\ ch = d
                              THEN job.epoch ELSE published[q][ch]
        BY <1>1, <1>3, <2>0
    <2>2. put'[q][ch] = IF job.kind = "send" /\ q = p /\ ch = d THEN job.epoch ELSE put[q][ch]
        BY SMTT(30), <1>1, <1>3, <2>0
    <2> QED BY <2>1, <2>2 DEF d
<1>5. IsJob(p, 1, job.kind, c, k)
    BY <1>1 DEF IsJob
<1>6. /\ job.kind = "announce" => published[p][<<c, k>>] < job.epoch
      /\ job.kind = "send" => put[p][<<c, k>>] < job.epoch
    <2>1. \A j \in 1 .. Len(side[p]) :
            /\ IsJob(p, j, "announce", c, k) => published[p][<<c, k>>] < side[p][j].epoch
            /\ IsJob(p, j, "send", c, k) => put[p][<<c, k>>] < side[p][j].epoch
        BY <1>2 DEF Ordered
    <2> QED BY <1>1, <1>5, <2>1
<1>7. \A q \in Ranks, ch \in Channels : published[q][ch] \in Nat /\ put[q][ch] \in Nat
    BY <1>3
<1>8. \A q \in Ranks, ch \in Channels :
        /\ published'[q][ch] \in Nat /\ published[q][ch] <= published'[q][ch]
        /\ put'[q][ch] \in Nat /\ put[q][ch] <= put'[q][ch]
    BY <1>2, <1>4, <1>6, <1>7
<1> QED BY <1>4, <1>7, <1>8 DEF PutGrows

\* A queue moves up by one.
LEMMA SideMoves ==
    ASSUME IInv, NEW p \in Ranks, SideStep(p)
    PROVE  /\ Len(side[p]) \in Nat /\ 1 \in 1 .. Len(side[p])
           /\ Len(side'[p]) = Len(side[p]) - 1 /\ side_done'[p] = side_done[p] + 1
           /\ side_done[p] \in Nat
           /\ \A j \in 1 .. Len(side'[p]) : /\ j + 1 \in 1 .. Len(side[p])
                                            /\ side'[p][j] = side[p][j + 1]
           /\ \A kind, c, k : \A j \in 1 .. Len(side'[p]) :
                IsJob(p, j, kind, c, k)' = IsJob(p, j + 1, kind, c, k)
<1>1. /\ Len(side[p]) \in Nat /\ 1 \in 1 .. Len(side[p])
      /\ Len(side'[p]) = Len(side[p]) - 1 /\ side_done'[p] = side_done[p] + 1
      /\ \A j \in 1 .. Len(side'[p]) : side'[p][j] = side[p][j + 1]
    <2>1. PICK job, c, k : job = side[p][1] /\ c = job.slot[1] /\ k = job.slot[3]
        OBVIOUS
    <2> QED BY <2>1, SideFacts
<1>2. \A j \in 1 .. Len(side'[p]) : j + 1 \in 1 .. Len(side[p])
    BY <1>1
<1>3. \A kind, c, k : \A j \in 1 .. Len(side'[p]) :
          IsJob(p, j, kind, c, k)' = IsJob(p, j + 1, kind, c, k)
    BY <1>1, <1>2 DEF IsJob
<1>4. side_done[p] \in Nat
    BY DEF IInv, Queues
<1> QED BY <1>1, <1>2, <1>3, <1>4

\* An epoch is on its way to a rank until it has arrived.
LEMMA SideArrives ==
    ASSUME IInv, NEW p \in Ranks, SideStep(p), Ordered(p), NEW c \in Recipes, NEW k \in Roles,
           NEW e \in Nat, NEW n \in Nat, Arrives(p, c, k, e, n)
    PROVE  Arrives(p, c, k, e, n)'
<1>1. PutGrows /\ <<c, k>> \in Channels
    <2>1. PICK job, d, m : job = side[p][1] /\ d = job.slot[1] /\ m = job.slot[3]
        OBVIOUS
    <2> QED BY <2>1, SideCounts DEF Channels
<1>2. CASE \A q \in Ranks : put[q][<<c, k>>] >= e
    <2>1. \A q \in Ranks : put'[q][<<c, k>>] >= e
        BY <1>1, <1>2 DEF PutGrows
    <2> QED BY <2>1 DEF Arrives
<1>3. CASE \E j \in 1 .. Len(side[p]) :
              IsJob(p, j, "receive", c, k) /\ side[p][j].epoch = e /\ n = side_done[p] + j
    <2>1. PICK j \in 1 .. Len(side[p]) :
              IsJob(p, j, "receive", c, k) /\ side[p][j].epoch = e /\ n = side_done[p] + j
        BY <1>3
    <2>2. CASE j = 1
        <3>1. \A q \in Ranks : put[q][<<c, k>>] >= e
            <4>1. /\ side[p][1].kind = "receive" /\ side[p][1].slot[1] = c
                  /\ side[p][1].slot[3] = k /\ side[p][1].epoch = e
                BY <2>1, <2>2 DEF IsJob
            <4>2. PICK job : job = side[p][1]
                OBVIOUS
            <4> QED BY <4>1, <4>2, SideFacts
        <3>2. \A q \in Ranks : put'[q][<<c, k>>] >= e
            BY <1>1, <3>1 DEF PutGrows
        <3> QED BY <3>2 DEF Arrives
    <2>3. CASE j # 1
        <3>1. PICK i \in 1 .. Len(side'[p]) : i + 1 = j
            <4>1. j - 1 \in 1 .. Len(side'[p]) /\ (j - 1) + 1 = j
                BY <2>3, SideMoves
            <4> QED BY <4>1
        <3>2. IsJob(p, i, "receive", c, k)' /\ side'[p][i].epoch = e /\ n = side_done'[p] + i
            <4>1. IsJob(p, i, "receive", c, k)' /\ side'[p][i].epoch = e
                BY <2>1, <3>1, SideMoves
            <4>2. side_done'[p] = side_done[p] + 1 /\ side_done[p] \in Nat /\ i \in Nat
                BY SideMoves
            <4>3. n = side_done'[p] + i
                BY <2>1, <3>1, <4>2
            <4> QED BY <4>1, <4>3
        <3> QED BY <3>2 DEF Arrives
    <2> QED BY <2>2, <2>3
<1> QED BY <1>2, <1>3 DEF Arrives

LEMMA SideOrdered ==
    ASSUME IInv, NEW p \in Ranks, SideStep(p), NEW trios, Streams(p, trios)
    PROVE  Labelled(p, trios)' /\ Ordered(p)'
<1>1. PICK job, c0, k0 : job = side[p][1] /\ c0 = job.slot[1] /\ k0 = job.slot[3]
    OBVIOUS
<1>2. Labelled(p, trios) /\ Ordered(p)
    BY DEF Streams
<1>3. /\ pc' = pc /\ op_cache' = op_cache /\ pc[p] # "shut"
    <2>1. side[p] # <<>>
        BY DEF SideStep
    <2> QED BY <1>2, <2>1 DEF SideStep, host, runtime, Ordered
<1>4. /\ 1 \in 1 .. Len(side[p]) /\ IsJob(p, 1, job.kind, c0, k0)
      /\ job.epoch \in Nat /\ job.kind \in Kinds
    <2>1. 1 \in 1 .. Len(side[p]) /\ job.epoch \in Nat /\ job.kind \in Kinds
        BY <1>1, SideFacts
    <2> QED BY <1>1, <2>1 DEF IsJob
<1>5. Labelled(p, trios)'
    <2> SUFFICES ASSUME NEW j \in 1 .. Len(side'[p])
                 PROVE  /\ side'[p][j].epoch \in 1 .. Len(trios[side'[p][j].slot[1]])
                        /\ side'[p][j].trio = trios[side'[p][j].slot[1]][side'[p][j].epoch]
                        /\ side'[p][j].slot[2] = side'[p][j].epoch % NumBuffers
        BY DEF Labelled
    <2>1. j + 1 \in 1 .. Len(side[p]) /\ side'[p][j] = side[p][j + 1]
        BY SideMoves
    <2> QED BY <1>2, <2>1 DEF Labelled
<1>6. \A q \in Ranks, ch \in Channels :
        /\ published'[q][ch] = IF job.kind = "announce" /\ q = p /\ ch = <<c0, k0>>
                               THEN job.epoch ELSE published[q][ch]
        /\ put'[q][ch] = IF job.kind = "send" /\ q = p /\ ch = <<c0, k0>>
                         THEN job.epoch ELSE put[q][ch]
    BY <1>1, <1>2, SideCounts
<1>7. ASSUME NEW c \in Recipes, NEW k \in Roles
      PROVE  /\ published'[p][<<c, k>>] <= Issued(p, c, k)' /\ put'[p][<<c, k>>] <= Issued(p, c, k)'
             /\ \A kind \in Kinds, j \in 1 .. Len(side'[p]) :
                    IsJob(p, j, kind, c, k)' => side'[p][j].epoch <= Issued(p, c, k)'
             /\ \A kind \in Kinds, j \in 1 .. Len(side'[p]), i \in 1 .. Len(side'[p]) :
                    IsJob(p, j, kind, c, k)' /\ IsJob(p, i, kind, c, k)' /\ i < j =>
                        side'[p][i].epoch < side'[p][j].epoch
             /\ \A j \in 1 .. Len(side'[p]) :
                   /\ IsJob(p, j, "announce", c, k)' => published'[p][<<c, k>>] < side'[p][j].epoch
                   /\ IsJob(p, j, "send", c, k)' => put'[p][<<c, k>>] < side'[p][j].epoch
    <2>1. /\ published[p][<<c, k>>] <= Issued(p, c, k) /\ put[p][<<c, k>>] <= Issued(p, c, k)
          /\ \A kind \in Kinds, j \in 1 .. Len(side[p]) :
                IsJob(p, j, kind, c, k) => side[p][j].epoch <= Issued(p, c, k)
        BY <1>2, <1>3 DEF Ordered
    <2>2. /\ \A kind \in Kinds, j \in 1 .. Len(side[p]), i \in 1 .. Len(side[p]) :
                IsJob(p, j, kind, c, k) /\ IsJob(p, i, kind, c, k) /\ i < j =>
                    side[p][i].epoch < side[p][j].epoch
          /\ \A j \in 1 .. Len(side[p]) :
                /\ IsJob(p, j, "announce", c, k) => published[p][<<c, k>>] < side[p][j].epoch
                /\ IsJob(p, j, "send", c, k) => put[p][<<c, k>>] < side[p][j].epoch
        BY <1>2 DEF Ordered
    <2>3. Issued(p, c, k)' = Issued(p, c, k) /\ <<c, k>> \in Channels
        BY <1>3 DEF Issued, Channels
    <2>4. CASE <<c, k>> = <<c0, k0>>
        <3>1. c = c0 /\ k = k0
            BY <2>4
        <3>2. published'[p][<<c, k>>] <= Issued(p, c, k)' /\ put'[p][<<c, k>>] <= Issued(p, c, k)'
            <4>1. job.epoch <= Issued(p, c, k)
                BY <1>1, <1>4, <2>1, <3>1
            <4>2. /\ published'[p][<<c, k>>] = IF job.kind = "announce" THEN job.epoch ELSE published[p][<<c, k>>]
                  /\ put'[p][<<c, k>>] = IF job.kind = "send" THEN job.epoch ELSE put[p][<<c, k>>]
                BY <1>6, <2>3, <3>1
            <4> QED BY <2>1, <2>3, <4>1, <4>2
        <3>3. ASSUME NEW j \in 1 .. Len(side'[p])
              PROVE  /\ IsJob(p, j, "announce", c, k)' => published'[p][<<c, k>>] < side'[p][j].epoch
                     /\ IsJob(p, j, "send", c, k)' => put'[p][<<c, k>>] < side'[p][j].epoch
            <4>1. /\ j + 1 \in 1 .. Len(side[p]) /\ 1 < j + 1 /\ side'[p][j] = side[p][j + 1]
                  /\ \A kind : IsJob(p, j, kind, c, k)' = IsJob(p, j + 1, kind, c, k)
                BY SideMoves
            <4>2. ASSUME job.kind \in Kinds, IsJob(p, j, job.kind, c, k)'
                  PROVE  job.epoch < side'[p][j].epoch
                BY <1>1, <1>4, <2>2, <3>1, <4>1, <4>2
            <4>3. /\ IsJob(p, j, "announce", c, k)' => published[p][<<c, k>>] < side'[p][j].epoch
                  /\ IsJob(p, j, "send", c, k)' => put[p][<<c, k>>] < side'[p][j].epoch
                BY <2>2, <4>1
            <4> QED BY <1>4, <1>6, <2>3, <3>1, <4>2, <4>3
        <3>4. \A kind \in Kinds, j \in 1 .. Len(side'[p]) :
                    IsJob(p, j, kind, c, k)' => side'[p][j].epoch <= Issued(p, c, k)'
            BY <2>1, <2>3, SideMoves
        <3>5. ASSUME NEW kind \in Kinds, NEW j \in 1 .. Len(side'[p]), NEW i \in 1 .. Len(side'[p]),
                     IsJob(p, j, kind, c, k)', IsJob(p, i, kind, c, k)', i < j
              PROVE  side'[p][i].epoch < side'[p][j].epoch
            <4>1. /\ j + 1 \in 1 .. Len(side[p]) /\ i + 1 \in 1 .. Len(side[p]) /\ i + 1 < j + 1
                  /\ IsJob(p, j + 1, kind, c, k) /\ IsJob(p, i + 1, kind, c, k)
                  /\ side'[p][j] = side[p][j + 1] /\ side'[p][i] = side[p][i + 1]
                BY <3>5, SideMoves
            <4> QED BY <2>2, <4>1
        <3> QED BY <3>2, <3>3, <3>4, <3>5
    <2>5. CASE <<c, k>> # <<c0, k0>>
        <3>1. /\ published'[p][<<c, k>>] = published[p][<<c, k>>]
              /\ put'[p][<<c, k>>] = put[p][<<c, k>>]
            BY <1>6, <2>3, <2>5
        <3>2. \A kind \in Kinds, j \in 1 .. Len(side'[p]) :
                    IsJob(p, j, kind, c, k)' => side'[p][j].epoch <= Issued(p, c, k)'
            BY <2>1, <2>3, SideMoves
        <3>3. ASSUME NEW kind \in Kinds, NEW j \in 1 .. Len(side'[p]), NEW i \in 1 .. Len(side'[p]),
                     IsJob(p, j, kind, c, k)', IsJob(p, i, kind, c, k)', i < j
              PROVE  side'[p][i].epoch < side'[p][j].epoch
            <4>1. /\ j + 1 \in 1 .. Len(side[p]) /\ i + 1 \in 1 .. Len(side[p]) /\ i + 1 < j + 1
                  /\ IsJob(p, j + 1, kind, c, k) /\ IsJob(p, i + 1, kind, c, k)
                  /\ side'[p][j] = side[p][j + 1] /\ side'[p][i] = side[p][i + 1]
                BY <3>3, SideMoves
            <4> QED BY <2>2, <4>1
        <3>4. ASSUME NEW j \in 1 .. Len(side'[p])
              PROVE  /\ IsJob(p, j, "announce", c, k)' => published'[p][<<c, k>>] < side'[p][j].epoch
                     /\ IsJob(p, j, "send", c, k)' => put'[p][<<c, k>>] < side'[p][j].epoch
            <4>1. /\ j + 1 \in 1 .. Len(side[p]) /\ side'[p][j] = side[p][j + 1]
                  /\ \A kind : IsJob(p, j, kind, c, k)' = IsJob(p, j + 1, kind, c, k)
                BY SideMoves
            <4>2. /\ IsJob(p, j, "announce", c, k)' => published[p][<<c, k>>] < side'[p][j].epoch
                  /\ IsJob(p, j, "send", c, k)' => put[p][<<c, k>>] < side'[p][j].epoch
                BY <2>2, <4>1
            <4> QED BY <3>1, <4>2
        <3> QED BY <2>1, <2>3, <3>1, <3>2, <3>3, <3>4
    <2> QED BY <2>4, <2>5
<1>8. Ordered(p)'
    BY <1>3, <1>7 DEF Ordered
<1> QED BY <1>5, <1>8

LEMMA SideAwaits ==
    ASSUME IInv, NEW p \in Ranks, SideStep(p), NEW n \in Nat, NEW a, AwaitedBefore(p, n, a)
    PROVE  AwaitedBefore(p, n, a)'
<1>1. compute' = compute /\ side_done'[p] = side_done[p] + 1 /\ side_done[p] \in Nat
    BY SideMoves DEF SideStep
<1> QED BY <1>1 DEF AwaitedBefore

\* A slot that is read is not announced free again before the read.
LEMMA SideReadable ==
    ASSUME IInv, NEW p \in Ranks, SideStep(p), NEW trios, Streams(p, trios)
    PROVE  Readable(p, trios)'
<1>1. compute' = compute /\ compute_done' = compute_done /\ Ordered(p)
      /\ compute_done[p] \in Nat
    BY DEF SideStep, Streams, IInv, Queues
<1> SUFFICES ASSUME NEW a \in 1 .. Len(compute[p]), compute[p][a].kind = "read"
             PROVE  Served(p, trios, a)'
    BY <1>1 DEF Readable
<1>2. PICK c \in Recipes : \E e \in 1 .. Len(trios[c]) :
          compute[p][a].trio = trios[c][e] /\ \A k \in Roles : Fresh(p, a, c, k, e)
    BY DEF Streams, Readable, Served
<1>3. PICK e \in 1 .. Len(trios[c]) :
          compute[p][a].trio = trios[c][e] /\ \A k \in Roles : Fresh(p, a, c, k, e)
    BY <1>2
<1>4. e \in Nat
    OBVIOUS
<1>5. ASSUME NEW k \in Roles PROVE Fresh(p, a, c, k, e)'
    <2>1. PICK n \in Nat : Arrives(p, c, k, e, n) /\ AwaitedBefore(p, n, a)
        BY <1>3 DEF Fresh
    <2>2. Arrives(p, c, k, e, n)' /\ AwaitedBefore(p, n, a)'
        BY <1>1, <1>4, <2>1, SideArrives, SideAwaits
    <2>3. Kept(p, c, k, e, a)
        BY <1>3 DEF Fresh
    <2>4. published'[p][<<c, k>>] <= e
        <3>1. PICK job, c0, k0 : job = side[p][1] /\ c0 = job.slot[1] /\ k0 = job.slot[3]
            OBVIOUS
        <3>2. published'[p][<<c, k>>] = IF job.kind = "announce" /\ <<c, k>> = <<c0, k0>>
                                        THEN job.epoch ELSE published[p][<<c, k>>]
            BY <1>1, <3>1, SideCounts DEF Channels
        <3>3. CASE job.kind = "announce" /\ <<c, k>> = <<c0, k0>>
            <4>1. /\ c = c0 /\ k = k0 /\ 1 \in 1 .. Len(side[p]) /\ job.epoch \in Nat
                  /\ job.after \in Nat /\ compute_done[p] >= job.after
                BY <3>1, <3>3, SideFacts
            <4>2. IsJob(p, 1, "announce", c, k)
                BY <3>1, <3>3, <4>1 DEF IsJob
            <4>3. a \in Nat /\ a >= 1
                BY JobKinds DEF IInv
            <4>4. ~(job.epoch > e)
                <5>1. job.epoch > e => compute_done[p] + a <= job.after
                    BY <2>3, <3>1, <4>1, <4>2 DEF Kept
                <5> QED BY <1>1, <4>1, <4>3, <5>1
            <4> QED BY <1>4, <3>2, <3>3, <4>1, <4>4
        <3>4. CASE ~(job.kind = "announce" /\ <<c, k>> = <<c0, k0>>)
            BY <2>3, <3>2, <3>4 DEF Kept
        <3> QED BY <3>3, <3>4
    <2>5. ASSUME NEW j \in 1 .. Len(side'[p]), IsJob(p, j, "announce", c, k)', side'[p][j].epoch > e
          PROVE  compute_done[p] + a <= side'[p][j].after
        <3>1. /\ j + 1 \in 1 .. Len(side[p]) /\ IsJob(p, j + 1, "announce", c, k)
              /\ side'[p][j] = side[p][j + 1]
            BY <2>5, SideMoves
        <3> QED BY <2>3, <2>5, <3>1 DEF Kept
    <2>6. Kept(p, c, k, e, a)'
        BY <1>1, <2>4, <2>5 DEF Kept
    <2> QED BY <1>1, <1>3, <2>2, <2>6 DEF Fresh
<1> QED BY <1>1, <1>3, <1>5 DEF Served

LEMMA SideUnderway ==
    ASSUME IInv, NEW p \in Ranks, SideStep(p), NEW trios, Streams(p, trios)
    PROVE  Underway(p)'
<1>1. /\ compute' = compute /\ pc' = pc /\ role' = role /\ recipe' = recipe /\ outputs' = outputs
      /\ taken' = taken /\ poisoned' = poisoned /\ op_cache' = op_cache /\ tier' = tier
      /\ trio_waits' = trio_waits /\ Ordered(p)
    BY DEF SideStep, given, host, runtime, Streams
<1>2. side_done'[p] + Len(side'[p]) = side_done[p] + Len(side[p])
    <2>1. /\ Len(side'[p]) = Len(side[p]) - 1 /\ side_done'[p] = side_done[p] + 1
          /\ Len(side[p]) \in Nat /\ side_done[p] \in Nat
        BY SideMoves
    <2> QED BY <2>1
<1>3. Submitting(p)' = Submitting(p) /\ \A c, k : Issued(p, c, k)' = Issued(p, c, k)
    BY <1>1 DEF Submitting, Issued
<1> SUFFICES ASSUME Submitting(p)
             PROVE  /\ \A k \in Roles : k < role[p] => OnItsWay(p, k)'
                    /\ tier = 2 => Covering(p)'
    BY <1>1, <1>3 DEF Underway, Streams
<1>4. ASSUME NEW k \in Roles, k < role[p] PROVE OnItsWay(p, k)'
    <2>1. recipe[p] \in Recipes /\ Issued(p, recipe[p], k) \in Nat
        BY IssuedKinds DEF Submitting
    <2>2. PICK c \in Recipes, e \in Nat : c = recipe[p] /\ e = Issued(p, c, k)
        BY <2>1
    <2>3. OnItsWay(p, k)
        BY <1>4 DEF Streams, Underway
    <2>4. PICK n \in Nat : /\ Arrives(p, c, k, e, n) /\ n <= side_done[p] + Len(side[p])
                           /\ tier = 2 => n = trio_waits[p].events[k + 1]
        BY <2>2, <2>3 DEF OnItsWay
    <2>5. Arrives(p, c, k, e, n)'
        BY <1>1, <2>4, SideArrives
    <2> QED BY <1>1, <1>2, <1>3, <2>2, <2>3, <2>4, <2>5 DEF OnItsWay
<1>5. ASSUME tier = 2 PROVE Covering(p)'
    <2>1. Covering(p) /\ Len(trio_waits[p].events) = role[p] /\ trio_waits[p].events \in Seq(Nat)
          /\ role[p] \in 0 .. 3
        BY <1>5 DEF Streams, Underway, IInv, Pass, TypeOK
    <2> SUFFICES ASSUME NEW k \in Roles, k < role[p], k < trio_waits[p].waited,
                        NEW n, n = trio_waits[p].events[k + 1], NEW last, last = Len(compute[p]) + 1
                 PROVE  AwaitedBefore(p, n, last)'
        BY <1>1, <1>2, <2>1 DEF Covering, AwaitedBefore
    <2>2. n \in Nat
        BY <2>1 DEF Roles
    <2>3. AwaitedBefore(p, n, last)
        BY <2>1 DEF Covering
    <2> QED BY <2>2, <2>3, SideAwaits
<1> QED BY <1>4, <1>5

\* What is sent lands in the buffers of the epoch it is of, and no rank is sent
\* an epoch it has not announced.
LEMMA SideShared ==
    ASSUME IInv, NEW p \in Ranks, SideStep(p), NEW trios, Streams(p, trios),
           Announced, Delivered(trios)
    PROVE  Announced' /\ Delivered(trios)'
<1>1. PICK job, c0, k0 : job = side[p][1] /\ c0 = job.slot[1] /\ k0 = job.slot[3]
    OBVIOUS
<1>2. Labelled(p, trios) /\ Ordered(p)
    BY DEF Streams
<1>3. /\ job.epoch \in Nat /\ job.slot \in Slots /\ 1 \in 1 .. Len(side[p])
      /\ job.slot = <<c0, job.slot[2], k0>> /\ c0 \in Recipes /\ k0 \in Roles
      /\ job.kind = "send" =>
            /\ \A q \in Ranks : published[q][<<c0, k0>>] >= job.epoch
            /\ buffer' = [q \in Ranks |-> [buffer[q] EXCEPT ![job.slot][p] = job.trio]]
      /\ job.kind # "send" => buffer' = buffer
    <2>1. job.epoch \in Nat
        BY <1>1, SideFacts
    <2>2. job.kind = "send" => \A q \in Ranks : published[q][<<c0, k0>>] >= job.epoch
        BY <1>1, SideFacts
    <2>0. 1 \in 1 .. Len(side[p])
        BY SideMoves
    <2>3. c0 \in Recipes /\ k0 \in Roles
        BY <1>1, <2>0, JobKinds DEF IInv
    <2>4. job.slot \in Slots
        BY <1>1, SideFacts
    <2>5. job.slot = <<c0, job.slot[2], k0>>
        BY <1>1, <2>0, JobKinds DEF IInv
    <2>6. job = Head(side[p])
        BY <1>1, <2>0, JobKinds DEF IInv
    <2>7. job.kind # "send" => buffer' = buffer
        BY <1>1, SideFacts
    <2>8. job.kind = "send" =>
                buffer' = [q \in Ranks |-> [buffer[q] EXCEPT ![job.slot][p] = job.trio]]
        BY <2>6 DEF SideStep
    <2> QED BY <2>0, <2>1, <2>2, <2>3, <2>4, <2>5, <2>7, <2>8
<1>4. \A q \in Ranks, ch \in Channels :
        /\ put'[q][ch] = IF job.kind = "send" /\ q = p /\ ch = <<c0, k0>>
                         THEN job.epoch ELSE put[q][ch]
        /\ published[q][ch] \in Nat /\ published'[q][ch] \in Nat
        /\ published[q][ch] <= published'[q][ch]
        /\ put[q][ch] \in Nat /\ put'[q][ch] \in Nat
    BY <1>1, <1>2, SideCounts DEF PutGrows
<1>5. Announced'
    <2> SUFFICES ASSUME NEW r \in Ranks, NEW q \in Ranks, NEW ch \in Channels
                 PROVE  put'[q][ch] <= published'[r][ch]
        BY DEF Announced
    <2>1. CASE job.kind = "send" /\ q = p /\ ch = <<c0, k0>>
        <3>1. put'[q][ch] = job.epoch /\ published[r][ch] >= job.epoch
            BY <1>3, <1>4, <2>1
        <3> QED BY <1>3, <1>4, <3>1
    <2>2. CASE ~(job.kind = "send" /\ q = p /\ ch = <<c0, k0>>)
        <3>1. put'[q][ch] = put[q][ch] /\ put[q][ch] <= published[r][ch]
            BY <1>4, <2>2 DEF Announced
        <3> QED BY <1>4, <3>1
    <2> QED BY <2>1, <2>2
<1>6. /\ job.epoch \in 1 .. Len(trios[c0]) /\ job.trio = trios[c0][job.epoch]
      /\ job.slot = <<c0, job.epoch % NumBuffers, k0>>
    <2>1. /\ job.epoch \in 1 .. Len(trios[c0]) /\ job.trio = trios[c0][job.epoch]
          /\ job.slot[2] = job.epoch % NumBuffers
        BY <1>1, <1>2, <1>3 DEF Labelled
    <2> QED BY <1>3, <2>1
<1>7. Delivered(trios)'
    <2> SUFFICES ASSUME NEW q \in Ranks, NEW c \in Recipes, NEW k \in Roles,
                        put'[q][<<c, k>>] > 0
                 PROVE  /\ put'[q][<<c, k>>] <= Len(trios[c])
                        /\ \A r \in Ranks : buffer'[r][<<c, put'[q][<<c, k>>] % NumBuffers, k>>][q]
                                                = trios[c][put'[q][<<c, k>>]]
        BY DEF Delivered
    <2>0. PICK e : e = put'[q][<<c, k>>] /\ e > 0
        OBVIOUS
    <2> SUFFICES /\ e <= Len(trios[c])
                 /\ \A r \in Ranks : buffer'[r][<<c, e % NumBuffers, k>>][q] = trios[c][e]
        BY <2>0
    <2>1. <<c, k>> \in Channels /\ e \in Nat
        BY <1>4, <2>0 DEF Channels
    <2>2. <<c, e % NumBuffers, k>> \in Slots
        BY <2>1, SlotOfEpoch
    <2>3. buffer \in [Ranks -> [Slots -> [Ranks -> Trios \union {None}]]]
        BY DEF IInv, TypeOK
    <2>4. CASE job.kind = "send" /\ q = p /\ <<c, k>> = <<c0, k0>>
        <3>1. e = job.epoch /\ c = c0 /\ k = k0
            BY <1>4, <2>0, <2>1, <2>4
        <3>2. ASSUME NEW r \in Ranks PROVE buffer'[r][job.slot][p] = job.trio
            <4>1. buffer'[r] = [buffer[r] EXCEPT ![job.slot][p] = job.trio]
                BY <1>3, <2>4
            <4> QED BY <1>3, <2>3, <4>1
        <3> QED BY <1>6, <2>4, <3>1, <3>2
    <2>5. CASE ~(job.kind = "send" /\ q = p /\ <<c, k>> = <<c0, k0>>)
        <3>1. e = put[q][<<c, k>>]
            BY <1>4, <2>0, <2>1, <2>5
        <3>2. /\ e <= Len(trios[c])
              /\ \A r \in Ranks : buffer[r][<<c, e % NumBuffers, k>>][q] = trios[c][e]
            BY <2>0, <3>1 DEF Delivered
        <3>3. ASSUME NEW r \in Ranks, NEW s, s = <<c, e % NumBuffers, k>>
              PROVE  buffer'[r][s][q] = buffer[r][s][q]
            <4>1. CASE job.kind # "send"
                BY <1>3, <4>1
            <4>2. CASE job.kind = "send"
                <5>1. q # p \/ s # job.slot
                    <6>1. s = job.slot => c = c0 /\ k = k0
                        BY <1>6, <3>3
                    <6> QED BY <2>5, <4>2, <6>1
                <5>2. s \in Slots
                    BY <2>2, <3>3
                <5>3. buffer'[r] = [buffer[r] EXCEPT ![job.slot][p] = job.trio]
                    BY <1>3, <4>2
                <5> QED BY <1>3, <2>3, <5>1, <5>2, <5>3
            <4> QED BY <4>1, <4>2
        <3> QED BY <3>2, <3>3
    <2> QED BY <2>4, <2>5
<1> QED BY <1>5, <1>7

\* The compute stream does its next operation.
LEMMA ComputeMoves ==
    ASSUME IInv, NEW p \in Ranks, ComputeStep(p)
    PROVE  /\ Len(compute[p]) \in Nat /\ 1 \in 1 .. Len(compute[p])
           /\ Len(compute'[p]) = Len(compute[p]) - 1 /\ compute_done'[p] = compute_done[p] + 1
           /\ compute_done[p] \in Nat /\ side_done[p] \in Nat
           /\ \A a \in 1 .. Len(compute'[p]) : /\ a + 1 \in 1 .. Len(compute[p])
                                               /\ compute'[p][a] = compute[p][a + 1]
           /\ compute[p][1].kind = "await" => side_done[p] >= compute[p][1].after
<1> DEFINE S == Reads \union Awaits
<1>1. /\ compute[p] \in Seq(S) /\ compute[p] # <<>> /\ compute \in [Ranks -> Seq(S)]
      /\ compute' = [compute EXCEPT ![p] = Tail(@)]
      /\ compute_done \in [Ranks -> Nat] /\ side_done[p] \in Nat
      /\ compute_done' = [compute_done EXCEPT ![p] = @ + 1]
      /\ Head(compute[p]).kind = "await" => side_done[p] >= Head(compute[p]).after
    BY DEF IInv, Queues, ComputeStep
<1> HIDE DEF S
<1>2. /\ Len(compute[p]) \in Nat /\ 1 \in 1 .. Len(compute[p]) /\ Head(compute[p]) = compute[p][1]
      /\ compute'[p] = Tail(compute[p]) /\ compute_done'[p] = compute_done[p] + 1
    BY <1>1
<1>3. /\ Len(compute'[p]) = Len(compute[p]) - 1
      /\ \A a \in 1 .. Len(compute'[p]) : compute'[p][a] = compute[p][a + 1]
    BY <1>1, <1>2
<1> QED BY <1>1, <1>2, <1>3

\* A wait that is done was for an event that is past.
LEMMA ComputeAwaits ==
    ASSUME IInv, NEW p \in Ranks, ComputeStep(p), NEW n \in Nat, NEW a \in Nat,
           AwaitedBefore(p, n, a + 1)
    PROVE  AwaitedBefore(p, n, a)'
<1>1. side_done' = side_done
    BY DEF ComputeStep
<1>2. CASE n <= side_done[p]
    BY <1>1, <1>2 DEF AwaitedBefore
<1>3. CASE \E i \in 1 .. Len(compute[p]) :
              i < a + 1 /\ compute[p][i].kind = "await" /\ n <= compute[p][i].after
    <2>1. PICK i \in 1 .. Len(compute[p]) :
              i < a + 1 /\ compute[p][i].kind = "await" /\ n <= compute[p][i].after
        BY <1>3
    <2>2. CASE i = 1
        <3>1. compute[p][1].after \in Nat /\ side_done[p] >= compute[p][1].after
              /\ side_done[p] \in Nat
            BY <2>1, <2>2, ComputeMoves, JobKinds DEF IInv
        <3>2. n <= side_done[p]
            BY <2>1, <2>2, <3>1
        <3> QED BY <1>1, <3>2 DEF AwaitedBefore
    <2>3. CASE i # 1
        <3>1. PICK h \in 1 .. Len(compute'[p]) : h + 1 = i
            <4>1. i - 1 \in 1 .. Len(compute'[p]) /\ (i - 1) + 1 = i
                BY <2>3, ComputeMoves
            <4> QED BY <4>1
        <3>2. compute'[p][h] = compute[p][i] /\ h < a
            BY <2>1, <3>1, ComputeMoves
        <3> QED BY <2>1, <3>2 DEF AwaitedBefore
    <2> QED BY <2>2, <2>3
<1> QED BY <1>2, <1>3 DEF AwaitedBefore

LEMMA ComputeStreams ==
    ASSUME IInv, NEW p \in Ranks, ComputeStep(p), NEW trios, Streams(p, trios)
    PROVE  Streams(p, trios)'
<1>1. /\ side' = side /\ side_done' = side_done /\ published' = published /\ put' = put
      /\ pc' = pc /\ role' = role /\ recipe' = recipe /\ outputs' = outputs
      /\ taken' = taken /\ poisoned' = poisoned /\ op_cache' = op_cache /\ tier' = tier
      /\ trio_waits' = trio_waits
    BY DEF ComputeStep, given, host, runtime
<1>2. Labelled(p, trios) /\ Ordered(p)
    BY DEF Streams
<1>3. \A kind, j, c, k : IsJob(p, j, kind, c, k)' = IsJob(p, j, kind, c, k)
    BY <1>1 DEF IsJob
<1>4. Labelled(p, trios)' /\ Ordered(p)'
    BY SMTT(30), <1>1, <1>2, <1>3 DEF Labelled, Ordered, Issued
<1>5. \A c, k, e, n : Arrives(p, c, k, e, n)' = Arrives(p, c, k, e, n)
    BY <1>1, <1>3 DEF Arrives
<1>6. Readable(p, trios)'
    <2> SUFFICES ASSUME NEW a \in 1 .. Len(compute'[p]), compute'[p][a].kind = "read"
                 PROVE  Served(p, trios, a)'
        BY DEF Readable
    <2>1. a + 1 \in 1 .. Len(compute[p]) /\ compute'[p][a] = compute[p][a + 1] /\ a \in Nat
        BY ComputeMoves
    <2>2. Served(p, trios, a + 1)
        BY <2>1 DEF Streams, Readable
    <2>3. PICK c \in Recipes : \E e \in 1 .. Len(trios[c]) :
              compute[p][a + 1].trio = trios[c][e] /\ \A k \in Roles : Fresh(p, a + 1, c, k, e)
        BY <2>2 DEF Served
    <2>4. PICK e \in 1 .. Len(trios[c]) :
              compute[p][a + 1].trio = trios[c][e] /\ \A k \in Roles : Fresh(p, a + 1, c, k, e)
        BY <2>3
    <2>5. ASSUME NEW k \in Roles PROVE Fresh(p, a, c, k, e)'
        <3>1. PICK n \in Nat : Arrives(p, c, k, e, n) /\ AwaitedBefore(p, n, a + 1)
            BY <2>4 DEF Fresh
        <3>2. Arrives(p, c, k, e, n)' /\ AwaitedBefore(p, n, a)'
            BY <1>5, <2>1, <3>1, ComputeAwaits
        <3>3. Kept(p, c, k, e, a + 1) /\ compute[p][a + 1].slots[k + 1] = <<c, e % NumBuffers, k>>
            BY <2>4 DEF Fresh
        <3>4. compute_done[p] \in Nat /\ compute_done'[p] = compute_done[p] + 1
            BY ComputeMoves
        <3>5. compute_done'[p] + a = compute_done[p] + (a + 1)
            BY <2>1, <3>4
        <3>6. Kept(p, c, k, e, a)'
            BY <1>1, <1>3, <3>3, <3>5 DEF Kept
        <3> QED BY <2>1, <3>2, <3>3, <3>6 DEF Fresh
    <2> QED BY <2>1, <2>4, <2>5 DEF Served
<1>7. Underway(p)'
    <2>1. Submitting(p)' = Submitting(p) /\ \A c, k : Issued(p, c, k)' = Issued(p, c, k)
        BY <1>1 DEF Submitting, Issued
    <2> SUFFICES ASSUME Submitting(p)
                 PROVE  /\ \A k \in Roles : k < role[p] => OnItsWay(p, k)'
                        /\ tier = 2 => Covering(p)'
        BY <1>1, <2>1 DEF Underway, Streams
    <2>2. ASSUME NEW k \in Roles, k < role[p] PROVE OnItsWay(p, k)'
        <3>1. OnItsWay(p, k)
            BY <2>2 DEF Streams, Underway
        <3> QED BY <1>1, <1>5, <2>1, <3>1 DEF OnItsWay
    <2>3. ASSUME tier = 2 PROVE Covering(p)'
        <3>1. Covering(p) /\ Len(trio_waits[p].events) = role[p] /\ trio_waits[p].events \in Seq(Nat)
              /\ role[p] \in 0 .. 3
            BY <2>3 DEF Streams, Underway, IInv, Pass, TypeOK
        <3> SUFFICES ASSUME NEW k \in Roles, k < role[p], k < trio_waits[p].waited,
                            NEW n, n = trio_waits[p].events[k + 1],
                            NEW last, last = Len(compute'[p]) + 1
                     PROVE  AwaitedBefore(p, n, last)'
            BY <1>1, <3>1 DEF Covering, AwaitedBefore
        <3>2. n \in Nat
            BY <3>1 DEF Roles
        <3>3. last \in Nat /\ last + 1 = Len(compute[p]) + 1
            BY ComputeMoves
        <3>4. AwaitedBefore(p, n, last + 1)
            BY <3>1, <3>3 DEF Covering
        <3> QED BY <3>2, <3>3, <3>4, ComputeAwaits
    <2> QED BY <2>2, <2>3
<1> QED BY <1>4, <1>6, <1>7 DEF Streams

-----------------------------------------------------------------------------
\* A rank's step leaves what the other ranks own alone.
LEMMA OthersOwn ==
    ASSUME IInv, NEW p \in Ranks, NEW r \in Ranks, r # p,
           Host(p) \/ TransportFails(p) \/ Shutdown(p) \/ SideStep(p) \/ ComputeStep(p)
    PROVE  UNCHANGED OwnPart(r)
<1> USE DEF OwnPart, given, runtime, device, host
<1>1. TypeOK /\ Queues
    BY DEF IInv
<1>2. CASE LocalChecks(p) \/ GatherHosts(p) \/ GatherErrors(p) \/ BeginRequest(p)
    BY <1>1, <1>2 DEF LocalChecks, GatherHosts, GatherErrors, BeginRequest, TypeOK
<1>3. CASE Forward(p)
    BY <1>1, <1>3 DEF Forward, Raise, TypeOK
<1>4. CASE Submit(p)
    BY <1>1, <1>4 DEF Submit, TypeOK, Queues
<1>5. CASE SubmitFails(p)
    BY <1>1, <1>5 DEF SubmitFails, Raise, Cleanup, TypeOK
<1>6. CASE TransportFails(p)
    BY <1>1, <1>6 DEF TransportFails, Raise, Cleanup, TypeOK
<1>7. CASE Wait(p)
    BY ZenonT(30), <1>1, <1>7 DEF Wait, TypeOK, Queues
<1>8. CASE Attend(p)
    BY <1>1, <1>8 DEF Attend, TypeOK, Queues
<1>9. CASE Shutdown(p)
    BY <1>1, <1>9 DEF Shutdown, TypeOK
<1>10. CASE SideStep(p)
    <2>1. published'[r] = published[r] /\ put'[r] = put[r]
        BY <1>1, <1>10 DEF SideStep, TypeOK
    <2> QED BY <1>1, <1>10, <2>1 DEF SideStep, Queues
<1>11. CASE ComputeStep(p)
    BY <1>1, <1>11 DEF ComputeStep, Queues
<1> QED BY <1>2, <1>3, <1>4, <1>5, <1>6, <1>7, <1>8, <1>9, <1>10, <1>11 DEF Host

\* What a step of a rank leaves alone: the itinerary, and, unless its side
\* stream does it, what the peers have announced and sent.
LEMMA StepShares ==
    ASSUME IInv, NEW p \in Ranks,
           Host(p) \/ TransportFails(p) \/ Shutdown(p) \/ SideStep(p) \/ ComputeStep(p)
    PROVE  /\ scheduled' = scheduled /\ tier' = tier /\ lost \subseteq lost'
           /\ ~SideStep(p) => published' = published /\ put' = put /\ buffer' = buffer
<1> USE DEF given, device, host
<1>1. CASE LocalChecks(p) \/ GatherHosts(p) \/ GatherErrors(p) \/ BeginRequest(p)
    BY <1>1 DEF LocalChecks, GatherHosts, GatherErrors, BeginRequest
<1>2. CASE Forward(p) \/ SubmitFails(p) \/ TransportFails(p)
    BY <1>2 DEF Forward, SubmitFails, TransportFails
<1>3. CASE Submit(p)
    BY <1>3 DEF Submit
<1>4. CASE Wait(p) \/ Attend(p) \/ Shutdown(p)
    BY <1>4 DEF Wait, Attend, Shutdown
<1>5. CASE SideStep(p) \/ ComputeStep(p)
    BY <1>5 DEF SideStep, ComputeStep
<1> QED BY <1>1, <1>2, <1>3, <1>4, <1>5 DEF Host

\* The itinerary is the same before and after a step.
LEMMA ItineraryStays ==
    ASSUME scheduled' = scheduled, NEW path, NEW trios, Itinerary(path, trios)
    PROVE  Itinerary(path, trios)'
<1>1. /\ \A q : RecipeAt(q)' = RecipeAt(q) /\ CounterAfter(q)' = CounterAfter(q)
      /\ \A q : Full(q)' = Full(q)
    BY DEF RecipeAt, CounterAfter, Full
<1>2. \A q, c : UsedAfter(q, c)' = UsedAfter(q, c)
    BY <1>1 DEF UsedAfter
<1>3. \A q : Following(q)' = Following(q)
    BY <1>1, <1>2 DEF Following
<1> QED BY <1>1, <1>2, <1>3 DEF Itinerary

\* A stream does not move the host.
LEMMA HostStays ==
    ASSUME NEW r \in Ranks, NEW path, Live(r, path), SideStep(r) \/ ComputeStep(r)
    PROVE  Live(r, path)'
<1>1. /\ pc' = pc /\ request' = request /\ step' = step /\ role' = role
      /\ step_counter' = step_counter /\ recipe' = recipe /\ pending' = pending
      /\ poisoned' = poisoned /\ op_cache' = op_cache /\ scheduled' = scheduled
    BY DEF SideStep, ComputeStep, given, host, runtime
<1>2. Submitting(r)' = Submitting(r) /\ Trio(r)' = Trio(r) /\ Dead(r)' = Dead(r)
    BY <1>1 DEF Submitting, Trio, Dead
<1>3. \A c, k : Issued(r, c, k)' = Issued(r, c, k) /\ Adds(r, c, k)' = Adds(r, c, k)
    BY <1>1, <1>2 DEF Issued, Adds
<1>4. ASSUME NEW q, At(r, q) PROVE At(r, q)'
    <2>1. Place(r, q)'
        BY <1>1, <1>2, <1>4 DEF At, Place, CounterAfter, RecipeAt, TrioAt, Full
    <2>2. Counted(r, q)'
        BY <1>1, <1>2, <1>3, <1>4 DEF At, Counted
    <2> QED BY <2>1, <2>2 DEF At
<1> QED BY <1>2, <1>4 DEF Live

\* The host steps that queue nothing.
LEMMA QuietStreams ==
    ASSUME IInv, NEW r \in Ranks, NEW trios, Streams(r, trios),
           \/ LocalChecks(r) \/ GatherHosts(r) \/ GatherErrors(r) \/ BeginRequest(r)
           \/ Forward(r) \/ SubmitFails(r) \/ TransportFails(r) \/ Shutdown(r)
    PROVE  Streams(r, trios)'
<1>1. TypeOK
    BY DEF IInv
<1>2. CASE LocalChecks(r) \/ GatherHosts(r) \/ GatherErrors(r) \/ BeginRequest(r)
    <2>1. /\ UNCHANGED device /\ op_cache' = op_cache
          /\ pc[r] # "shut" /\ pc'[r] \notin {"trio", "shut"}
        BY <1>1, <1>2 DEF LocalChecks, GatherHosts, GatherErrors, BeginRequest, runtime, TypeOK
    <2> QED BY <2>1, HostStreams DEF Submitting
<1>3. CASE Forward(r)
    <2>1. /\ UNCHANGED device /\ op_cache' = op_cache
          /\ pc[r] # "shut" /\ pc'[r] # "shut" /\ role'[r] = 0
        BY <1>1, <1>3 DEF Forward, Raise, runtime, TypeOK
    <2> QED BY <2>1, HostStreams DEF Submitting
<1>4. CASE SubmitFails(r) \/ TransportFails(r)
    <2>1. /\ UNCHANGED device /\ op_cache' = op_cache
          /\ pc[r] = "trio" /\ pc'[r] = "failed"
        BY <1>1, <1>4 DEF SubmitFails, TransportFails, Accepted, Raise, TypeOK
    <2> QED BY <2>1, HostStreams DEF Submitting
<1>5. CASE Shutdown(r)
    <2>1. /\ UNCHANGED device /\ side[r] = <<>> /\ pc[r] # "shut" /\ pc'[r] = "shut"
        BY <1>1, <1>5 DEF Shutdown, TypeOK
    <2> QED BY <2>1, HostStreams DEF Submitting
<1> QED BY <1>2, <1>3, <1>4, <1>5

\* Every step of a rank moves it along the itinerary and keeps its streams.
LEMMA OwnStep ==
    ASSUME IInv, ~QLost', NEW r \in Ranks, NEW path, NEW trios, Exchange(path, trios),
           Ahead(r, path),
           Host(r) \/ TransportFails(r) \/ Shutdown(r) \/ SideStep(r) \/ ComputeStep(r)
    PROVE  Live(r, path)' /\ Streams(r, trios)'
<1>1. Itinerary(path, trios) /\ Live(r, path) /\ Streams(r, trios)
    BY DEF Exchange
<1>2. CASE LocalChecks(r) \/ GatherHosts(r) \/ GatherErrors(r) \/ BeginRequest(r)
    BY <1>1, <1>2, HostGoesOn, QuietStreams
<1>3. CASE Forward(r)
    BY <1>1, <1>3, HostForwards, QuietStreams
<1>4. CASE SubmitFails(r) \/ TransportFails(r) \/ Shutdown(r)
    BY <1>1, <1>4, HostRaises, QuietStreams
<1>5. CASE Submit(r)
    <2>1. PICK n \in 1 .. Len(path) : At(r, path[n])'
        BY <1>1, <1>5, HostSubmits
    <2>2. Live(r, path)'
        BY <2>1 DEF Live
    <2>3. Labelled(r, trios)' /\ Ordered(r)' /\ Readable(r, trios)' /\ Underway(r)'
        BY <1>1, <1>5, SubmitOrdered, SubmitReadable, SubmitUnderway
    <2> QED BY <2>2, <2>3 DEF Streams
<1>6. CASE Wait(r)
    BY <1>1, <1>6, WaitStep
<1>7. CASE Attend(r)
    BY <1>1, <1>7, AttendStep
<1>8. CASE SideStep(r)
    <2>1. Labelled(r, trios)' /\ Ordered(r)' /\ Readable(r, trios)' /\ Underway(r)'
        BY <1>1, <1>8, SideOrdered, SideReadable, SideUnderway
    <2>2. Live(r, path)'
        BY <1>1, <1>8, HostStays
    <2> QED BY <2>1, <2>2 DEF Streams
<1>9. CASE ComputeStep(r)
    BY <1>1, <1>9, HostStays, ComputeStreams
<1> QED BY <1>2, <1>3, <1>4, <1>5, <1>6, <1>7, <1>8, <1>9 DEF Host

\* Every step of a rank keeps the exchange.
LEMMA ExchangeStep ==
    ASSUME IInv, ~QLost', NEW p \in Ranks, NEW path, NEW trios, Exchange(path, trios),
           Ahead(p, path),
           Host(p) \/ TransportFails(p) \/ Shutdown(p) \/ SideStep(p) \/ ComputeStep(p)
    PROVE  Exchange(path, trios)'
<1>1. /\ Itinerary(path, trios) /\ Announced /\ Delivered(trios)
      /\ \A r \in Ranks : Live(r, path) /\ Streams(r, trios)
    BY DEF Exchange
<1>2. /\ scheduled' = scheduled
      /\ ~SideStep(p) => published' = published /\ put' = put /\ buffer' = buffer
    BY StepShares
<1>3. Itinerary(path, trios)'
    BY <1>1, <1>2, ItineraryStays
<1>4. PutGrows /\ Announced' /\ Delivered(trios)'
    <2>1. CASE SideStep(p)
        <3>1. Streams(p, trios) /\ Ordered(p)
            BY <1>1 DEF Streams
        <3>2. PICK job, c, k : job = side[p][1] /\ c = job.slot[1] /\ k = job.slot[3]
            OBVIOUS
        <3>3. PutGrows
            BY <2>1, <3>1, <3>2, SideCounts
        <3> QED BY <1>1, <2>1, <3>1, <3>3, SideShared
    <2>2. CASE ~SideStep(p)
        <3>1. published' = published /\ put' = put /\ buffer' = buffer
            BY <1>2, <2>2
        <3>2. \A q \in Ranks, ch \in Channels : put[q][ch] \in Nat
            BY DEF IInv, TypeOK
        <3>3. PutGrows
            BY <3>1, <3>2 DEF PutGrows
        <3>4. Announced' /\ Delivered(trios)'
            BY <1>1, <3>1 DEF Announced, Delivered
        <3> QED BY <3>3, <3>4
    <2> QED BY <2>1, <2>2
<1>5. ASSUME NEW r \in Ranks PROVE Live(r, path)' /\ Streams(r, trios)'
    <2>1. CASE r = p
        BY <2>1, OwnStep
    <2>2. CASE r # p
        <3>1. UNCHANGED OwnPart(r)
            BY <2>2, OthersOwn
        <3> QED BY <1>1, <1>4, <3>1, Undisturbed
    <2> QED BY <2>1, <2>2
<1> QED BY <1>3, <1>4, <1>5 DEF Exchange

\* No step breaks the invariant of the exchange.
LEMMA ExchangePreserved == EInv /\ [Next]_vars => EInv'
<1> SUFFICES ASSUME EInv, [Next]_vars PROVE EInv'
    OBVIOUS
<1>1. IInv /\ IInv'
    BY Preserved DEF EInv
<1> SUFFICES ASSUME ~QLost' PROVE \E path, trios : Exchange(path, trios)'
    BY <1>1 DEF EInv
<1>2. CASE Next
    <2>1. PICK p \in Ranks : Host(p) \/ TransportFails(p) \/ Shutdown(p)
                              \/ SideStep(p) \/ ComputeStep(p)
        BY <1>2 DEF Next
    <2>2. tier' = tier /\ lost \subseteq lost'
        BY <1>1, <2>1, StepShares
    <2>3. ~QLost
        BY <2>2 DEF QLost
    <2>4. PICK path0, trios0 : Exchange(path0, trios0)
        BY <2>3 DEF EInv
    <2>5. PICK path, trios : Exchange(path, trios) /\ Ahead(p, path)
        BY <1>1, <2>4, OneMore
    <2>6. Exchange(path, trios)'
        BY <1>1, <2>1, <2>5, ExchangeStep
    <2> QED BY <2>6
<1>3. CASE UNCHANGED vars
    <2>1. UNCHANGED <<given, host, runtime, device, lost>>
        BY <1>3 DEF vars
    <2>2. ~QLost
        BY <2>1 DEF QLost, given
    <2>3. PICK path, trios : Exchange(path, trios)
        BY <2>2 DEF EInv
    <2>4. /\ Itinerary(path, trios) /\ Announced /\ Delivered(trios)
          /\ \A r \in Ranks : Live(r, path) /\ Streams(r, trios)
        BY <2>3 DEF Exchange
    <2>5. PutGrows
        BY <1>1, <2>1 DEF PutGrows, device, IInv, TypeOK
    <2>6. Itinerary(path, trios)'
        BY <2>1, <2>4, ItineraryStays DEF given
    <2>7. Announced' /\ Delivered(trios)'
        BY <2>1, <2>4 DEF Announced, Delivered, device
    <2>8. ASSUME NEW r \in Ranks PROVE Live(r, path)' /\ Streams(r, trios)'
        <3>1. UNCHANGED OwnPart(r)
            BY <2>1 DEF OwnPart, given, host, runtime, device
        <3> QED BY <1>1, <2>4, <2>5, <3>1, Undisturbed
    <2> QED BY <2>6, <2>7, <2>8 DEF Exchange
<1> QED BY <1>2, <1>3

-----------------------------------------------------------------------------
\* Before the first pass nothing is submitted.
LEMMA ExchangeStart == Init => EInv
<1> SUFFICES ASSUME Init PROVE EInv
    OBVIOUS
<1>1. IInv
    BY Start
<1> DEFINE c0 == RecipeAt(First)
           path == <<First>>
           trios == [c \in Recipes |-> IF c = c0 THEN <<TrioAt(First)>> ELSE <<>>]
<1>2. scheduled \in BOOLEAN /\ c0 = Schedule[1] /\ c0 \in Recipes /\ 1 \in 1 .. NumSteps
    BY Sizes DEF Init, RecipeAt, First
<1>3. First \in Positions /\ TrioAt(First) = [request |-> 1, step |-> 1] /\ TrioAt(First) \in Passes
    BY <1>2 DEF First, Positions, TrioAt, Passes
<1>4. ~Full(First)
    <2>1. {c \in Recipes : First.used[c] # 0} = {}
        BY DEF First
    <2>2. MaxOps \in Nat /\ MaxOps > 0
        BY BoundsAssumption
    <2>3. Cardinality({}) = 0
        BY FS_EmptySet
    <2> QED BY <2>1, <2>2, <2>3 DEF Full
<1>5. Itinerary(path, trios)
    <2>1. path \in Seq(Positions) /\ Len(path) = 1 /\ path[1] = First
        BY <1>3
    <2>2. /\ trios \in [Recipes -> Seq(Passes)]
          /\ \A c \in Recipes : Len(trios[c]) = IF c = c0 THEN 1 ELSE 0
          /\ trios[c0][1] = TrioAt(First)
        <3>1. <<TrioAt(First)>> \in Seq(Passes) /\ <<>> \in Seq(Passes)
            BY <1>3
        <3> HIDE DEF c0
        <3> QED BY <1>2, <3>1
    <2>3. \A c \in Recipes : First.used[c] = 0 /\ UsedAfter(First, c) = IF c = c0 THEN 1 ELSE 0
        BY <1>4 DEF First, UsedAfter
    <2> HIDE DEF path, trios
    <2> QED BY <1>2, <2>1, <2>2, <2>3 DEF Itinerary
<1>6. /\ \A q \in Ranks, ch \in Channels : put[q][ch] = 0 /\ published[q][ch] = 0
      /\ \A r \in Ranks : side[r] = <<>> /\ compute[r] = <<>> /\ pc[r] = "local"
      /\ \A r \in Ranks, c \in Recipes : op_cache[r][c] = None
    BY DEF Init
<1>7. Announced /\ Delivered(trios)
    <2>1. \A q \in Ranks, c \in Recipes, k \in Roles : put[q][<<c, k>>] = 0
        BY <1>6 DEF Channels
    <2> QED BY <1>6, <2>1 DEF Announced, Delivered
<1>8. ASSUME NEW r \in Ranks PROVE Live(r, path) /\ Streams(r, trios)
    <2>1. Streams(r, trios)
        <3>1. \A c \in Recipes, k \in Roles : /\ published[r][<<c, k>>] = 0 /\ put[r][<<c, k>>] = 0
                                              /\ Issued(r, c, k) = 0
            BY <1>6 DEF Channels, Issued
        <3>2. Labelled(r, trios) /\ Readable(r, trios) /\ Underway(r)
            BY <1>6 DEF Labelled, Readable, Underway, Submitting
        <3>3. Ordered(r)
            BY <1>6, <3>1 DEF Ordered
        <3> QED BY <3>2, <3>3 DEF Streams
    <2>2. Place(r, First)
        <3>1. request[r] = 0 /\ step_counter[r] = 1 /\ pc[r] = "local"
            BY DEF Init
        <3> QED BY <3>1 DEF Place, First, Submitting
    <2>3. Counted(r, First)
        BY <1>6 DEF Counted, First, Submitting, Adds, Issued
    <2> QED BY <2>1, <2>2, <2>3 DEF Live, At
<1> QED BY <1>1, <1>5, <1>7, <1>8 DEF EInv, Exchange

\* At the head of the compute stream every peer has sent the epoch that is
\* read, and none a later one.
LEMMA ReadEpoch ==
    ASSUME IInv, NEW path, NEW trios, Exchange(path, trios), NEW r \in Ranks,
           compute[r] # <<>>, compute[r][1].kind = "read",
           NEW c \in Recipes, NEW e \in 1 .. Len(trios[c]), NEW k \in Roles, Fresh(r, 1, c, k, e),
           NEW q \in Ranks
    PROVE  put[q][<<c, k>>] = e
<1>1. <<c, k>> \in Channels /\ Len(side[r]) \in Nat /\ side_done[r] \in Nat /\ e \in Nat
      /\ compute_done[r] \in Nat /\ put[q][<<c, k>>] \in Nat /\ published[r][<<c, k>>] \in Nat
    BY SMTT(45), JobKinds DEF Channels, IInv, TypeOK
<1>2. PICK n \in Nat : Arrives(r, c, k, e, n) /\ AwaitedBefore(r, n, 1)
    BY DEF Fresh
<1>3. n <= side_done[r]
    BY <1>2 DEF AwaitedBefore
<1>4. put[q][<<c, k>>] >= e
    BY <1>1, <1>2, <1>3 DEF Arrives
<1>5. published[r][<<c, k>>] <= e
    BY DEF Fresh, Kept
<1>6. put[q][<<c, k>>] <= published[r][<<c, k>>]
    BY <1>1 DEF Exchange, Announced
<1> QED BY <1>1, <1>4, <1>5, <1>6

LEMMA ExchangeReads == EInv => ReadsOwnTrio
<1> SUFFICES ASSUME EInv, ~QLost, NEW r \in Ranks, compute[r] # <<>>,
                    Head(compute[r]).kind = "read", NEW k \in Roles, NEW q \in Ranks
             PROVE  buffer[r][Head(compute[r]).slots[k + 1]][q] = Head(compute[r]).trio
    BY DEF ReadsOwnTrio
<1>1. IInv
    BY DEF EInv
<1>2. PICK path, trios : Exchange(path, trios)
    BY DEF EInv
<1>3. Head(compute[r]) = compute[r][1] /\ 1 \in 1 .. Len(compute[r])
    <2> DEFINE S == Reads \union Awaits
    <2>1. compute[r] \in Seq(S)
        BY <1>1, JobKinds DEF IInv
    <2> HIDE DEF S
    <2> QED BY <2>1
<1>4. Served(r, trios, 1)
    BY <1>2, <1>3 DEF Exchange, Streams, Readable
<1>5. PICK c \in Recipes : \E e \in 1 .. Len(trios[c]) :
          compute[r][1].trio = trios[c][e] /\ \A m \in Roles : Fresh(r, 1, c, m, e)
    BY <1>4 DEF Served
<1>6. PICK e \in 1 .. Len(trios[c]) :
          compute[r][1].trio = trios[c][e] /\ \A m \in Roles : Fresh(r, 1, c, m, e)
    BY <1>5
<1>7. put[q][<<c, k>>] = e
    BY <1>1, <1>2, <1>3, <1>6, ReadEpoch
<1>8. buffer[r][<<c, e % NumBuffers, k>>][q] = trios[c][e]
    BY <1>2, <1>7 DEF Exchange, Delivered
<1>9. compute[r][1].slots[k + 1] = <<c, e % NumBuffers, k>>
    BY <1>6 DEF Fresh
<1> QED BY <1>3, <1>6, <1>8, <1>9

-----------------------------------------------------------------------------
\* Whatever the group, the schedule, the number of buffers, of requests and of
\* submissions that fail: while an attention reads the buffers of a recipe
\* (or tier 1 clones them), they hold the Q, K and V of its own trio, of every
\* rank (submit_attention_a2a_input, _consume_input_collective_wait); a Q that
\* tier 2 loses is the one case left out, as in the property.
THEOREM AttentionReadsItsOwnTrio == Spec => []ReadsOwnTrio
<1>1. Init => EInv
    BY ExchangeStart
<1>2. EInv /\ [Next]_vars => EInv'
    BY ExchangePreserved
<1>3. EInv => ReadsOwnTrio
    BY ExchangeReads
<1> QED BY <1>1, <1>2, <1>3, PTL DEF Spec
=============================================================================
