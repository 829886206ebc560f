---------------------------- MODULE AttentionA2A ----------------------------
(***************************************************************************)
(* The quantized attention all-to-all: the collective preflight, the       *)
(* per-step recipe, and the exchange of one attention call's Q, K and V    *)
(* (a trio) between the ranks of the Ulysses group.  The host of a rank    *)
(* only queues work: the exchange runs on a side stream, the attention on  *)
(* the compute stream, and the peers write straight into this rank's       *)
(* buffers, which every later trio of the same recipe uses again.          *)
(*                                                                         *)
(* Tier 1 hands the three roles over in one ordered operation and clones   *)
(* them; tier 2 waits for every role on its own, whenever the compiler put *)
(* the wait, and finds what to wait for by the address of the buffer.      *)
(* A forward pass stands for one attention call.                           *)
(***************************************************************************)
EXTENDS Naturals, Sequences, FiniteSets

CONSTANTS
    Ranks,         \* the ranks of the Ulysses group
    Schedule,      \* the recipe of every step of a request, as the attention schedule gives it
    NumRequests,   \* bound: requests the ranks are asked for
    MaxOps,        \* _MAX_OP_CACHE_ENTRIES
    NumBuffers,    \* output buffers of a transport operation (external)
    MaxAhead,      \* bound: operations a rank may have queued on its side stream
    MaxFailures,   \* bound: submissions the transport refuses
    BadInstalls,   \* the sets of ranks whose local preflight checks may fail together
    None           \* Python's None

NumSteps == Len(Schedule)
Recipes  == {Schedule[s] : s \in 1 .. NumSteps}
Roles    == 0 .. 2
Trios    == [request : 1 .. NumRequests, step : 1 .. NumSteps]
Held     == [trio : Trios, recipe : Recipes, next_role : 1 .. 3]
Awaited  == [trio : Trios, role : Roles]

ASSUME RanksAssumption    == IsFiniteSet(Ranks) /\ Ranks # {}
ASSUME ScheduleAssumption == Schedule \in Seq(Recipes) /\ NumSteps > 0
ASSUME BoundsAssumption   == /\ {NumRequests, MaxAhead, MaxFailures} \subseteq Nat
                             /\ {MaxOps, NumBuffers} \subseteq Nat \ {0}
ASSUME NoneAssumption     == /\ None \notin Held \union Awaited \union Recipes \union Trios
                             /\ None \notin [Roles -> Nat]
ASSUME InstallsAssumption == BadInstalls \subseteq SUBSET Ranks

VARIABLES
    tier,                          \* what the Torch build supports, the same on every rank
    scheduled,                     \* is there an attention schedule
    bad,                           \* the ranks whose local preflight checks fail
    pc, gathers, error,            \* host: control, collectives done, preflight error
    request, step, role,           \* host: the request, its forward pass, the next role
    outputs, taken,                \* host: the buffers of the pass's roles, how many were waited for
    step_counter,                  \* of the runtime state, counting from 1
    recipe,                        \* _ATTENTION_A2A_CONFIG
    pending,                       \* _INPUT_PENDING: the trio under way (Held), or None
    poisoned,                      \* _ATTENTION_A2A_POISONED
    op_cache,                      \* _OP_CACHE: recipe -> epoch of each role, or None
    waits,                         \* _INPUT_COLLECTIVE_WAITS: buffer -> its trio, or None
    trio_waits,                    \* the events of the last trio, and how many were waited for
    compute, side,                 \* what is queued on the two streams
    compute_done, side_done,       \* what has run on them
    published, put,                \* (external) epochs a rank is ready for, and has sent
    buffer,                        \* (external) buffer -> sender -> the trio whose data it holds
    lost, aborted                  \* rank and role of failed submissions; ranks with a request cut short

given  == <<tier, scheduled, bad>>
host   == <<pc, gathers, error, request, step, role, outputs, taken, step_counter, recipe>>
runtime == <<pending, poisoned, op_cache, waits, trio_waits>>
device == <<compute, side, compute_done, side_done, published, put, buffer>>
vars   == <<given, host, runtime, device, lost, aborted>>

Channels == Recipes \X Roles
Slots    == Recipes \X (0 .. NumBuffers - 1) \X Roles
NoEvents == [events |-> <<>>, waited |-> 0]

-----------------------------------------------------------------------------
(* preflight_attention_a2a.  The k-th all_gather_object of a rank meets the *)
(* k-th of every other, whatever each of them gathers.                      *)

InGather(r) == pc[r] \in {"hosts", "errors"}
AllJoined(r) == \A q \in Ranks : gathers[q] + (IF InGather(q) THEN 1 ELSE 0) > gathers[r]

\* A rank that fails a check of its own never gathers the host names.
LocalChecks(r) ==
    /\ pc[r] = "local"
    /\ pc' = [pc EXCEPT ![r] = IF r \in bad THEN "errors" ELSE "hosts"]
    /\ error' = [error EXCEPT ![r] = r \in bad]
    /\ UNCHANGED <<given, gathers, request, step, role, outputs, taken, step_counter,
                   recipe, runtime, device, lost, aborted>>

\* A message in the place of a host name is another host.
GatherHosts(r) ==
    /\ pc[r] = "hosts" /\ AllJoined(r)
    /\ error' = [error EXCEPT ![r] = bad # {}]
    /\ gathers' = [gathers EXCEPT ![r] = @ + 1]
    /\ pc' = [pc EXCEPT ![r] = "errors"]
    /\ UNCHANGED <<given, request, step, role, outputs, taken, step_counter, recipe,
                   runtime, device, lost, aborted>>

\* What the ranks put into the gather this rank takes for that of the errors:
\* none of it is None if it is the gather where the others put host names.
SomeError(r) == gathers[r] = 0 \/ \E q \in Ranks : error[q]
GatherErrors(r) ==
    /\ pc[r] = "errors" /\ AllJoined(r)
    /\ gathers' = [gathers EXCEPT ![r] = @ + 1]
    /\ pc' = [pc EXCEPT ![r] = IF SomeError(r) THEN "raised" ELSE "idle"]
    /\ UNCHANGED <<given, error, request, step, role, outputs, taken, step_counter,
                   recipe, runtime, device, lost, aborted>>

-----------------------------------------------------------------------------
(* A request: one forward pass per step                                     *)

\* The caller may go on after a request that raised.
BeginRequest(r) ==
    /\ pc[r] \in {"idle", "failed"} /\ request[r] < NumRequests
    /\ request' = [request EXCEPT ![r] = @ + 1]
    /\ step' = [step EXCEPT ![r] = 1]
    /\ pc' = [pc EXCEPT ![r] = "forward"]
    /\ UNCHANGED <<given, gathers, error, role, outputs, taken, step_counter, recipe,
                   runtime, device, lost, aborted>>

\* An exception leaves the forward pass and ends the request.
Raise(r) ==
    /\ pc' = [pc EXCEPT ![r] = "failed"]
    /\ aborted' = aborted \union {r}

\* increment_step_counter: with a schedule, the recipe of the step, which is
\* refused while a trio is under way.
MaySwitch(r) == scheduled => pending[r] = None
NextCount_Unbounded(c) == c + 1
NextCount_Stays(c) == IF c = NumSteps THEN c ELSE c + 1
NextCount(c) == IF c = NumSteps THEN 1 ELSE c + 1
Forward(r) ==
    /\ pc[r] = "forward"
    /\ IF MaySwitch(r)
       THEN /\ IF scheduled
               THEN /\ recipe' = [recipe EXCEPT ![r] = Schedule[step_counter[r]]]
                    /\ step_counter' = [step_counter EXCEPT ![r] = NextCount(@)]
               ELSE UNCHANGED <<recipe, step_counter>>
            /\ pc' = [pc EXCEPT ![r] = "trio"]
            /\ UNCHANGED aborted
       ELSE Raise(r) /\ UNCHANGED <<recipe, step_counter>>
    /\ role' = [role EXCEPT ![r] = 0]
    /\ outputs' = [outputs EXCEPT ![r] = <<>>]
    /\ taken' = [taken EXCEPT ![r] = 0]
    /\ UNCHANGED <<given, gathers, error, request, step, runtime, device, lost>>

-----------------------------------------------------------------------------
(* Submitting a role *)

Trio(r) == [request |-> request[r], step |-> step[r]]

\* The refusals before anything is queued.
InputUnconsumed_Ignored(r) == FALSE
InputUnconsumed(r) == role[r] = 0 /\ pending[r] # None
OutOfOrder(r) == role[r] > 0 /\ (pending[r] = None \/ pending[r].next_role # role[r])
CacheFull(r) ==
    /\ role[r] = 0 /\ op_cache[r][recipe[r]] = None
    /\ Cardinality({c \in Recipes : op_cache[r][c] # None}) >= MaxOps

\* What an exception of the submission itself leaves: tier 1 drops the trio
\* and poisons the runtime, tier 2 keeps the roles it has.
Poisons == tier = 1
Cleanup(r) ==
    IF Poisons
    THEN /\ pending' = [pending EXCEPT ![r] = None]
         /\ poisoned' = [poisoned EXCEPT ![r] = TRUE]
    ELSE UNCHANGED <<pending, poisoned>>

SubmitFails(r) ==
    /\ pc[r] = "trio" /\ role[r] \in Roles
    /\ \/ /\ poisoned[r] \/ InputUnconsumed(r)
          /\ UNCHANGED <<pending, poisoned, lost>>
       \/ /\ ~poisoned[r] /\ ~InputUnconsumed(r)
          /\ OutOfOrder(r) \/ CacheFull(r)
          /\ Cleanup(r)
          /\ UNCHANGED lost
    /\ Raise(r)
    /\ UNCHANGED <<given, gathers, error, request, step, role, outputs, taken, step_counter,
                   recipe, op_cache, waits, trio_waits, device>>

Accepted(r) ==
    /\ pc[r] = "trio" /\ role[r] \in Roles
    /\ ~poisoned[r] /\ ~InputUnconsumed(r) /\ ~OutOfOrder(r) /\ ~CacheFull(r)

\* The transport (external) raises before it has queued anything.
TransportFails(r) ==
    /\ Accepted(r)
    /\ Cardinality(lost) < MaxFailures
    /\ lost' = lost \union {<<r, role[r]>>}
    /\ Cleanup(r)
    /\ Raise(r)
    /\ UNCHANGED <<given, gathers, error, request, step, role, outputs, taken, step_counter,
                   recipe, op_cache, waits, trio_waits, device>>

\* The side stream starts behind what the compute stream holds now.
AfterProducer_Nothing(r) == 0
AfterProducer(r) == compute_done[r] + Len(compute[r])

\* The operation of the recipe counts the epochs of each role, and takes the
\* buffers of a role in turn.
Epochs(r) == IF op_cache[r][recipe[r]] = None THEN [k \in Roles |-> 0]
             ELSE op_cache[r][recipe[r]]
NextEpoch(r) == Epochs(r)[role[r]] + 1
NextSlot(r) == <<recipe[r], NextEpoch(r) % NumBuffers, role[r]>>
Job(r, kind) == [kind |-> kind, trio |-> Trio(r), slot |-> NextSlot(r),
                 epoch |-> NextEpoch(r), after |-> AfterProducer(r)]

\* The role is queued: announce the buffer free, send to all, receive of all.
\* Its event stands behind the receive.
ReceiveEvent(r) == side_done[r] + Len(side[r]) + 3
NextEvents(r) == IF role[r] = 0 THEN [events |-> <<ReceiveEvent(r)>>, waited |-> 0]
                 ELSE [trio_waits[r] EXCEPT !.events = Append(@, ReceiveEvent(r))]
Submit(r) ==
    /\ Accepted(r)
    /\ Len(side[r]) + 3 <= MaxAhead
    /\ op_cache' = [op_cache EXCEPT ![r][recipe[r]] =
                        [Epochs(r) EXCEPT ![role[r]] = NextEpoch(r)]]
    /\ side' = [side EXCEPT ![r] =
                    @ \o <<Job(r, "announce"), Job(r, "send"), Job(r, "receive")>>]
    /\ pending' = [pending EXCEPT ![r] =
                    [trio |-> Trio(r), recipe |-> recipe[r], next_role |-> role[r] + 1]]
    /\ IF tier = 2
       THEN /\ waits' = [waits EXCEPT ![r][NextSlot(r)] =
                            [trio |-> Trio(r), role |-> role[r]]]
            /\ trio_waits' = [trio_waits EXCEPT ![r] = NextEvents(r)]
       ELSE UNCHANGED <<waits, trio_waits>>
    /\ outputs' = [outputs EXCEPT ![r] = Append(@, NextSlot(r))]
    /\ role' = [role EXCEPT ![r] = @ + 1]
    /\ UNCHANGED <<given, pc, gathers, error, request, step, taken, step_counter, recipe,
                   poisoned, compute, compute_done, side_done, published, put, buffer,
                   lost, aborted>>

-----------------------------------------------------------------------------
(* Waiting for the roles, and the attention *)

AwaitSide(n) == [kind |-> "await", after |-> n]
Read(r) == [kind |-> "read", trio |-> Trio(r), slots |-> outputs[r]]

\* Tier 2, _consume_input_collective_wait: the newest event covers the roles
\* before it, so a wait that is covered queues nothing.
Covered(r, k) == trio_waits[r].waited > k
FreesInput_Never(k) == FALSE
FreesInput(k) == k = 2
Wait(r) ==
    LET slot == outputs[r][taken[r] + 1]
        entry == waits[r][slot]
        events == trio_waits[r].events
    IN
    /\ tier = 2 /\ pc[r] = "trio"
    /\ taken[r] < role[r]
    /\ entry # None
    /\ waits' = [waits EXCEPT ![r][slot] = None]
    /\ IF Covered(r, entry.role)
       THEN UNCHANGED <<compute, trio_waits>>
       ELSE /\ compute' = [compute EXCEPT ![r] = Append(@, AwaitSide(events[Len(events)]))]
            /\ trio_waits' = [trio_waits EXCEPT ![r].waited = Len(events)]
    /\ pending' = IF FreesInput(entry.role) THEN [pending EXCEPT ![r] = None] ELSE pending
    /\ taken' = [taken EXCEPT ![r] = @ + 1]
    /\ UNCHANGED <<given, pc, gathers, error, request, step, role, outputs, step_counter,
                   recipe, poisoned, op_cache, side, compute_done, side_done,
                   published, put, buffer, lost, aborted>>

\* The attention reads the buffers; in tier 1 the clones that one ordered
\* operation makes of them once the side stream is through.
Attend(r) ==
    /\ pc[r] = "trio" /\ role[r] = 3
    /\ tier = 2 => taken[r] = 3
    /\ compute' = [compute EXCEPT ![r] = @ \o
            IF tier = 2 THEN <<Read(r)>>
            ELSE <<AwaitSide(side_done[r] + Len(side[r])), Read(r)>>]
    /\ pending' = IF tier = 1 THEN [pending EXCEPT ![r] = None] ELSE pending
    /\ IF step[r] = NumSteps
       THEN pc' = [pc EXCEPT ![r] = "idle"] /\ UNCHANGED step
       ELSE pc' = [pc EXCEPT ![r] = "forward"] /\ step' = [step EXCEPT ![r] = @ + 1]
    /\ UNCHANGED <<given, gathers, error, request, role, outputs, taken, step_counter, recipe,
                   poisoned, op_cache, waits, trio_waits, side, compute_done, side_done,
                   published, put, buffer, lost, aborted>>

\* shutdown_attention_a2a: wait for the device, then forget everything.
Shutdown(r) ==
    /\ pc[r] = "failed" \/ (pc[r] = "idle" /\ request[r] = NumRequests)
    /\ compute[r] = <<>> /\ side[r] = <<>>
    /\ pending' = [pending EXCEPT ![r] = None]
    /\ waits' = [waits EXCEPT ![r] = [s \in Slots |-> None]]
    /\ op_cache' = [op_cache EXCEPT ![r] = [c \in Recipes |-> None]]
    /\ poisoned' = [poisoned EXCEPT ![r] = FALSE]
    /\ recipe' = [recipe EXCEPT ![r] = None]
    /\ pc' = [pc EXCEPT ![r] = "shut"]
    /\ UNCHANGED <<given, gathers, error, request, step, role, outputs, taken, step_counter,
                   trio_waits, device, lost, aborted>>

-----------------------------------------------------------------------------
(* The streams of a rank run what is queued, in order.                      *)

Channel(job) == <<job.slot[1], job.slot[3]>>

SideStep(r) ==
    LET job == Head(side[r])
        ch == Channel(job)
    IN
    /\ side[r] # <<>>
    /\ \/ /\ job.kind = "announce" /\ compute_done[r] >= job.after
          /\ published' = [published EXCEPT ![r][ch] = job.epoch]
          /\ UNCHANGED <<put, buffer>>
       \/ /\ job.kind = "send" /\ \A q \in Ranks : published[q][ch] >= job.epoch
          /\ put' = [put EXCEPT ![r][ch] = job.epoch]
          /\ buffer' = [q \in Ranks |-> [buffer[q] EXCEPT ![job.slot][r] = job.trio]]
          /\ UNCHANGED published
       \/ /\ job.kind = "receive" /\ \A q \in Ranks : put[q][ch] >= job.epoch
          /\ UNCHANGED <<published, put, buffer>>
    /\ side' = [side EXCEPT ![r] = Tail(@)]
    /\ side_done' = [side_done EXCEPT ![r] = @ + 1]
    /\ UNCHANGED <<given, host, runtime, compute, compute_done, lost, aborted>>

ComputeStep(r) ==
    /\ compute[r] # <<>>
    /\ LET op == Head(compute[r]) IN op.kind = "await" => side_done[r] >= op.after
    /\ compute' = [compute EXCEPT ![r] = Tail(@)]
    /\ compute_done' = [compute_done EXCEPT ![r] = @ + 1]
    /\ UNCHANGED <<given, host, runtime, side, side_done, published, put, buffer, lost, aborted>>

-----------------------------------------------------------------------------
Init ==
    /\ tier \in {1, 2} /\ scheduled \in BOOLEAN
    /\ bad \in BadInstalls
    /\ pc = [r \in Ranks |-> "local"]
    /\ gathers = [r \in Ranks |-> 0]
    /\ error = [r \in Ranks |-> FALSE]
    /\ request = [r \in Ranks |-> 0]
    /\ step = [r \in Ranks |-> 1]
    /\ role = [r \in Ranks |-> 0]
    /\ outputs = [r \in Ranks |-> <<>>]
    /\ taken = [r \in Ranks |-> 0]
    /\ step_counter = [r \in Ranks |-> 1]
    /\ recipe = [r \in Ranks |-> Schedule[1]]
    /\ pending = [r \in Ranks |-> None]
    /\ poisoned = [r \in Ranks |-> FALSE]
    /\ op_cache = [r \in Ranks |-> [c \in Recipes |-> None]]
    /\ waits = [r \in Ranks |-> [s \in Slots |-> None]]
    /\ trio_waits = [r \in Ranks |-> NoEvents]
    /\ compute = [r \in Ranks |-> <<>>]
    /\ side = [r \in Ranks |-> <<>>]
    /\ compute_done = [r \in Ranks |-> 0]
    /\ side_done = [r \in Ranks |-> 0]
    /\ published = [r \in Ranks |-> [ch \in Channels |-> 0]]
    /\ put = [r \in Ranks |-> [ch \in Channels |-> 0]]
    /\ buffer = [r \in Ranks |-> [s \in Slots |-> [q \in Ranks |-> None]]]
    /\ lost = {} /\ aborted = {}

Host(r) ==
    \/ LocalChecks(r) \/ GatherHosts(r) \/ GatherErrors(r)
    \/ BeginRequest(r) \/ Forward(r)
    \/ Submit(r) \/ SubmitFails(r)
    \/ Wait(r) \/ Attend(r)

Next == \E r \in Ranks :
    Host(r) \/ TransportFails(r) \/ Shutdown(r) \/ SideStep(r) \/ ComputeStep(r)

Spec == Init /\ [][Next]_vars

-----------------------------------------------------------------------------
(* Properties *)

\* The types of the variables.
TypeOK ==
    /\ pc \in [Ranks -> {"local", "hosts", "errors", "raised", "idle", "forward", "trio",
                         "failed", "shut"}]
    /\ gathers \in [Ranks -> 0 .. 2] /\ error \in [Ranks -> BOOLEAN]
    /\ request \in [Ranks -> 0 .. NumRequests] /\ step \in [Ranks -> 1 .. NumSteps]
    /\ role \in [Ranks -> 0 .. 3] /\ taken \in [Ranks -> 0 .. 3]
    /\ outputs \in [Ranks -> Seq(Slots)]
    /\ step_counter \in [Ranks -> 1 .. NumSteps]
    /\ recipe \in [Ranks -> Recipes \union {None}]
    /\ pending \in [Ranks -> Held \union {None}]
    /\ poisoned \in [Ranks -> BOOLEAN]
    /\ op_cache \in [Ranks -> [Recipes -> [Roles -> Nat] \union {None}]]
    /\ waits \in [Ranks -> [Slots -> Awaited \union {None}]]
    /\ trio_waits \in [Ranks -> [events : Seq(Nat), waited : 0 .. 3]]
    /\ published \in [Ranks -> [Channels -> Nat]] /\ put \in [Ranks -> [Channels -> Nat]]
    /\ buffer \in [Ranks -> [Slots -> [Ranks -> Trios \union {None}]]]
    /\ lost \subseteq Ranks \X Roles /\ aborted \subseteq Ranks

\* A failed Q leaves nothing behind in tier 2, so a caller that goes on after
\* it would meet peers that still wait for that Q.
QLost == tier = 2 /\ \E r \in Ranks : <<r, 0>> \in lost

\* While an attention reads the buffers (or tier 1 clones them), they hold the
\* Q, K and V of its own trio, of every rank of the group: no wait was saved
\* too early, and no peer runs ahead into a buffer that is still read,
\* whatever a rank does after a submission that failed.
ReadsOwnTrio ==
    ~QLost =>
        \A r \in Ranks : compute[r] # <<>> /\ Head(compute[r]).kind = "read" =>
            \A k \in Roles, q \in Ranks :
                buffer[r][Head(compute[r]).slots[k + 1]][q] = Head(compute[r]).trio

\* A wait left over from a request that raised is never taken for that of a
\* later trio in the same buffer: what is registered belongs to the trio the
\* runtime holds, or to the one whose attention is being put together.
WaitsAreOwn ==
    \A r \in Ranks, s \in Slots : waits[r][s] # None =>
        \/ pending[r] # None /\ waits[r][s].trio = pending[r].trio
        \/ pc[r] = "trio" /\ waits[r][s].trio = Trio(r)

\* All roles of a trio are encoded by one recipe, the schedule's for the step,
\* unless a request of this rank was cut short: the step counter stays where
\* that request left it.
RecipeOfStep ==
    \A r \in Ranks : pc[r] = "trio" /\ r \notin aborted =>
        /\ recipe[r] = IF scheduled THEN Schedule[step[r]] ELSE Schedule[1]
        /\ \A i \in DOMAIN outputs[r] : outputs[r][i][1] = recipe[r]

\* As long as the transport accepts what it is given and the cache has room
\* for every recipe, no rank waits for ever, on the host or on the device, and
\* no request raises: until every rank is through with its requests some host
\* or stream has a step to take, and none ever repeats one.
Through(r) ==
    \/ pc[r] \in {"raised", "shut"}
    \/ pc[r] = "idle" /\ request[r] = NumRequests /\ compute[r] = <<>> /\ side[r] = <<>>
NeverStuck ==
    \/ lost # {} \/ MaxOps < Cardinality(Recipes)
    \/ \A r \in Ranks : Through(r)
    \/ \E r \in Ranks : ENABLED Host(r) \/ ENABLED SideStep(r) \/ ENABLED ComputeStep(r)
=============================================================================
