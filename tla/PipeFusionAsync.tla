--------------------------- MODULE PipeFusionAsync ---------------------------
(***************************************************************************)
(* The asynchronous phase of PipeFusion: PipeFusionAsyncDriver.run with    *)
(* the hooks of PipeFusionImagePatchSchedule, over PipeFusionTransport and *)
(* PipelineGroupCoordinator.  NumStages processes form a ring; in every    *)
(* diffusion step each of them runs NumPatches image patches through its   *)
(* share of the transformer, hands the result to the next stage, and the   *)
(* last stage feeds the updated latents back to the first one for the next *)
(* step.  Messages carry no identity on the wire: the k-th receive posted  *)
(* takes the k-th send of the link, and a stage only knows which patch it  *)
(* asked for.                                                              *)
(***************************************************************************)
EXTENDS Naturals, Sequences

CONSTANTS
    NumStages,       \* pipeline parallel world size
    NumSteps,        \* len(timesteps) of the asynchronous phase
    NumPatches,      \* layout.num_patches
    ConditionReuse,  \* the condition travels with patch 0 only (Flux) or with every patch
    ShapesPreset,    \* the transport was given recv_shapes and send_shapes
    LinkCapacity,    \* unreceived messages a link takes before a send blocks
    HostSync,        \* synchronize() waits for the device; FALSE for the gloo transport
    None             \* Python's None

ASSUME StagesAssumption    == NumStages \in Nat /\ NumStages > 1
ASSUME StepsAssumption     == NumSteps \in Nat /\ NumSteps > 0
ASSUME PatchesAssumption   == NumPatches \in Nat /\ NumPatches > 0
ASSUME TransportAssumption == /\ LinkCapacity \in Nat
                              /\ {ConditionReuse, ShapesPreset, HostSync} \subseteq BOOLEAN

Stages  == 0 .. NumStages - 1
Patches == 0 .. NumPatches - 1
First   == 0
Last    == NumStages - 1
next_rank(i) == IF i = Last THEN First ELSE i + 1
prev_rank(i) == IF i = First THEN Last ELSE i - 1

(***************************************************************************)
(* A latent is known by its patch, the diffusion step it belongs to and    *)
(* the number of stages it went through in that step; a condition state    *)
(* by its step and the number of stages.                                   *)
(***************************************************************************)
Image == [patch : Patches, step : 0 .. NumSteps, depth : 0 .. NumStages]
Condition == [step : 0 .. NumSteps, depth : 0 .. NumStages]
Payload == [image : Image, cond : Condition \union {None}]
Message == [kind : {"shape", "data"}, body : Payload]
Request == [kind : {"shape", "data"}, idx : Patches]

ASSUME NoneAssumption == None \notin Nat \union Payload \union Condition

VARIABLES
    pc,                  \* where the driver of each stage is
    io,                  \* "sync" while the host is inside _check_shape_and_buffer
    step, patch,         \* the driver's step_index and patch_index
    pipeline_patch_idx,  \* the runtime state's own patch cursor
    recv_task,           \* head of recv_tasks_queue, as its round and its segment
    receiving_tasks,     \* receives posted and not yet taken by get_pipeline_recv_data
    primed,              \* _recv_primed
    recv_shape,          \* segment -> the patch whose shape was negotiated, or None
    send_shape,          \* the segments whose shape was announced to the next stage
    recv_buffer,         \* segment -> its payload
    posted,              \* receives the link has not matched yet
    link,                \* link[i]: messages of i that next_rank(i) has not received
    send_tensors,        \* _send_tensors and _send_tasks: patch -> the payload being sent
    patch_latents,       \* patch -> its latent, or None
    previous,            \* the last stage's latents before the step
    condition_states,    \* the patches whose recv_buffer holds a condition view
    incoming_condition,  \* the segment whose condition view the step reuses, or None
    outgoing_condition,  \* this stage's condition output of patch 0
    outbound             \* what commit_patch returned

control  == <<pc, io, step, patch, pipeline_patch_idx>>
group    == <<recv_task, receiving_tasks, recv_shape, send_shape>>
network  == <<recv_buffer, posted, link>>
schedule == <<patch_latents, previous, condition_states,
              incoming_condition, outgoing_condition, outbound>>
vars == <<control, group, network, schedule, primed, send_tensors>>

-----------------------------------------------------------------------------
(* PipeFusionWorkItem.  An operator whose name ends in _Something is a      *)
(* mutant of the definition that follows it; no specification uses it.     *)

final_patch(i)   == patch[i] = NumPatches - 1
needs_receive_Never(i) == i # First
needs_receive(i) == i # First \/ step[i] > 0
has_next_receive_NoEnd(i) == i # First \/ step[i] > 0 \/ final_patch(i)
has_next_receive(i) ==
    /\ ~(step[i] = NumSteps - 1 /\ final_patch(i))
    /\ i # First \/ step[i] > 0 \/ final_patch(i)

IncludesCondition(p) == ~(ConditionReuse /\ p > 0)

\* queue_receives: the segments of the rounds FirstRound(i) .. NumSteps - 1.
FirstRound_All(i) == 0
FirstRound(i) == IF i = First THEN 1 ELSE 0
NextTask(w) == IF w.patch < NumPatches - 1 THEN [step |-> w.step, patch |-> w.patch + 1]
               ELSE [step |-> w.step + 1, patch |-> 0]

-----------------------------------------------------------------------------
(* The links: external (torch.distributed point-to-point).                 *)

\* The first LinkCapacity unreceived messages sit in the link; the sends of
\* the others are not complete.
Pending(i) == (LinkCapacity + 1) .. Len(link[i])

\* synchronize() returns when everything the host posted is complete.
Quiescent(i) == HostSync => (posted[i] = <<>> /\ Pending(i) = {})

\* The k-th receive takes the k-th message.  A shape lands in recv_shape, a
\* payload in the buffer of the segment the receiver named.
Deliver(i) ==
    LET from == prev_rank(i) IN
    /\ posted[i] # <<>> /\ link[from] # <<>>
    /\ LET r == Head(posted[i])
           m == Head(link[from])
       IN /\ recv_shape' = IF r.kind = "shape"
                           THEN [recv_shape EXCEPT ![i][r.idx] = m.body.image.patch]
                           ELSE recv_shape
          /\ recv_buffer' = IF r.kind = "data"
                            THEN [recv_buffer EXCEPT ![i][r.idx] = m.body]
                            ELSE recv_buffer
          /\ pc' = IF r.kind = m.kind THEN pc ELSE [pc EXCEPT ![i] = "failed"]
    /\ posted' = [posted EXCEPT ![i] = Tail(@)]
    /\ link' = [link EXCEPT ![from] = Tail(@)]
    /\ UNCHANGED <<io, step, patch, pipeline_patch_idx, recv_task,
                   receiving_tasks, send_shape, schedule, primed, send_tensors>>

-----------------------------------------------------------------------------
(* PipelineGroupCoordinator.recv_next *)

\* Only the final patch prefetches before its send.
PrefetchesBeforeSend_Always(i) == TRUE
PrefetchesBeforeSend(i) == final_patch(i)

\* The three places of the driver that call recv_next.
CallsRecvNext(i) ==
    \/ pc[i] = "receive" /\ needs_receive(i) /\ ~primed[i]
    \/ pc[i] = "prefetch_before_send" /\ PrefetchesBeforeSend(i) /\ has_next_receive(i)
    \/ pc[i] = "prefetch_after_send" /\ ~PrefetchesBeforeSend(i) /\ has_next_receive(i)

AfterRecvNext == [receive              |-> "get",
                  prefetch_before_send |-> "send",
                  prefetch_after_send  |-> "advance"]

\* "No more tasks to receive"
QueueEmpty(i) == recv_task[i].step >= NumSteps

\* recv_next up to synchronize(): a segment used for the first time posts
\* the receive of its shape.
RecvNextCheck(i) ==
    /\ CallsRecvNext(i) /\ io[i] = "idle"
    /\ IF QueueEmpty(i)
       THEN /\ pc' = [pc EXCEPT ![i] = "failed"]
            /\ UNCHANGED <<io, posted>>
       ELSE /\ io' = [io EXCEPT ![i] = "sync"]
            /\ posted' = IF recv_shape[i][recv_task[i].patch] = None
                         THEN [posted EXCEPT ![i] =
                                Append(@, [kind |-> "shape", idx |-> recv_task[i].patch])]
                         ELSE posted
            /\ pc' = pc
    /\ UNCHANGED <<step, patch, pipeline_patch_idx, group, recv_buffer,
                   link, schedule, primed, send_tensors>>

\* The rest of recv_next: the shape is there, the receive of the payload is
\* posted into the segment's buffer.
RecvNextPost(i) ==
    LET idx == recv_task[i].patch IN
    /\ CallsRecvNext(i) /\ io[i] = "sync"
    /\ recv_shape[i][idx] # None
    /\ Quiescent(i)
    /\ io' = [io EXCEPT ![i] = "idle"]
    /\ recv_task' = [recv_task EXCEPT ![i] = NextTask(@)]
    /\ posted' = [posted EXCEPT ![i] = Append(@, [kind |-> "data", idx |-> idx])]
    /\ receiving_tasks' = [receiving_tasks EXCEPT ![i] = Append(@, idx)]
    /\ primed' = [primed EXCEPT ![i] = (pc[i] # "receive")]
    /\ pc' = [pc EXCEPT ![i] = AfterRecvNext[@]]
    /\ UNCHANGED <<step, patch, pipeline_patch_idx, recv_shape, send_shape,
                   recv_buffer, link, schedule, send_tensors>>

-----------------------------------------------------------------------------
(* PipeFusionAsyncDriver.run and the hooks it calls *)

\* The hook interrupted_fn keeps its default, _never_interrupted, in every
\* pipeline, so no step is skipped.
BeginStep(i) ==
    /\ pc[i] = "step" /\ step[i] < NumSteps
    /\ pc' = [pc EXCEPT ![i] = "receive"]
    /\ patch' = [patch EXCEPT ![i] = 0]
    /\ incoming_condition' = [incoming_condition EXCEPT ![i] = None]
    /\ outgoing_condition' = [outgoing_condition EXCEPT ![i] = None]
    /\ UNCHANGED <<io, step, pipeline_patch_idx, group, network,
                   patch_latents, previous, condition_states, outbound, primed,
                   send_tensors>>

\* The branches of receive that post nothing.
Receive(i) ==
    /\ pc[i] = "receive" /\ io[i] = "idle"
    /\ ~needs_receive(i) \/ primed[i]
    /\ pc' = [pc EXCEPT ![i] = IF needs_receive(i) THEN "get" ELSE "prepare"]
    /\ UNCHANGED <<io, step, patch, pipeline_patch_idx, group, network,
                   schedule, primed, send_tensors>>

\* get_pipeline_recv_data: pop the oldest task, wait for it, and compare the
\* segment the stage itself asked for, not what the message holds.
GetRecvData(i) ==
    LET outstanding == {k \in 1 .. Len(posted[i]) : posted[i][k].kind = "data"} IN
    /\ pc[i] = "get"
    /\ receiving_tasks[i] # <<>> => outstanding = {}
    /\ IF receiving_tasks[i] # <<>> /\ Head(receiving_tasks[i]) = patch[i]
       THEN /\ pc' = [pc EXCEPT ![i] = "prepare"]
            /\ primed' = [primed EXCEPT ![i] = FALSE]
            /\ receiving_tasks' = [receiving_tasks EXCEPT ![i] = Tail(@)]
       ELSE /\ pc' = [pc EXCEPT ![i] = "failed"]
            /\ UNCHANGED <<primed, receiving_tasks>>
    /\ UNCHANGED <<io, step, patch, pipeline_patch_idx, recv_task,
                   recv_shape, send_shape, network, schedule, send_tensors>>

\* The latent and the condition the patch is computed from, read through the
\* receive buffers they are views of.
InputImage(i) ==
    IF needs_receive(i) THEN recv_buffer[i][patch[i]].image ELSE patch_latents[i][patch[i]]

ConditionSegment_Own(i) == patch[i]
ConditionSegment(i) ==
    IF ConditionReuse /\ patch[i] > 0 THEN incoming_condition[i] ELSE patch[i]

InputCondition(i) ==
    IF i = First THEN [step |-> step[i], depth |-> 0]
    ELSE recv_buffer[i][ConditionSegment(i)].cond

\* The last stage keeps the latent of the step's start, before the receive
\* replaces it, for its scheduler step.
PreviousLatent_AfterReceive(i) == InputImage(i)
PreviousLatent(i) == patch_latents[i][patch[i]]

\* prepare_patch.  unpack refuses a payload whose tokens do not fit the
\* patch, and a patch without a condition state is an error.
PreparePatch(i) ==
    LET p == patch[i]
        held == IF needs_receive(i) /\ i # First /\ IncludesCondition(p)
                THEN condition_states[i] \union {p} ELSE condition_states[i]
        unpacks == (needs_receive(i) /\ i # First) => recv_shape[i][p] = p
        condition == \/ i = First
                     \/ IF ConditionReuse /\ p > 0 THEN incoming_condition[i] # None
                                                   ELSE p \in held
    IN
    /\ pc[i] = "prepare"
    /\ previous' = IF i = Last THEN [previous EXCEPT ![p] = PreviousLatent(i)] ELSE previous
    /\ condition_states' = [condition_states EXCEPT ![i] = held]
    /\ incoming_condition' = IF ConditionReuse /\ p = 0
                             THEN [incoming_condition EXCEPT ![i] = 0]
                             ELSE incoming_condition
    /\ pc' = [pc EXCEPT ![i] = IF unpacks /\ condition THEN "compute" ELSE "failed"]
    /\ UNCHANGED <<io, step, patch, pipeline_patch_idx, group, network,
                   patch_latents, outgoing_condition, outbound, primed, send_tensors>>

\* What a stage makes of its input, and what the scheduler makes of the
\* last stage's prediction and of the latent the step started from.
Forward(v) == [v EXCEPT !.depth = @ + 1]
SchedulerStep(prev) == [prev EXCEPT !.step = @ + 1]

\* The last stage keeps the result of the last step for itself.
FeedsBack(i) == step[i] < NumSteps - 1

\* forward_patch and commit_patch.
ComputePatch(i) ==
    LET p == patch[i]
        made == Forward(InputCondition(i))
        kept == IF p = 0 THEN made ELSE outgoing_condition[i]
        next_condition == IF ConditionReuse THEN kept ELSE made
    IN
    /\ pc[i] = "compute"
    /\ IF i = Last
       THEN /\ patch_latents' = [patch_latents EXCEPT ![i][p] = SchedulerStep(previous[p])]
            /\ outbound' = [outbound EXCEPT ![i] =
                    IF FeedsBack(i)
                    THEN [image |-> SchedulerStep(previous[p]), cond |-> None] ELSE None]
            /\ pc' = [pc EXCEPT ![i] = "prefetch_before_send"]
            /\ UNCHANGED outgoing_condition
       ELSE /\ patch_latents' = [patch_latents EXCEPT ![i][p] = Forward(InputImage(i))]
            /\ outgoing_condition' = IF ConditionReuse
                                     THEN [outgoing_condition EXCEPT ![i] = kept]
                                     ELSE outgoing_condition
            /\ outbound' = [outbound EXCEPT ![i] =
                    [image |-> Forward(InputImage(i)),
                     cond |-> IF IncludesCondition(p) THEN next_condition ELSE None]]
            /\ pc' = [pc EXCEPT ![i] =
                    IF next_condition = None THEN "failed" ELSE "prefetch_before_send"]
    /\ UNCHANGED <<io, step, patch, pipeline_patch_idx, group, network,
                   previous, condition_states, incoming_condition, primed, send_tensors>>

\* The prefetches and sends that have nothing to do.
SkipCall(i) ==
    /\ \/ pc[i] = "prefetch_before_send" /\ ~(PrefetchesBeforeSend(i) /\ has_next_receive(i))
       \/ pc[i] = "send" /\ outbound[i] = None
       \/ pc[i] = "prefetch_after_send" /\ (PrefetchesBeforeSend(i) \/ ~has_next_receive(i))
    /\ pc' = [pc EXCEPT ![i] = IF @ = "prefetch_before_send" THEN "send"
                               ELSE IF @ = "send" THEN "prefetch_after_send" ELSE "advance"]
    /\ UNCHANGED <<io, step, patch, pipeline_patch_idx, group, network,
                   schedule, primed, send_tensors>>

-----------------------------------------------------------------------------
(* PipeFusionTransport.send and PipelineGroupCoordinator.pipeline_isend *)

\* The send this stage made earlier for the patch is still in progress.
SendInProgress(i, p) ==
    \E k \in Pending(i) : link[i][k].kind = "data" /\ link[i][k].body.image.patch = p

\* send up to synchronize(): wait for the earlier send of the patch, drop
\* its tensor, and announce the shape of a segment used for the first time.
SendCheck(i) ==
    LET p == patch[i] IN
    /\ pc[i] = "send" /\ outbound[i] # None /\ io[i] = "idle"
    /\ ~SendInProgress(i, p)
    /\ io' = [io EXCEPT ![i] = "sync"]
    /\ send_tensors' = [send_tensors EXCEPT ![i][p] = None]
    /\ send_shape' = [send_shape EXCEPT ![i] = @ \union {p}]
    /\ link' = IF p \in send_shape[i] THEN link
               ELSE [link EXCEPT ![i] = Append(@, [kind |-> "shape", body |-> outbound[i]])]
    /\ UNCHANGED <<pc, step, patch, pipeline_patch_idx, recv_task,
                   receiving_tasks, recv_shape, recv_buffer, posted, schedule, primed>>

\* The rest of send: the shape is out, the payload goes and its tensor is kept.
SendPost(i) ==
    /\ pc[i] = "send" /\ outbound[i] # None /\ io[i] = "sync"
    /\ \A k \in Pending(i) : link[i][k].kind # "shape"
    /\ Quiescent(i)
    /\ io' = [io EXCEPT ![i] = "idle"]
    /\ link' = [link EXCEPT ![i] = Append(@, [kind |-> "data", body |-> outbound[i]])]
    /\ send_tensors' = [send_tensors EXCEPT ![i][patch[i]] = outbound[i]]
    /\ pc' = [pc EXCEPT ![i] = "prefetch_after_send"]
    /\ UNCHANGED <<step, patch, pipeline_patch_idx, group, recv_buffer,
                   posted, schedule, primed>>

-----------------------------------------------------------------------------
\* RuntimeState.next_patch in patched mode.
next_patch(idx) == IF idx + 1 = NumPatches THEN 0 ELSE idx + 1

\* The tail of the patch loop, and of the step loop after the final patch.
AdvancePatch(i) ==
    /\ pc[i] = "advance"
    /\ pipeline_patch_idx' = [pipeline_patch_idx EXCEPT ![i] = next_patch(@)]
    /\ IF final_patch(i)
       THEN /\ step' = [step EXCEPT ![i] = @ + 1]
            /\ pc' = [pc EXCEPT ![i] = "step"]
            /\ UNCHANGED patch
       ELSE /\ patch' = [patch EXCEPT ![i] = @ + 1]
            /\ pc' = [pc EXCEPT ![i] = "receive"]
            /\ UNCHANGED step
    /\ UNCHANGED <<io, group, network, schedule, primed, send_tensors>>

SendsComplete_Unchecked(i) == TRUE
SendsComplete(i) == \A k \in Pending(i) : link[i][k].kind # "data"

\* wait_sends, then finalize.
WaitSends(i) ==
    /\ pc[i] = "step" /\ step[i] = NumSteps
    /\ SendsComplete(i)
    /\ send_tensors' = [send_tensors EXCEPT ![i] = [p \in Patches |-> None]]
    /\ pc' = [pc EXCEPT ![i] = "done"]
    /\ UNCHANGED <<io, step, patch, pipeline_patch_idx, group, network,
                   schedule, primed>>

-----------------------------------------------------------------------------
\* The state after _init_async_pipeline and queue_receives: the first and the
\* last stage hold the latents of the warmup, nothing is in flight.
Init ==
    /\ pc = [i \in Stages |-> "step"]
    /\ io = [i \in Stages |-> "idle"]
    /\ step = [i \in Stages |-> 0]
    /\ patch = [i \in Stages |-> 0]
    /\ pipeline_patch_idx = [i \in Stages |-> 0]
    /\ recv_task = [i \in Stages |-> [step |-> FirstRound(i), patch |-> 0]]
    /\ receiving_tasks = [i \in Stages |-> <<>>]
    /\ primed = [i \in Stages |-> FALSE]
    /\ recv_shape = [i \in Stages |-> [p \in Patches |-> IF ShapesPreset THEN p ELSE None]]
    /\ send_shape = [i \in Stages |-> IF ShapesPreset THEN Patches ELSE {}]
    /\ recv_buffer = [i \in Stages |-> [p \in Patches |-> None]]
    /\ posted = [i \in Stages |-> <<>>]
    /\ link = [i \in Stages |-> <<>>]
    /\ send_tensors = [i \in Stages |-> [p \in Patches |-> None]]
    /\ patch_latents = [i \in Stages |-> [p \in Patches |->
            IF i \in {First, Last} THEN [patch |-> p, step |-> 0, depth |-> 0] ELSE None]]
    /\ previous = [p \in Patches |-> None]
    /\ condition_states = [i \in Stages |-> {}]
    /\ incoming_condition = [i \in Stages |-> None]
    /\ outgoing_condition = [i \in Stages |-> None]
    /\ outbound = [i \in Stages |-> None]

Host(i) ==
    \/ RecvNextCheck(i) \/ RecvNextPost(i)
    \/ BeginStep(i) \/ Receive(i) \/ GetRecvData(i)
    \/ PreparePatch(i) \/ ComputePatch(i) \/ SkipCall(i)
    \/ SendCheck(i) \/ SendPost(i)
    \/ AdvancePatch(i) \/ WaitSends(i)

Finished == \A i \in Stages : pc[i] = "done"

\* Keeps a finished run from counting as a deadlock.
Terminated == Finished /\ UNCHANGED vars

Next ==
    \/ \E i \in Stages : Host(i) \/ Deliver(i)
    \/ Terminated

Spec == Init /\ [][Next]_vars

\* Every process is scheduled and every matched message is delivered.
Fairness == \A i \in Stages : WF_vars(Host(i)) /\ WF_vars(Deliver(i))
FairSpec == Spec /\ Fairness

-----------------------------------------------------------------------------
(* Properties *)

\* The types of the variables; pipeline_patch_idx and recv_task never leave
\* the patches, whatever wraps around.
TypeOK ==
    /\ pc \in [Stages -> {"step", "receive", "get", "prepare", "compute",
                          "prefetch_before_send", "send", "prefetch_after_send",
                          "advance", "done", "failed"}]
    /\ io \in [Stages -> {"idle", "sync"}]
    /\ step \in [Stages -> 0 .. NumSteps]
    /\ patch \in [Stages -> Patches]
    /\ pipeline_patch_idx \in [Stages -> Patches]
    /\ recv_task \in [Stages -> [step : 0 .. NumSteps, patch : Patches]]
    /\ receiving_tasks \in [Stages -> Seq(Patches)]
    /\ primed \in [Stages -> BOOLEAN]
    /\ recv_shape \in [Stages -> [Patches -> Patches \union {None}]]
    /\ send_shape \in [Stages -> SUBSET Patches]
    /\ recv_buffer \in [Stages -> [Patches -> Payload \union {None}]]
    /\ posted \in [Stages -> Seq(Request)]
    /\ link \in [Stages -> Seq(Message)]
    /\ send_tensors \in [Stages -> [Patches -> Payload \union {None}]]
    /\ patch_latents \in [Stages -> [Patches -> Image \union {None}]]
    /\ previous \in [Patches -> Image \union {None}]
    /\ condition_states \in [Stages -> SUBSET Patches]
    /\ incoming_condition \in [Stages -> Patches \union {None}]
    /\ outgoing_condition \in [Stages -> Condition \union {None}]
    /\ outbound \in [Stages -> Payload \union {None}]

\* No stage ever raises: recv_next finds a task, get_pipeline_recv_data the
\* segment it asks for, unpack a payload of the patch's size, prepare_patch
\* a condition state, and a shape is never received as a payload.
NeverFails == \A i \in Stages : pc[i] # "failed"

\* A patch is computed from the latent of its own patch and step, as the
\* stage before left it, with the condition of the same step, received in a
\* buffer of the patch's own shape; the scheduler gets the latent the step
\* started from; the layers read the same patch index as the driver.
\* The wire carries no identity, and the buffers are reused in every step.
InputsMatch ==
    \A i \in Stages : pc[i] = "compute" =>
        /\ InputImage(i) = [patch |-> patch[i], step |-> step[i], depth |-> i]
        /\ InputCondition(i) = [step |-> step[i], depth |-> i]
        /\ i = Last => previous[patch[i]] = [patch |-> patch[i], step |-> step[i], depth |-> 0]
        /\ needs_receive(i) => recv_shape[i][patch[i]] = patch[i]
        /\ pipeline_patch_idx[i] = patch[i]

\* While a payload is being sent, the transport holds its tensor.
SendRetention ==
    \A i \in Stages : \A k \in Pending(i) :
        LET m == link[i][k] IN
        m.kind = "data" => send_tensors[i][m.body.image.patch] = m.body

\* When all stages are through, no message, receive or task is left for the
\* next request to trip over.
NothingLeft ==
    Finished =>
        \A i \in Stages : /\ link[i] = <<>> /\ posted[i] = <<>>
                          /\ receiving_tasks[i] = <<>> /\ QueueEmpty(i)

\* What finalize assembles on the last stage went through every step.
ResultComplete ==
    pc[Last] = "done" =>
        \A p \in Patches : patch_latents[Last][p] = [patch |-> p, step |-> NumSteps, depth |-> 0]

\* Every stage finishes: no schedule of sends, prefetches and shape
\* exchanges has all stages waiting for each other.
Completes == <>Finished

\* The next patch a stage has to compute, and the ring it implements.
Progress(i) ==
    IF pc[i] \in {"step", "done"} THEN [step |-> step[i], patch |-> 0]
    ELSE IF pc[i] \in {"receive", "get", "prepare", "compute"}
    THEN [step |-> step[i], patch |-> patch[i]]
    ELSE IF final_patch(i) THEN [step |-> step[i] + 1, patch |-> 0]
    ELSE [step |-> step[i], patch |-> patch[i] + 1]

Ring == INSTANCE PipeFusionRing WITH todo <- [i \in Stages |-> Progress(i)]

\* The driver implements the ring of PipeFusionRing: a stage computes a patch
\* only after the stage before it (in the step before, for the first stage),
\* every patch once per step, and all of them in the end.
RingSpec == Ring!FairSpec
=============================================================================
