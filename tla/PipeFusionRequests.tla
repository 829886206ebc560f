------------------------- MODULE PipeFusionRequests -------------------------
(***************************************************************************)
(* A sequence of requests through the pipelines that write their PipeFusion *)
(* loops by hand (PixArt, Sana, HunyuanDiT): every request resets the       *)
(* receive buffers, runs a synchronous warm-up over whole images, hands the *)
(* latents over and goes on patch by patch.  No barrier separates requests: *)
(* a stage that has sent its last patch starts the next one.                *)
(*                                                                          *)
(* HunyuanDiT also sends the outputs of the blocks of its first half to the *)
(* mirrored stage, over a link of their own.  A tensor is known by request, *)
(* time step, patch and the blocks it went through.                         *)
(***************************************************************************)
EXTENDS Integers, Sequences, SequencesExt

CONSTANTS
    NumStages, NumPatches, NumBlocks,
    Warmup,            \* warmup_steps
    Models,            \* the pipelines: skips, and layers: attn_layer_num_for_pp or <<>>
    Plans,             \* sequences of requests: their number of steps, their size
    LinkCapacity,      \* unreceived messages a link takes before a send blocks
    FeedbackCapacity,  \* the same from the last stage to the first: latents are small
    None

\* The sums of the first entries of a sequence.
Sums(s) ==
    LET sum[k \in 0 .. Len(s)] == IF k = 0 THEN 0 ELSE sum[k - 1] + s[k]
    IN  sum

\* args.py asks for a warm-up.  Skips need mirrored stages with as many blocks; a
\* given split has all the blocks, at least one for a stage.
ASSUME RequestsAssumption ==
    /\ {NumStages, NumPatches, NumBlocks, Warmup} \subseteq Nat \ {0} /\ NumStages > 1
    /\ {LinkCapacity, FeedbackCapacity} \subseteq Nat
    /\ \A m \in Models :
          /\ m.skips \in BOOLEAN
          /\ \/ m.layers = <<>>
             \/ /\ m.layers \in Seq(Nat \ {0}) /\ Len(m.layers) = NumStages
                /\ Sums(m.layers)[NumStages] = NumBlocks
          /\ m.skips => NumStages % 2 = 0 /\ NumBlocks % NumStages = 0
    /\ Plans \subseteq Seq([steps : Nat \ {0}, size : Nat])

ASSUME NoneAssumption == None \notin [size : Nat, patch : Int]

Stages      == 0 .. NumStages - 1
Patches     == 0 .. NumPatches - 1
FirstStage  == 0
LastStage   == NumStages - 1
Whole       == -1  \* the segment of the synchronous steps
next_rank(i) == (i + 1) % NumStages
prev_rank(i) == (i - 1) % NumStages
skip_rank(i) == NumStages - i - 1

VARIABLES
    model, plan,          \* fixed by the command line and the user
    request,              \* which request the stage is in, 0 before the first
    phase,                \* "warmup", "alone" (sync_only), "handover", "async"
    pc,
    io,                   \* "sync" inside _check_shape_and_buffer
    step, patch,          \* the indices of the loops
    pipeline_patch_idx,   \* the runtime state's patch cursor
    first_async_recv,
    latents, patch_latents,
    recv_shape, send_shape, recv_buffer, skip_buffer,  \* per segment
    recv_tasks_queue, receiving_tasks,                 \* the latter with a mark: arrived
    recv_skip_tasks_queue, receiving_skip_tasks,
    link, skip_link       \* what the next and the mirrored stage have not received

where   == <<request, phase, step, patch, pipeline_patch_idx>>
tensors == <<latents, patch_latents>>
queues  == <<recv_tasks_queue, receiving_tasks, recv_skip_tasks_queue, receiving_skip_tasks>>
buffers == <<recv_shape, send_shape, recv_buffer, skip_buffer>>
links   == <<link, skip_link>>
vars    == <<model, plan, where, pc, io, first_async_recv, tensors, queues, buffers, links>>

-----------------------------------------------------------------------------
(* Which blocks a stage runs.                                              *)

AllBlocks == [k \in 1 .. NumBlocks |-> k]

EvenShare == (NumBlocks + NumStages - 1) \div NumStages

EvenEnd(i) == IF (i + 1) * EvenShare < NumBlocks THEN (i + 1) * EvenShare ELSE NumBlocks

LayersBefore_Exclusive(n) == Sums(model.layers)[IF n = 0 THEN 0 ELSE n - 1]
LayersBefore(n) == Sums(model.layers)[n]

\* _split_transformer_blocks of the base wrapper and the one of HunyuanDiT.
Blocks(i) ==
    IF model.layers = <<>> THEN SubSeq(AllBlocks, i * EvenShare + 1, EvenEnd(i))
    ELSE IF model.skips /\ i # FirstStage
    THEN SubSeq(AllBlocks, LayersBefore(i - 1) + 1, LayersBefore(i))
    ELSE SubSeq(AllBlocks, LayersBefore(i) + 1, LayersBefore(i + 1))

SendsSkip(i)    == model.skips /\ i < NumStages \div 2
ReceivesSkip(i) == model.skips /\ i >= NumStages \div 2

-----------------------------------------------------------------------------
(* Where a stage is in its request.                                        *)

SyncSteps(r) == IF plan[r].steps > Warmup THEN Warmup ELSE plan[r].steps

LoopSteps(i) == IF phase[i] = "async" THEN plan[request[i]].steps - Warmup
                                      ELSE SyncSteps(request[i])

Timestep(i) == step[i] + (IF phase[i] = "async" THEN Warmup ELSE 0)

Segment(i) == IF phase[i] = "async" THEN patch[i] ELSE Whole

InLastStep(i) == step[i] = LoopSteps(i) - 1

NeedsReceive(i) == ~(i = FirstStage /\ phase[i] # "handover" /\ step[i] = 0)

Sends_ToTheEnd(i) == i = LastStage /\ phase[i] = "async" => ~InLastStep(i)
Sends(i) == i = LastStage /\ phase[i] \in {"async", "alone"} => ~InLastStep(i)

Prefetches_FinalToo(i) == phase[i] = "async" /\ NeedsReceive(i)
Prefetches(i) ==
    /\ phase[i] = "async" /\ NeedsReceive(i)
    /\ ~(InLastStep(i) /\ patch[i] = NumPatches - 1)

Shape(t) == [size |-> plan[t.request].size, patch |-> t.patch]

\* The tensors are read where the receives put them: pipeline_recv and
\* get_pipeline_recv_data return the buffer, the split of the handed-over
\* latents are views of it.
InputLatent(i) ==
    IF NeedsReceive(i) THEN recv_buffer[i][Segment(i)]
    ELSE IF phase[i] = "async" THEN [recv_buffer[i][Whole] EXCEPT !.patch = patch[i]]
    ELSE latents[i]

\* What the stage holds of the image or patch: what it made last.
Held(i) == IF phase[i] = "async" THEN patch_latents[i][patch[i]] ELSE latents[i]

\* last_timestep_latents, last_patch_latents: taken before the receive.
PreviousLatent_AfterReceive(i) == InputLatent(i)
PreviousLatent(i) == Held(i)

\* What the stage made in this step, and what it keeps for the mirrored stage.
Output(i) == Held(i)
Skips(i)  == [Output(i) EXCEPT !.blocks = Blocks(i)]

-----------------------------------------------------------------------------
(* The links: external.  A message is received in the order it was sent;   *)
(* those within the capacity are out of the sender's hands.                *)

Pending(i) ==
    (IF i = LastStage THEN FeedbackCapacity ELSE LinkCapacity) < Len(link[i])
SkipPending(i) == LinkCapacity < Len(skip_link[i])

\* synchronize(): the device is through with all sends (no receive is posted
\* when it is called).
Quiescent(i) == ~Pending(i) /\ ~SkipPending(i)

Awaits(tasks) == tasks # <<>> /\ ~Head(tasks).arrived

Task(idx) == [idx |-> idx, arrived |-> FALSE]

\* A posted receive takes the oldest message.  One of another kind or shape
\* does not fit the buffer.
Deliver(i) ==
    LET from == prev_rank(i)
        m    == Head(link[from])
        idx  == Head(receiving_tasks[i]).idx
    IN  /\ Awaits(receiving_tasks[i]) /\ link[from] # <<>>
        /\ link' = [link EXCEPT ![from] = Tail(@)]
        /\ IF m.kind = "data" /\ Shape(m.body) = recv_shape[i][idx]
             THEN /\ receiving_tasks' = [receiving_tasks EXCEPT ![i][1].arrived = TRUE]
                  /\ recv_buffer' = [recv_buffer EXCEPT ![i][idx] = m.body]
                  /\ UNCHANGED pc
             ELSE /\ pc' = [pc EXCEPT ![i] = "failed"]
                  /\ UNCHANGED <<receiving_tasks, recv_buffer>>
        /\ UNCHANGED <<model, plan, where, io, first_async_recv, tensors, recv_tasks_queue,
                       recv_skip_tasks_queue, receiving_skip_tasks, recv_shape, send_shape,
                       skip_buffer, skip_link>>

\* The buffer of the skips has the receiver's number of blocks.
DeliverSkip(i) ==
    LET from == skip_rank(i)
        t    == Head(skip_link[from])
        idx  == Head(receiving_skip_tasks[i]).idx
    IN  /\ Awaits(receiving_skip_tasks[i]) /\ skip_link[from] # <<>>
        /\ skip_link' = [skip_link EXCEPT ![from] = Tail(@)]
        /\ IF /\ Shape(t) = [size |-> plan[request[i]].size, patch |-> idx]
              /\ Len(t.blocks) = Len(Blocks(i))
             THEN /\ receiving_skip_tasks' = [receiving_skip_tasks EXCEPT ![i][1].arrived = TRUE]
                  /\ skip_buffer' = [skip_buffer EXCEPT ![i][idx] = t]
                  /\ UNCHANGED pc
             ELSE /\ pc' = [pc EXCEPT ![i] = "failed"]
                  /\ UNCHANGED <<receiving_skip_tasks, skip_buffer>>
        /\ UNCHANGED <<model, plan, where, io, first_async_recv, tensors, recv_tasks_queue,
                       receiving_tasks, recv_skip_tasks_queue, recv_shape, send_shape,
                       recv_buffer, link>>

-----------------------------------------------------------------------------
(* The start of a request.                                                 *)

Empty == [s \in Patches \union {Whole} |-> None]

\* set_input_parameters, which resets the buffers, and _init_sync_pipeline.
SetInput(i) ==
    LET r == request[i] + 1 IN
    /\ pc[i] = "idle" /\ request[i] < Len(plan)
    /\ request' = [request EXCEPT ![i] = r]
    /\ phase' = [phase EXCEPT ![i] = IF plan[r].steps > Warmup THEN "warmup" ELSE "alone"]
    /\ pc' = [pc EXCEPT ![i] = "receive"]
    /\ step' = [step EXCEPT ![i] = 0]
    /\ pipeline_patch_idx' = [pipeline_patch_idx EXCEPT ![i] = 0]
    /\ latents' = [latents EXCEPT ![i] =
           [request |-> r, step |-> 0, patch |-> Whole, blocks |-> <<>>]]
    /\ recv_shape' = [recv_shape EXCEPT ![i] = Empty]
    /\ send_shape' = [send_shape EXCEPT ![i] = {}]
    /\ recv_buffer' = [recv_buffer EXCEPT ![i] = Empty]
    /\ skip_buffer' = [skip_buffer EXCEPT ![i] = Empty]
    /\ recv_tasks_queue' = [recv_tasks_queue EXCEPT ![i] = <<>>]
    /\ receiving_tasks' = [receiving_tasks EXCEPT ![i] = <<>>]
    /\ recv_skip_tasks_queue' = [recv_skip_tasks_queue EXCEPT ![i] = <<>>]
    /\ receiving_skip_tasks' = [receiving_skip_tasks EXCEPT ![i] = <<>>]
    /\ UNCHANGED <<model, plan, io, patch, first_async_recv, patch_latents, links>>

-----------------------------------------------------------------------------
(* Receives: pipeline_recv of the synchronous steps and the hand-over,     *)
(* recv_next and get_pipeline_recv_data of the asynchronous ones.          *)

CallsReceive(i) ==
    \/ pc[i] = "receive" /\ NeedsReceive(i) /\ (phase[i] = "async" => first_async_recv[i])
    \/ pc[i] = "prefetch" /\ Prefetches(i)

\* A step that starts from the stage's own latents, a receive posted before,
\* and the end of a patch after which nothing is to be received.
PassOver(i) ==
    /\ pc[i] \in {"receive", "prefetch"} /\ ~CallsReceive(i)
    /\ pc' = [pc EXCEPT ![i] = IF @ = "prefetch" THEN "advance"
                               ELSE IF NeedsReceive(i) THEN "get" ELSE "compute"]
    /\ UNCHANGED <<model, plan, where, io, first_async_recv, tensors, queues, buffers, links>>

QueueEmpty(i) == phase[i] = "async" /\ recv_tasks_queue[i] = <<>>

NextReceive(i) == IF phase[i] = "async" THEN Head(recv_tasks_queue[i]) ELSE Whole

\* Up to synchronize(): the shape of a segment that is received for the first time.
RecvShape(i) ==
    LET from == prev_rank(i) IN
    /\ CallsReceive(i) /\ io[i] = "idle"
    /\ IF QueueEmpty(i)
         THEN pc' = [pc EXCEPT ![i] = "failed"] /\ UNCHANGED <<io, recv_shape, link>>
       ELSE IF recv_shape[i][NextReceive(i)] # None
         THEN io' = [io EXCEPT ![i] = "sync"] /\ UNCHANGED <<pc, recv_shape, link>>
       ELSE /\ link[from] # <<>>
            /\ io' = [io EXCEPT ![i] = "sync"]
            /\ pc' = IF Head(link[from]).kind = "shape" THEN pc ELSE [pc EXCEPT ![i] = "failed"]
            /\ recv_shape' = [recv_shape EXCEPT ![i][NextReceive(i)] = Shape(Head(link[from]).body)]
            /\ link' = [link EXCEPT ![from] = Tail(@)]
    /\ UNCHANGED <<model, plan, where, first_async_recv, tensors, queues, send_shape,
                   recv_buffer, skip_buffer, skip_link>>

\* The receive itself; recv_skip_next follows recv_next.
RecvPost(i) ==
    LET async == phase[i] = "async"
        skips == async /\ ReceivesSkip(i)
    IN  /\ CallsReceive(i) /\ io[i] = "sync" /\ Quiescent(i)
        /\ io' = [io EXCEPT ![i] = "idle"]
        /\ receiving_tasks' = [receiving_tasks EXCEPT ![i] = Append(@, Task(NextReceive(i)))]
        /\ recv_tasks_queue' = [recv_tasks_queue EXCEPT ![i] = IF async THEN Tail(@) ELSE @]
        /\ IF skips /\ recv_skip_tasks_queue[i] = <<>>
             THEN /\ pc' = [pc EXCEPT ![i] = "failed"]
                  /\ UNCHANGED <<recv_skip_tasks_queue, receiving_skip_tasks>>
             ELSE /\ pc' = [pc EXCEPT ![i] = IF @ = "receive" THEN "get" ELSE "advance"]
                  /\ receiving_skip_tasks' = IF ~skips THEN receiving_skip_tasks
                       ELSE [receiving_skip_tasks EXCEPT
                               ![i] = Append(@, Task(Head(recv_skip_tasks_queue[i])))]
                  /\ recv_skip_tasks_queue' = IF ~skips THEN recv_skip_tasks_queue
                       ELSE [recv_skip_tasks_queue EXCEPT ![i] = Tail(@)]
        /\ first_async_recv' = [first_async_recv EXCEPT ![i] = @ /\ ~async]
        /\ UNCHANGED <<model, plan, where, tensors, buffers, links>>

\* The wait.  The synchronous loop posts the receive of the skips after it.
Get(i) ==
    LET task == Head(receiving_tasks[i]) IN
    /\ pc[i] = "get" /\ (receiving_tasks[i] # <<>> => task.arrived)
    /\ IF receiving_tasks[i] = <<>> \/ task.idx # Segment(i)
         THEN pc' = [pc EXCEPT ![i] = "failed"] /\ UNCHANGED <<receiving_tasks, receiving_skip_tasks>>
         ELSE /\ receiving_tasks' = [receiving_tasks EXCEPT ![i] = Tail(@)]
              /\ receiving_skip_tasks' =
                   IF phase[i] \in {"warmup", "alone"} /\ ReceivesSkip(i)
                     THEN [receiving_skip_tasks EXCEPT ![i] = Append(@, Task(Whole))]
                     ELSE receiving_skip_tasks
              /\ pc' = [pc EXCEPT ![i] = IF phase[i] = "handover" THEN "split"
                                         ELSE IF ReceivesSkip(i) THEN "get_skip" ELSE "compute"]
    /\ UNCHANGED <<model, plan, where, io, first_async_recv, tensors, recv_tasks_queue,
                   recv_skip_tasks_queue, buffers, links>>

GetSkip(i) ==
    LET task == Head(receiving_skip_tasks[i]) IN
    /\ pc[i] = "get_skip" /\ (receiving_skip_tasks[i] # <<>> => task.arrived)
    /\ IF receiving_skip_tasks[i] = <<>> \/ task.idx # Segment(i)
         THEN pc' = [pc EXCEPT ![i] = "failed"] /\ UNCHANGED receiving_skip_tasks
         ELSE /\ receiving_skip_tasks' = [receiving_skip_tasks EXCEPT ![i] = Tail(@)]
              /\ pc' = [pc EXCEPT ![i] = "compute"]
    /\ UNCHANGED <<model, plan, where, io, first_async_recv, tensors, recv_tasks_queue,
                   receiving_tasks, recv_skip_tasks_queue, buffers, links>>

-----------------------------------------------------------------------------
(* The computation of a step or patch, and its sends.                      *)

\* _backbone_forward and, on the last stage, the scheduler's step.
Compute(i) ==
    LET made == IF i = LastStage THEN [PreviousLatent(i) EXCEPT !.step = @ + 1]
                ELSE [InputLatent(i) EXCEPT !.blocks = @ \o Blocks(i)]
    IN  /\ pc[i] = "compute"
        /\ IF phase[i] = "async"
             THEN patch_latents' = [patch_latents EXCEPT ![i][patch[i]] = made] /\ UNCHANGED latents
             ELSE latents' = [latents EXCEPT ![i] = made] /\ UNCHANGED patch_latents
        /\ pc' = [pc EXCEPT ![i] = IF Sends(i) THEN "send"
                                   ELSE IF phase[i] = "async" THEN "prefetch" ELSE "advance"]
        /\ UNCHANGED <<model, plan, where, io, first_async_recv, queues, buffers, links>>

\* pipeline_isend up to synchronize().
SendShape(i) ==
    /\ pc[i] = "send" /\ io[i] = "idle"
    /\ io' = [io EXCEPT ![i] = "sync"]
    /\ send_shape' = [send_shape EXCEPT ![i] = @ \union {Segment(i)}]
    /\ link' = IF Segment(i) \in send_shape[i] THEN link
               ELSE [link EXCEPT ![i] = Append(@, [kind |-> "shape", body |-> Output(i)])]
    /\ UNCHANGED <<model, plan, where, pc, first_async_recv, tensors, queues, recv_shape,
                   recv_buffer, skip_buffer, skip_link>>

\* The send; the asynchronous loop sends the skips along and waits for neither.
SendPost(i) ==
    /\ pc[i] = "send" /\ io[i] = "sync" /\ Quiescent(i)
    /\ io' = [io EXCEPT ![i] = "idle"]
    /\ link' = [link EXCEPT ![i] = Append(@, [kind |-> "data", body |-> Output(i)])]
    /\ IF phase[i] = "async"
         THEN /\ pc' = [pc EXCEPT ![i] = "prefetch"]
              /\ skip_link' = IF SendsSkip(i) THEN [skip_link EXCEPT ![i] = Append(@, Skips(i))]
                                              ELSE skip_link
         ELSE pc' = [pc EXCEPT ![i] = "sent"] /\ UNCHANGED skip_link
    /\ UNCHANGED <<model, plan, where, first_async_recv, tensors, queues, buffers>>

\* The waits of pipeline_send and of pipeline_send_skip.
SendWait(i) ==
    /\ \/ /\ pc[i] = "sent" /\ ~Pending(i)
          /\ IF SendsSkip(i)
               THEN /\ skip_link' = [skip_link EXCEPT ![i] = Append(@, Skips(i))]
                    /\ pc' = [pc EXCEPT ![i] = "skip_sent"]
               ELSE pc' = [pc EXCEPT ![i] = "advance"] /\ UNCHANGED skip_link
       \/ /\ pc[i] = "skip_sent" /\ ~SkipPending(i)
          /\ pc' = [pc EXCEPT ![i] = "advance"]
          /\ UNCHANGED skip_link
    /\ UNCHANGED <<model, plan, where, io, first_async_recv, tensors, queues, buffers, link>>

-----------------------------------------------------------------------------
(* The loops.                                                              *)

next_patch(idx) == (idx + 1) % NumPatches

\* The end of a step, of a patch, of a loop, of a request.  After the warm-up
\* only the first stage receives: what the last one sent in its last step.
Advance(i) ==
    LET async == phase[i] = "async"
        inner == async /\ patch[i] < NumPatches - 1
        over  == ~inner /\ InLastStep(i)
    IN  /\ pc[i] = "advance"
        /\ pipeline_patch_idx' = [pipeline_patch_idx EXCEPT ![i] = IF async THEN next_patch(@) ELSE @]
        /\ patch' = [patch EXCEPT ![i] = IF inner THEN @ + 1 ELSE 0]
        /\ step' = [step EXCEPT ![i] = IF inner THEN @ ELSE @ + 1]
        /\ phase' = [phase EXCEPT ![i] = IF over /\ @ = "warmup" THEN "handover" ELSE @]
        /\ pc' = [pc EXCEPT ![i] =
               IF ~over THEN "receive"
               ELSE IF phase[i] # "warmup" THEN "idle"
               ELSE IF i = FirstStage THEN "receive" ELSE "split"]
        /\ UNCHANGED <<model, plan, request, io, first_async_recv, tensors, queues, buffers, links>>

Rounds(n) == [k \in 1 .. n * NumPatches |-> (k - 1) % NumPatches]

\* _init_async_pipeline once it has received: split the latents, queue the receives.
Split(i) ==
    LET steps == plan[request[i]].steps - Warmup IN
    /\ pc[i] = "split"
    /\ phase' = [phase EXCEPT ![i] = "async"]
    /\ pc' = [pc EXCEPT ![i] = "receive"]
    /\ step' = [step EXCEPT ![i] = 0]
    /\ pipeline_patch_idx' = [pipeline_patch_idx EXCEPT ![i] = 0]
    /\ first_async_recv' = [first_async_recv EXCEPT ![i] = TRUE]
    /\ patch_latents' = [patch_latents EXCEPT ![i] = [p \in Patches |->
           IF i = LastStage THEN [latents[i] EXCEPT !.patch = p] ELSE None]]
    /\ recv_tasks_queue' = [recv_tasks_queue EXCEPT ![i] =
           @ \o Rounds(IF i = FirstStage THEN steps - 1 ELSE steps)]
    /\ recv_skip_tasks_queue' = [recv_skip_tasks_queue EXCEPT ![i] =
           IF ReceivesSkip(i) THEN @ \o Rounds(steps) ELSE @]
    /\ UNCHANGED <<model, plan, request, io, patch, latents, receiving_tasks,
                   receiving_skip_tasks, buffers, links>>

-----------------------------------------------------------------------------
Init ==
    /\ model \in Models
    /\ plan \in Plans
    /\ request = [i \in Stages |-> 0]
    /\ phase = [i \in Stages |-> "alone"]
    /\ pc = [i \in Stages |-> "idle"]
    /\ io = [i \in Stages |-> "idle"]
    /\ step = [i \in Stages |-> 0]
    /\ patch = [i \in Stages |-> 0]
    /\ pipeline_patch_idx = [i \in Stages |-> 0]
    /\ first_async_recv = [i \in Stages |-> FALSE]
    /\ latents = [i \in Stages |-> None]
    /\ patch_latents = [i \in Stages |-> [p \in Patches |-> None]]
    /\ recv_shape = [i \in Stages |-> Empty]
    /\ send_shape = [i \in Stages |-> {}]
    /\ recv_buffer = [i \in Stages |-> Empty]
    /\ skip_buffer = [i \in Stages |-> Empty]
    /\ recv_tasks_queue = [i \in Stages |-> <<>>]
    /\ receiving_tasks = [i \in Stages |-> <<>>]
    /\ recv_skip_tasks_queue = [i \in Stages |-> <<>>]
    /\ receiving_skip_tasks = [i \in Stages |-> <<>>]
    /\ link = [i \in Stages |-> <<>>]
    /\ skip_link = [i \in Stages |-> <<>>]

Host(i) ==
    \/ SetInput(i) \/ PassOver(i) \/ RecvShape(i) \/ RecvPost(i) \/ Get(i) \/ GetSkip(i)
    \/ Compute(i) \/ SendShape(i) \/ SendPost(i) \/ SendWait(i) \/ Advance(i) \/ Split(i)

Finished == \A i \in Stages : pc[i] = "idle" /\ request[i] = Len(plan)

Terminated == Finished /\ UNCHANGED vars

Next ==
    \/ \E i \in Stages : Host(i) \/ Deliver(i) \/ DeliverSkip(i)
    \/ Terminated

Spec == Init /\ [][Next]_vars

\* Every process is scheduled, every posted receive gets the message that is there.
FairSpec ==
    Spec /\ \A i \in Stages : WF_vars(Host(i)) /\ WF_vars(Deliver(i)) /\ WF_vars(DeliverSkip(i))

-----------------------------------------------------------------------------
(* Properties.                                                             *)

Expected(i, blocks) ==
    [request |-> request[i], step |-> Timestep(i), patch |-> Segment(i), blocks |-> blocks]

\* A stage computes from what the stage before it made of the same request,
\* step and patch; the last one steps the latent the step started from; the
\* k-th last of the mirrored blocks' outputs is there for the k-th block; and
\* the layers read the same patch index as the loop.  The messages carry
\* nothing of this, and a stage may be a request ahead of the next.
InputsMatch ==
    \A i \in Stages : pc[i] = "compute" =>
        /\ InputLatent(i) = Expected(i, FlattenSeq([k \in 1 .. i |-> Blocks(k - 1)]))
        /\ i = LastStage => PreviousLatent(i) = Expected(i, <<>>)
        /\ ReceivesSkip(i) =>
              skip_buffer[i][Segment(i)] =
                  Expected(i, Reverse([k \in DOMAIN Blocks(i) |-> NumBlocks + 1 - Blocks(i)[k]]))
        /\ phase[i] = "async" => pipeline_patch_idx[i] = patch[i]

\* What the scheduler steps with went through every block of the model once,
\* in order, whatever split of the blocks was asked for.
EveryBlockOnce ==
    pc[LastStage] = "compute" => InputLatent(LastStage).blocks \o Blocks(LastStage) = AllBlocks

\* A stage that starts a request has received all that was sent to it in the
\* earlier ones, and drops no receive with the buffers it resets.
CleanBoundary ==
    [][\A i \in Stages : request'[i] # request[i] =>
          /\ recv_tasks_queue[i] = <<>> /\ receiving_tasks[i] = <<>>
          /\ recv_skip_tasks_queue[i] = <<>> /\ receiving_skip_tasks[i] = <<>>
          /\ \A m \in ToSet(link[prev_rank(i)]) : m.body.request > request[i]
          /\ ReceivesSkip(i) =>
                \A t \in ToSet(skip_link[skip_rank(i)]) : t.request > request[i]]_vars

\* All stages get through all requests: no check of a receive fails, and they
\* never wait for each other all at once.
AllEnd == <>Finished
=============================================================================
