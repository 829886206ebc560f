# Formal models of xDiT

xDiT (`src/xfuser`) runs diffusion transformers on several devices: it splits a
model along tensor, sequence, pipeline (PipeFusion), classifier-free-guidance
and data dimensions, one process per device, every process running the same
Python program and meeting the others only in collectives and point-to-point
messages. What is hard to test in such a program is the agreement between the
processes: who sends what to whom in which order, whether everybody reaches the
same collective, what one process still holds of an earlier step, patch or
request. These modules model that part; the numerics of the tensors are out of
their reach and abstracted away.

    tlc -workers 2 -config PipeFusion.cfg PipeFusionAsyncInv
    tlapm PipeFusionAsyncProofs.tla

`PROJECT.json` maps every definition to the lines it models, lists the runs, the
hazards they aim at, the mutants that show each property can fail, the findings
and the theorems. An operator whose name ends in `_Something` is a mutant of the
definition after it and takes part in no specification.

Contents: inventory; what was found; the runs; then one section per component
with its model, its properties, its proofs and what it leaves out; fairness,
bounds, what is not modelled.

## Inventory

| Component | State | Operations | Correct when | Modules |
|---|---|---|---|---|
| PipeFusion driver, transport, image-patch schedule (`pipefusion/`) | loop position, latents per patch, condition, queued and outstanding receives, unfinished sends | receive, prepare, forward, commit, send, prefetch, wait | every patch is computed from its own patch and step; all stages end; nothing is left | `PipeFusionAsync`, `PipeFusionRing`, `PipeFusionAsyncInv`, `PipeFusionAsyncProofs` |
| Warm-up, request boundary and hand-written asynchronous loops (`pipelines/pipeline_*.py`, pipeline group) | phase, loop indices, receive buffers and recorded shapes per segment, receive queues, skip buffers | reset, synchronous steps, hand-over, asynchronous loop, skip receive and send | requests do not mix; the latent went through every block; all stages end | `PipeFusionRequests`, `PipeFusionRequestsProofs` |
| Patch metadata (`runtime_state.py`) | recorded size, split, patch count | `set_input_parameters`, slicing, reassembly | the split is the request's own and the image comes back | `PatchMetadata`, `PatchDenoiseProofs` |
| KV cache manager, multistep solver | cached keys, history of model outputs, counters | patch-wise update and step | an attention reads every row, as new as it can be; a step over patches is a step over the image | `PatchDenoise`, `PatchDenoiseProofs` |
| Replicated load (`loading/meta_load.py`) | weights per unit, consumed keys | build, compare, read, reconcile, broadcast, quantize, finalize | same collectives, same outcome, rank 0's weights everywhere | `ReplicatedLoad`, `ReplicatedLoadProofs` |
| Sharded load (`loading/meta_load.py`, `shard.py`) | route per component | build, agree, choose, fill | no group mixes routes; a failure is everybody's | `ShardedLoad`, `ShardedLoadProofs` |
| Page cache of a checkpoint | mapped shard, streamed shards, prefetch thread | open, prefetch, read, retire, join, drop | one stream, no shard twice, nothing kept for nothing | `ShardPrefetch`, `ShardPrefetchProofs` |
| Attention all-to-all, attention schedule (`attention_a2a.py`) | pending trio, waits by buffer, operations and their epochs, poison, step counter | preflight, submit Q, K, V, wait, switch recipe, shut down | an attention reads its own Q, K, V; nobody waits for ever | `AttentionA2A`, `AttentionA2AProofs` |
| Parallel groups, prompts, VAE hand-over, outputs | rank lists, latents, owners, images | cut groups, deal prompts, gather, broadcast, send, decode, save | every prompt is saved once; nobody waits for ever | `RequestOutput`, `RequestOutputProofs` |
| Layouts with reference tokens, tensor-dict sends, stage and encoder load plans, FSDP wrapping, HTTP service, CLI, configuration, model wrappers, kernels | | | | not modelled |

Components interact in four ways: point-to-point messages between neighbouring
pipeline stages (no tag, so order is identity), collectives on a process group
(the k-th call of one member meets the k-th of the others), calls into one
`DiTRuntimeState` per process that every layer reads, and one background thread
per checkpoint reader. There is no crash recovery: nothing is persisted, and a
process that raises ends the job. Raising alone, while the peers wait, is
therefore the failure that matters.

The modules meet where the components share state. `PatchDenoise` extends
`PatchMetadata`: the split it denoises with is the one the last request left.
`PipeFusionRequests` puts warm-up, hand-over and asynchronous loop of successive
requests on the same links. `RequestOutput` runs from the groups through the
prompts and the decoders to the saved images. `PipeFusionAsync` implements
`PipeFusionRing`.

## What was found

Five places where the code does something else than its comments, documents or
tests say. Four have a run of the list below that TLC ends with a counterexample.

- `sharded_fallback`: a rank that alone cannot build an encoder on meta hangs
  the others before the check documented to catch it (`meta_load.py:829`).
- `patches_uneven`: when the last pipeline patch is lower than the others and
  there are two or more sequence-parallel ranks, the ranks' parts of one patch
  differ in height and the reassembled latent is not the image
  (`runtime_state.py:747`).
- `kv_firststep`: in the first asynchronous step with two or more Ulysses ranks
  and patches, an attention reads some rows twice and others not at all
  (`cache_manager.py:201`).
- `patches_retry`: a refused request that comes again unchanged is served, with
  the split of an earlier one (`runtime_state.py:554`, `:667`).

The fifth can be read off the code: with `--attn_layer_num_for_pp` every stage of
HunyuanDiT but the first takes the blocks of the stage before it
(`hunyuan_transformer_2d.py:65` sums the list up to `r - 1` and up to `r`, the
other wrappers up to `r` and `r + 1`, `base_transformer.py:103`). The model has
that split, and `tlc -config PipeFusionRequests_layers.cfg MCPipeFusionRequests`
shows `EveryBlockOnce` violated: 2 blocks for each of four stages run as
1 2 1 2 3 4 5 6. It is the same mistake as the mutation `LayersBefore_Exclusive`
that the run `requests` detects in the other wrappers.

The constants and assumptions of the passing runs exclude a few more behaviours,
each named at its component: the driver with one patch per image, the shapes
that need buffering links, HunyuanDiT on an odd number of stages or with
mirrored stages of unequal length or with a given split, a
preflight failure on one rank only, the denoising of a request that repeats a
refused one or has patches of unequal height, and ranks that only decode beside more than
one replica.

## Runs

| Run | Instance | Distinct states | Shows |
|---|---|---|---|
| `pf_rendezvous` | 3 stages, 3 steps, 3 patches, no buffering, negotiated shapes, condition reused | 47,654 | the driver computes the right things, ends, leaves nothing, implements the ring |
| `requests` | 4 stages, 2 patches, 8 blocks, two models, two pairs of requests | 121,710 | requests do not mix, every block runs once, all stages end |
| `patches` | heights 3, 4, 12; 1, 2, 4 ranks; 1 to 3 patches; patch size 1 and 2; Ulysses 1, 2, 4; warm-up 1 and 2; solver order 2 and 3; 4 steps; 2 requests | 27,159 | split, attention and solver of successive requests |
| `patches_uneven` | six heights to 16, 1 to 3 ranks, 1 to 4 patches | | violated: `Rebuilds` |
| `patches_retry` | heights 3 and 4, 1 and 2 ranks, 1 and 2 patches | | violated: `RowSplitNeedsDivisibleHeight` |
| `kv_firststep` | heights 4 and 8, 2 ranks, 2 patches, 3 steps | | violated: `AttendsEveryRow` |
| `replicated` | 3 ranks, an encoder and a denoiser of 2 blocks | 301,104 | same collectives, same end, rank 0's weights |
| `sharded` | 4 ranks in 2 groups, two denoisers and an encoder | 172,770 | same collectives on both communicators, groups end together |
| `sharded_fallback` | 2 ranks, a rank-local fallback | | violated: `AllEnd` |
| `prefetch` | 5 shards, 4 units of 2 shard changes, depth 2 | 1,837,391 | one stream, bounded cache, nothing left |
| `a2a` | 2 ranks, 2 recipes, 2 requests, 1 buffer, 1 failed submission | 1,406,532 | an attention reads its own trio, no rank waits for ever |
| `output` | 19 configurations of degrees, decoder and caller | 9,962 | right groups, every prompt saved once, all ranks end |

## PipeFusion

`PipeFusionAsync` models `PipeFusionAsyncDriver.run` with
`PipeFusionImagePatchSchedule` and `PipeFusionTransport` on every stage of a
ring. `Host(i)` is the stage's thread at the call its `pc` names, one action per
handler: `BeginStep`, `Receive` (which posts `recv_next` when nothing is
outstanding), `GetRecvData`, `PreparePatch`, `ComputePatch` (forward, scheduler
step, commit), `SendCheck` and `SendPost`, `SkipCall`, `AdvancePatch`,
`WaitSends`. `Deliver(i)` is the communication library moving the oldest message
of a link into the oldest posted receive. A tensor is its patch, its step and
how many stages it went through (`depth`); a payload is an image and, with the
first patch of a step or with every patch, a condition. The dimension and size
messages of shape negotiation are one message. `isend` and `irecv` of a pair of
ranks form one FIFO per direction; a world of two stages uses different groups
for shapes and data, so the run has three. `previous.wait()` blocks the host;
under NCCL it only orders streams, which allows fewer interleavings of the host,
not more orders of messages. The ten-minute pipeline timeout and the
`interrupted` hook, which no schedule sets, are left out.

The constants choose between the ways the code is used: number of stages, steps
and patches; `ConditionReuse` (Flux sends the condition with a step's first
patch only); `ShapesPreset` (the transport presets shapes, or they are
negotiated); `LinkCapacity` (0 is rendezvous, as NCCL without buffers);
`HostSync` (`synchronize()` also waits for the requests, or, with gloo, not).

What the properties say: `NeverFails` - none of the errors of `recv_next`,
`get_pipeline_recv_data`, `unpack` and `prepare_patch` is reached. `InputsMatch`
- a patch is computed from the latent and condition of its own patch and step,
though nothing on the wire says which it is. `NothingLeft` - when all stages are
done no message, request or task is left for the next request to take.
`ResultComplete` - the last stage's latents went through all steps.
`SendRetention` - a tensor is kept until its send is complete. `Completes` - all
stages end. `RingSpec` - the driver implements `PipeFusionRing`, the abstract
machine in which a patch just travels round a ring, step after step.

Two shapes do not end, and the run avoids both. Over rendezvous links the driver
ends for 2 <= patches <= stages and deadlocks with more patches than stages (2
stages and 3 patches, 3 and 4); links that buffer a message remove that. With
one patch per image, which the configuration accepts, it deadlocks under any
buffering: the only patch of a step is its last one, so the stages prefetch the
next step before they send.

### Proofs

`PipeFusionAsyncProofs` proves, for all constants allowed by the assumptions,
`TypeCorrect`, `DriverNeverFails`, `InputsAlwaysMatch`, `NothingIsLeft`,
`ResultIsComplete`, `TensorsRetained`, and `ImplementsRing`, the safety part of
the refinement. None of the properties is inductive: that the next message is
the expected one depends on what is on the link, which depends on where the
sender is. The invariant `IInv` (`PipeFusionAsyncInv`, also checked by TLC while
it was developed) therefore says what every link holds: its messages follow one
another in the order of the driver's loops, the newest ends where the sender
stands and the oldest starts where the receiver stands (`Link`); the other parts
fix, for every control point of a stage, its task queue and outstanding receive
(`Recv`), what its buffers hold (`Buffers`), its latents (`Latents`) and its
unfinished sends (`Send`). `TensorsRetained` adds when a send may have been
dropped (`Dropped`). Each action disturbs one end of at most two links, and the
proof has one lemma per action. The proofs assume at least two stages, one step
and one patch, and no relation between patches and stages: safety holds in the
deadlocking shapes too.

Only model-checked: `Completes` and the fairness part of `RingSpec`.

## Requests through the hand-written loops

PixArt, Sana and HunyuanDiT write their PipeFusion loops themselves.
`PipeFusionRequests` models a sequence of requests through them. `SetInput` is
the start of a request: the buffers are reset, with no barrier, so that a stage
may be a request ahead of the next. Then `Host(i)` goes through the calls of the
loops - `RecvPost`, `Get`, `GetSkip`, `Compute`, `SendShape`, `SendPost`,
`SendWait`, `PassOver`, `Advance` - in the phases `warmup` (whole images, or
`alone` when the request has no more steps than the warm-up), `handover`
(`_init_async_pipeline`: the first stage receives what the last one sent in its
last step, all cut their latents and queue the receives of all the patches) and `async`. `Split` is the rest of the hand-over once it has received. A
receive of an unknown or changed shape negotiates it with the sender
(`_check_shape_and_buffer`), which blocks both. HunyuanDiT also sends the outputs
of its first half to the mirrored stage over a link of its own, without shape or
index. A tensor is known by request, time step, patch and the blocks it went
through.

`InputsMatch` - a stage computes from what the stage before it made of the same
request, step and patch, a block gets the mirrored block's output, and the patch
index of the runtime state is the loop's. `EveryBlockOnce` - what the scheduler
steps with went through all blocks in order. `CleanBoundary` - a stage that
starts a request has received all that was sent to it in earlier ones and drops
no receive with its buffers. `AllEnd` - all stages get through all requests.

The run pairs a request with two asynchronous steps with one that changes size,
and one that is over within its warm-up with one that goes on to patches; four
stages are the fewest with two mirrored pairs. HunyuanDiT has an even split in
the run; with a given one `EveryBlockOnce` is false ("What was found").

Unlike the driver, these loops send before they post the next receive, also at
the last patch, the order `schedules/base.py:137` warns of. Over rendezvous
links they deadlock for every number of patches from two on (2, 3 and 4 stages).
`LinkCapacity` buffers the links, `FeedbackCapacity` the one from the last stage
to the first, which carries small latents; the run takes 0 and 4. What was tried:

| Stages, patches | ends with (link, feedback) | deadlocks with |
|---|---|---|
| 2, 2 | one of the two links buffered | 0, 0 |
| 2, 3 | 0, 4; 1, 4; 8, 2 | 0, 1; 1, 0; 1, 1 |
| 2, 4 | | 0, 2; 1, 1 |
| 3, 3 | 1, 1 | 0, 0 |
| 4, 2 | 0, 1; 0, 2; 0, 4; 1, 1 | 0, 0 |
| 4, 3 | 1, 1 | 0, 0 |
| 4, 4 | 0, 8 | 0, 4; 1, 1 |

The assumptions exclude what the code cannot run: HunyuanDiT on an odd number of
stages hangs (the middle stage mirrors itself), and it fails when mirrored stages
have unequally many blocks; `args.py:369` asks for a warm-up of one step or more.
A given split has an entry of one or more for every stage (`config.py:218`,
`args.py:380`) and adds up to the model's blocks, which both wrappers assert
(`base_transformer.py:100`, `hunyuan_transformer_2d.py:58`).

Left out: step callbacks and `interrupt`, the gather over sequence-parallel ranks
at the end of a request, the message with encoder states that `flux_control`
sends in every step. These loops drop the handles of their `isend`s; that the
tensors live until the send is done is the allocator's business and not in the
model. Sana calls `pipeline_isend` in its synchronous loop where PixArt and
HunyuanDiT wait; the models take the blocking form.

### Proofs

`PipeFusionRequestsProofs` proves `InputsMatch` (`ComputesFromTheMatching`),
`EveryBlockOnce` (`StepsWithAllBlocks`) and `CleanBoundary` (`StartsClean`) for
every number of stages, patches, blocks and warm-up steps, every set of models
and plans of requests and every capacity of the links. Their one premise beyond
the ASSUMEs is `EvenSkips`, that a model with skips splits its blocks evenly: with
a given split the second property is false ("What was found"). The
other two are proved under it too, because the invariant they share says which
blocks a tensor went through.

No message says what it is, so all three rest on order. Model and plan fix the
*places* of the messages a stage is due on each of its two links (`Due`,
`DueSkips`): request, step, segment, and whether it is the shape or the tensor;
a shape is due only where a request first receives a segment. Where the loop of a
stage stands fixes the place it receives and the place it sends next (`RecvPos`,
`SendPos`, `SkipRecvPos`, `SkipSendPos`). The invariant `Inv` is, besides the
types:

- for each link (`Link`, `SkipLink`): it holds the places due between its two
  ends, each once and in order, and each tensor is the one of its place, with
  the blocks of the stages before;
- for each stage (`Local`): which control points go with which phase and indices
  (`Ctl`), what has been posted and what is left in the queues, counted in places
  of the rounds (`Receipts`), the shapes known at either end (`Shapes`), what the
  receive buffers hold (`Buffers`, `SkipBuffers`), and how far each patch of the
  latents has got (`Latents`).

None of the three properties is inductive: none of them says what is in a link,
that sender and receiver negotiate the same shape, or which receives are still in
a queue. An action is shown to preserve `Inv` by where it takes the
two places of its stage. If it passes no due place, no link changes; if it sends,
the next due place is appended; if it receives, the first one is removed, and the
tensor is the one wanted. The lemmas before that are about the order of places
(`NextWhole`, `NextImageAsync`), sequences that hold the places between two
others, and the split of the blocks: sums and concatenations are recursive
functions, whose existence and values are proved first (`SetInduction`,
`RecursionExists`), and from them that the stages' blocks are all blocks in order
and that mirrored stages have mirrored blocks. `InputsMatch` then reads off the
buffers, `EveryBlockOnce` off the blocks before the last stage, `CleanBoundary`
off the links and queues of a stage at the end of its request.

`AllEnd` is model-checked only: whether the loops end depends on the capacities
(the table above) and on fairness.

## Patch metadata

`PatchMetadata` models one `DiTRuntimeState` over a sequence of requests.
`Resize` is `set_input_parameters` when the request differs from what is
recorded: it records the size and then computes the split, with the two
refusals (`RefuseHeight`, `RefuseLastPatch`), the case left unset (`LeaveUnset`)
and the split (`Split`); `KeepSplit` is a request of the recorded size. A refusal
leaves behind what was assigned before it, as the exception does. `LocalRows` is
the slicing of `_init_sync_pipeline`, `Rebuilt` the reassembly of the
finalizers (the same formula as `_gather_sequence_parallel_rows` of the DDPM
scheduler, and on tokens in the token finalizer). All ranks get the same
requests, so one state with one list per rank stands for the group.

Among what a refusal leaves behind is its size, which is recorded before the
split is computed, while `ready` and the lists stay those of the request before
it. When the refused request comes again nothing has changed, so `KeepSplit`
takes it: that is the finding `patches_retry`. Two ranks serve 4 rows, refuse 3
and, asked again, serve 3 with the bounds of 4. It needs one accepted request
before, else `ready` is still false and the second try is refused like the first.
A refused last patch repeats in the same way, and by then `num_pipeline_patch`
has the configured value beside the old lists. Nothing the program keeps tells
such a request from a served one; in the model `outcome` does (`"repeated"`), and
a request counts as `Computed` when the caller splits by rows and it repeats no
refused one. Any change of height, width, batch or `split_latents_by_rows` ends
the state: the split is computed anew.

A computed split tiles exactly the request's rows, whatever was refused before
(`RowsPartition`), tokens follow rows (`TokensFollowRows`) and, when the pipeline
patches have one height, gathering returns the image (`RebuildsEvenSplit`); the
lower last patch is the finding `patches_uneven` (128 latent rows, 3 patches and
2 ranks are an example: the loops of `flatten_patches_height` are nested rank
first, its uses cut it patch first).

`PatchDenoiseProofs` proves the three for every height, number of ranks and
patches, patch size and width (`SplitCoversEveryRow`, `TokensMatchRows`,
`EvenSplitIsRebuilt`), over every sequence of requests, refused and repeated ones
included. The invariant is that a computed split is the one its own request
asks for (`SplitIsOwn`). The rest is arithmetic. The
library's induction theorems take an operator as a parameter and cannot be used,
so the module proves induction over a set of numbers (`SetInduction`: a set with
0 and every successor is `Nat`) and from it that the functions defined by
recursion exist and what they compute: the sums of a list of heights
(`SumsFacts`), where each part of the flattened split ends (`EndsOfParts`), and
what joining a list of lists holds at every place (`FlattenJoins`).

## Denoising patch by patch

`PatchDenoise` serves the requests `PatchMetadata` has split: one stage of one
replica, all ranks of its sequence-parallel group. `WarmupStep` is a synchronous
step, `EnterPatchMode` the switch, `PatchStep` a patch of an asynchronous step on
all ranks - the all-to-all and the ring keep them in the same patch - and
`EndRequest` returns to idle, where the next request may have another size. In
each of them the attention exchanges keys in the Ulysses group, updates the cache
at the offset the code computes and reads it round the ring (`UpdatedCache`,
`Attend`), and the multistep solver shifts its history and updates
(`NewOutputs`, `SolverStep`). A key or a model output is its row with the step it
was computed in; one cache stands for all layers.

`AttendsNewest` - an attention reads every row once, those of the patches already
computed in this step from this step, the others from the step before, never
older and never of another request. `CachesLatest` - after a step the caches of a
ring hold every row of that step. `SolverInStep` - all patches of a step are
updated at that step, with one order, from the outputs of their own rows in this
step and the ones before. The exception in `AttendsNewest` is the finding
`kv_firststep`: the warm-up leaves the cache rank by rank, patches are written
patch by patch, so until the last patch of the first asynchronous step the two
layouts overlap. From the second step on the layout is the patches', and the
property holds without the exception.

Restrictions: without a warm-up step the arguments are refused, and a solver
order above warm-up + 1 slices a history entry that is still `None` (`Accepted`,
which drops such combinations from `Warmups` and `SolverOrders`); a request is denoised
when its split is `Computed` and its patches have one height (`EqualParts`), the
others being the findings `patches_retry` and `patches_uneven`; `lower_order_final` has its default.
The text-token branch of Flux.2, the noise of the DDPM wrapper and the
single-step schedulers are not in the model.

`PatchDenoiseProofs` proves the types and the three properties for every split,
Ulysses degree, warm-up, solver order and number of steps and requests
(`DenoisingKeepsTypes`, `SolverSeesItsOwnSteps`,
`CachesHoldTheLastStep`, `AttentionIsAsNewAsCanBe`), and that denoising takes only
steps of `PatchMetadata` (`DenoisingOnlyReadsTheSplit`), whose invariants it
therefore inherits. `StageInv` relates the counters: the scheduler counts the
stage's steps, and its count of calls suffices for the order of its updates.
`History` says for every entry of the history which step its rows are from, and
for the newest entry how far the patches of the current step have come.
`CachesInv` says in which order a cache holds its cells - by ranks after the
warm-up, by patches once patches are written - and which patches are in their
places, computed when. The two orders differ unless the Ulysses degree or the
number of patches is one, which is why the first asynchronous step has to be
excepted and the second not: by then every patch has been written over
(`RankCache`, `Fresh`). `RingReads` joins the caches of a ring to every row once.

## Loading

### Replicated load

`ReplicatedLoad` models `broadcast_fill_replicated`: for each component ask
whether it is real everywhere; for a denoiser resolve and share the checkpoint
map, then for each block, and for the tail, compare layouts, require keys, read,
reconcile specs, broadcast and, for a block, quantize; for a text encoder
reconcile, materialize, compare, check strides, broadcast. A rank enters a
collective with a value (`Enter`) and leaves it by `Return` when the collective
lets it: a broadcast when the source has made it, the others when all have.
`_collective_build_call` and `_collective_source_call` carry an outcome chosen
freely for each rank, so every operation may fail on any rank. A unit of weights
has a spec (shape and dtype: the meta build's or the checkpoint's), data and a
quantized flag.

The run starts from every combination of real and meta components, stored specs,
peers with other layouts, and strict checkpoints with surplus keys.
`CollectivesMatch` - all ranks take the same branches. `SameOutcome` - no rank
completes while another raised. `WeightsIntact` - no bytes land in storage of
another spec, only real weights are quantized, and a rank that is done has rank
0's weights. `AllEnd` - all ranks succeed or all raise. Two blocks and a tail
give first, next and last unit; the second component gives state that outlives a
component; a third rank gives peers that differ from each other.

Left out: `to_empty` of a block and the materialization of the tail, which
nothing agrees on, so that a failure there hangs the peers by construction;
prepared manifests, which skip the sharing of the map; a load without quantizer;
the encoder's alias groups. A pipeline has at least one component.

`ReplicatedLoadProofs` proves `CollectivesMatch` and `SameOutcome`
(`RanksCallAlike`, `RanksEndAlike`) for every number of ranks, components and
blocks. A broadcast lets its source go on before its peers have come, so a rank
may be many collectives ahead of another and the two cannot be compared. The
invariant says instead that there is one itinerary for all, the place after the
k-th collective being decided by the values put into it: the rank that returns
first writes the next place, a rank that returns later finds the same values.
On it rests the proof of `WeightsIntact`
(`WeightsArrive`), which follows one unit on one rank - untouched, current, through
- and, because a peer takes the spec of a source that may be far ahead, shows
that the source never changes the spec of a unit it has announced; the itinerary
says at which unit the source was when it made the collective a peer now returns
from. `AllEnd` is model-checked only.

### Sharded load

`ShardedLoad` models how ranks choose the route of a component:
`te_blockwise_routes` builds each encoder and agrees on refusals in the world
group, `shard_pipeline_components` asks `agreed_is_meta` in the sharding group
and takes the disk fill, the broadcast of rank 0's copy, or the quantizer alone.
The fill itself is one collective named after the route; its blocks are in
`ReplicatedLoad`, FSDP's wrapping is PyTorch's. The run has the components of
Wan2.2 on two groups of two ranks: `CollectivesMatch` on both communicators,
`SameOutcome` within a group, `AllEnd`. `RankLocalFallback` allows what the
code's comments allow, a rank that alone cannot build an encoder;
`sharded_fallback` shows that this hangs. A failed fill of one group is agreed on
in that group only; the others load on, and the model ends there as the load does.

`ShardedLoadProofs` proves `RanksAgreeOnRoutes` and `LoadsTogether` for every
number of ranks, degree and list of components, from the assumption that there is
no rank-local fallback. All collectives here wait for everybody, so pairs can be
compared: neither of two ranks of a communicator has completed two collectives
more than the other; with equally many they are at the same place and know the
same routes, and one that is ahead is where the other's pending return leads
(`Paired`, `Lockstep`, `Ahead`). `AllEnd` is model-checked only.

### Page cache

`ShardPrefetch` models the one reader that maps shards (`Open`, `Get`, `Retire`,
`PrefetchAfter`, `JoinLast`, `DropAll`) and the thread that streams the next
(`Pread`, which may fail and end the stream). The run takes every layout of three
shards over four units with two shard changes in a unit, in and out of index
order, with keys nobody asks for, and the layouts of five shards in index order.
`OneInFlight` - one shard is streamed at a time. `StreamsOnlyCold` - none is
streamed while pages of it are cached. `CacheIsOwed` - pages nobody is owed come
back only by a stream that still runs. `CacheBound` - in index order no more is
cached than the shards one block spans and the one ahead. `CleanAtEnd` - nothing
is cached or streamed when the fill has ended. A block that spans two shards has
three cached at once, where `meta_load.py:1630` speaks of two; pages of a stream
that outlives its shard stay until `finalize`.

`ShardPrefetchProofs` proves all five, for every number of shards and units,
reading order and depth; the invariant ties a running stream to the thread that
will be joined, and the cache of an owed shard to `_streamed`, by which the
reader decides. For `CacheBound` (`CacheStaysSmall`) it adds that, in index
order, only shards of the current unit and the one after the mapped shard are
cached, and the streams run no further ahead (`Spanned`). Left out: the kernel's own eviction, which only makes the cache
smaller, and a fill that raises midway, which leaves the thread running.

## Attention all-to-all

`AttentionA2A` models the quantized exchange of Q, K and V in a Ulysses group.
The host of a rank only queues work: `LocalChecks`, `GatherHosts` and
`GatherErrors` are the collective preflight, `Forward` selects the recipe of the
step and moves the step counter, `Submit` queues a role, `SubmitFails` is its
refusal by the runtime (out of order, unconsumed input, full operation cache,
poisoned) and `TransportFails` one by the library, `Wait` takes a role's event,
`Attend` queues the attention, `Shutdown` drains. `SideStep` and `ComputeStep`
are the two streams: announcing a buffer as free, sending into the peers'
buffers, receiving, and the attention reading. In tier 1 the three roles form one
ordered operation, in tier 2 every role is awaited on its own, wherever the
compiler puts the wait, and its event is found by the buffer's address. Waits are
modelled in the order of the code. A forward pass stands for one attention call.

`ReadsOwnTrio` - while an attention reads the buffers they hold the Q, K and V of
its own call, of every rank: no wait was saved too early and no peer runs ahead
into a buffer still read. `WaitsAreOwn` - a wait left by a request that raised is
never taken for a later one in the same buffer. `RecipeOfStep` - all roles of a
trio are encoded by the schedule's recipe for the step; a request that was cut
short leaves the step counter where it was (`runtime_state.py:484`), so the next
one starts in the middle of the schedule: the property excepts ranks with an
aborted request and does not cover that. `NeverStuck` - if the transport accepts what it is given and the cache
has room for the operation of every recipe, some host or stream can step until
all ranks are through. Every step of a host or stream uses
up one of a bounded amount of work, so this is the absence of deadlock and needs
no fairness; TLC's own deadlock check is off because ranks may stop.

One buffer makes every trio reuse the last one's, two recipes use two
operations, two requests give a trio before and one after a failure. `MaxAhead`
bounds what a rank may have queued. Excluded: in tier 2 a failed submission of Q
leaves no trace, so a caller that goes on meets peers still waiting (`QLost`); a
preflight check that fails on one rank skips the gather its peers are in
(`attention_a2a.py:349`), so `BadInstalls` has the ranks of one installation fail
together. The preflight's group is taken to be the Ulysses group. Not modelled:
the refusal of a submission whose recipe is not the one the graph was compiled
with (`_require_active_profile`; it raises where the refusal of unconsumed input
does, before its role is queued), the two waits for payload and scales of a
role, which are one `Wait`, the policy's change at run time, `valid_kv_len`, the compiler's lowering; the GEMM
schedule moves with the same counter.

`AttentionA2AProofs` proves type correctness, `WaitsBelongToTheirTrio` and
`RecipeFollowsSchedule` for every group, schedule, number of buffers, requests
and failures. Both are about one rank's host, so the invariant is a conjunction
per rank: the control points of a pass, whom its registered waits belong to, and
where the counter stands. Between passes the waits belong to the pending trio,
which keeps every later pass from submitting.

Its second half builds on that to prove `ReadsOwnTrio`
(`AttentionReadsItsOwnTrio`), which relates ranks: a rank receives from its peers
only an epoch number of a channel, and may be many trios behind or ahead. There is
one itinerary for all ranks, the positions a host goes through that nothing stops
and the trios its passes submit for each recipe; a rank is at one of its positions
until a submission of its own fails, and submits nothing more from then on, so an
epoch of a channel is the same trio everywhere. The other half is the flow control
of one channel: a rank announces the next epoch after the attention has read the
buffer, so at that moment every peer has sent the current epoch and none the next.
`NeverStuck`, stated with ENABLED, is model-checked only.

## From prompts to images

`RequestOutput` starts with the groups: `RankGroups` is
`generate_masked_orthogonal_rank_groups`, for every axis and for a replica, fixed
in `Init`. `Split` deals the prompts to the replicas as the runner does (refusing
uneven shares that would be gathered, and fewer prompts than replicas), `Denoise`
is a pipeline call, and what follows depends on the wrapper and the caller:
`Announce`, `Collect` and `Broadcast` gather the owners' latents for a parallel
VAE, `Transfer` and `VaeBroadcast` hand them to ranks that only decode,
`GatherOutputs` collects the replicas' outputs, `Save` elects the rank that saves;
under Ray `DriverReturns` takes what the workers return, and the pipeline is
called a second time. A collective is one step of all its members, a send one
step of both ends.

`GroupsOrthogonal` - a group of an axis is the ranks that differ in that axis
only, a replica is a run of neighbours. `EveryPromptSaved` - in the end every
prompt's image is there as often as it has to be: once, once per replica for a
single prompt that all replicas make, and once per decoding rank for the Ray
driver, which hears each of them. `EqualGather` - ranks that gather latents hold
equally many. `AllEnd` - no rank waits for one that never comes.

The nineteen configurations cover each degree alone and in pairs, with wrappers
that gather and ones that decode their own, native pipelines, both refusals, and
Ray with and without decoding ranks. Ranks differ only by their coordinates, so a
degree of two or three is enough. Restrictions: ownership of latents ignores the
tensor-parallel axis, so `EveryPromptSaved` has the premise of a
tensor-parallel degree of one, the only one the runner allows
(`base_model.py:219`); ranks that only decode hear one owner, so `SetupsOK` gives
them one replica; the models that run on more than one stage (`flux.py`,
`stable_diffusion.py`) do so with a legacy wrapper, so it gives a native pipeline
one stage; the Ray path refuses neither uneven nor empty shares and is
asked for even ones. Saved images are in replica order. Process groups themselves
and yunchang's Ulysses and ring groups are external.

`RequestOutputProofs` proves `GroupsOrthogonal`, `EqualGather` and
`EveryPromptSaved` (`GroupsAreOrthogonal`, `OwnersGatherEqually`,
`PromptsAreSaved`) for every degree, caller, decoder, number of prompts and batch
that `SetupsOK` admits. A rank is a number of five digits in the bases of the
degrees; `Decompose` and `InnerProduct` go there and back, and the place in a
group counts one digit (or the four of a replica) with the others fixed, from
which orthogonality, order and the runs of neighbours follow. A share depends on
the data-parallel digit only, the shares of the replicas partition the prompts,
and each replica has one owner, the rank with the last place on every axis an
owner is chosen by, if tensor parallelism is off. Two invariants follow the
steps. `Control` says where in the program a rank can be, that ranks which decode
together are at the same call, and that an owner at the gather holds the prompts
of that call; their number is the same on all owners because uneven shares were
refused (this is where the refusal is needed). `Data` (for a tensor-parallel
degree of one) says who has the images of which prompts at each stage: every rank
its own, the collecting owner or the first rank those of all owners, the decoding
ranks all prompts, the gathering rank and at last what is saved the final count
of each. Its steps use `Control`: no image is left out because no rank is at
another call, and no latents are taken from a rank that is not at the gather.
Products and sums over the axes are recursive functions, unfolded for the
sequences of one, four and five axes that occur; induction over numbers of ranks
and prompts goes by the least number outside a set. `AllEnd` is model-checked
only.

## Fairness

Liveness assumes that a process that can go on does, no more. `PipeFusionAsync`
and `PipeFusionRequests`: weak fairness of every `Host(i)` and of the delivery of
a message whose receive is posted (`Deliver(i)`, `DeliverSkip(i)`); a stage's
enabled step is never disabled by another's, so nothing stronger is needed. The
two loads: weak fairness of each rank's `Step`, which is enabled unless the rank
waits in a collective. `RequestOutput`: weak fairness of `Step` as a whole, the
weaker assumption that somebody moves; it is enough because no rank can move for
ever. The remaining modules state no liveness.

## Bounds

Every bound is a constant of a configuration: numbers of ranks, stages, steps,
patches, blocks, components, shards, units and chunks, sets of heights, lists of
requests. `UnitKeys` (shard changes within a unit), `FreeShards` (shards of a
checkpoint read out of order), `MaxAhead` (operations queued on a stream),
`MaxFailures` (submissions refused), `MaxOps` and `NumBuffers`, `MaxRequests`,
`LinkCapacity` and `FeedbackCapacity` limit what the code could do in an instance
of the given size. Why the sizes are enough is said with each component: the
first, a middle and the last stage, step, patch, block or unit are there, ranks
with equal and with different roles, and a second request, component or trio that
finds what the first has left. Where a theorem is listed, it holds beyond them.

## Proved and only model-checked

Proved for every value of the constants: all safety properties the passing runs check of
`PipeFusionAsync`, `ReplicatedLoad`, `ShardedLoad`, `ShardPrefetch`,
`PatchMetadata`, `PatchDenoise`, `PipeFusionRequests` and `RequestOutput`; those
of `AttentionA2A` but `NeverStuck`; and the safety part of the refinement of the
ring. The assumptions are the named ASSUMEs of the modules, for
`PipeFusionRequests` an even split of the blocks of a model with skips
(`EvenSkips`), and for `ShardedLoad` the absence of rank-local fallback. Those of
`PatchMetadata` and `PatchDenoise` have no premise beyond the ASSUMEs.

Only model-checked: every liveness property, the fairness part of `RingSpec` and
`NeverStuck`, because liveness and ENABLED are out of the prover's reach.

## What is not modelled

- Tensors' values, device memory, kernels, `torch.compile`, timeouts of
  collectives: not state of this program, or numerics.
- Patch layouts with reference tokens: index arithmetic that is set once per
  request, on the split `PatchMetadata` models.
- The tensor-dict sends and broadcasts of the group coordinator: no pipeline
  calls them.
- Load plans of stages and text encoders: names of targets and keys.
- The FSDP helper: PyTorch's wrapping; its collective quantization is a
  collective of `ShardedLoad`.
- HTTP service and CLI: process start and request plumbing; that requests of any
  size may follow one another is used in `PatchMetadata` and `PatchDenoise`.
- Configuration: its accepted ranges are the assumptions on the constants.
- Model wrappers, attention backends and layers: one forward pass is one step.
  They are most of the repository's lines.

The modules planned at the outset are written. What would come next, should the
code grow in these directions: the agreement of a fill across sharding groups, a
shutdown of the prefetch thread when a fill raises, and a driver for the
hand-written loops, which would then be instances of `PipeFusionAsync`.
