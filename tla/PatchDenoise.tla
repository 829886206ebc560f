---------------------------- MODULE PatchDenoise ----------------------------
(***************************************************************************)
(* One PipeFusion stage of one replica serving the requests whose split    *)
(* PatchMetadata computes: the ranks of its sequence-parallel group run    *)
(* the warm-up steps on the whole latent and the asynchronous steps patch  *)
(* by patch.  In patch mode the attention layers know only the patch's     *)
(* keys and values and take the other rows from their cache, where they    *)
(* are those of the step before; and the multistep solver of the last      *)
(* stage keeps the model outputs of the last steps, written patch by       *)
(* patch.                                                                  *)
(*                                                                         *)
(* A key or a model output is the step it was computed in, with the row    *)
(* it belongs to.  All layers do the same, so one cache stands for all of  *)
(* them.  The all-to-all and the ring keep the ranks of the group in the   *)
(* same patch, so a patch is one step of the whole group.                  *)
(***************************************************************************)
EXTENDS PatchMetadata, FiniteSetsExt

CONSTANTS
    UlyssesDegrees,   \* ulysses_degree, where it divides the sequence-parallel degree
    Warmups,          \* warmup_steps
    SolverOrders,     \* solver_order of the multistep scheduler
    NumSteps,         \* steps of a request
    MaxRequests       \* bound: requests that are denoised

ASSUME DenoisingSizes ==
    /\ UlyssesDegrees \subseteq Nat \ {0}
    /\ Warmups \subseteq 0 .. NumSteps
    /\ SolverOrders \subseteq {2, 3}
    /\ NumSteps \in Nat \ {0}
    /\ MaxRequests \in Nat

VARIABLES
    config,             \* ulysses_degree, warmup_steps and solver_order
    phase,              \* "idle", or "denoise" while a request is in its steps
    request,            \* how many requests were denoised
    step,               \* finished steps of the request
    patch_mode,
    pipeline_patch_idx, \* counted from one
    caches,             \* per rank, _xdit_kv_cache: a sequence of <<row, time>>
    attended,           \* per rank, the keys its last attention read
    model_outputs,      \* per rank, the solver's history, newest last
    lower_order_nums,
    step_index,         \* the scheduler's _step_index
    updated             \* what the last solver update was made from

denoiseVars == <<config, phase, request, step, patch_mode, pipeline_patch_idx,
                 caches, attended, model_outputs, lower_order_nums, step_index, updated>>

Nothing == <<>>

\* When a value was computed: steps counted through all requests.
Time == (request - 1) * NumSteps + step + 1

----------------------------------------------------------------------------
(* The attention layers.                                                   *)

\* PROCESS_GROUP.ULYSSES_PG holds neighbouring ranks, RING_PG the ranks with
\* one position in their Ulysses groups.
UlyssesGroup(r) ==
    LET first == ((r - 1) \div config.ulysses) * config.ulysses
    IN  [u \in 1 .. config.ulysses |-> first + u]

RingGroup(r) ==
    LET position == (r - 1) % config.ulysses
    IN  [i \in 1 .. setup.sp \div config.ulysses |-> (i - 1) * config.ulysses + position + 1]

Stamped(rows) == [i \in DOMAIN rows |-> <<rows[i], Time>>]

PatchRows(r) == Rows(bounds[r][pipeline_patch_idx])

\* The keys of the rows a rank computes now.
OwnKeys(r) == Stamped(IF patch_mode THEN PatchRows(r) ELSE LocalRows(r))

\* _ft_c_input_all_to_all: the parts of the Ulysses group, rank after rank.
Exchanged(r) ==
    FlattenSeq([u \in 1 .. config.ulysses |-> OwnKeys(UlyssesGroup(r)[u])])

Overwritten(old, start, new) ==
    [i \in DOMAIN old |->
        IF start < i /\ i <= start + Len(new) THEN new[i - start] ELSE old[i]]

\* Where a patch starts in the cache of a rank.
CacheStart_OwnRows(r) == LocalStart(r, pipeline_patch_idx)

CacheStart(r) == config.ulysses * LocalStart(r, pipeline_patch_idx)

\* update_and_get_kv_cache.  Out of patch mode the cache is what was exchanged:
\* splitting it by ranks and patches and joining the pieces in the same order
\* changes nothing.
UpdatedCache_NeverPatched(r) == Exchanged(r)

UpdatedCache(r) ==
    IF num_pipeline_patch = 1 \/ ~patch_mode
      THEN Exchanged(r)
      ELSE Overwritten(caches[r], CacheStart(r), Exchanged(r))

\* xdit_ring_flash_attn_forward: the caches of the ring, one after the other.
Attend ==
    /\ caches' = [r \in Ranks |-> UpdatedCache(r)]
    /\ attended' = [r \in Ranks |->
            FlattenSeq([i \in DOMAIN RingGroup(r) |-> caches'[RingGroup(r)[i]]])]

----------------------------------------------------------------------------
(* The multistep solver.                                                   *)

FirstPatch == ~patch_mode \/ pipeline_patch_idx = 1

LastPatch == ~patch_mode \/ pipeline_patch_idx = num_pipeline_patch

\* The history a step starts with, at its first patch.
Shifted(outputs, blank) ==
    IF FirstPatch THEN Append(Tail(outputs), blank) ELSE outputs

Blank(r) == [i \in 1 .. Len(LocalRows(r)) |-> 0]

\* The rank's history with the outputs of the rows it computed now.
NewOutputs(r) ==
    LET outputs == Shifted(model_outputs[r], Blank(r))
        rows == IF patch_mode THEN PatchRows(r) ELSE LocalRows(r)
        start == IF patch_mode THEN LocalStart(r, pipeline_patch_idx) ELSE 0
        fresh == [i \in DOMAIN rows |-> Time]
    IN  [outputs EXCEPT ![config.order] = Overwritten(@, start, fresh)]

\* Which update is made: of first order until an output is in the history, of
\* second until two are, and of lower order again in the last steps.
\* lower_order_nums counts the calls, step_index the steps.
UpdateOrder == Min({config.order, lower_order_nums + 1, NumSteps - step_index})

\* The newest outputs of the rows computed now, of as many steps.
Slices(r, outputs) ==
    LET start == IF patch_mode THEN LocalStart(r, pipeline_patch_idx) ELSE 0
        rows == IF patch_mode THEN PatchRows(r) ELSE LocalRows(r)
    IN  [k \in 1 .. UpdateOrder |->
            SubSeq(outputs[config.order + 1 - k], start + 1, start + Len(rows))]

NextStepIndex_EveryPatch == step_index + 1

NextStepIndex == IF LastPatch THEN step_index + 1 ELSE step_index

SolverStep ==
    /\ model_outputs' = [r \in Ranks |-> NewOutputs(r)]
    /\ updated' = [at |-> step_index, of |-> [r \in Ranks |-> Slices(r, model_outputs'[r])]]
    /\ lower_order_nums' = Min({config.order, lower_order_nums + 1})
    /\ step_index' = NextStepIndex

----------------------------------------------------------------------------
(* A request.                                                              *)

\* args.py refuses PipeFusion without a warm-up step; without an output for
\* every slot the solver's patches of the first asynchronous step would slice
\* an empty one.
Accepted(c) == c.warmup >= 1 /\ c.order <= c.warmup + 1

InitDenoise ==
    /\ Init
    /\ config \in [ulysses : UlyssesDegrees, warmup : Warmups, order : SolverOrders]
    /\ setup.sp % config.ulysses = 0 /\ Accepted(config)
    /\ phase = "idle"
    /\ request = 0 /\ step = 0
    /\ patch_mode = FALSE /\ pipeline_patch_idx = 1
    /\ caches = [r \in Ranks |-> Nothing]
    /\ attended = Nothing
    /\ model_outputs = Nothing
    /\ lower_order_nums = 0 /\ step_index = 0
    /\ updated = Nothing

\* set_input_parameters, between requests.
SetInput ==
    /\ phase = "idle"
    /\ Next
    /\ attended' = Nothing /\ updated' = Nothing
    /\ UNCHANGED <<config, phase, request, step, patch_mode, pipeline_patch_idx,
                   caches, model_outputs, lower_order_nums, step_index>>

\* The ranks' parts of every patch have one height; else the all-to-all and
\* the ring would be handed tensors of different sizes.
EqualParts == setup.sp = 1 \/ LastHeight(height) = PatchHeight(height)

\* _init_sync_pipeline leaves patch mode; the scheduler's set_timesteps forgets
\* the history.
ModeAtStart == FALSE

\* A request is denoised with its own split: the one that repeats a refused
\* request, served with an older split, is left out.
StartRequest ==
    /\ phase = "idle" /\ request < MaxRequests
    /\ Computed /\ EqualParts
    /\ phase' = "denoise"
    /\ request' = request + 1 /\ step' = 0
    /\ patch_mode' = ModeAtStart /\ pipeline_patch_idx' = 1
    /\ model_outputs' = [r \in Ranks |-> [k \in 1 .. config.order |-> Blank(r)]]
    /\ lower_order_nums' = 0 /\ step_index' = 0
    /\ attended' = Nothing /\ updated' = Nothing
    /\ UNCHANGED <<vars, config, caches>>

\* One step of the warm-up: the whole latent in one pass.
WarmupStep ==
    /\ phase = "denoise" /\ step < config.warmup
    /\ Attend
    /\ SolverStep
    /\ step' = step + 1
    /\ UNCHANGED <<vars, config, phase, request, patch_mode, pipeline_patch_idx>>

\* _init_async_pipeline, after the warm-up.
EnterPatchMode ==
    /\ phase = "denoise" /\ step = config.warmup /\ ~patch_mode
    /\ step < NumSteps
    /\ patch_mode' = TRUE /\ pipeline_patch_idx' = 1
    /\ attended' = Nothing /\ updated' = Nothing
    /\ UNCHANGED <<vars, config, phase, request, step, caches,
                   model_outputs, lower_order_nums, step_index>>

\* One patch of an asynchronous step; next_patch wraps after the last.
PatchStep ==
    /\ phase = "denoise" /\ patch_mode /\ step < NumSteps
    /\ Attend
    /\ SolverStep
    /\ pipeline_patch_idx' = (pipeline_patch_idx % num_pipeline_patch) + 1
    /\ step' = IF LastPatch THEN step + 1 ELSE step
    /\ UNCHANGED <<vars, config, phase, request, patch_mode>>

\* The caches a request leaves behind: the ranks that decode release theirs,
\* all ranks where the decoder is parallel.
Released(ranks) ==
    [r \in Ranks |-> IF r \in ranks THEN Nothing ELSE caches[r]]

\* The request is over, or an end-of-step callback raised.
EndRequest ==
    /\ phase = "denoise"
    /\ step > 0 /\ FirstPatch
    /\ phase' = "idle"
    /\ \E ranks \in {{}, {setup.sp}, Ranks} :
          /\ step < NumSteps => ranks = {}
          /\ caches' = Released(ranks)
    /\ attended' = Nothing /\ updated' = Nothing
    /\ UNCHANGED <<vars, config, request, step, patch_mode, pipeline_patch_idx,
                   model_outputs, lower_order_nums, step_index>>

NextDenoise ==
    \/ SetInput
    \/ StartRequest
    \/ WarmupStep
    \/ EnterPatchMode
    \/ PatchStep
    \/ EndRequest

SpecDenoise == InitDenoise /\ [][NextDenoise]_<<vars, denoiseVars>>

----------------------------------------------------------------------------
(* Properties.                                                             *)

\* Every variable keeps to its kind; the patch index stays within the split.
DenoiseTypeOK ==
    /\ TypeOK
    /\ phase \in {"idle", "denoise"}
    /\ request \in 0 .. MaxRequests /\ step \in 0 .. NumSteps
    /\ patch_mode \in BOOLEAN
    /\ phase = "denoise" => pipeline_patch_idx \in 1 .. num_pipeline_patch
    /\ DOMAIN caches = Ranks
    /\ lower_order_nums \in 0 .. config.order /\ step_index \in 0 .. NumSteps

\* Each cell of a sequence is a different row, and they are all the rows.
EveryRowOnce(cells) ==
    /\ Len(cells) = height
    /\ {cells[i][1] : i \in DOMAIN cells} = 1 .. height

\* The patch a row is in: with equal parts the patches are whole bands of rows.
PatchOf(row) == CeilDiv(row, PatchHeight(height))

\* The last attention was the one of this patch, before next_patch.
AttendedPatch ==
    IF pipeline_patch_idx = 1 THEN num_pipeline_patch ELSE pipeline_patch_idx - 1

\* The time of the step that attention belongs to.
AttendedTime ==
    IF patch_mode /\ AttendedPatch < num_pipeline_patch THEN Time ELSE Time - 1

\* The first asynchronous step, while its patches are still being computed.
FirstAsyncStep == patch_mode /\ AttendedTime = (request - 1) * NumSteps + config.warmup + 1

NewestTime(row) ==
    IF ~patch_mode \/ num_pipeline_patch = 1 \/ PatchOf(row) <= AttendedPatch
      THEN AttendedTime
      ELSE AttendedTime - 1

\* PipeFusion's premise: an attention reads every row of the latent, those of
\* the patches already computed in this step from this step and the others
\* from the step before, never older and never of another request.  In the
\* first asynchronous step this needs a Ulysses group of one rank or one patch.
AttendsNewest ==
    /\ attended # Nothing
    /\ ~FirstAsyncStep \/ config.ulysses = 1 \/ num_pipeline_patch = 1
    => \A r \in Ranks :
          /\ EveryRowOnce(attended[r])
          /\ \A i \in DOMAIN attended[r] :
                attended[r][i][2] = NewestTime(attended[r][i][1])

\* docs/methods/hybrid.md: PipeFusion needs all keys of the step before in the
\* next step, so every attention reads every row.
AttendsEveryRow ==
    attended # Nothing => \A r \in Ranks : EveryRowOnce(attended[r])

\* docs/methods/hybrid.md: after a step the buffers of all ranks (of a ring
\* together) hold every row, computed in this step.
CachesLatest ==
    phase = "denoise" /\ step > 0 /\ FirstPatch =>
        \A r \in Ranks :
            LET cells == FlattenSeq([i \in DOMAIN RingGroup(r) |-> caches[RingGroup(r)[i]]])
            IN  /\ EveryRowOnce(cells)
                /\ \A i \in DOMAIN cells : cells[i][2] = Time - 1

\* Every rank updates every patch of a step with the scheduler at that step, in
\* one order, from the outputs of its own rows in this and the last steps.
SolverInStep ==
    updated # Nothing =>
        /\ updated.at = AttendedTime - (request - 1) * NumSteps - 1
        /\ \A r \in Ranks :
              /\ Len(updated.of[r]) =
                    Min({config.order, updated.at + 1, NumSteps - updated.at})
              /\ \A k \in DOMAIN updated.of[r] :
                    \A i \in DOMAIN updated.of[r][k] :
                        updated.of[r][k][i] = AttendedTime + 1 - k
=============================================================================
