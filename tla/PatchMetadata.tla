---------------------------- MODULE PatchMetadata ----------------------------
(***************************************************************************)
(* The split of an image's latent rows over PipeFusion's pipeline patches  *)
(* and over the ranks of a sequence-parallel group, as DiTRuntimeState     *)
(* computes it when a request arrives and as the pipelines use it: every   *)
(* rank cuts its rows out of the latent, and at the end the ranks gather   *)
(* their rows and put them back in order.                                  *)
(*                                                                         *)
(* One runtime state lives through many requests.  It recomputes the split *)
(* only when a request changes the recorded size, and a request that       *)
(* raises leaves behind what it had assigned before it raised.  All ranks  *)
(* of the group receive the same requests, so one state stands for all of  *)
(* them, with one list of row bounds per rank.  Heights are in latent      *)
(* rows; a token row is patch_size latent rows, of a fixed width.          *)
(***************************************************************************)
EXTENDS Integers, Sequences, SequencesExt

CONSTANTS
    Heights,          \* latent heights a request may ask for
    SpDegrees,        \* sizes of the sequence-parallel group
    PipelinePatches,  \* configured num_pipeline_patch
    PatchSizes,       \* backbone_patch_size
    RowSplits         \* values of split_latents_by_rows the callers pass

ASSUME PositiveSizes ==
    /\ Heights \subseteq Nat \ {0}
    /\ SpDegrees \subseteq Nat \ {0}
    /\ PipelinePatches \subseteq Nat \ {0}
    /\ PatchSizes \subseteq Nat \ {0}
    /\ RowSplits \subseteq BOOLEAN

VARIABLES
    setup,                \* the degrees, fixed when the process starts
    height,               \* input_config.height, in latent rows
    split_latents_by_rows,
    ready,
    num_pipeline_patch,
    bounds,               \* per rank, pp_patches_start_end_idx_global, or Unset
    outcome               \* of the last request; "repeated": accepted because the
                          \* recorded size is that of a request just refused

vars == <<setup, height, split_latents_by_rows, ready, num_pipeline_patch,
          bounds, outcome>>

Unset == <<>>

Setups == [sp : SpDegrees, patches : PipelinePatches, patch_size : PatchSizes]

Ranks == 1 .. setup.sp

\* Sums(s)[i] is the sum of the first i elements of a list of heights.
Sums(s) ==
    LET sums[i \in 0 .. Len(s)] == IF i = 0 THEN 0 ELSE sums[i - 1] + s[i]
    IN  sums

CeilDiv(a, b) == (a + b - 1) \div b

----------------------------------------------------------------------------
(* The arithmetic of _calc_patches_metadata.                               *)

\* What the height of every pipeline patch is rounded up to.
Unit_RowsOnly == setup.sp

Unit == setup.sp * setup.patch_size

PatchHeight(h) == CeilDiv(CeilDiv(h, setup.patches), Unit) * Unit

NumPatches_OneMore(h) == h \div PatchHeight(h) + 1

NumPatches(h) == CeilDiv(h, PatchHeight(h))

LastHeight(h) == h - PatchHeight(h) * (NumPatches(h) - 1)

PatchHeights_AllEqual(h) == [p \in 1 .. NumPatches(h) |-> PatchHeight(h)]

PatchHeights(h) ==
    [p \in 1 .. NumPatches(h) |->
        IF p < NumPatches(h) THEN PatchHeight(h) ELSE LastHeight(h)]

\* flatten_patches_height: the list of all pipeline patches, once per rank.
FlatHeights(h) ==
    LET one == PatchHeights(h)
    IN  [i \in 1 .. Len(one) * setup.sp |-> one[((i - 1) % Len(one)) + 1] \div setup.sp]

\* Rank r's part of patch p is the r-th of the patch's sp entries.
Entry(p, r) == (p - 1) * setup.sp + r

RowBounds(h) ==
    LET end == Sums(FlatHeights(h))
    IN  [r \in Ranks |->
            [p \in 1 .. NumPatches(h) |-> <<end[Entry(p, r) - 1], end[Entry(p, r)]>>]]

TokenBounds(r, p) ==
    <<bounds[r][p][1] \div setup.patch_size, bounds[r][p][2] \div setup.patch_size>>

----------------------------------------------------------------------------
(* set_input_parameters.                                                   *)

Init ==
    /\ setup \in Setups
    /\ height \in Heights
    /\ split_latents_by_rows = TRUE
    /\ ready = FALSE
    /\ num_pipeline_patch = setup.patches
    /\ bounds = Unset
    /\ outcome = "none"

SizeChanged(h, byRows, otherSize) ==
    ~ready \/ h # height \/ otherSize \/ byRows # split_latents_by_rows

\* The rank's recorded size is the new one before the split is computed.
RecordSize(h, byRows) ==
    /\ height' = h
    /\ split_latents_by_rows' = byRows
    /\ UNCHANGED setup

Divides(h) == h % setup.sp = 0

LastPatchFits(h) == LastHeight(h) % Unit = 0

\* The height does not divide over the ranks and the caller splits by rows.
RefuseHeight(h, byRows) ==
    /\ ~Divides(h) /\ byRows
    /\ outcome' = "rejected"
    /\ UNCHANGED <<ready, num_pipeline_patch, bounds>>

\* It does not divide but the transformer shards the tokens itself.
LeaveUnset(h, byRows) ==
    /\ ~Divides(h) /\ ~byRows
    /\ num_pipeline_patch' = setup.patches
    /\ bounds' = Unset
    /\ ready' = TRUE
    /\ outcome' = "accepted"

RefuseLastPatch(h) ==
    /\ Divides(h) /\ ~LastPatchFits(h)
    /\ num_pipeline_patch' = setup.patches
    /\ outcome' = "rejected"
    /\ UNCHANGED <<ready, bounds>>

Split(h) ==
    /\ Divides(h) /\ LastPatchFits(h)
    /\ num_pipeline_patch' = NumPatches(h)
    /\ bounds' = RowBounds(h)
    /\ ready' = TRUE
    /\ outcome' = "accepted"

CalcPatchesMetadata(h, byRows) ==
    \/ RefuseHeight(h, byRows)
    \/ LeaveUnset(h, byRows)
    \/ RefuseLastPatch(h)
    \/ Split(h)

\* otherSize: the request changes the recorded width or batch size.
Resize(h, byRows, otherSize) ==
    /\ SizeChanged(h, byRows, otherSize)
    /\ RecordSize(h, byRows)
    /\ CalcPatchesMetadata(h, byRows)

\* The recorded size is the request's, so it is taken as it is: also the size
\* of a refused request, whose split was never computed.  The program keeps no
\* trace of the refusal; outcome does, for the properties to tell such a
\* request apart.
KeepSplit(h, byRows, otherSize) ==
    /\ ~SizeChanged(h, byRows, otherSize)
    /\ outcome' = IF outcome = "rejected" THEN "repeated" ELSE outcome
    /\ UNCHANGED <<setup, height, split_latents_by_rows, ready,
                   num_pipeline_patch, bounds>>

Next ==
    \E h \in Heights, byRows \in RowSplits, otherSize \in BOOLEAN :
        Resize(h, byRows, otherSize) \/ KeepSplit(h, byRows, otherSize)

Spec == Init /\ [][Next]_vars

----------------------------------------------------------------------------
(* The rows as the pipelines use them.                                     *)

Rows(b) == [i \in 1 .. b[2] - b[1] |-> b[1] + i]

\* _init_sync_pipeline: a rank's own latent, its part of every patch in turn.
LocalRows(r) == FlattenSeq([p \in 1 .. Len(bounds[r]) |-> Rows(bounds[r][p])])

\* pp_patches_start_idx_local: where a patch starts in the rank's own latent.
LocalStart(r, p) ==
    Sums([q \in 1 .. Len(bounds[r]) |-> bounds[r][q][2] - bounds[r][q][1]])[p - 1]

\* The finalizers: gather every rank's rows, take one patch after the other
\* and of each patch one rank after the other, by the bounds of the own rank.
GatheredPart(self, p, r) ==
    SubSeq(LocalRows(r), LocalStart(self, p) + 1, LocalStart(self, p + 1))

RankAt(i) == ((i - 1) % setup.sp) + 1

PatchAt(i) == ((i - 1) \div setup.sp) + 1

Rebuilt_Concatenated(self) == FlattenSeq([r \in Ranks |-> LocalRows(r)])

Rebuilt(self) ==
    FlattenSeq([i \in 1 .. num_pipeline_patch * setup.sp |->
        GatheredPart(self, PatchAt(i), RankAt(i))])

\* all_gather_into_tensor needs inputs of one size.
SameSize == \A r \in Ranks : Len(LocalRows(r)) = Len(LocalRows(1))

----------------------------------------------------------------------------
(* Properties.                                                             *)

\* set_input_parameters returned to a caller that splits by rows.
Served == outcome \in {"accepted", "repeated"} /\ split_latents_by_rows

\* It did so with a split computed since the last refusal.
Computed == outcome = "accepted" /\ split_latents_by_rows

\* Every variable keeps to its kind, and a split has a list for every rank.
TypeOK ==
    /\ setup \in Setups
    /\ height \in Heights
    /\ split_latents_by_rows \in BOOLEAN /\ ready \in BOOLEAN
    /\ num_pipeline_patch \in 1 .. setup.patches
    /\ outcome \in {"none", "accepted", "rejected", "repeated"}
    /\ bounds # Unset => \A r \in Ranks : bounds[r] \in Seq(Nat \X Nat)

\* A request that splits by rows and does not repeat a refused one is served
\* with a split of its own rows: the parts of all ranks in all patches follow
\* one another, patch by patch and rank by rank, from the first latent row to
\* the last.  Nothing of an earlier request's size or patch count is left, and
\* nothing of a refused one's.
RowsPartition ==
    Computed =>
        /\ bounds # Unset
        /\ \A r \in Ranks : Len(bounds[r]) = num_pipeline_patch
        /\ bounds[1][1][1] = 0
        /\ bounds[setup.sp][num_pipeline_patch][2] = height
        /\ \A i \in 2 .. num_pipeline_patch * setup.sp :
              bounds[RankAt(i)][PatchAt(i)][1] = bounds[RankAt(i - 1)][PatchAt(i - 1)][2]

\* What the attention layers index their caches with: the tokens of a part are
\* exactly the patch embedding of the part's rows.
TokensFollowRows ==
    Computed =>
        \A r \in Ranks, p \in 1 .. num_pipeline_patch :
            \A k \in 1 .. 2 : TokenBounds(r, p)[k] * setup.patch_size = bounds[r][p][k]

\* Whenever the split was computed, every rank gathers the whole latent with
\* its rows in order.
Rebuilds ==
    Computed =>
        /\ SameSize
        /\ \A self \in Ranks : Rebuilt(self) = [i \in 1 .. height |-> i]

\* The same when all pipeline patches have one height, or one rank has them all.
RebuildsEvenSplit ==
    Computed /\ (setup.sp = 1 \/ LastHeight(height) = PatchHeight(height)) =>
        /\ SameSize
        /\ \A self \in Ranks : Rebuilt(self) = [i \in 1 .. height |-> i]

\* The docstring of set_input_parameters: splitting by rows needs a row count
\* that the sequence-parallel degree divides, so no other height is served.
RowSplitNeedsDivisibleHeight == Served => Divides(height)
=============================================================================
