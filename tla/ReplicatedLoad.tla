---------------------------- MODULE ReplicatedLoad ----------------------------
(***************************************************************************)
(* Loading a replicated pipeline: ModelLoader.broadcast_fill_replicated    *)
(* over _BlockwiseDiskFiller.  Every rank runs the same program.  Rank 0   *)
(* alone has the weights: a denoiser is read block by block from disk, a   *)
(* text encoder was loaded whole, and the peers receive both by broadcast. *)
(* Between the data broadcasts the ranks exchange layouts, missing keys,   *)
(* tensor specs and the outcome of every operation that can fail on one    *)
(* rank only.  A rank that raises alone, or takes another branch, leaves   *)
(* the others waiting in a collective for ever.                            *)
(***************************************************************************)
EXTENDS Naturals, Sequences

CONSTANTS
    NumRanks,   \* world size
    Kind,       \* the components in strategy order: "denoiser" or "encoder"
    NumBlocks   \* wrapped blocks of a denoiser; the rest of it is its tail

ASSUME RanksAssumption  == NumRanks \in Nat /\ NumRanks > 1
ASSUME KindAssumption   == Kind \in Seq({"denoiser", "encoder"}) /\ Kind # <<>>
ASSUME BlocksAssumption == NumBlocks \in Nat

Ranks      == 0 .. NumRanks - 1
Source     == 0
Peers      == Ranks \ {Source}
Components == 1 .. Len(Kind)
Rest       == NumBlocks
Units(c)   == IF Kind[c] = "denoiser" THEN 0 .. Rest ELSE {0}

Status == {"ok", "bad"}
Specs  == {"model", "stored"}   \* shape and dtype: of the meta build, or of the checkpoint
Tensor == [spec : Specs, data : {"meta", "empty", "weights", "corrupt"}, quantized : BOOLEAN]

VARIABLES
    pc,        \* the collective each rank makes next or is in
    called,    \* it has entered that collective
    comp,      \* the component of the fill loop
    unit,      \* the block, or the tail
    calls,     \* calls[r]: the collectives r has entered, with what it put in
    tensor,    \* tensor[r][c][u]: the weights of one unit of a component
    used,      \* the units whose checkpoint keys this filler has consumed
    differs,   \* the peers that built another structure for a component
    strict,    \* the components whose checkpoint must be consumed whole
    surplus    \* the strict checkpoints with a tensor the model does not have

vars == <<pc, called, comp, unit, calls, tensor, used, differs, strict, surplus>>

-----------------------------------------------------------------------------
(* Collectives: external (torch.distributed).  The k-th call of a rank     *)
(* meets the k-th call of the others.                                      *)

Op == [real      |-> "all_reduce", resolve |-> "broadcast",  share     |-> "broadcast",
       layout    |-> "broadcast",  compare |-> "all_reduce", keys      |-> "broadcast",
       read      |-> "broadcast",  specs   |-> "broadcast",  reconcile |-> "all_gather",
       materialize |-> "all_gather", strides |-> "all_reduce",
       data      |-> "broadcast",  quantize |-> "all_gather"]

Met(r, s) == /\ Len(calls[s]) >= Len(calls[r])
             /\ calls[s][Len(calls[r])].op = calls[r][Len(calls[r])].op

\* A broadcast returns on its source at once, on a peer when the source has
\* made it; the other collectives return when all ranks have.
Returned(r) ==
    IF calls[r][Len(calls[r])].op = "broadcast" THEN Met(r, Source)
    ELSE \A s \in Ranks : Met(r, s)

Received(r)      == calls[Source][Len(calls[r])].val
Contributions(r) == {calls[s][Len(calls[r])].val : s \in Ranks}

Enter(r, phase, val) ==
    /\ pc[r] = phase /\ ~called[r]
    /\ called' = [called EXCEPT ![r] = TRUE]
    /\ calls' = [calls EXCEPT ![r] = Append(@, [op |-> Op[phase], val |-> val])]
    /\ UNCHANGED <<comp, unit, differs, strict, surplus>>

-----------------------------------------------------------------------------
Here(r) == tensor[r][comp[r]][unit[r]]
SetHere(r, t) == [tensor EXCEPT ![r][comp[r]][unit[r]] = t]
InTail(r) == Kind[comp[r]] = "denoiser" /\ unit[r] = Rest

\* Run an operation whose outcome is ok on this rank only; a failure travels
\* with the call, so that all ranks raise together.
CollectiveBuildCall_RaisesAlone(r, phase, ok) ==
    IF ok THEN Enter(r, phase, "ok") /\ UNCHANGED pc
    ELSE /\ pc[r] = phase /\ ~called[r]
         /\ pc' = [pc EXCEPT ![r] = "failed"]
         /\ UNCHANGED <<called, calls, comp, unit, differs, strict, surplus>>
CollectiveBuildCall(r, phase, ok) ==
    Enter(r, phase, IF ok THEN "ok" ELSE "bad") /\ UNCHANGED pc

\* Only the source runs the operation; the peers wait for its status.
CollectiveSourceCall(r, phase, ok) ==
    Enter(r, phase, IF r = Source /\ ~ok THEN "bad" ELSE "ok") /\ UNCHANGED pc

\* _all_ranks_loaded_real: is every parameter of the component real here?
LoadedReal(r) == \A u \in Units(comp[r]) : tensor[r][comp[r]][u].data # "meta"
AskReal(r) ==
    /\ Enter(r, "real", IF LoadedReal(r) THEN "ok" ELSE "bad")
    /\ UNCHANGED <<pc, tensor, used>>

\* The filler's constructor: rank 0 resolves the checkpoint map and shares it.
ResolveMap(r) ==
    \E ok \in BOOLEAN : /\ CollectiveSourceCall(r, "resolve", ok)
                        /\ UNCHANGED <<tensor, used>>
ShareMap(r) == Enter(r, "share", "ok") /\ UNCHANGED <<pc, tensor, used>>

\* _fill_blocks gives a block empty storage before fill_block compares the
\* layouts; the tail is compared first and materialized later.
SendLayout(r) ==
    /\ Enter(r, "layout", Here(r).spec)
    /\ tensor' = IF Kind[comp[r]] = "denoiser" /\ ~InTail(r)
                 THEN SetHere(r, [Here(r) EXCEPT !.data = "empty"]) ELSE tensor
    /\ UNCHANGED <<pc, used>>

\* Each rank compares its layout contract with the one it received.
CompareLayout(r) ==
    /\ Enter(r, "compare",
             IF r \in differs[comp[r]] \/ Here(r).spec # Received(r) THEN "bad" ELSE "ok")
    /\ UNCHANGED <<pc, tensor, used>>

\* _require_checkpoint_keys
RequireKeys(r) ==
    \E ok \in BOOLEAN : /\ CollectiveSourceCall(r, "keys", ok)
                        /\ UNCHANGED <<tensor, used>>

\* finalize gives the tail storage on every rank; then the source reads.  A
\* tensor read takes the spec of the checkpoint.
Read(r) ==
    \E ok \in BOOLEAN, spec \in Specs :
        /\ CollectiveSourceCall(r, "read", ok)
        /\ tensor' = IF r = Source /\ ok
                     THEN SetHere(r, [Here(r) EXCEPT !.spec = spec, !.data = "weights"])
                     ELSE IF InTail(r) THEN SetHere(r, [Here(r) EXCEPT !.data = "empty"])
                     ELSE tensor
        /\ used' = IF r = Source /\ ok THEN [used EXCEPT ![r] = @ \union {unit[r]}] ELSE used

\* The peers replace what does not have the source's spec.  The encoder's
\* reconciliation replaces everything it finds under the source's names.
Reconciled_Never(r, spec) == Here(r)
Reconciled(r, spec) ==
    IF r = Source \/ r \in differs[comp[r]] THEN Here(r)
    ELSE IF Kind[comp[r]] = "denoiser" /\ Here(r).spec = spec THEN Here(r)
    ELSE [Here(r) EXCEPT !.spec = spec, !.data = "empty"]

SendSpecs(r) == Enter(r, "specs", Here(r).spec) /\ UNCHANGED <<pc, tensor, used>>
Reconcile(r) ==
    \E ok \in BOOLEAN :
        /\ r = Source => ok
        /\ CollectiveBuildCall(r, "reconcile", ok)
        /\ tensor' = IF ok THEN SetHere(r, Reconciled(r, Received(r))) ELSE tensor
        /\ UNCHANGED used

\* _fill_te_replicated: storage on the device for what is still meta.
Materialize(r) ==
    \E ok \in BOOLEAN :
        /\ CollectiveBuildCall(r, "materialize", ok)
        /\ tensor' = IF ok /\ Here(r).data = "meta"
                     THEN SetHere(r, [Here(r) EXCEPT !.data = "empty"]) ELSE tensor
        /\ UNCHANGED used

\* A peer's destination that is not contiguous cannot receive in place.
CheckStrides(r) ==
    \E contiguous \in BOOLEAN :
        /\ r = Source => contiguous
        /\ Enter(r, "strides", IF contiguous THEN "ok" ELSE "bad")
        /\ UNCHANGED <<pc, tensor, used>>

SendData(r) == Enter(r, "data", Here(r).spec) /\ UNCHANGED <<pc, tensor, used>>

\* The block's quantizer, run on every rank.
Quantize(r) ==
    \E ok \in BOOLEAN :
        /\ CollectiveBuildCall(r, "quantize", ok)
        /\ tensor' = IF ok THEN SetHere(r, [Here(r) EXCEPT !.quantized = TRUE]) ELSE tensor
        /\ UNCHANGED used

-----------------------------------------------------------------------------
(* What a rank does with the result of its collective *)

\* The result makes the rank raise; all that received it raise with it.
Raises(r) ==
    \/ pc[r] \in {"resolve", "keys", "read"} /\ Received(r) = "bad"
    \/ pc[r] \in {"compare", "strides", "reconcile", "materialize", "quantize"}
            /\ "bad" \in Contributions(r)

\* The component is skipped when every rank has it real.
Skips_Local(r) == pc[r] = "real" /\ LoadedReal(r)
Skips(r) == pc[r] = "real" /\ Contributions(r) = {"ok"}

AfterPhase(c, phase) ==
    IF Kind[c] = "denoiser"
    THEN [real |-> "resolve", resolve |-> "share", share |-> "layout", layout |-> "compare",
          compare |-> "keys", keys |-> "read", read |-> "specs", specs |-> "reconcile",
          reconcile |-> "data", data |-> "quantize", quantize |-> "layout"][phase]
    ELSE [real |-> "specs", specs |-> "reconcile", reconcile |-> "materialize",
          materialize |-> "layout", layout |-> "compare", compare |-> "strides",
          strides |-> "data", data |-> "finish"][phase]

\* The peers' bytes are the source's only in a tensor of the same spec.
Arrived(r) ==
    IF pc[r] # "data" \/ r = Source THEN Here(r)
    ELSE [Here(r) EXCEPT !.data = IF @ # "meta" /\ Here(r).spec = Received(r)
                                  THEN "weights" ELSE "corrupt"]

\* _retire_keys, on every rank.
Retired_ReaderOnly(r) == used[r]
Retired(r) == IF pc[r] = "data" /\ Kind[comp[r]] = "denoiser"
              THEN used[r] \union {unit[r]} ELSE used[r]

\* The loop over the wrapped blocks moves on when a block is quantized.
NextUnit(r) == IF pc[r] = "quantize" THEN unit[r] + 1 ELSE unit[r]

Return(r) ==
    /\ called[r] /\ Returned(r)
    /\ called' = [called EXCEPT ![r] = FALSE]
    /\ IF Raises(r)
       THEN /\ pc' = [pc EXCEPT ![r] = "failed"]
            /\ UNCHANGED <<unit, tensor, used>>
       ELSE /\ pc' = [pc EXCEPT ![r] = IF Skips(r) THEN "finish"
                                       ELSE IF pc[r] = "data" /\ InTail(r) THEN "finalize"
                                       ELSE AfterPhase(comp[r], pc[r])]
            /\ unit' = [unit EXCEPT ![r] = NextUnit(r)]
            /\ tensor' = SetHere(r, Arrived(r))
            /\ used' = [used EXCEPT ![r] = Retired(r)]
    /\ UNCHANGED <<comp, calls, differs, strict, surplus>>

\* The end of finalize, without a collective: a strict checkpoint has no key
\* the fill never asked for, a question every rank answers for itself.
UnusedKeys(r) ==
    (Units(comp[r]) \union (IF comp[r] \in surplus THEN {Rest + 1} ELSE {})) \ used[r]
Finalize(r) ==
    /\ pc[r] = "finalize"
    /\ pc' = [pc EXCEPT ![r] = IF comp[r] \in strict /\ UnusedKeys(r) # {}
                               THEN "failed" ELSE "finish"]
    /\ UNCHANGED <<called, comp, unit, calls, tensor, used, differs, strict, surplus>>

\* The next component of the fill loop, or the end of it.
NextComponent(r) ==
    /\ pc[r] = "finish"
    /\ IF comp[r] = Len(Kind)
       THEN /\ pc' = [pc EXCEPT ![r] = "done"]
            /\ UNCHANGED <<comp, unit, used>>
       ELSE /\ pc' = [pc EXCEPT ![r] = "real"]
            /\ comp' = [comp EXCEPT ![r] = @ + 1]
            /\ unit' = [unit EXCEPT ![r] = 0]
            /\ used' = [used EXCEPT ![r] = {}]
    /\ UNCHANGED <<called, calls, tensor, differs, strict, surplus>>

-----------------------------------------------------------------------------
\* A runner that is not wired for this load has the component real on every
\* rank; otherwise a denoiser is meta everywhere and an encoder real on rank 0,
\* where from_pretrained may have given it other dtypes than the meta build.
Built(c, r, wired, spec) ==
    IF ~wired THEN [spec |-> "model", data |-> "weights", quantized |-> FALSE]
    ELSE IF Kind[c] = "encoder" /\ r = Source
    THEN [spec |-> spec, data |-> "weights", quantized |-> FALSE]
    ELSE [spec |-> "model", data |-> "meta", quantized |-> FALSE]

Init ==
    /\ pc = [r \in Ranks |-> "real"]
    /\ called = [r \in Ranks |-> FALSE]
    /\ comp = [r \in Ranks |-> 1]
    /\ unit = [r \in Ranks |-> 0]
    /\ calls = [r \in Ranks |-> <<>>]
    /\ used = [r \in Ranks |-> {}]
    /\ differs \in [Components -> SUBSET Peers]
    /\ strict \in SUBSET {c \in Components : Kind[c] = "denoiser"}
    /\ surplus \in SUBSET strict
    /\ \E wired \in [Components -> BOOLEAN], spec \in Specs :
            tensor = [r \in Ranks |-> [c \in Components |->
                        [u \in Units(c) |-> Built(c, r, wired[c], spec)]]]

Step(r) ==
    \/ AskReal(r) \/ ResolveMap(r) \/ ShareMap(r)
    \/ SendLayout(r) \/ CompareLayout(r) \/ RequireKeys(r) \/ Read(r)
    \/ SendSpecs(r) \/ Reconcile(r) \/ Materialize(r) \/ CheckStrides(r)
    \/ SendData(r) \/ Quantize(r)
    \/ Return(r) \/ Finalize(r) \/ NextComponent(r)

Ended(r)   == pc[r] \in {"done", "failed"}
Terminated == (\A r \in Ranks : Ended(r)) /\ UNCHANGED vars

Next == (\E r \in Ranks : Step(r)) \/ Terminated
Spec == Init /\ [][Next]_vars
FairSpec == Spec /\ \A r \in Ranks : WF_vars(Step(r))

-----------------------------------------------------------------------------
(* Properties *)

\* No two ranks meet in different collectives: whatever each found on its
\* own (a component already real, another layout, a failed read), all take
\* the same branch of the load.
CollectivesMatch ==
    \A r, s \in Ranks : \A k \in 1 .. Len(calls[r]) :
        k <= Len(calls[s]) => calls[r][k].op = calls[s][k].op

\* A rank never completes the load while another one has raised.
SameOutcome == ~ \E r, s \in Ranks : pc[r] = "done" /\ pc[s] = "failed"

\* Bytes never land in storage of another shape or dtype, only real weights
\* are quantized, and a loaded pipeline has rank 0's weights on every rank.
WeightsIntact ==
    \A r \in Ranks : \A c \in Components : \A u \in Units(c) :
        LET t == tensor[r][c][u] IN
        /\ t.data # "corrupt"
        /\ t.quantized => t.data = "weights"
        /\ pc[r] = "done" => t.data = "weights" /\ t.spec = tensor[Source][c][u].spec

\* Every rank ends, and all of them the same way: a failure on one rank
\* reaches the others instead of leaving them in a collective.
AllEnd == <>(\A r \in Ranks : pc[r] = "done") \/ <>(\A r \in Ranks : pc[r] = "failed")
=============================================================================
