----------------------------- MODULE ShardedLoad -----------------------------
(***************************************************************************)
(* Loading a pipeline for FSDP: building the components on meta, choosing  *)
(* a route for each text encoder (ModelLoader.te_blockwise_routes) and     *)
(* sharding them (shard_pipeline_components).  The route decides which     *)
(* collectives fill the component, so the ranks of a sharding group must   *)
(* choose alike.  The ranks of the world agree on the routes, the ranks of *)
(* a sharding group on whether a component is on meta; the collectives of  *)
(* the two never meet, because they use different communicators.           *)
(***************************************************************************)
EXTENDS Naturals, Sequences

CONSTANTS
    NumRanks,          \* world size
    ShardDegree,       \* ranks in a sharding group
    Kind,              \* the components in order: "denoiser" or "encoder"
    RankLocalFallback  \* may one rank alone find an encoder not rebuildable?

ASSUME RanksAssumption ==
    /\ NumRanks \in Nat /\ ShardDegree \in Nat /\ ShardDegree > 1
    /\ NumRanks % ShardDegree = 0
ASSUME KindAssumption     == Kind \in Seq({"denoiser", "encoder"}) /\ Kind # <<>>
ASSUME FallbackAssumption == RankLocalFallback \in BOOLEAN

Ranks      == 0 .. NumRanks - 1
Components == 1 .. Len(Kind)
Encoders   == {c \in Components : Kind[c] = "encoder"}
FsGroup(r) == {s \in Ranks : s \div ShardDegree = r \div ShardDegree}
Outcomes   == {"ok", "bad"}

VARIABLES
    pc,          \* the collective each rank makes next or is in
    called,      \* it has entered that collective
    comp,        \* the component of the loop the rank is in
    calls,       \* calls[r][g]: what r put into the collectives of communicator g
    route,       \* route[r][c]: how c will be filled; "none" if not rebuildable
    rebuildable  \* the encoders whose class and config the checkpoint gives

vars == <<pc, called, comp, calls, route, rebuildable>>

-----------------------------------------------------------------------------
(* Collectives: external (torch.distributed).  On each communicator the    *)
(* k-th call of a rank meets the k-th call of the others.                  *)

Communicator(phase) == IF phase \in {"build", "agree"} THEN "world" ELSE "fs"
Members(r, g)       == IF g = "world" THEN Ranks ELSE FsGroup(r)

Enter(r, phase, op, val) ==
    LET g == Communicator(phase) IN
    /\ pc[r] = phase /\ ~called[r]
    /\ called' = [called EXCEPT ![r] = TRUE]
    /\ calls' = [calls EXCEPT ![r][g] = Append(@, [op |-> op, val |-> val])]
    /\ UNCHANGED <<pc, comp, rebuildable>>

Met(r, s) ==
    LET g == Communicator(pc[r])
        k == Len(calls[r][g])
    IN  Len(calls[s][g]) >= k /\ calls[s][g][k].op = calls[r][g][k].op
Returned(r) == \A s \in Members(r, Communicator(pc[r])) : Met(r, s)
Contributions(r) ==
    LET g == Communicator(pc[r])
    IN  {calls[s][g][Len(calls[r][g])].val : s \in Members(r, g)}

-----------------------------------------------------------------------------
(* Building on meta: build_meta_transformer and te_blockwise_routes *)

\* What building c on r may come to.  A denoiser is built or raises; an
\* encoder that is not rebuildable gives None, which is no failure.
BuildOutcomes(c) ==
    IF c \notin Encoders THEN {"meta", "bad"}
    ELSE {"bad"} \union {IF c \in rebuildable THEN "meta" ELSE "none"}
                 \union (IF RankLocalFallback THEN {"none"} ELSE {})

\* _collective_build_call: the outcome of each rank goes to all of them.
\* An operator whose name ends in _Something is a mutant of the next one.
BuildStatus_RaisesAlone(r, outcome) ==
    IF outcome # "bad" THEN Enter(r, "build", "all_gather", "ok")
    ELSE /\ pc[r] = "build" /\ ~called[r]
         /\ pc' = [pc EXCEPT ![r] = "failed"]
         /\ UNCHANGED <<called, comp, calls, rebuildable>>
BuildStatus(r, outcome) ==
    Enter(r, "build", "all_gather", IF outcome = "bad" THEN "bad" ELSE "ok")

Build(r) ==
    \E outcome \in BuildOutcomes(comp[r]) :
        /\ BuildStatus(r, outcome)
        /\ route' = [route EXCEPT ![r][comp[r]] =
                        IF outcome = "none" THEN "none" ELSE "disk"]

\* resolve_transformers_manifest, whose refusal _agreed_refusal sums up.
Agree(r) ==
    \E refused \in BOOLEAN :
        /\ Enter(r, "agree", "all_reduce", IF refused THEN "bad" ELSE "ok")
        /\ UNCHANGED route

AgreedRefusal_Local(r) == calls[r]["world"][Len(calls[r]["world"])].val = "bad"
AgreedRefusal(r) == "bad" \in Contributions(r)

\* The routes are asked for one encoder after the other.  One that is not
\* rebuildable gets no agreement: the loop continues with the next.
NeedsAgreement(r) ==
    pc[r] = "build" /\ comp[r] \in Encoders /\ route[r][comp[r]] # "none"
AfterRoute(r) ==
    IF comp[r] = Len(Kind)
    THEN /\ pc' = [pc EXCEPT ![r] = "meta"]
         /\ comp' = [comp EXCEPT ![r] = 1]
    ELSE /\ pc' = [pc EXCEPT ![r] = "build"]
         /\ comp' = [comp EXCEPT ![r] = @ + 1]

-----------------------------------------------------------------------------
(* Sharding: shard_pipeline_components *)

\* meta_te_kwargs: one encoder that cannot be built on meta makes this rank
\* load all of its encoders for real.
LoadsReal(r)   == \E c \in Encoders : route[r][c] = "none"
BuiltMeta(r,c) == c \notin Encoders \/ ~LoadsReal(r)

\* agreed_is_meta
AskMeta(r) ==
    /\ Enter(r, "meta", "all_reduce", IF BuiltMeta(r, comp[r]) THEN "ok" ELSE "bad")
    /\ UNCHANGED route

\* The collectives that fill or quantize the component, as one: the disk fill
\* of every block, the broadcast of rank 0's copy, or the quantizer alone.
\* Each branch agrees on the failure of any rank.
Branch(r) == IF BuiltMeta(r, comp[r]) THEN route[r][comp[r]] ELSE "quantize"
Fill(r) ==
    \E ok \in BOOLEAN :
        /\ Enter(r, "fill", Branch(r), IF ok THEN "ok" ELSE "bad")
        /\ UNCHANGED route

-----------------------------------------------------------------------------
Raises_OwnFill(r) ==
    \/ pc[r] = "build" /\ "bad" \in Contributions(r)
    \/ pc[r] = "meta" /\ Contributions(r) = Outcomes
    \/ pc[r] = "fill" /\ calls[r]["fs"][Len(calls[r]["fs"])].val = "bad"
Raises(r) ==
    \/ pc[r] \in {"build", "fill"} /\ "bad" \in Contributions(r)
    \/ pc[r] = "meta" /\ Contributions(r) = Outcomes

Return(r) ==
    /\ called[r] /\ Returned(r)
    /\ called' = [called EXCEPT ![r] = FALSE]
    /\ UNCHANGED <<calls, rebuildable>>
    /\ \/ /\ Raises(r)
          /\ pc' = [pc EXCEPT ![r] = "failed"]
          /\ UNCHANGED <<comp, route>>
       \/ /\ ~Raises(r) /\ NeedsAgreement(r)
          /\ pc' = [pc EXCEPT ![r] = "agree"]
          /\ UNCHANGED <<comp, route>>
       \/ /\ ~Raises(r) /\ ~NeedsAgreement(r) /\ pc[r] \in {"build", "agree"}
          /\ AfterRoute(r)
          /\ route' = IF pc[r] = "agree" /\ AgreedRefusal(r)
                      THEN [route EXCEPT ![r][comp[r]] = "broadcast"] ELSE route
       \/ /\ ~Raises(r) /\ pc[r] = "meta"
          /\ pc' = [pc EXCEPT ![r] = "fill"]
          /\ UNCHANGED <<comp, route>>
       \/ /\ ~Raises(r) /\ pc[r] = "fill"
          /\ IF comp[r] = Len(Kind)
             THEN pc' = [pc EXCEPT ![r] = "done"] /\ UNCHANGED comp
             ELSE /\ pc' = [pc EXCEPT ![r] = "meta"]
                  /\ comp' = [comp EXCEPT ![r] = @ + 1]
          /\ UNCHANGED route

Init ==
    /\ pc = [r \in Ranks |-> "build"]
    /\ called = [r \in Ranks |-> FALSE]
    /\ comp = [r \in Ranks |-> 1]
    /\ calls = [r \in Ranks |-> [g \in {"world", "fs"} |-> <<>>]]
    /\ route = [r \in Ranks |-> [c \in Components |-> "unset"]]
    /\ rebuildable \in SUBSET Encoders

Step(r)    == Build(r) \/ Agree(r) \/ AskMeta(r) \/ Fill(r) \/ Return(r)
Ended(r)   == pc[r] \in {"done", "failed"}
Terminated == (\A r \in Ranks : Ended(r)) /\ UNCHANGED vars

Next     == (\E r \in Ranks : Step(r)) \/ Terminated
Spec     == Init /\ [][Next]_vars
FairSpec == Spec /\ \A r \in Ranks : WF_vars(Step(r))

-----------------------------------------------------------------------------
(* Properties *)

\* On every communicator the members make the same collectives in the same
\* order: a sharding group never fills one component by different routes.
CollectivesMatch ==
    \A r \in Ranks : \A g \in {"world", "fs"} : \A s \in Members(r, g) :
        \A k \in 1 .. Len(calls[r][g]) :
            k <= Len(calls[s][g]) => calls[r][g][k].op = calls[s][g][k].op

\* No rank of a sharding group completes the load while another of it raised.
SameOutcome ==
    ~ \E r \in Ranks : \E s \in FsGroup(r) : pc[r] = "done" /\ pc[s] = "failed"

\* Every rank ends: a rank that fails or falls back alone is met by an error
\* on its peers, not by peers that wait for it.
AllEnd == <>(\A r \in Ranks : Ended(r))
=============================================================================
