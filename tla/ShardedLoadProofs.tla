-------------------------- MODULE ShardedLoadProofs --------------------------
(***************************************************************************)
(* The ranks that load a pipeline for FSDP stay in lockstep, for every     *)
(* number of ranks, sharding degree and list of components, as long as no  *)
(* rank alone finds an encoder not rebuildable.                            *)
(*                                                                         *)
(* The argument is about pairs.  Of two ranks that share a communicator    *)
(* neither has completed two collectives more than the other.  With        *)
(* equally many they are at the same place and know the same routes; if    *)
(* one is ahead, it is where the other's pending return leads.  A step of  *)
(* one rank keeps that because what a return depends on, the values put    *)
(* into a collective everyone has entered, never changes again.            *)
(***************************************************************************)
EXTENDS ShardedLoad, Integers, TLAPS

World == {"build", "agree"}
Phases(g) == IF g = "world" THEN World ELSE {"meta", "fill"}
Groups == {"world", "fs"}
Ops == {"all_gather", "all_reduce", "unset", "none", "disk", "broadcast", "quantize"}
Calls == [op : Ops, val : Outcomes]

TypeOK ==
    /\ pc \in [Ranks -> {"build", "agree", "meta", "fill", "done", "failed"}]
    /\ called \in [Ranks -> BOOLEAN]
    /\ comp \in [Ranks -> Components]
    /\ calls \in [Ranks -> [Groups -> Seq(Calls)]]
    /\ route \in [Ranks -> [Components -> {"unset", "none", "disk", "broadcast"}]]
    /\ rebuildable \subseteq Encoders

-----------------------------------------------------------------------------
(* Where a rank stands on a communicator *)

InPhase(r, g) == pc[r] \in Phases(g)

\* The rank is through with the routes.
Past(r) == pc[r] \in {"meta", "fill", "done"} \/ (pc[r] = "failed" /\ calls[r]["fs"] # <<>>)

\* The collectives the rank has completed.
Done(r, g) == Len(calls[r][g]) - IF called[r] /\ InPhase(r, g) THEN 1 ELSE 0

StatusOf(phase, past, g) == IF g = "world" /\ past THEN "past" ELSE phase
PlaceOf(phase, c, g) == IF phase \in Phases(g) THEN c ELSE 0
KnownOf(phase, c, past) == {x \in Components : past \/ (phase \in World /\ x < c)}

Status(r, g) == StatusOf(pc[r], Past(r), g)
Place(r, g)  == PlaceOf(pc[r], comp[r], g)
Known(r)     == KnownOf(pc[r], comp[r], Past(r))

Alike(r, s, g) ==
    /\ Status(r, g) = Status(s, g) /\ Place(r, g) = Place(s, g)
    /\ \A c \in Known(r) \intersect Known(s) : route[r][c] = route[s][c]

\* Where the return of a pending collective leads.
NextPc(r) ==
    IF Raises(r) THEN "failed"
    ELSE IF NeedsAgreement(r) THEN "agree"
    ELSE IF pc[r] \in World THEN (IF comp[r] = Len(Kind) THEN "meta" ELSE "build")
    ELSE IF pc[r] = "meta" THEN "fill"
    ELSE (IF comp[r] = Len(Kind) THEN "done" ELSE "meta")
NextComp(r) ==
    IF Raises(r) \/ NeedsAgreement(r) \/ pc[r] = "meta" THEN comp[r]
    ELSE IF pc[r] \in World THEN (IF comp[r] = Len(Kind) THEN 1 ELSE comp[r] + 1)
    ELSE (IF comp[r] = Len(Kind) THEN comp[r] ELSE comp[r] + 1)
NextRoute(r, c) ==
    IF ~Raises(r) /\ pc[r] = "agree" /\ c = comp[r] /\ AgreedRefusal(r) THEN "broadcast"
    ELSE route[r][c]
NextPast(r)      == Past(r) \/ NextPc(r) = "meta"
NextStatus(r, g) == StatusOf(NextPc(r), NextPast(r), g)
NextPlace(r, g)  == PlaceOf(NextPc(r), NextComp(r), g)
NextKnown(r)     == KnownOf(NextPc(r), NextComp(r), NextPast(r))

\* r is where the pending return of s leads.
Ahead(r, s, g) ==
    /\ called[s] /\ InPhase(s, g)
    /\ \A t \in Members(r, g) : Len(calls[t][g]) >= Done(r, g)
    /\ Status(r, g) = NextStatus(s, g) /\ Place(r, g) = NextPlace(s, g)
    /\ \A c \in Known(r) \intersect NextKnown(s) : route[r][c] = NextRoute(s, c)

Lockstep(r, s, g) ==
    /\ Done(r, g) <= Done(s, g) + 1
    /\ Done(r, g) = Done(s, g) => Alike(r, s, g)
    /\ Done(r, g) = Done(s, g) + 1 => Ahead(r, s, g)

\* Every rank uses the communicator of the world, those that are through with
\* the routes that of their sharding group.
Joined(r, g) == g = "world" \/ Past(r)
Paired(r, s, g) ==
    IF Joined(r, g) /\ Joined(s, g) THEN Lockstep(r, s, g) ELSE Done(r, g) = 0

-----------------------------------------------------------------------------
(* What a rank is sure of alone *)

Op(r) == IF pc[r] = "build" THEN "all_gather"
         ELSE IF pc[r] = "fill" THEN Branch(r) ELSE "all_reduce"
Chosen(c) == IF c \in Encoders \ rebuildable THEN "none" ELSE "disk"
Last(r, g) == calls[r][g][Len(calls[r][g])]

Local(r) ==
    /\ called[r] => /\ pc[r] \in {"build", "agree", "meta", "fill"}
                    /\ calls[r][Communicator(pc[r])] # <<>>
                    /\ Last(r, Communicator(pc[r])).op = Op(r)
    /\ pc[r] = "build" /\ called[r] /\ Last(r, "world").val # "bad" =>
            route[r][comp[r]] = Chosen(comp[r])
    /\ pc[r] = "agree" => /\ route[r][comp[r]] = Chosen(comp[r])
                          /\ comp[r] \in Encoders \intersect rebuildable
    /\ pc[r] \in World => calls[r]["fs"] = <<>>
    /\ pc[r] = "fill" => calls[r]["fs"] # <<>>
    /\ Past(r) /\ Done(r, "fs") = 0 => pc[r] = "meta" /\ comp[r] = 1

IInv ==
    /\ TypeOK /\ CollectivesMatch /\ ~RankLocalFallback
    /\ \A r \in Ranks : Local(r)
    /\ \A g \in Groups : \A r \in Ranks : \A s \in Members(r, g) : Paired(r, s, g)

-----------------------------------------------------------------------------
\* There is a component.
LEMMA Sizes ==
    /\ Len(Kind) \in Nat \ {0} /\ 1 \in Components /\ Components \subseteq Nat
    /\ Encoders \subseteq Components
BY KindAssumption DEF Components, Encoders

\* The members of a communicator are the same for each of them.
LEMMA SameMembers ==
    ASSUME NEW g \in Groups, NEW r \in Ranks, NEW s \in Members(r, g)
    PROVE  s \in Ranks /\ r \in Members(r, g) /\ Members(s, g) = Members(r, g)
BY DEF Members, FsGroup

\* The communicator of a phase is the one whose phases it is in.
LEMMA PhaseGroup ==
    ASSUME NEW q \in {"build", "agree", "meta", "fill"}
    PROVE  /\ Communicator(q) \in Groups
           /\ \A g \in Groups : q \in Phases(g) <=> g = Communicator(q)
BY DEF Communicator, Groups, Phases, World

-----------------------------------------------------------------------------
\* Rank p enters the collective op of communicator g with a value.
Enters(p, g, val) ==
    /\ pc[p] \in Phases(g) /\ ~called[p] /\ val \in Outcomes
    /\ called' = [called EXCEPT ![p] = TRUE]
    /\ calls' = [calls EXCEPT ![p][g] = Append(@, [op |-> Op(p), val |-> val])]
    /\ pc' = pc /\ comp' = comp /\ rebuildable' = rebuildable
    /\ route' \in [Ranks -> [Components -> {"unset", "none", "disk", "broadcast"}]]
    /\ \A r \in Ranks, c \in Components :
            r # p \/ pc[p] # "build" \/ c # comp[p] => route'[r][c] = route[r][c]
    /\ pc[p] = "build" /\ val # "bad" => route'[p][comp[p]] = Chosen(comp[p])

\* Every step of a rank that is not a return is such an entry.
LEMMA EnterMoves ==
    ASSUME IInv, NEW p \in Ranks, Build(p) \/ Agree(p) \/ AskMeta(p) \/ Fill(p)
    PROVE  \E g \in Groups, val \in Outcomes : Enters(p, g, val)
<1>1. TypeOK /\ comp[p] \in Components /\ ~RankLocalFallback
    BY DEF IInv, TypeOK
<1>2. ASSUME Build(p)
      PROVE  \E val \in Outcomes : Enters(p, "world", val)
    <2>1. PICK outcome \in BuildOutcomes(comp[p]) :
              /\ Enter(p, "build", "all_gather", IF outcome = "bad" THEN "bad" ELSE "ok")
              /\ route' = [route EXCEPT ![p][comp[p]] =
                               IF outcome = "none" THEN "none" ELSE "disk"]
        BY <1>2 DEF Build, BuildStatus
    <2> DEFINE val == IF outcome = "bad" THEN "bad" ELSE "ok"
               new == IF outcome = "none" THEN "none" ELSE "disk"
    <2>2. val \in Outcomes /\ (val # "bad" => new = Chosen(comp[p]))
        BY <1>1, <2>1 DEF BuildOutcomes, Chosen, Outcomes
    <2>3. new \in {"none", "disk"} /\ route' = [route EXCEPT ![p][comp[p]] = new]
        BY <2>1
    <2>4. /\ pc[p] = "build" /\ ~called[p] /\ called' = [called EXCEPT ![p] = TRUE]
          /\ calls' = [calls EXCEPT ![p]["world"] = Append(@, [op |-> "all_gather", val |-> val])]
          /\ pc' = pc /\ comp' = comp /\ rebuildable' = rebuildable
        BY <2>1 DEF Enter, Communicator
    <2> HIDE DEF val, new
    <2>5. /\ route' \in [Ranks -> [Components -> {"unset", "none", "disk", "broadcast"}]]
          /\ \A r \in Ranks, c \in Components : r # p \/ c # comp[p] => route'[r][c] = route[r][c]
          /\ route'[p][comp[p]] = new
        BY <1>1, <2>3 DEF TypeOK
    <2> QED BY <2>2, <2>4, <2>5 DEF Enters, Op, Phases, World
<1>3. ASSUME Agree(p)
      PROVE  \E val \in Outcomes : Enters(p, "world", val)
    <2>1. PICK refused \in BOOLEAN :
              Enter(p, "agree", "all_reduce", IF refused THEN "bad" ELSE "ok") /\ UNCHANGED route
        BY <1>3 DEF Agree
    <2> DEFINE val == IF refused THEN "bad" ELSE "ok"
    <2>2. val \in Outcomes
        BY DEF Outcomes
    <2>3. /\ pc[p] = "agree" /\ ~called[p] /\ called' = [called EXCEPT ![p] = TRUE]
          /\ calls' = [calls EXCEPT ![p]["world"] = Append(@, [op |-> "all_reduce", val |-> val])]
          /\ pc' = pc /\ comp' = comp /\ rebuildable' = rebuildable /\ route' = route
        BY <2>1 DEF Enter, Communicator
    <2> HIDE DEF val
    <2> QED BY <1>1, <2>2, <2>3 DEF Enters, Op, Phases, World, TypeOK
<1>4. ASSUME AskMeta(p)
      PROVE  \E val \in Outcomes : Enters(p, "fs", val)
    <2> DEFINE val == IF BuiltMeta(p, comp[p]) THEN "ok" ELSE "bad"
    <2>1. val \in Outcomes
        BY DEF Outcomes
    <2>2. /\ pc[p] = "meta" /\ ~called[p] /\ called' = [called EXCEPT ![p] = TRUE]
          /\ calls' = [calls EXCEPT ![p]["fs"] = Append(@, [op |-> "all_reduce", val |-> val])]
          /\ pc' = pc /\ comp' = comp /\ rebuildable' = rebuildable /\ route' = route
        BY <1>4 DEF AskMeta, Enter, Communicator
    <2> HIDE DEF val
    <2> QED BY <1>1, <2>1, <2>2 DEF Enters, Op, Phases, TypeOK
<1>5. ASSUME Fill(p)
      PROVE  \E val \in Outcomes : Enters(p, "fs", val)
    <2>1. PICK ok \in BOOLEAN :
              Enter(p, "fill", Branch(p), IF ok THEN "ok" ELSE "bad") /\ UNCHANGED route
        BY <1>5 DEF Fill
    <2> DEFINE val == IF ok THEN "ok" ELSE "bad"
    <2>2. val \in Outcomes
        BY DEF Outcomes
    <2>3. /\ pc[p] = "fill" /\ ~called[p] /\ called' = [called EXCEPT ![p] = TRUE]
          /\ calls' = [calls EXCEPT ![p]["fs"] = Append(@, [op |-> Branch(p), val |-> val])]
          /\ pc' = pc /\ comp' = comp /\ rebuildable' = rebuildable /\ route' = route
        BY <2>1 DEF Enter, Communicator
    <2> HIDE DEF val
    <2> QED BY <1>1, <2>2, <2>3 DEF Enters, Op, Phases, TypeOK
<1> QED BY <1>2, <1>3, <1>4, <1>5 DEF Groups

\* An entry only lengthens the rank's own history on that communicator.
LEMMA EntryGrows ==
    ASSUME IInv, NEW p \in Ranks, NEW g \in Groups, NEW val \in Outcomes, Enters(p, g, val)
    PROVE  /\ calls' \in [Ranks -> [Groups -> Seq(Calls)]]
           /\ Len(calls'[p][g]) = Len(calls[p][g]) + 1
           /\ calls'[p][g][Len(calls[p][g]) + 1] = [op |-> Op(p), val |-> val]
           /\ \A k \in 1 .. Len(calls[p][g]) : calls'[p][g][k] = calls[p][g][k]
           /\ \A r \in Ranks, h \in Groups : r # p \/ h # g => calls'[r][h] = calls[r][h]
           /\ \A r \in Ranks, h \in Groups : Len(calls[r][h]) \in Nat /\ Len(calls'[r][h]) \in Nat
<1>1. TypeOK
    BY DEF IInv
<1>2. Op(p) \in Ops
    BY <1>1 DEF Op, Ops, Branch, TypeOK
<1> DEFINE e == [op |-> Op(p), val |-> val]
<1>3. e \in Calls
    BY <1>2 DEF Calls
<1>4. calls' = [calls EXCEPT ![p][g] = Append(@, e)] /\ calls \in [Ranks -> [Groups -> Seq(Calls)]]
    BY <1>1 DEF Enters, TypeOK
<1> HIDE DEF e
<1>5. Append(calls[p][g], e) \in Seq(Calls) /\ calls[p][g] \in Seq(Calls)
    BY <1>3, <1>4
<1>6. /\ calls' \in [Ranks -> [Groups -> Seq(Calls)]] /\ calls'[p][g] = Append(calls[p][g], e)
      /\ \A r \in Ranks, h \in Groups : r # p \/ h # g => calls'[r][h] = calls[r][h]
    BY <1>4, <1>5
<1>7. /\ Len(calls'[p][g]) = Len(calls[p][g]) + 1
      /\ calls'[p][g][Len(calls[p][g]) + 1] = e
      /\ \A k \in 1 .. Len(calls[p][g]) : calls'[p][g][k] = calls[p][g][k]
    BY <1>5, <1>6
<1>8. \A r \in Ranks, h \in Groups : Len(calls[r][h]) \in Nat /\ Len(calls'[r][h]) \in Nat
    BY <1>4, <1>6
<1> QED BY <1>6, <1>7, <1>8 DEF e

\* A return completes the pending collective and moves the rank to its next
\* place; everyone has entered that collective.
Returns(p, g) ==
    /\ pc[p] \in Phases(g) /\ called[p]
    /\ called' = [called EXCEPT ![p] = FALSE]
    /\ pc' = [pc EXCEPT ![p] = NextPc(p)] /\ comp' = [comp EXCEPT ![p] = NextComp(p)]
    /\ calls' = calls /\ rebuildable' = rebuildable
    /\ route' \in [Ranks -> [Components -> {"unset", "none", "disk", "broadcast"}]]
    /\ \A r \in Ranks, c \in Components :
            route'[r][c] = IF r = p THEN NextRoute(p, c) ELSE route[r][c]
    /\ \A s \in Members(p, g) : Len(calls[s][g]) >= Len(calls[p][g])

LEMMA ReturnMoves ==
    ASSUME IInv, NEW p \in Ranks, Return(p)
    PROVE  \E g \in Groups : Returns(p, g)
<1> DEFINE g == Communicator(pc[p])
<1>1. TypeOK /\ Local(p) /\ called[p] /\ comp[p] \in Components
    BY DEF IInv, Return, TypeOK
<1>2. pc[p] \in {"build", "agree", "meta", "fill"}
    BY <1>1 DEF Local
<1>3. g \in Groups /\ pc[p] \in Phases(g)
    BY <1>2, PhaseGroup
<1>4. \A s \in Members(p, g) : Len(calls[s][g]) >= Len(calls[p][g])
    BY DEF Return, Returned, Met
<1>5. called' = [called EXCEPT ![p] = FALSE] /\ calls' = calls /\ rebuildable' = rebuildable
    BY DEF Return
<1>6. /\ pc' = [pc EXCEPT ![p] = NextPc(p)] /\ comp' = [comp EXCEPT ![p] = NextComp(p)]
      /\ IF ~Raises(p) /\ pc[p] = "agree" /\ AgreedRefusal(p)
         THEN route' = [route EXCEPT ![p][comp[p]] = "broadcast"] ELSE route' = route
    <2>1. NeedsAgreement(p) => pc[p] = "build"
        BY DEF NeedsAgreement
    <2>2. comp' = comp => comp' = [comp EXCEPT ![p] = comp[p]]
        BY <1>1 DEF TypeOK
    <2>3. CASE Raises(p)
        <3>1. pc' = [pc EXCEPT ![p] = "failed"] /\ comp' = comp /\ route' = route
            BY <2>3 DEF Return
        <3> QED BY <2>2, <2>3, <3>1 DEF NextPc, NextComp
    <2>4. CASE ~Raises(p) /\ NeedsAgreement(p)
        <3>1. pc' = [pc EXCEPT ![p] = "agree"] /\ comp' = comp /\ route' = route
            BY <2>1, <2>4 DEF Return
        <3> QED BY <2>1, <2>2, <2>4, <3>1 DEF NextPc, NextComp
    <2>5. CASE ~Raises(p) /\ ~NeedsAgreement(p) /\ pc[p] \in World
        <3>1. AfterRoute(p) /\ route' = IF pc[p] = "agree" /\ AgreedRefusal(p)
                                        THEN [route EXCEPT ![p][comp[p]] = "broadcast"] ELSE route
            BY <2>5 DEF Return, World
        <3>2. pc' = [pc EXCEPT ![p] = NextPc(p)] /\ comp' = [comp EXCEPT ![p] = NextComp(p)]
            BY <2>5, <3>1 DEF AfterRoute, NextPc, NextComp, World
        <3> QED BY <2>5, <3>1, <3>2
    <2>6. CASE ~Raises(p) /\ pc[p] = "meta"
        <3>1. pc' = [pc EXCEPT ![p] = "fill"] /\ comp' = comp /\ route' = route
            BY <2>1, <2>6 DEF Return
        <3> QED BY <2>1, <2>2, <2>6, <3>1 DEF NextPc, NextComp, World
    <2>7. CASE ~Raises(p) /\ pc[p] = "fill"
        <3>1. /\ IF comp[p] = Len(Kind)
                 THEN pc' = [pc EXCEPT ![p] = "done"] /\ UNCHANGED comp
                 ELSE /\ pc' = [pc EXCEPT ![p] = "meta"]
                      /\ comp' = [comp EXCEPT ![p] = @ + 1]
              /\ route' = route
            BY <2>1, <2>7 DEF Return
        <3> QED BY <2>1, <2>2, <2>7, <3>1 DEF NextPc, NextComp, World
    <2> QED BY <1>2, <2>3, <2>4, <2>5, <2>6, <2>7 DEF World
<1>7. /\ route' \in [Ranks -> [Components -> {"unset", "none", "disk", "broadcast"}]]
      /\ \A r \in Ranks, c \in Components :
            route'[r][c] = IF r = p THEN NextRoute(p, c) ELSE route[r][c]
    <2>1. CASE ~Raises(p) /\ pc[p] = "agree" /\ AgreedRefusal(p)
        <3>1. route' = [route EXCEPT ![p][comp[p]] = "broadcast"]
            BY <1>6, <2>1
        <3> QED BY <1>1, <2>1, <3>1 DEF TypeOK, NextRoute
    <2>2. CASE ~(~Raises(p) /\ pc[p] = "agree" /\ AgreedRefusal(p))
        <3>1. route' = route
            BY <1>6, <2>2
        <3> QED BY <1>1, <2>2, <3>1 DEF TypeOK, NextRoute
    <2> QED BY <2>1, <2>2
<1> QED BY <1>1, <1>3, <1>4, <1>5, <1>6, <1>7 DEF Returns

-----------------------------------------------------------------------------
\* What the members put into the k-th collective of a communicator.
Put(r, g, k) == {calls[s][g][k].val : s \in Members(r, g)}

\* What a return depends on: the rank's place, what it knows, and the values.
LEMMA ReturnDependsOn ==
    ASSUME NEW r \in Ranks, NEW g \in Groups, pc[r] \in Phases(g)
    PROVE  /\ Contributions(r) = Put(r, g, Len(calls[r][g]))
           /\ Raises(r) <=> \/ pc[r] \in {"build", "fill"} /\ "bad" \in Put(r, g, Len(calls[r][g]))
                            \/ pc[r] = "meta" /\ Put(r, g, Len(calls[r][g])) = Outcomes
           /\ AgreedRefusal(r) <=> "bad" \in Put(r, g, Len(calls[r][g]))
<1>1. Communicator(pc[r]) = g
    BY DEF Communicator, Groups, Phases, World
<1> QED BY <1>1 DEF Contributions, Put, Raises, AgreedRefusal

\* Two ranks that have entered the same collective at the same place will
\* return to the same place.
LEMMA SameNext ==
    ASSUME IInv, NEW g \in Groups, NEW r \in Ranks, NEW s \in Members(r, g),
           pc[r] \in Phases(g), pc[s] \in Phases(g), called[r], called[s],
           Len(calls[r][g]) = Len(calls[s][g]), Alike(r, s, g)
    PROVE  /\ NextStatus(r, g) = NextStatus(s, g) /\ NextPlace(r, g) = NextPlace(s, g)
           /\ \A c \in NextKnown(r) \intersect NextKnown(s) : NextRoute(r, c) = NextRoute(s, c)
<1>1. s \in Ranks /\ r \in Members(r, g) /\ s \in Members(s, g) /\ Members(s, g) = Members(r, g)
    BY SameMembers DEF Members, FsGroup
<1>2. TypeOK /\ Local(r) /\ Local(s)
    BY <1>1 DEF IInv
<1>3. Past(r) <=> g = "fs"
    BY DEF Past, Phases, World, Groups
<1>4. Past(s) <=> g = "fs"
    BY DEF Past, Phases, World, Groups
<1>5. pc[r] = pc[s] /\ comp[r] = comp[s]
    BY <1>3, <1>4 DEF Alike, Status, StatusOf, Place, PlaceOf, Groups
<1>6. \A k : Put(r, g, k) = Put(s, g, k)
    BY <1>1 DEF Put
<1>7. Raises(r) = Raises(s) /\ AgreedRefusal(r) = AgreedRefusal(s)
    <2>1. (Raises(r) <=> Raises(s)) /\ (AgreedRefusal(r) <=> AgreedRefusal(s))
        BY <1>1, <1>5, <1>6, ReturnDependsOn
    <2> QED BY <2>1 DEF Raises, AgreedRefusal
<1>8. ~Raises(r) /\ pc[r] \in World => /\ route[r][comp[r]] = Chosen(comp[r])
                                       /\ route[s][comp[s]] = Chosen(comp[s])
    <2> SUFFICES ASSUME ~Raises(r), pc[r] \in World
                 PROVE  /\ route[r][comp[r]] = Chosen(comp[r])
                        /\ route[s][comp[s]] = Chosen(comp[s])
        OBVIOUS
    <2>1. CASE pc[r] = "agree"
        BY <1>2, <1>5, <2>1 DEF Local
    <2>2. CASE pc[r] = "build"
        <3>1. g = "world"
            BY <2>2 DEF Phases, World, Groups
        <3>2. "bad" \notin Put(r, g, Len(calls[r][g]))
            BY <2>2, ReturnDependsOn
        <3>3. Last(r, "world").val # "bad" /\ Last(s, "world").val # "bad"
            BY <1>1, <3>1, <3>2 DEF Put, Last
        <3> QED BY <1>2, <1>5, <2>2, <3>3 DEF Local
    <2> QED BY <2>1, <2>2 DEF World
<1>9. ~Raises(r) => (NeedsAgreement(r) <=> NeedsAgreement(s))
    BY <1>5, <1>8 DEF NeedsAgreement, World
<1>10. NextPc(r) = NextPc(s) /\ NextComp(r) = NextComp(s)
    BY <1>5, <1>7, <1>9 DEF NextPc, NextComp
<1>11. NextPast(r) = NextPast(s)
    BY <1>3, <1>4, <1>10 DEF NextPast
<1>12. ASSUME NEW c \in NextKnown(r) PROVE NextRoute(r, c) = NextRoute(s, c)
    <2>1. c \in Components /\ comp[r] \in Components /\ comp[r] \in Nat /\ c \in Nat
        BY <1>2, Sizes DEF NextKnown, KnownOf, TypeOK
    <2>2. CASE g = "fs"
        <3>1. c \in Known(r) \intersect Known(s)
            BY <1>3, <1>4, <2>1, <2>2 DEF Known, KnownOf
        <3>2. pc[r] # "agree"
            BY <2>2 DEF Phases
        <3> QED BY <1>5, <3>1, <3>2 DEF NextRoute, Alike
    <2>3. CASE g = "world"
        <3>1. pc[r] \in World /\ ~Past(r)
            BY <1>3, <2>3 DEF Phases
        <3>2. ~Raises(r)
            BY <2>1, <3>1 DEF NextKnown, KnownOf, NextPast, NextPc, World
        <3>3. c <= comp[r]
            BY <2>1, <3>1, <3>2 DEF NextKnown, KnownOf, NextPast, NextPc, NextComp, World, Components
        <3>4. CASE c = comp[r]
            BY <1>5, <1>7, <1>8, <3>1, <3>2, <3>4 DEF NextRoute
        <3>5. CASE c # comp[r]
            <4>1. c < comp[r]
                BY <2>1, <3>3, <3>5
            <4>2. c \in Known(r) \intersect Known(s)
                BY <1>5, <2>1, <3>1, <4>1 DEF Known, KnownOf
            <4> QED BY <1>5, <3>5, <4>2 DEF NextRoute, Alike
        <3> QED BY <3>4, <3>5
    <2> QED BY <2>2, <2>3 DEF Groups
<1> QED BY <1>10, <1>11, <1>12 DEF NextStatus, NextPlace

-----------------------------------------------------------------------------
\* Where a pending return leads is not changed by a step of another rank that
\* leaves the collective's values alone.
LEMMA NextKept ==
    ASSUME NEW s \in Ranks, NEW g \in Groups, pc[s] \in Phases(g),
           pc'[s] = pc[s], comp'[s] = comp[s], rebuildable' = rebuildable,
           calls'[s] = calls[s],
           \A c \in Components : route'[s][c] = route[s][c], comp[s] \in Components,
           \A t \in Members(s, g) :
               calls'[t][g][Len(calls[s][g])] = calls[t][g][Len(calls[s][g])]
    PROVE  /\ NextStatus(s, g)' = NextStatus(s, g) /\ NextPlace(s, g)' = NextPlace(s, g)
           /\ NextKnown(s)' = NextKnown(s)
           /\ \A c \in Components : NextRoute(s, c)' = NextRoute(s, c)
<1>1. Communicator(pc[s]) = g
    BY DEF Communicator, Groups, Phases, World
<1>2. Contributions(s)' = Contributions(s)
    <2>1. {calls'[t][g][Len(calls[s][g])].val : t \in Members(s, g)}
              = {calls[t][g][Len(calls[s][g])].val : t \in Members(s, g)}
        OBVIOUS
    <2> QED BY <1>1, <2>1 DEF Contributions, Members, FsGroup
<1>3. (Raises(s)' <=> Raises(s)) /\ (AgreedRefusal(s)' <=> AgreedRefusal(s))
    BY <1>2 DEF Raises, AgreedRefusal
<1>4. NeedsAgreement(s)' <=> NeedsAgreement(s)
    BY DEF NeedsAgreement, Encoders
<1>5. NextPc(s)' = NextPc(s) /\ NextComp(s)' = NextComp(s)
    BY <1>3, <1>4 DEF NextPc, NextComp
<1>6. Past(s)' <=> Past(s)
    BY DEF Past
<1>7. NextPast(s)' <=> NextPast(s)
    BY <1>5, <1>6 DEF NextPast
<1>8. \A c \in Components : NextRoute(s, c)' = NextRoute(s, c)
    BY <1>3 DEF NextRoute
<1>9. NextStatus(s, g)' = NextStatus(s, g) /\ NextPlace(s, g)' = NextPlace(s, g)
    BY <1>5, <1>7 DEF NextStatus, NextPlace, StatusOf, PlaceOf
<1>10. NextKnown(s)' = NextKnown(s)
    BY <1>5, <1>7 DEF NextKnown, KnownOf
<1> QED BY <1>8, <1>9, <1>10

\* An entry leaves every rank where it stands, on every communicator.
LEMMA EntryStands ==
    ASSUME IInv, NEW p \in Ranks, NEW g \in Groups, NEW val \in Outcomes, Enters(p, g, val),
           NEW r \in Ranks
    PROVE  /\ (Past(r)' <=> Past(r)) /\ Known(r)' = Known(r)
           /\ \A h \in Groups : /\ Done(r, h)' = Done(r, h) /\ Status(r, h)' = Status(r, h)
                                /\ Place(r, h)' = Place(r, h) /\ (Joined(r, h)' <=> Joined(r, h))
           /\ \A c \in Known(r) : route'[r][c] = route[r][c]
<1>1. TypeOK
    BY DEF IInv
<1>2. pc[p] \in Phases(g) /\ ~called[p] /\ called'[p] /\ pc' = pc /\ comp' = comp
      /\ (r # p => called'[r] = called[r])
    BY <1>1 DEF Enters, TypeOK
<1>3. Past(r)' <=> Past(r)
    <2>1. CASE r = p
        BY <1>2, <2>1 DEF Past, Phases, World, Groups
    <2>2. CASE r # p
        BY ZenonT(40), <1>2, <2>2, EntryGrows DEF Past, Groups
    <2> QED BY <2>1, <2>2
<1>4. Known(r)' = Known(r)
    BY <1>2, <1>3 DEF Known, KnownOf
<1>5. ASSUME NEW h \in Groups PROVE Done(r, h)' = Done(r, h)
    <2>1. CASE r = p /\ h = g
        <3>1. InPhase(r, h) /\ InPhase(r, h)'
            BY <1>2, <2>1 DEF InPhase, Phases
        <3>2. Len(calls'[r][h]) = Len(calls[r][h]) + 1 /\ Len(calls[r][h]) \in Nat
            BY <2>1, EntryGrows
        <3> QED BY <1>2, <2>1, <3>1, <3>2 DEF Done
    <2>2. CASE r = p /\ h # g
        <3>1. ~InPhase(r, h) /\ ~InPhase(r, h)'
            BY <1>2, <2>2 DEF InPhase, Phases, World, Groups
        <3>2. calls'[r][h] = calls[r][h]
            BY ZenonT(40), <2>2, EntryGrows
        <3> QED BY <3>1, <3>2 DEF Done
    <2>3. CASE r # p
        <3>1. calls'[r][h] = calls[r][h]
            BY <2>3, EntryGrows
        <3> QED BY <1>2, <2>3, <3>1 DEF Done, InPhase, Phases
    <2> QED BY <2>1, <2>2, <2>3
<1>6. \A h \in Groups : /\ Status(r, h)' = Status(r, h) /\ Place(r, h)' = Place(r, h)
                        /\ (Joined(r, h)' <=> Joined(r, h))
    BY <1>2, <1>3 DEF Status, StatusOf, Place, PlaceOf, Joined
<1>7. \A c \in Known(r) : route'[r][c] = route[r][c]
    <2> TAKE c \in Known(r)
    <2>1. c \in Components /\ comp[r] \in Nat /\ c \in Nat
        BY <1>1, Sizes DEF Known, KnownOf, TypeOK
    <2>2. r # p \/ pc[p] # "build" \/ c # comp[p]
        BY <1>2, <2>1 DEF Known, KnownOf, Past
    <2> QED BY <2>1, <2>2 DEF Enters
<1> QED BY <1>3, <1>4, <1>5, <1>6, <1>7

\* An entry keeps every pair in lockstep.
LEMMA EntryLockstep ==
    ASSUME IInv, NEW p \in Ranks, NEW g \in Groups, NEW val \in Outcomes, Enters(p, g, val),
           NEW h \in Groups, NEW r \in Ranks, NEW s \in Members(r, h)
    PROVE  Paired(r, s, h)'
<1>1. TypeOK /\ Paired(r, s, h) /\ s \in Ranks
    BY SameMembers DEF IInv
<1>2. /\ (Joined(r, h)' <=> Joined(r, h)) /\ (Joined(s, h)' <=> Joined(s, h))
      /\ Done(r, h)' = Done(r, h) /\ Done(s, h)' = Done(s, h)
    BY <1>1, EntryStands
<1>5. \A q \in Ranks, i \in Groups : q # p \/ i # g => calls'[q][i] = calls[q][i]
    BY EntryGrows
<1>6. \A q \in Ranks, i \in Groups :
          Len(calls[q][i]) \in Nat /\ Len(calls'[q][i]) \in Nat /\ Len(calls[q][i]) <= Len(calls'[q][i])
    <2>1. \A q \in Ranks, i \in Groups : Len(calls[q][i]) \in Nat /\ Len(calls'[q][i]) \in Nat
        BY EntryGrows
    <2>2. Len(calls[p][g]) <= Len(calls'[p][g])
        <3>1. Len(calls'[p][g]) = Len(calls[p][g]) + 1
            BY EntryGrows
        <3> QED BY <2>1, <3>1
    <2> TAKE q \in Ranks, i \in Groups
    <2>3. q # p \/ i # g => Len(calls'[q][i]) = Len(calls[q][i])
        BY <1>5
    <2> QED BY <2>1, <2>2, <2>3
<1>3. CASE ~(Joined(r, h) /\ Joined(s, h))
    BY <1>1, <1>2, <1>3 DEF Paired
<1>4. CASE Joined(r, h) /\ Joined(s, h)
    <2>1. Lockstep(r, s, h)
        BY <1>1, <1>4 DEF Paired
    <2>2. Alike(r, s, h) => Alike(r, s, h)'
        BY <1>1, EntryStands DEF Alike
    <2>3. Done(r, h) = Done(s, h) + 1 /\ Ahead(r, s, h) => Ahead(r, s, h)'
        <3> SUFFICES ASSUME Done(r, h) = Done(s, h) + 1, Ahead(r, s, h) PROVE Ahead(r, s, h)'
            OBVIOUS
        <3>1. called[s] /\ pc[s] \in Phases(h) /\ s # p
            BY DEF Ahead, InPhase, Enters
        <3>2. called'[s] /\ InPhase(s, h)' /\ calls'[s] = calls[s]
            <4>1. calls'[s]["world"] = calls[s]["world"] /\ calls'[s]["fs"] = calls[s]["fs"]
                BY <1>1, <1>5, <3>1 DEF Groups
            <4>2. calls \in [Ranks -> [Groups -> Seq(Calls)]] /\ calls' \in [Ranks -> [Groups -> Seq(Calls)]]
                BY <1>1, EntryGrows DEF TypeOK
            <4>3. calls'[s] = calls[s]
                <5>1. calls[s] \in [Groups -> Seq(Calls)] /\ calls'[s] \in [Groups -> Seq(Calls)]
                    BY <1>1, <4>2
                <5>2. \A i \in Groups : calls'[s][i] = calls[s][i]
                    BY <4>1 DEF Groups
                <5> HIDE DEF Groups
                <5> QED BY <5>1, <5>2
            <4> QED BY <1>1, <3>1, <4>3 DEF Enters, InPhase, Phases, TypeOK
        <3>3. \A t \in Members(r, h) : t \in Ranks
            BY DEF Members, FsGroup
        <3>4. \A t \in Members(r, h) : Len(calls[t][h]) <= Len(calls'[t][h])
            BY <1>6, <3>3
        <3>5. \A t \in Members(r, h) : Len(calls'[t][h]) >= Done(r, h)'
            <4> TAKE t \in Members(r, h)
            <4>1. Len(calls[t][h]) \in Nat /\ Len(calls'[t][h]) \in Nat /\ Done(r, h) \in Int
                BY <1>6, <3>3 DEF Done
            <4> QED BY <1>2, <3>4, <4>1 DEF Ahead
        <3> DEFINE k == Len(calls[s][h])
        <3>6. k = Done(r, h) /\ k \in Nat
            <4>1. Done(s, h) = k - 1
                BY <3>1 DEF Done, InPhase
            <4>2. k \in Nat
                BY <1>1, <1>6
            <4> QED BY <4>1, <4>2
        <3>7. k >= 1
            <4>1. Local(s) /\ Communicator(pc[s]) = h
                BY <1>1, <3>1 DEF IInv, Communicator, Phases, World, Groups
            <4>2. calls[s][h] # <<>> /\ calls[s][h] \in Seq(Calls)
                BY <1>1, <3>1, <4>1 DEF Local, TypeOK
            <4> QED BY <4>2
        <3>8. \A t \in Members(s, h) : calls'[t][h][k] = calls[t][h][k]
            <4> TAKE t \in Members(s, h)
            <4>1. t \in Members(r, h) /\ t \in Ranks
                BY SameMembers, <3>3
            <4>2. Len(calls[t][h]) >= k /\ Len(calls[t][h]) \in Nat
                BY <1>6, <3>6, <4>1 DEF Ahead
            <4>3. k \in 1 .. Len(calls[t][h])
                BY <3>6, <3>7, <4>2
            <4>4. CASE t = p /\ h = g
                BY ZenonT(40), <4>3, <4>4, EntryGrows
            <4>5. CASE ~(t = p /\ h = g)
                <5>1. calls'[t][h] = calls[t][h]
                    BY <1>5, <4>1, <4>5
                <5> QED BY <5>1
            <4> QED BY <4>4, <4>5
        <3>9. pc'[s] = pc[s] /\ comp'[s] = comp[s] /\ rebuildable' = rebuildable
              /\ comp[s] \in Components /\ \A c \in Components : route'[s][c] = route[s][c]
            BY <1>1, <3>1 DEF Enters, TypeOK
        <3> HIDE DEF k
        <3>10. /\ NextStatus(s, h)' = NextStatus(s, h) /\ NextPlace(s, h)' = NextPlace(s, h)
              /\ NextKnown(s)' = NextKnown(s)
              /\ \A c \in Components : NextRoute(s, c)' = NextRoute(s, c)
            BY <1>1, <3>1, <3>2, <3>8, <3>9, NextKept DEF k
        <3>11. Status(r, h)' = NextStatus(s, h)' /\ Place(r, h)' = NextPlace(s, h)'
            BY <3>10, EntryStands DEF Ahead
        <3>12. \A c \in Known(r)' \intersect NextKnown(s)' : route'[r][c] = NextRoute(s, c)'
            <4>1. Known(r)' = Known(r) /\ \A c \in Known(r) : route'[r][c] = route[r][c]
                BY EntryStands
            <4>2. Known(r) \subseteq Components
                BY DEF Known, KnownOf
            <4> QED BY <3>10, <4>1, <4>2 DEF Ahead
        <3>13. Members(r, h)' = Members(r, h)
            BY DEF Members, FsGroup
        <3> QED BY <3>2, <3>5, <3>11, <3>12, <3>13 DEF Ahead
    <2> QED BY <1>2, <1>4, <2>1, <2>2, <2>3 DEF Paired, Lockstep
<1> QED BY <1>3, <1>4

\* A rank enters the collective the others entered in its place.
LEMMA EntryMatches ==
    ASSUME IInv, NEW p \in Ranks, NEW g \in Groups, NEW val \in Outcomes, Enters(p, g, val)
    PROVE  CollectivesMatch'
<1>1. TypeOK /\ CollectivesMatch /\ pc[p] \in Phases(g) /\ ~called[p]
    BY DEF IInv, Enters
<1>2. \A r \in Ranks, i \in Groups : r # p \/ i # g => calls'[r][i] = calls[r][i]
    BY EntryGrows
<1>3. /\ Len(calls'[p][g]) = Len(calls[p][g]) + 1
      /\ calls'[p][g][Len(calls[p][g]) + 1].op = Op(p)
      /\ \A k \in 1 .. Len(calls[p][g]) : calls'[p][g][k] = calls[p][g][k]
      /\ \A r \in Ranks, i \in Groups : Len(calls[r][i]) \in Nat
    <2>1. calls'[p][g][Len(calls[p][g]) + 1] = [op |-> Op(p), val |-> val]
        BY EntryGrows
    <2>2. calls'[p][g][Len(calls[p][g]) + 1].op = Op(p)
        BY <2>1
    <2>3. Len(calls'[p][g]) = Len(calls[p][g]) + 1
        BY EntryGrows
    <2>4. \A k \in 1 .. Len(calls[p][g]) : calls'[p][g][k] = calls[p][g][k]
        BY EntryGrows
    <2>5. \A r \in Ranks, i \in Groups : Len(calls[r][i]) \in Nat
        BY EntryGrows
    <2> QED BY <2>2, <2>3, <2>4, <2>5
<1>4. ASSUME NEW s \in Members(p, g), s # p, Len(calls[p][g]) + 1 <= Len(calls[s][g])
      PROVE  calls[s][g][Len(calls[p][g]) + 1].op = Op(p)
    <2> DEFINE n == Len(calls[p][g])
    <2>1. s \in Ranks /\ p \in Members(s, g)
        BY SameMembers
    <2>2. Paired(p, s, g) /\ Paired(s, p, g) /\ Local(s)
        BY <2>1 DEF IInv
    <2>3. Done(p, g) = n /\ n \in Nat /\ Len(calls[s][g]) \in Nat
        BY <1>1, <1>3, <2>1 DEF Done
    <2>4. \/ Done(s, g) = Len(calls[s][g]) - 1 /\ called[s] /\ InPhase(s, g)
          \/ Done(s, g) = Len(calls[s][g])
        <3>1. CASE called[s] /\ InPhase(s, g)
            BY <3>1 DEF Done
        <3>2. CASE ~(called[s] /\ InPhase(s, g))
            <4>1. Len(calls[s][g]) \in Nat
                BY <2>3
            <4>2. Done(s, g) = Len(calls[s][g]) - 0
                BY <3>2 DEF Done
            <4> QED BY <4>1, <4>2
        <3> QED BY <3>1, <3>2
    <2>5. Done(s, g) >= n /\ Done(s, g) \in Nat
        BY <1>4, <2>3, <2>4
    <2>6. Joined(p, g) /\ Joined(s, g)
        <3>1. Joined(p, g)
            BY <1>1 DEF Joined, Past, Phases, World, Groups
        <3>2. CASE g = "world"
            BY <3>2 DEF Joined
        <3>3. CASE g = "fs"
            <4>1. calls[s]["fs"] # <<>> /\ calls[s]["fs"] \in Seq(Calls)
                BY <1>1, <1>4, <2>1, <2>3, <3>3 DEF TypeOK
            <4>2. pc[s] \notin World
                BY <2>2, <4>1 DEF Local
            <4>3. pc[s] \in {"build", "agree", "meta", "fill", "done", "failed"}
                BY <1>1, <2>1 DEF TypeOK
            <4> QED BY <3>1, <4>1, <4>2, <4>3 DEF Joined, Past, World
        <3> QED BY <3>2, <3>3 DEF Groups
    <2>7. Lockstep(p, s, g) /\ Lockstep(s, p, g)
        BY <2>2, <2>6 DEF Paired
    <2>8. Done(s, g) # n + 1
        BY <1>1, <2>3, <2>7 DEF Lockstep, Ahead
    <2>9. Done(s, g) = n
        BY <2>3, <2>5, <2>7, <2>8 DEF Lockstep
    <2>10. called[s] /\ pc[s] \in Phases(g) /\ Len(calls[s][g]) = n + 1 /\ Alike(p, s, g)
        BY <1>4, <2>3, <2>4, <2>7, <2>9 DEF InPhase, Lockstep
    <2>11. Communicator(pc[s]) = g
        BY <2>10 DEF Communicator, Phases, World, Groups
    <2>12. calls[s][g][n + 1].op = Op(s)
        BY <2>2, <2>10, <2>11 DEF Local, Last
    <2>13. (Past(p) <=> g = "fs") /\ (Past(s) <=> g = "fs")
        BY <1>1, <2>10 DEF Past, Phases, World, Groups
    <2>14. pc[s] = pc[p] /\ comp[s] = comp[p]
        BY <1>1, <2>10, <2>13 DEF Alike, Status, StatusOf, Place, PlaceOf, Groups
    <2>15. Op(s) = Op(p)
        <3>1. CASE pc[p] = "fill"
            <4>1. g = "fs"
                BY <1>1, <3>1 DEF Phases, World, Groups
            <4>2. \A c \in Components : route[p][c] = route[s][c]
                BY <2>10, <2>13, <4>1 DEF Alike, Known, KnownOf
            <4>3. comp[p] \in Components /\ Encoders \subseteq Components
                BY <1>1, Sizes DEF TypeOK
            <4>4. LoadsReal(p) <=> LoadsReal(s)
                BY <4>2, <4>3 DEF LoadsReal
            <4> QED BY <2>14, <3>1, <4>2, <4>3, <4>4 DEF Op, Branch, BuiltMeta
        <3>2. CASE pc[p] # "fill"
            BY <2>14, <3>2 DEF Op
        <3> QED BY <3>1, <3>2
    <2> QED BY <2>12, <2>15
<1> SUFFICES ASSUME NEW r \in Ranks, NEW i \in Groups, NEW s \in Members(r, i),
                    NEW k \in 1 .. Len(calls'[r][i]), k <= Len(calls'[s][i])
             PROVE  calls'[r][i][k].op = calls'[s][i][k].op
    BY DEF CollectivesMatch, Groups, Members, FsGroup
<1>5. s \in Ranks /\ r \in Members(s, i)
    BY SameMembers
<1>6. \A q \in Ranks : \A t \in Members(q, i) : \A j \in 1 .. Len(calls[q][i]) :
          j <= Len(calls[t][i]) => calls[q][i][j].op = calls[t][i][j].op
    BY <1>1 DEF CollectivesMatch, Groups
<1>7. CASE i # g
    <2>1. calls'[r][i] = calls[r][i] /\ calls'[s][i] = calls[s][i]
        BY <1>2, <1>5, <1>7
    <2>2. k \in 1 .. Len(calls[r][i]) /\ k <= Len(calls[s][i])
        BY <2>1
    <2> QED BY <1>6, <2>1, <2>2
<1>8. CASE i = g /\ r # p /\ s # p
    <2>1. calls'[r][i] = calls[r][i] /\ calls'[s][i] = calls[s][i]
        BY <1>2, <1>5, <1>8
    <2>2. k \in 1 .. Len(calls[r][i]) /\ k <= Len(calls[s][i])
        BY <2>1
    <2> QED BY <1>6, <2>1, <2>2
<1>9. CASE i = g /\ r = p /\ s = p
    BY <1>9
<1>10. CASE i = g /\ r = p /\ s # p
    <2>1. calls'[s][i] = calls[s][i]
        BY <1>2, <1>5, <1>10
    <2>2. CASE k = Len(calls[p][g]) + 1
        BY <1>3, <1>4, <1>10, <2>1, <2>2
    <2>3. CASE k # Len(calls[p][g]) + 1
        <3>1. k \in 1 .. Len(calls[p][g]) /\ k <= Len(calls[s][i])
            BY <1>3, <1>10, <2>1, <2>3
        <3> QED BY <1>3, <1>6, <1>10, <2>1, <3>1
    <2> QED BY <2>2, <2>3
<1>11. CASE i = g /\ r # p /\ s = p
    <2>1. calls'[r][i] = calls[r][i] /\ r \in Members(p, g) /\ k \in Nat
        BY <1>2, <1>5, <1>11
    <2>2. CASE k = Len(calls[p][g]) + 1
        <3>1. k <= Len(calls[r][i])
            BY <2>1
        <3>2. calls[r][g][Len(calls[p][g]) + 1].op = Op(p)
            BY <1>4, <1>11, <2>1, <2>2, <3>1
        <3> QED BY <1>3, <1>11, <2>1, <2>2, <3>2
    <2>3. CASE k # Len(calls[p][g]) + 1
        <3>1. k \in 1 .. Len(calls[p][g]) /\ k \in 1 .. Len(calls[r][i])
            BY <1>3, <1>5, <1>11, <2>1, <2>3
        <3> QED BY SMTT(30), <1>3, <1>6, <1>11, <2>1, <3>1
    <2> QED BY <2>2, <2>3
<1> QED BY <1>7, <1>8, <1>9, <1>10, <1>11

\* An entry keeps what a rank is sure of alone.
LEMMA EntryLocal ==
    ASSUME IInv, NEW p \in Ranks, NEW g \in Groups, NEW val \in Outcomes, Enters(p, g, val),
           NEW r \in Ranks
    PROVE  Local(r)'
<1>1. TypeOK /\ Local(r) /\ pc[p] \in Phases(g)
    BY DEF IInv, Enters
<1>2. pc' = pc /\ comp' = comp /\ rebuildable' = rebuildable /\ (r # p => called'[r] = called[r])
    BY <1>1 DEF Enters, TypeOK
<1>3. (Past(r)' <=> Past(r)) /\ Done(r, "fs")' = Done(r, "fs")
    BY EntryStands DEF Groups
<1>4. \A c : Chosen(c)' = Chosen(c)
    BY <1>2 DEF Chosen, Encoders
<1>5. pc[r] \in {"build", "agree", "meta", "fill"} => Communicator(pc[r]) \in Groups
    BY PhaseGroup
<1>6. CASE r # p
    <2>1. calls'[r]["world"] = calls[r]["world"] /\ calls'[r]["fs"] = calls[r]["fs"]
        BY ZenonT(40), <1>6, EntryGrows DEF Groups
    <2>2. \A c \in Components : route'[r][c] = route[r][c]
        BY <1>6 DEF Enters
    <2>3. comp[r] \in Components /\ Encoders \subseteq Components
        BY <1>1, Sizes DEF TypeOK
    <2>4. Op(r)' = Op(r)
        <3>1. LoadsReal(r)' <=> LoadsReal(r)
            BY <2>2, <2>3 DEF LoadsReal, Encoders
        <3> QED BY <1>2, <2>2, <2>3, <3>1 DEF Op, Branch, BuiltMeta, Encoders
    <2>5. called[r] => /\ pc[r] \in {"build", "agree", "meta", "fill"}
                       /\ calls'[r][Communicator(pc[r])] # <<>>
                       /\ Last(r, Communicator(pc[r]))' .op = Op(r)
        <3> SUFFICES ASSUME called[r]
                     PROVE  /\ pc[r] \in {"build", "agree", "meta", "fill"}
                            /\ calls'[r][Communicator(pc[r])] # <<>>
                            /\ Last(r, Communicator(pc[r]))' .op = Op(r)
            OBVIOUS
        <3> DEFINE i == Communicator(pc[r])
        <3>1. /\ pc[r] \in {"build", "agree", "meta", "fill"}
              /\ calls[r][i] # <<>> /\ Last(r, i).op = Op(r)
            BY <1>1 DEF Local
        <3>2. i \in Groups /\ Communicator(pc'[r]) = i
            BY <1>2, <3>1, PhaseGroup
        <3> HIDE DEF i
        <3>3. calls'[r][i] = calls[r][i]
            BY <2>1, <3>2 DEF Groups
        <3> QED BY <3>1, <3>2, <3>3 DEF Last, i
    <2>6. Last(r, "world")' = Last(r, "world")
        BY <2>1 DEF Last
    <2> QED BY <1>1, <1>2, <1>3, <1>4, <1>6, <2>1, <2>2, <2>3, <2>4, <2>5, <2>6 DEF Local, Last
<1>7. CASE r = p
    <2>1. Communicator(pc[p]) = g /\ pc[p] \in {"build", "agree", "meta", "fill"}
        BY <1>1 DEF Communicator, Phases, World, Groups
    <2>2. /\ calls'[p][g] # <<>> /\ Last(p, g)' = [op |-> Op(p), val |-> val]
        <3>1. /\ Len(calls'[p][g]) = Len(calls[p][g]) + 1 /\ Len(calls[p][g]) \in Nat
              /\ calls'[p][g][Len(calls[p][g]) + 1] = [op |-> Op(p), val |-> val]
              /\ calls' \in [Ranks -> [Groups -> Seq(Calls)]]
            BY EntryGrows
        <3>2. calls'[p][g] \in Seq(Calls)
            BY <3>1
        <3> QED BY <3>1, <3>2 DEF Last
    <2>3. comp[p] \in Components /\ Encoders \subseteq Components
        BY <1>1, Sizes DEF TypeOK
    <2>4. Op(p)' = Op(p)
        <3>1. CASE pc[p] = "fill"
            <4>1. \A c \in Components : route'[p][c] = route[p][c]
                BY <3>1 DEF Enters
            <4>2. LoadsReal(p)' <=> LoadsReal(p)
                BY <2>3, <4>1 DEF LoadsReal, Encoders
            <4> QED BY <1>2, <2>3, <4>1, <4>2 DEF Op, Branch, BuiltMeta, Encoders
        <3>2. CASE pc[p] # "fill"
            BY <1>2, <3>2 DEF Op
        <3> QED BY <3>1, <3>2
    <2>5. pc[p] = "build" /\ Last(p, "world")'.val # "bad" => route'[p][comp[p]] = Chosen(comp[p])
        BY <2>1, <2>2 DEF Enters, Communicator
    <2>6. pc[p] = "agree" => route'[p][comp[p]] = Chosen(comp[p])
        BY <1>1, <1>7, <2>3 DEF Enters, Local
    <2>7. pc[p] \in World => calls'[p]["fs"] = <<>>
        <3>1. pc[p] \in World => g # "fs"
            BY <1>1 DEF Phases, World
        <3>2. g # "fs" => calls'[p]["fs"] = calls[p]["fs"]
            BY ZenonT(40), EntryGrows DEF Groups
        <3> QED BY <1>1, <1>7, <3>1, <3>2 DEF Local
    <2>8. pc[p] = "fill" => calls'[p]["fs"] # <<>>
        BY <2>1, <2>2 DEF Communicator
    <2> QED BY <1>1, <1>2, <1>3, <1>4, <1>7, <2>1, <2>2, <2>4, <2>5, <2>6, <2>7, <2>8 DEF Local
<1> QED BY <1>6, <1>7

\* An entry keeps the invariant.
LEMMA EntryKeeps ==
    ASSUME IInv, NEW p \in Ranks, Build(p) \/ Agree(p) \/ AskMeta(p) \/ Fill(p)
    PROVE  IInv'
<1>1. PICK g \in Groups, val \in Outcomes : Enters(p, g, val)
    BY EnterMoves
<1>2. TypeOK'
    <2>1. TypeOK
        BY DEF IInv
    <2>2. calls' \in [Ranks -> [Groups -> Seq(Calls)]]
        BY <1>1, EntryGrows
    <2>3. called' \in [Ranks -> BOOLEAN]
        <3>1. called \in [Ranks -> BOOLEAN] /\ called' = [called EXCEPT ![p] = TRUE] /\ TRUE \in BOOLEAN
            BY <1>1, <2>1 DEF TypeOK, Enters
        <3> QED BY <3>1, Zenon
    <2> QED BY <1>1, <2>1, <2>2, <2>3 DEF TypeOK, Enters
<1>3. CollectivesMatch'
    BY <1>1, EntryMatches
<1>4. \A r \in Ranks : Local(r)'
    BY <1>1, EntryLocal
<1>5. \A h \in Groups : \A r \in Ranks : \A s \in Members(r, h) : Paired(r, s, h)'
    BY <1>1, EntryLockstep
<1> QED BY <1>2, <1>3, <1>4, <1>5 DEF IInv, Members, FsGroup

-----------------------------------------------------------------------------
\* Where a return leaves the ranks.
LEMMA ReturnStands ==
    ASSUME IInv, NEW p \in Ranks, NEW g \in Groups, Returns(p, g)
    PROVE  /\ (Past(p)' <=> NextPast(p)) /\ Known(p)' = NextKnown(p)
           /\ \A h \in Groups : Status(p, h)' = NextStatus(p, h) /\ Place(p, h)' = NextPlace(p, h)
           /\ Len(calls[p][g]) \in Nat \ {0}
           /\ Done(p, g) = Len(calls[p][g]) - 1 /\ Done(p, g)' = Len(calls[p][g])
           /\ (g = "fs" => Past(p) /\ Past(p)') /\ (g = "world" => ~Past(p))
           /\ \A h \in Groups : h # g => Done(p, h)' = Done(p, h)
<1>1. TypeOK /\ Local(p)
    BY DEF IInv
<1>2. pc[p] \in Phases(g) /\ called[p] /\ ~called'[p] /\ calls' = calls
      /\ pc'[p] = NextPc(p) /\ comp'[p] = NextComp(p)
    BY <1>1 DEF Returns, TypeOK
<1>3. Communicator(pc[p]) = g
    BY <1>2 DEF Communicator, Phases, World, Groups
<1>4. calls[p][g] # <<>> /\ calls[p][g] \in Seq(Calls)
    BY <1>1, <1>2, <1>3 DEF Local, TypeOK
<1>5. Len(calls[p][g]) \in Nat \ {0}
    BY <1>4
<1>6. Past(p)' <=> NextPast(p)
    <2>1. CASE g = "world"
        <3>1. pc[p] \in World /\ ~Past(p) /\ calls[p]["fs"] = <<>>
            BY <1>1, <1>2, <2>1 DEF Phases, Past, World, Local
        <3>2. NextPc(p) \in {"failed", "agree", "meta", "build"}
            BY <3>1 DEF NextPc
        <3> QED BY <1>2, <3>1, <3>2 DEF NextPast, Past
    <2>2. CASE g = "fs"
        <3>1. pc[p] \in {"meta", "fill"} /\ Past(p) /\ calls[p]["fs"] # <<>>
            BY <1>2, <1>4, <2>2 DEF Phases, Past
        <3>2. NextPc(p) \in {"failed", "fill", "done", "meta"}
            BY <3>1 DEF NextPc, NeedsAgreement, World
        <3> QED BY <1>2, <3>1, <3>2 DEF NextPast, Past
    <2> QED BY <2>1, <2>2 DEF Groups
<1>7. (g = "fs" => Past(p) /\ Past(p)') /\ (g = "world" => ~Past(p))
    <2>1. (g = "fs" => Past(p)) /\ (g = "world" => ~Past(p))
        BY <1>2 DEF Phases, Past, World
    <2> QED BY <1>6, <2>1 DEF NextPast
<1>8. Known(p)' = NextKnown(p)
    BY <1>2, <1>6 DEF Known, NextKnown, KnownOf
<1>9. \A h \in Groups : Status(p, h)' = NextStatus(p, h) /\ Place(p, h)' = NextPlace(p, h)
    BY <1>2, <1>6 DEF Status, NextStatus, StatusOf, Place, NextPlace, PlaceOf
<1>10. Done(p, g) = Len(calls[p][g]) - 1
    BY <1>2 DEF Done, InPhase
<1>11. \A h \in Groups : Done(p, h)' = Len(calls[p][h])
    <2> TAKE h \in Groups
    <2>1. Len(calls[p][h]) \in Nat
        BY <1>1 DEF TypeOK
    <2>2. Done(p, h)' = Len(calls[p][h]) - 0
        BY <1>2 DEF Done
    <2> QED BY <2>1, <2>2
<1>12. \A h \in Groups : h # g => Done(p, h) = Len(calls[p][h])
    <2> TAKE h \in Groups
    <2> SUFFICES ASSUME h # g PROVE Done(p, h) = Len(calls[p][h])
        OBVIOUS
    <2>1. ~InPhase(p, h)
        BY <1>2 DEF InPhase, Phases, World, Groups
    <2>2. Len(calls[p][h]) \in Nat
        BY <1>1 DEF TypeOK
    <2>3. Done(p, h) = Len(calls[p][h]) - 0
        BY <2>1 DEF Done
    <2> QED BY <2>2, <2>3
<1> QED BY <1>5, <1>6, <1>7, <1>8, <1>9, <1>10, <1>11, <1>12

\* A return leaves the other ranks where they stand.
LEMMA OthersStand ==
    ASSUME IInv, NEW p \in Ranks, NEW g \in Groups, Returns(p, g), NEW r \in Ranks, r # p
    PROVE  /\ (Past(r)' <=> Past(r)) /\ Known(r)' = Known(r)
           /\ \A h \in Groups : /\ Done(r, h)' = Done(r, h) /\ Status(r, h)' = Status(r, h)
                                /\ Place(r, h)' = Place(r, h) /\ (Joined(r, h)' <=> Joined(r, h))
                                /\ (InPhase(r, h)' <=> InPhase(r, h))
           /\ \A c \in Components : route'[r][c] = route[r][c]
           /\ pc'[r] = pc[r] /\ comp'[r] = comp[r] /\ (called'[r] <=> called[r])
<1>1. /\ pc'[r] = pc[r] /\ comp'[r] = comp[r] /\ calls' = calls /\ called'[r] = called[r]
      /\ \A c \in Components : route'[r][c] = route[r][c]
    BY DEF IInv, TypeOK, Returns
<1>2. (Past(r)' <=> Past(r)) /\ \A h \in Groups : InPhase(r, h)' <=> InPhase(r, h)
    BY <1>1 DEF Past, InPhase, Phases
<1> QED BY <1>1, <1>2 DEF Known, KnownOf, Done, Status, StatusOf, Place, PlaceOf, Joined

\* A peer of a rank that returns is in the collective still, at the same
\* place, or has returned from it already.
LEMMA Peer ==
    ASSUME IInv, NEW p \in Ranks, NEW g \in Groups, Returns(p, g), NEW s \in Members(p, g)
    PROVE  /\ Joined(p, g) /\ Joined(s, g) /\ Lockstep(s, p, g) /\ Lockstep(p, s, g)
           /\ \/ /\ Done(s, g) = Done(p, g) /\ called[s] /\ pc[s] \in Phases(g)
                 /\ Len(calls[s][g]) = Len(calls[p][g]) /\ Alike(p, s, g)
              \/ Done(s, g) = Done(p, g) + 1 /\ Ahead(s, p, g)
<1> DEFINE n == Len(calls[p][g])
<1>1. TypeOK /\ s \in Ranks /\ p \in Members(s, g)
    BY SameMembers DEF IInv
<1>2. Paired(p, s, g) /\ Paired(s, p, g) /\ Local(s)
    BY <1>1 DEF IInv
<1>3. n \in Nat \ {0} /\ Done(p, g) = n - 1 /\ Len(calls[s][g]) >= n /\ Len(calls[s][g]) \in Nat
    <2>1. Len(calls[s][g]) >= n /\ Len(calls[s][g]) \in Nat
        BY <1>1 DEF Returns, TypeOK
    <2> QED BY <2>1, ReturnStands
<1>4. Joined(p, g) /\ Joined(s, g)
    <2>1. Joined(p, g)
        BY ReturnStands DEF Joined, Groups
    <2>2. CASE g = "world"
        BY <2>2 DEF Joined
    <2>3. CASE g = "fs"
        <3>1. calls[s]["fs"] # <<>>
            <4>1. calls[s]["fs"] \in Seq(Calls) /\ Len(calls[s]["fs"]) # 0
                BY <1>1, <1>3, <2>3 DEF TypeOK
            <4> QED BY <4>1
        <3>2. pc[s] \notin World
            BY <1>2, <3>1 DEF Local
        <3>3. pc[s] \in {"build", "agree", "meta", "fill", "done", "failed"}
            BY <1>1 DEF TypeOK
        <3> QED BY <2>1, <3>1, <3>2, <3>3 DEF Joined, Past, World
    <2> QED BY <2>2, <2>3, <2>1 DEF Groups
<1>5. Lockstep(p, s, g) /\ Lockstep(s, p, g)
    BY <1>2, <1>4 DEF Paired
<1>6. CASE called[s] /\ InPhase(s, g)
    <2>1. Done(s, g) = Len(calls[s][g]) - 1
        BY <1>6 DEF Done
    <2>2. CASE Done(s, g) = Done(p, g)
        <3>1. Alike(p, s, g)
            BY <1>5, <2>2 DEF Lockstep
        <3> QED BY <1>3, <1>4, <1>5, <1>6, <2>1, <2>2, <3>1 DEF InPhase
    <2>3. CASE Done(s, g) # Done(p, g)
        <3>1. Done(s, g) = Done(p, g) + 1
            BY <1>3, <1>5, <2>1, <2>3 DEF Lockstep
        <3> QED BY <1>4, <1>5, <3>1 DEF Lockstep
    <2> QED BY <2>2, <2>3
<1>7. CASE ~(called[s] /\ InPhase(s, g))
    <2>1. Done(s, g) = Len(calls[s][g]) - 0
        BY <1>7 DEF Done
    <2>2. Done(s, g) = Done(p, g) + 1
        BY <1>3, <1>5, <2>1 DEF Lockstep
    <2> QED BY <1>4, <1>5, <2>2 DEF Lockstep
<1> QED BY <1>6, <1>7

\* A return keeps the pairs it has no part in.
LEMMA ThirdParties ==
    ASSUME IInv, NEW p \in Ranks, NEW g \in Groups, Returns(p, g),
           NEW h \in Groups, NEW r \in Ranks, NEW s \in Members(r, h), r # p, s # p
    PROVE  Paired(r, s, h)'
<1>1. TypeOK /\ Paired(r, s, h) /\ s \in Ranks /\ comp[s] \in Components
    BY SameMembers DEF IInv, TypeOK
<1>2. /\ (Joined(r, h)' <=> Joined(r, h)) /\ (Joined(s, h)' <=> Joined(s, h))
      /\ Done(r, h)' = Done(r, h) /\ Done(s, h)' = Done(s, h)
      /\ Status(r, h)' = Status(r, h) /\ Place(r, h)' = Place(r, h) /\ Known(r)' = Known(r)
      /\ Status(s, h)' = Status(s, h) /\ Place(s, h)' = Place(s, h) /\ Known(s)' = Known(s)
      /\ \A c \in Components : route'[r][c] = route[r][c] /\ route'[s][c] = route[s][c]
    BY <1>1, OthersStand
<1>3. Known(r) \subseteq Components
    BY DEF Known, KnownOf
<1>4. Alike(r, s, h) => Alike(r, s, h)'
    BY <1>2, <1>3 DEF Alike
<1>5. Ahead(r, s, h) => Ahead(r, s, h)'
    <2> SUFFICES ASSUME Ahead(r, s, h) PROVE Ahead(r, s, h)'
        OBVIOUS
    <2>1. pc[s] \in Phases(h) /\ calls' = calls /\ rebuildable' = rebuildable
        BY DEF Ahead, InPhase, Returns
    <2>2. /\ pc'[s] = pc[s] /\ comp'[s] = comp[s] /\ (called'[s] <=> called[s])
          /\ (InPhase(s, h)' <=> InPhase(s, h))
        BY <1>1, OthersStand
    <2>3. /\ NextStatus(s, h)' = NextStatus(s, h) /\ NextPlace(s, h)' = NextPlace(s, h)
          /\ NextKnown(s)' = NextKnown(s)
          /\ \A c \in Components : NextRoute(s, c)' = NextRoute(s, c)
        BY <1>1, <1>2, <2>1, <2>2, NextKept
    <2>4. \A t \in Members(r, h)' : Len(calls'[t][h]) >= Done(r, h)'
        BY <1>2, <2>1 DEF Ahead, Members, FsGroup
    <2> QED BY <1>2, <1>3, <2>2, <2>3, <2>4 DEF Ahead
<1> QED BY <1>1, <1>2, <1>4, <1>5 DEF Paired, Lockstep

\* A return keeps its own pairs in lockstep, on the communicator it is about:
\* it goes ahead of a peer that is still in the collective, and meets one that
\* has returned before.
LEMMA ReturnSame ==
    ASSUME IInv, NEW p \in Ranks, NEW g \in Groups, Returns(p, g), NEW s \in Members(p, g)
    PROVE  Paired(p, s, g)' /\ Paired(s, p, g)'
<1> DEFINE n == Len(calls[p][g])
<1>1. TypeOK /\ s \in Ranks /\ p \in Members(s, g) /\ Members(s, g) = Members(p, g)
    BY SameMembers DEF IInv
<1>2. /\ n \in Nat \ {0} /\ Done(p, g) = n - 1 /\ Done(p, g)' = n /\ Known(p)' = NextKnown(p)
      /\ Status(p, g)' = NextStatus(p, g) /\ Place(p, g)' = NextPlace(p, g)
    BY ReturnStands
<1>3. Joined(p, g)'
    BY ReturnStands DEF Joined, Groups
<1>4. \A c \in Components : route'[p][c] = NextRoute(p, c)
    BY DEF Returns
<1>5. Known(p)' \subseteq Components
    BY <1>2 DEF NextKnown, KnownOf
<1>6. CASE s = p
    BY <1>2, <1>3, <1>6 DEF Paired, Lockstep, Alike
<1>7. CASE s # p
    <2>1. /\ (Joined(s, g)' <=> Joined(s, g)) /\ Done(s, g)' = Done(s, g)
          /\ Status(s, g)' = Status(s, g) /\ Place(s, g)' = Place(s, g) /\ Known(s)' = Known(s)
          /\ \A c \in Components : route'[s][c] = route[s][c]
          /\ pc'[s] = pc[s] /\ comp'[s] = comp[s] /\ (called'[s] <=> called[s])
          /\ (InPhase(s, g)' <=> InPhase(s, g))
        BY <1>1, <1>7, OthersStand
    <2>2. Joined(s, g)
        BY Peer
    <2>3. CASE /\ Done(s, g) = Done(p, g) /\ called[s] /\ pc[s] \in Phases(g)
               /\ Len(calls[s][g]) = Len(calls[p][g]) /\ Alike(p, s, g)
        <3>1. /\ NextStatus(p, g) = NextStatus(s, g) /\ NextPlace(p, g) = NextPlace(s, g)
              /\ \A c \in NextKnown(p) \intersect NextKnown(s) : NextRoute(p, c) = NextRoute(s, c)
            BY <2>3, SameNext DEF Returns
        <3>2. /\ NextStatus(s, g)' = NextStatus(s, g) /\ NextPlace(s, g)' = NextPlace(s, g)
              /\ NextKnown(s)' = NextKnown(s)
              /\ \A c \in Components : NextRoute(s, c)' = NextRoute(s, c)
            <4>1. calls' = calls /\ rebuildable' = rebuildable /\ comp[s] \in Components
                BY <1>1 DEF Returns, TypeOK
            <4> QED BY <1>1, <2>1, <2>3, <4>1, NextKept
        <3>3. \A t \in Members(p, g)' : Len(calls'[t][g]) >= Done(p, g)'
            BY <1>2 DEF Returns, Members, FsGroup
        <3>4. \A c \in Known(p)' \intersect NextKnown(s)' : route'[p][c] = NextRoute(s, c)'
            BY <1>2, <1>4, <1>5, <3>1, <3>2
        <3>5. Ahead(p, s, g)'
            BY <1>2, <2>1, <2>3, <3>1, <3>2, <3>3, <3>4 DEF Ahead, InPhase
        <3> QED BY <1>2, <1>3, <2>1, <2>2, <2>3, <3>5 DEF Paired, Lockstep
    <2>4. CASE Done(s, g) = Done(p, g) + 1 /\ Ahead(s, p, g)
        <3>1. /\ Status(s, g) = NextStatus(p, g) /\ Place(s, g) = NextPlace(p, g)
              /\ \A c \in Known(s) \intersect NextKnown(p) : route[s][c] = NextRoute(p, c)
            BY <2>4 DEF Ahead
        <3>2. Alike(p, s, g)' /\ Alike(s, p, g)'
            BY <1>2, <1>4, <1>5, <2>1, <3>1 DEF Alike
        <3> QED BY <1>2, <1>3, <2>1, <2>2, <2>4, <3>2 DEF Paired, Lockstep
    <2> QED BY <2>3, <2>4, Peer
<1> QED BY <1>6, <1>7

\* The end of the routes brings a rank to the start of the sharding.
LEMMA ReturnToSharding ==
    ASSUME IInv, NEW p \in Ranks, Returns(p, "world"), NEW s \in Members(p, "fs")
    PROVE  Paired(p, s, "fs")' /\ Paired(s, p, "fs")'
<1>1. TypeOK /\ s \in Ranks /\ p \in Members(s, "fs") /\ "fs" \in Groups /\ "world" \in Groups
    BY SameMembers DEF IInv, Groups
<1>2. ~Past(p) /\ Done(p, "fs")' = Done(p, "fs")
    BY <1>1, ReturnStands
<1>3. Done(p, "fs") = 0 /\ Done(s, "fs") = 0
    BY <1>1, <1>2 DEF IInv, Paired, Joined
<1>4. CASE s = p
    BY <1>2, <1>3, <1>4 DEF Paired, Lockstep, Alike
<1>5. CASE s # p
    <2>1. Done(s, "fs")' = 0 /\ (Past(s)' <=> Past(s))
          /\ pc'[s] = pc[s] /\ comp'[s] = comp[s]
        BY <1>1, <1>3, <1>5, OthersStand
    <2>2. CASE ~Past(p)' \/ ~Past(s)'
        BY <1>2, <1>3, <2>1, <2>2 DEF Paired, Joined
    <2>3. CASE Past(p)' /\ Past(s)'
        <3>1. pc'[s] = "meta" /\ comp'[s] = 1
            BY <1>1, <1>3, <2>1, <2>3 DEF IInv, Local
        <3>2. pc'[p] = "meta" /\ comp'[p] = 1
            <4>1. NextPast(p) /\ NextPc(p) = "meta"
                BY <1>1, <1>2, <2>3, ReturnStands DEF NextPast
            <4>2. pc[p] \in World
                BY DEF Returns, Phases
            <4>3. NextComp(p) = 1
                BY <4>1, <4>2 DEF NextPc, NextComp, World
            <4> QED BY <1>1, <4>1, <4>3 DEF Returns, TypeOK
        <3>3. s \in Members(p, "world")
            BY <1>1 DEF Members
        <3>4. Lockstep(p, s, "world")' /\ Lockstep(s, p, "world")'
            BY <1>1, <3>3, ReturnSame DEF Paired, Joined
        <3>5. ~InPhase(p, "world")' /\ ~InPhase(s, "world")'
            BY <3>1, <3>2 DEF InPhase, Phases, World
        <3>6. Done(p, "world")' \in Int /\ Done(s, "world")' \in Int
            <4>1. Len(calls'[p]["world"]) \in Int /\ Len(calls'[s]["world"]) \in Int
                BY <1>1 DEF Returns, TypeOK
            <4> QED BY <4>1 DEF Done
        <3>7. Done(p, "world")' = Done(s, "world")'
            BY <3>4, <3>5, <3>6 DEF Lockstep, Ahead
        <3>8. Alike(p, s, "world")'
            BY <3>4, <3>7 DEF Lockstep
        <3>9. Alike(p, s, "fs")' /\ Alike(s, p, "fs")'
            BY <3>1, <3>2, <3>8 DEF Alike, Status, StatusOf, Place, PlaceOf
        <3> QED BY <1>2, <1>3, <2>1, <2>3, <3>9 DEF Paired, Lockstep, Joined
    <2> QED BY <2>2, <2>3
<1> QED BY <1>4, <1>5

\* A return in the sharding leaves the rank past the routes.
LEMMA ReturnFromSharding ==
    ASSUME IInv, NEW p \in Ranks, Returns(p, "fs"), NEW s \in Ranks
    PROVE  Paired(p, s, "world")' /\ Paired(s, p, "world")'
<1>1. TypeOK /\ s \in Members(p, "world") /\ p \in Members(s, "world")
      /\ "fs" \in Groups /\ "world" \in Groups /\ pc[p] \in {"meta", "fill"}
    BY DEF IInv, Groups, Members, Returns, Phases
<1>2. Past(p) /\ Past(p)' /\ Done(p, "world")' = Done(p, "world")
    BY <1>1, ReturnStands
<1>3. ~InPhase(p, "world") /\ ~InPhase(p, "world")'
    <2>1. pc'[p] = NextPc(p)
        BY <1>1 DEF Returns, TypeOK
    <2>2. NextPc(p) \notin World
        BY <1>1 DEF NextPc, NeedsAgreement, World
    <2> QED BY <1>1, <2>1, <2>2 DEF InPhase, Phases, World
<1>4. Status(p, "world")' = Status(p, "world") /\ Place(p, "world")' = Place(p, "world")
    BY <1>2, <1>3 DEF Status, StatusOf, Place, PlaceOf, InPhase
<1>5. Known(p)' = Known(p) /\ Known(p) \subseteq Components
    BY <1>2 DEF Known, KnownOf
<1>6. \A c \in Components : route'[p][c] = route[p][c]
    BY <1>1 DEF Returns, NextRoute
<1>7. Lockstep(p, s, "world") /\ Lockstep(s, p, "world")
    BY <1>1 DEF IInv, Paired, Joined
<1>8. Done(p, "world") \in Int
    <2>1. Len(calls[p]["world"]) \in Int
        BY <1>1 DEF TypeOK
    <2> QED BY <2>1 DEF Done
<1>9. CASE s = p
    BY <1>2, <1>8, <1>9 DEF Paired, Joined, Lockstep, Alike
<1>10. CASE s # p
    <2>1. /\ Done(s, "world")' = Done(s, "world") /\ Status(s, "world")' = Status(s, "world")
          /\ Place(s, "world")' = Place(s, "world") /\ Known(s)' = Known(s)
          /\ \A c \in Components : route'[s][c] = route[s][c]
          /\ pc'[s] = pc[s] /\ comp'[s] = comp[s] /\ (called'[s] <=> called[s])
          /\ (InPhase(s, "world")' <=> InPhase(s, "world"))
        BY <1>1, <1>10, OthersStand
    <2>2. Alike(p, s, "world") => Alike(p, s, "world")'
        BY <1>4, <1>5, <1>6, <2>1 DEF Alike
    <2>3. Alike(s, p, "world") => Alike(s, p, "world")'
        BY <1>4, <1>5, <1>6, <2>1 DEF Alike
    <2>4. ~Ahead(s, p, "world")
        BY <1>3 DEF Ahead
    <2>5. Ahead(p, s, "world") => Ahead(p, s, "world")'
        <3> SUFFICES ASSUME Ahead(p, s, "world") PROVE Ahead(p, s, "world")'
            OBVIOUS
        <3>1. pc[s] \in Phases("world") /\ calls' = calls /\ rebuildable' = rebuildable
              /\ comp[s] \in Components
            BY <1>1 DEF Ahead, InPhase, Returns, TypeOK
        <3>2. /\ NextStatus(s, "world")' = NextStatus(s, "world")
              /\ NextPlace(s, "world")' = NextPlace(s, "world")
              /\ NextKnown(s)' = NextKnown(s)
              /\ \A c \in Components : NextRoute(s, c)' = NextRoute(s, c)
            BY <1>1, <2>1, <3>1, NextKept
        <3>3. \A t \in Members(p, "world")' : Len(calls'[t]["world"]) >= Done(p, "world")'
            BY <1>2, <3>1 DEF Ahead, Members, FsGroup
        <3> QED BY <1>4, <1>5, <1>6, <2>1, <3>2, <3>3 DEF Ahead
    <2> QED BY <1>2, <1>7, <2>1, <2>2, <2>3, <2>4, <2>5 DEF Paired, Joined, Lockstep
<1> QED BY <1>9, <1>10

\* A return keeps what a rank is sure of alone.
LEMMA ReturnLocal ==
    ASSUME IInv, NEW p \in Ranks, NEW g \in Groups, Returns(p, g), NEW r \in Ranks
    PROVE  Local(r)'
<1>1. TypeOK /\ Local(r) /\ comp[r] \in Components /\ Encoders \subseteq Components
    BY Sizes DEF IInv, TypeOK
<1>2. \A c : Chosen(c)' = Chosen(c)
    BY DEF Returns, Chosen, Encoders
<1>3. CASE r # p
    <2>1. /\ (Past(r)' <=> Past(r)) /\ Done(r, "fs")' = Done(r, "fs")
          /\ \A c \in Components : route'[r][c] = route[r][c]
          /\ pc'[r] = pc[r] /\ comp'[r] = comp[r] /\ (called'[r] <=> called[r])
        BY <1>3, OthersStand DEF Groups
    <2>2. calls' = calls
        BY DEF Returns
    <2>3. Op(r)' = Op(r)
        <3>1. LoadsReal(r)' <=> LoadsReal(r)
            BY <1>1, <2>1 DEF LoadsReal, Encoders
        <3> QED BY <1>1, <2>1, <3>1 DEF Op, Branch, BuiltMeta, Encoders
    <2>4. (called'[r] => Last(r, Communicator(pc[r]))' = Last(r, Communicator(pc[r])))
          /\ Last(r, "world")' = Last(r, "world")
        BY <2>1, <2>2 DEF Last
    <2>5. called[r] => /\ pc[r] \in {"build", "agree", "meta", "fill"}
                       /\ calls[r][Communicator(pc[r])] # <<>>
                       /\ Last(r, Communicator(pc[r])).op = Op(r)
        BY <1>1 DEF Local
    <2>6. called'[r] => Last(r, Communicator(pc[r]))' .op = Op(r)'
        BY <2>1, <2>3, <2>4, <2>5
    <2>7. called'[r] => /\ pc'[r] \in {"build", "agree", "meta", "fill"}
                        /\ calls'[r][Communicator(pc'[r])] # <<>>
                        /\ Last(r, Communicator(pc[r]))' .op = Op(r)'
        BY <2>1, <2>2, <2>5, <2>6
    <2>8. pc'[r] = "build" /\ called'[r] /\ Last(r, "world")'.val # "bad" =>
              route'[r][comp'[r]] = Chosen(comp'[r])
        BY <1>1, <2>1, <2>4 DEF Local
    <2>9. pc'[r] = "agree" => /\ route'[r][comp'[r]] = Chosen(comp'[r])
                              /\ comp'[r] \in Encoders \intersect rebuildable
        BY <1>1, <2>1 DEF Local
    <2>10. (pc'[r] \in World => calls'[r]["fs"] = <<>>) /\ (pc'[r] = "fill" => calls'[r]["fs"] # <<>>)
           /\ (Past(r)' /\ Done(r, "fs")' = 0 => pc'[r] = "meta" /\ comp'[r] = 1)
        BY <1>1, <2>1, <2>2 DEF Local
    <2>11. rebuildable' = rebuildable
        BY DEF Returns
    <2> QED BY <1>2, <2>1, <2>7, <2>8, <2>9, <2>10, <2>11 DEF Local, Encoders
<1>4. CASE r = p
    <2>1. pc[p] \in Phases(g) /\ called[p] /\ ~called'[p] /\ calls' = calls
          /\ pc'[p] = NextPc(p) /\ comp'[p] = NextComp(p)
          /\ \A c \in Components : route'[p][c] = NextRoute(p, c)
        BY <1>1 DEF Returns, TypeOK
    <2>2. Communicator(pc[p]) = g /\ calls[p][g] # <<>>
        <3>1. Communicator(pc[p]) = g
            BY <2>1 DEF Communicator, Phases, World, Groups
        <3> QED BY <1>1, <1>4, <2>1, <3>1 DEF Local
    <2>3. NextPc(p) = "agree" => /\ route'[p][comp'[p]] = Chosen(comp'[p])
                                 /\ comp'[p] \in Encoders \intersect rebuildable
        <3> SUFFICES ASSUME NextPc(p) = "agree"
                     PROVE  /\ route'[p][comp'[p]] = Chosen(comp'[p])
                            /\ comp'[p] \in Encoders \intersect rebuildable
            OBVIOUS
        <3>1. ~Raises(p) /\ NeedsAgreement(p) /\ NextComp(p) = comp[p] /\ pc[p] = "build"
            BY DEF NextPc, NextComp, NeedsAgreement
        <3>2. g = "world" /\ "bad" \notin Put(p, g, Len(calls[p][g]))
            BY <2>1, <2>2, <3>1, ReturnDependsOn DEF Communicator
        <3>3. p \in Members(p, g)
            BY DEF Members, FsGroup
        <3>4. Last(p, "world").val # "bad"
            BY <3>2, <3>3 DEF Put, Last
        <3>5. route[p][comp[p]] = Chosen(comp[p])
            BY <1>1, <1>4, <2>1, <3>1, <3>4 DEF Local
        <3>6. comp[p] \in Encoders \intersect rebuildable
            BY <3>1, <3>5 DEF NeedsAgreement, Chosen
        <3>7. route'[p][comp[p]] = route[p][comp[p]]
            BY <1>1, <1>4, <2>1, <3>1 DEF NextRoute
        <3> QED BY <2>1, <3>1, <3>5, <3>6, <3>7
    <2>4. NextPc(p) \in World => calls[p]["fs"] = <<>>
        <3>1. NextPc(p) \in World => pc[p] \in World
            BY DEF NextPc, World, NeedsAgreement
        <3> QED BY <1>1, <1>4, <3>1 DEF Local
    <2>5. NextPc(p) = "fill" => calls[p]["fs"] # <<>>
        <3>1. NextPc(p) = "fill" => pc[p] = "meta"
            BY DEF NextPc
        <3> QED BY <2>2, <3>1 DEF Communicator
    <2>6. Past(p)' /\ Done(p, "fs")' = 0 => NextPc(p) = "meta" /\ NextComp(p) = 1
        <3>1. CASE g = "fs"
            <4>1. Done(p, "fs")' # 0
                BY <3>1, ReturnStands
            <4> QED BY <4>1
        <3>2. CASE g = "world"
            <4>1. pc[p] \in World
                BY <2>1, <3>2 DEF Phases
            <4>2. Past(p)' => NextPc(p) = "meta"
                BY <3>2, ReturnStands DEF NextPast
            <4>3. NextPc(p) = "meta" => NextComp(p) = 1
                BY <4>1 DEF NextPc, NextComp, World
            <4> QED BY <4>2, <4>3
        <3> QED BY <3>1, <3>2 DEF Groups
    <2>7. rebuildable' = rebuildable
        BY DEF Returns
    <2> QED BY <1>2, <1>4, <2>1, <2>3, <2>4, <2>5, <2>6, <2>7 DEF Local, Encoders
<1> QED BY <1>3, <1>4

\* A return keeps the invariant.
LEMMA ReturnKeeps ==
    ASSUME IInv, NEW p \in Ranks, Return(p)
    PROVE  IInv'
<1>1. PICK g \in Groups : Returns(p, g)
    BY ReturnMoves
<1>2. TypeOK'
    <2>1. TypeOK /\ comp[p] \in Components
        BY DEF IInv, TypeOK
    <2>2. NextPc(p) \in {"build", "agree", "meta", "fill", "done", "failed"}
        BY DEF NextPc
    <2>3. NextComp(p) \in Components
        BY <2>1, Sizes DEF NextComp, Components
    <2>4. called' \in [Ranks -> BOOLEAN]
        <3>1. called \in [Ranks -> BOOLEAN] /\ called' = [called EXCEPT ![p] = FALSE] /\ FALSE \in BOOLEAN
            BY <1>1, <2>1 DEF TypeOK, Returns
        <3> QED BY <3>1, Zenon
    <2>5. pc' = [pc EXCEPT ![p] = NextPc(p)] /\ comp' = [comp EXCEPT ![p] = NextComp(p)]
        BY <1>1 DEF Returns
    <2> QED BY <1>1, <2>1, <2>2, <2>3, <2>4, <2>5 DEF TypeOK, Returns
<1>3. CollectivesMatch' /\ ~RankLocalFallback
    BY <1>1 DEF IInv, Returns, CollectivesMatch, Members, FsGroup
<1>4. \A r \in Ranks : Local(r)'
    BY <1>1, ReturnLocal
<1>5. ASSUME NEW h \in Groups, NEW r \in Ranks, NEW s \in Members(r, h)
      PROVE  Paired(r, s, h)'
    <2>1. s \in Ranks /\ r \in Members(s, h)
        BY SameMembers
    <2>2. CASE r # p /\ s # p
        BY <1>1, <2>2, ThirdParties
    <2>3. CASE h = g /\ (r = p \/ s = p)
        BY <1>1, <2>1, <2>3, ReturnSame
    <2>4. CASE h # g /\ g = "world" /\ (r = p \/ s = p)
        <3>1. h = "fs"
            BY <2>4 DEF Groups
        <3> QED BY <1>1, <2>1, <2>4, <3>1, ReturnToSharding
    <2>5. CASE h # g /\ g = "fs" /\ (r = p \/ s = p)
        <3>1. h = "world"
            BY <2>5 DEF Groups
        <3> QED BY <1>1, <2>1, <2>5, <3>1, ReturnFromSharding
    <2> QED BY <2>2, <2>3, <2>4, <2>5 DEF Groups
<1> QED BY <1>2, <1>3, <1>4, <1>5 DEF IInv, Members, FsGroup

-----------------------------------------------------------------------------
\* The invariant holds at the start.
LEMMA Start == ~RankLocalFallback /\ Init => IInv
<1> SUFFICES ASSUME ~RankLocalFallback, Init PROVE IInv
    OBVIOUS
<1>1. TypeOK
    <2>1. called \in [Ranks -> BOOLEAN]
        BY Zenon DEF Init
    <2>2. calls \in [Ranks -> [Groups -> Seq(Calls)]]
        BY DEF Init, Groups
    <2> QED BY <2>1, <2>2, Sizes DEF Init, TypeOK
<1>2. ASSUME NEW r \in Ranks
      PROVE  /\ pc[r] = "build" /\ ~called[r] /\ comp[r] = 1 /\ ~Past(r)
             /\ \A g \in Groups : calls[r][g] = <<>> /\ Done(r, g) = 0
             /\ Known(r) = {}
    <2>1. pc[r] = "build" /\ ~called[r] /\ comp[r] = 1
          /\ \A g \in Groups : calls[r][g] = <<>>
        BY DEF Init, Groups
    <2>2. \A g \in Groups : Done(r, g) = 0
        BY <2>1 DEF Done
    <2>3. ~Past(r)
        BY <2>1 DEF Past
    <2>4. Known(r) = {}
        BY <2>1, <2>3 DEF Known, KnownOf, Components
    <2> QED BY <2>1, <2>2, <2>3, <2>4
<1>3. CollectivesMatch
    BY <1>2 DEF CollectivesMatch, Groups
<1>4. ASSUME NEW r \in Ranks PROVE Local(r)
    BY <1>2 DEF Local, World, Groups
<1>5. ASSUME NEW g \in Groups, NEW r \in Ranks, NEW s \in Members(r, g) PROVE Paired(r, s, g)
    <2>1. s \in Ranks
        BY SameMembers
    <2>2. Done(r, g) = 0 /\ Done(s, g) = 0 /\ Alike(r, s, g)
        BY <1>2, <2>1 DEF Alike, Status, StatusOf, Place, PlaceOf
    <2> QED BY <2>2 DEF Paired, Lockstep
<1> QED BY <1>1, <1>3, <1>4, <1>5 DEF IInv

\* No step breaks the invariant.
LEMMA Preserved == IInv /\ [Next]_vars => IInv'
<1> SUFFICES ASSUME IInv, [Next]_vars PROVE IInv'
    OBVIOUS
<1>1. ASSUME NEW p \in Ranks, Step(p) PROVE IInv'
    BY <1>1, EntryKeeps, ReturnKeeps DEF Step
<1>2. CASE UNCHANGED vars
    <2>1. /\ pc' = pc /\ called' = called /\ comp' = comp /\ calls' = calls /\ route' = route
          /\ rebuildable' = rebuildable
        BY <1>2 DEF vars
    <2>2. TypeOK' /\ CollectivesMatch' /\ ~RankLocalFallback
        BY <2>1 DEF IInv, TypeOK, CollectivesMatch, Members, FsGroup
    <2>3. ASSUME NEW r \in Ranks PROVE Local(r)'
        <3>1. Local(r)
            BY DEF IInv
        <3> QED BY <2>1, <3>1 DEF Local, Past, Done, InPhase, Phases, World, Op, Branch, BuiltMeta,
                                   LoadsReal, Encoders, Chosen, Last, Communicator
    <2>4. ASSUME NEW g \in Groups, NEW r \in Ranks, NEW s \in Members(r, g) PROVE Paired(r, s, g)'
        <3>1. Paired(r, s, g) /\ s \in Ranks
            BY SameMembers DEF IInv
        <3>2. \A q : /\ (Past(q)' <=> Past(q)) /\ Known(q)' = Known(q)
                     /\ Status(q, g)' = Status(q, g) /\ Place(q, g)' = Place(q, g)
                     /\ Done(q, g)' = Done(q, g)
            BY <2>1 DEF Past, Known, KnownOf, Status, StatusOf, Place, PlaceOf, Done, InPhase, Phases
        <3>3. /\ NextStatus(s, g)' = NextStatus(s, g) /\ NextPlace(s, g)' = NextPlace(s, g)
              /\ NextKnown(s)' = NextKnown(s) /\ \A c : NextRoute(s, c)' = NextRoute(s, c)
            <4>1. (Raises(s)' <=> Raises(s)) /\ (AgreedRefusal(s)' <=> AgreedRefusal(s))
                  /\ (NeedsAgreement(s)' <=> NeedsAgreement(s))
                BY <2>1 DEF Raises, AgreedRefusal, NeedsAgreement, Contributions, Members, FsGroup,
                            Encoders
            <4>2. NextPc(s)' = NextPc(s) /\ NextComp(s)' = NextComp(s)
                BY <2>1, <4>1 DEF NextPc, NextComp
            <4> QED BY <2>1, <3>2, <4>1, <4>2 DEF NextStatus, StatusOf, NextPlace, PlaceOf,
                       NextKnown, KnownOf, NextPast, NextRoute
        <3>4. (Alike(r, s, g)' <=> Alike(r, s, g)) /\ (Ahead(r, s, g)' <=> Ahead(r, s, g))
            BY <2>1, <3>2, <3>3 DEF Alike, Ahead, InPhase, Phases, Members, FsGroup
        <3> QED BY <3>1, <3>2, <3>4 DEF Paired, Joined, Lockstep
    <2> QED BY <2>2, <2>3, <2>4 DEF IInv, Members, FsGroup
<1> QED BY <1>1, <1>2 DEF Next, Terminated

-----------------------------------------------------------------------------
\* The ranks that load for FSDP stay in lockstep, as long as no rank alone
\* finds an encoder not rebuildable.
THEOREM Invariance == ~RankLocalFallback /\ Spec => []IInv
<1>1. ~RankLocalFallback /\ Init => IInv
    BY Start
<1>2. IInv /\ [Next]_vars => IInv'
    BY Preserved
<1> QED BY <1>1, <1>2, PTL DEF Spec

\* The ranks of a communicator make the same collectives in the same order
\* (te_blockwise_routes and agreed_is_meta choose alike on every rank).
THEOREM RanksAgreeOnRoutes == ~RankLocalFallback /\ Spec => []CollectivesMatch
<1>1. IInv => CollectivesMatch
    BY DEF IInv
<1> QED BY <1>1, Invariance, PTL

\* No rank completes the load while another of its sharding group raised.
THEOREM LoadsTogether == ~RankLocalFallback /\ Spec => []SameOutcome
<1>1. IInv => SameOutcome
    <2> SUFFICES ASSUME IInv, NEW r \in Ranks, NEW s \in FsGroup(r), pc[r] = "done", pc[s] = "failed"
                 PROVE  FALSE
        BY DEF SameOutcome
    <2>1. /\ s \in Ranks /\ s \in Members(r, "fs") /\ r \in Members(s, "fs") /\ TypeOK
          /\ "fs" \in Groups /\ "world" \in Groups
        BY DEF IInv, Members, FsGroup, Groups
    <2>2. Past(r) /\ \A g \in Groups : ~InPhase(r, g) /\ ~InPhase(s, g)
        BY DEF Past, InPhase, Phases, World
    <2>3. \A g \in Groups : ~Ahead(r, s, g) /\ ~Ahead(s, r, g)
        BY <2>2 DEF Ahead
    <2>4. \A g \in Groups : Done(r, g) \in Int /\ Done(s, g) \in Int
        <3> TAKE g \in Groups
        <3>1. Len(calls[r][g]) \in Int /\ Len(calls[s][g]) \in Int
            BY <2>1 DEF TypeOK
        <3> QED BY <3>1 DEF Done
    <2>5. Paired(r, s, "world") /\ Paired(s, r, "world") /\ Paired(r, s, "fs") /\ Paired(s, r, "fs")
        BY <2>1 DEF IInv, Members
    <2>6. Done(r, "world") = Done(s, "world") /\ Alike(r, s, "world")
        BY <2>1, <2>3, <2>4, <2>5 DEF Paired, Joined, Lockstep
    <2>7. Past(s)
        BY <2>2, <2>6 DEF Alike, Status, StatusOf
    <2>8. Done(r, "fs") = Done(s, "fs") /\ Alike(r, s, "fs")
        BY <2>1, <2>2, <2>3, <2>4, <2>5, <2>7 DEF Paired, Joined, Lockstep
    <2> QED BY <2>8 DEF Alike, Status, StatusOf
<1> QED BY <1>1, Invariance, PTL
=============================================================================
