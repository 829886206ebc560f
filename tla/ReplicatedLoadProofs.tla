------------------------- MODULE ReplicatedLoadProofs -------------------------
(***************************************************************************)
(* The ranks that load a replicated pipeline make the same collectives and *)
(* end alike, for every number of ranks, list of components and number of  *)
(* blocks, whatever each rank finds on its own.                            *)
(*                                                                         *)
(* A broadcast lets its source go on before a peer has come, so a rank may *)
(* be many collectives ahead of another and the two cannot be compared     *)
(* directly.  The argument is instead that there is one itinerary for all: *)
(* a sequence of places that every rank goes through, the place after the  *)
(* k-th collective being decided by the values put into it.  The rank that *)
(* returns first from a collective writes the next place; a rank that      *)
(* returns later finds the same values, and so the same place.             *)
(***************************************************************************)
EXTENDS ReplicatedLoad, Integers, TLAPS

Shared   == {"real", "layout", "compare", "specs", "reconcile", "data"}
Denoiser == Shared \union {"resolve", "share", "keys", "read", "quantize"}
Encoder  == Shared \union {"materialize", "strides"}
Phases   == Denoiser \union Encoder
PhasesOf(c) == IF Kind[c] = "denoiser" THEN Denoiser ELSE Encoder

Vals  == {"ok", "bad"} \union Specs
Calls == [op : {"all_reduce", "broadcast", "all_gather"}, val : Vals]
Loose == [spec : Vals, data : {"meta", "empty", "weights", "corrupt"}, quantized : BOOLEAN]

TensorOK ==
    /\ DOMAIN tensor = Ranks
    /\ \A r \in Ranks : DOMAIN tensor[r] = Components
    /\ \A r \in Ranks, c \in Components : tensor[r][c] \in [Units(c) -> Loose]

\* Type correctness: the places of a rank, what it put into its collectives,
\* and the keys it has consumed.
TypeOK ==
    /\ pc \in [Ranks -> Phases \union {"finalize", "finish", "done", "failed"}]
    /\ called \in [Ranks -> BOOLEAN]
    /\ comp \in [Ranks -> Components]
    /\ unit \in [Ranks -> 0 .. Rest]
    /\ calls \in [Ranks -> Seq(Calls)]
    /\ used \in [Ranks -> SUBSET (0 .. Rest)]
    /\ strict \subseteq {c \in Components : Kind[c] = "denoiser"}
    /\ TensorOK

-----------------------------------------------------------------------------
(* What a rank is sure of alone *)

Local(r) ==
    /\ called[r] => pc[r] \in Phases /\ calls[r] # <<>>
    /\ pc[r] \in Phases => pc[r] \in PhasesOf(comp[r])
    /\ Kind[comp[r]] # "denoiser" => unit[r] = 0 /\ pc[r] # "finalize"
    /\ pc[r] = "quantize" => unit[r] < Rest /\ unit[r] \in used[r]
    /\ pc[r] = "finalize" => used[r] = 0 .. Rest
    /\ Kind[comp[r]] = "denoiser" /\ pc[r] \in Phases => \A u \in 0 .. Rest : u < unit[r] => u \in used[r]

-----------------------------------------------------------------------------
(* The itinerary *)

Place(phase, c, u) == [pc |-> phase, comp |-> c, unit |-> u]
Places == [pc : Phases \union {"done", "failed"}, comp : Components, unit : 0 .. Rest]
End(phase) == Place(phase, 1, 0)

\* Where a rank comes to its next collective, or ends.
AfterFinish(c) == IF c = Len(Kind) THEN End("done") ELSE Place("real", c + 1, 0)
AfterFinalize(c) == IF c \in strict /\ c \in surplus THEN End("failed") ELSE AfterFinish(c)
Onward(phase, c, u) ==
    IF phase = "finish" THEN AfterFinish(c)
    ELSE IF phase = "finalize" THEN AfterFinalize(c)
    ELSE IF phase \in {"done", "failed"} THEN End(phase)
    ELSE Place(phase, c, u)
Ahead(r) == Onward(pc[r], comp[r], unit[r])

\* Where the k-th collective, made at a place, leads.
Fails(phase, k) ==
    \/ phase \in {"resolve", "keys", "read"} /\ calls[Source][k].val = "bad"
    \/ /\ phase \in {"compare", "strides", "reconcile", "materialize", "quantize"}
       /\ \E s \in Ranks : calls[s][k].val = "bad"
Following(p, k) ==
    IF p.pc = "real" /\ {calls[s][k].val : s \in Ranks} = {"ok"} THEN "finish"
    ELSE IF p.pc = "data" /\ Kind[p.comp] = "denoiser" /\ p.unit = Rest THEN "finalize"
    ELSE AfterPhase(p.comp, p.pc)
Outcome(p, k) ==
    IF Fails(p.pc, k) THEN End("failed")
    ELSE Onward(Following(p, k), p.comp, IF p.pc = "quantize" THEN p.unit + 1 ELSE p.unit)

\* The rank has returned from its k-th collective.
Passed(r, k) == k \in 1 .. Len(calls[r]) /\ (called[r] => k < Len(calls[r]))

\* Nobody returns from a collective before its values are there.
Common(phase, k) ==
    IF Op[phase] = "broadcast" THEN k <= Len(calls[Source])
    ELSE \A s \in Ranks : k <= Len(calls[s])

Itinerary(places) ==
    /\ places \in [Nat -> Places]
    /\ places[1] = Place("real", 1, 0)
    /\ \A r \in Ranks : \A k \in 1 .. Len(calls[r]) :
            places[k].pc \in Phases /\ calls[r][k].op = Op[places[k].pc]
    /\ \A r \in Ranks : IF called[r] THEN places[Len(calls[r])] = Place(pc[r], comp[r], unit[r])
                        ELSE places[Len(calls[r]) + 1] = Ahead(r)
    /\ \A r \in Ranks, k \in Nat : Passed(r, k) =>
            Common(places[k].pc, k) /\ places[k + 1] = Outcome(places[k], k)

\* None of the properties is inductive: the itinerary is what makes them so.
IInv ==
    /\ TypeOK
    /\ \A r \in Ranks : Local(r)
    /\ \E places : Itinerary(places)

\* A step keeps the itinerary as far as the ranks have come.
Extends(old, new) == \A r \in Ranks : \A k \in 1 .. Len(calls[r]) : new[k] = old[k]
Kept ==
    /\ TypeOK'
    /\ \A r \in Ranks : Local(r)'
    /\ \A old : Itinerary(old) => \E new : Itinerary(new)' /\ Extends(old, new)

-----------------------------------------------------------------------------
\* There is a component, and the source is a rank.
LEMMA Sizes ==
    /\ Len(Kind) \in Nat \ {0} /\ 1 \in Components /\ Components \subseteq Nat
    /\ Source \in Ranks /\ Rest \in Nat /\ 0 \in 0 .. Rest
    /\ \A c \in Components : 0 \in Units(c) /\ Units(c) \subseteq 0 .. Rest
    /\ \A c \in Components : Kind[c] = "denoiser" => Units(c) = 0 .. Rest
BY KindAssumption, RanksAssumption, BlocksAssumption
   DEF Components, Source, Ranks, Rest, Units

\* The initial states satisfy the invariant.
LEMMA Initially == Init => IInv
<1> SUFFICES ASSUME Init PROVE IInv OBVIOUS
<1> USE Sizes
<1>1. TensorOK
  <2>1. PICK wired \in [Components -> BOOLEAN], spec \in Specs :
            tensor = [r \in Ranks |-> [c \in Components |->
                        [u \in Units(c) |-> Built(c, r, wired[c], spec)]]]
    BY DEF Init
  <2>2. \A c \in Components, r \in Ranks : Built(c, r, wired[c], spec) \in Loose
    BY DEF Built, Loose, Vals, Specs
  <2> QED BY <2>1, <2>2 DEF TensorOK
<1>2. TypeOK
  BY <1>1 DEF Init, TypeOK, Phases, Denoiser, Encoder, Shared
<1>3. ASSUME NEW r \in Ranks PROVE Local(r)
  BY <1>3 DEF Init, Local, PhasesOf, Denoiser, Encoder, Shared
<1>4. Itinerary([k \in Nat |-> Place("real", 1, 0)])
  BY DEF Init, Itinerary, Ahead, Onward, Place, Places, Passed, Phases, Denoiser, Encoder, Shared
<1> QED BY <1>2, <1>3, <1>4 DEF IInv

-----------------------------------------------------------------------------
(* Entering a collective *)

\* What all the actions that enter a collective do to the control.
Arrives(r) ==
    /\ pc[r] \in Phases /\ ~called[r]
    /\ called' = [called EXCEPT ![r] = TRUE]
    /\ \E v \in Vals : calls' = [calls EXCEPT ![r] = Append(@, [op |-> Op[pc[r]], val |-> v])]
    /\ used' = used \/ used' = [used EXCEPT ![r] = @ \union {unit[r]}]
    /\ UNCHANGED <<pc, comp, unit, differs, strict, surplus>>

\* The place of a rank in the weights.
LEMMA HereTyped ==
    ASSUME IInv, NEW r \in Ranks
    PROVE  /\ unit[r] \in Units(comp[r]) /\ Here(r) \in Loose
           /\ \A t \in Loose : tensor' = SetHere(r, t) => TensorOK'
<1> USE Sizes
<1>1. comp[r] \in Components /\ unit[r] \in Units(comp[r])
  BY DEF IInv, TypeOK, Local, Units
<1>2. Here(r) \in Loose
  BY <1>1 DEF IInv, TypeOK, TensorOK, Here
<1>3. ASSUME NEW t \in Loose, tensor' = SetHere(r, t) PROVE TensorOK'
  BY <1>1, <1>3 DEF IInv, TypeOK, TensorOK, SetHere
<1> QED BY <1>1, <1>2, <1>3

\* Between two collectives a rank knows what the source put into the last one.
LEMMA ReceivedTyped ==
    ASSUME IInv, NEW r \in Ranks, ~called[r], pc[r] \in Phases, pc[r] # "real"
    PROVE  Received(r) \in Vals
<1> USE Sizes
<1>1. PICK places : Itinerary(places) BY DEF IInv
<1>2. Len(calls[r]) \in Nat /\ calls[r] \in Seq(Calls) BY DEF IInv, TypeOK
<1>3. Len(calls[r]) # 0
  <2>1. places[Len(calls[r]) + 1] = Place(pc[r], comp[r], unit[r])
    BY <1>1 DEF Itinerary, Ahead, Onward, Phases, Denoiser, Encoder, Shared
  <2>2. places[1].pc = "real" BY <1>1 DEF Itinerary, Place
  <2> QED BY <2>1, <2>2, <1>2 DEF Place
<1>4. Passed(r, Len(calls[r])) BY <1>2, <1>3 DEF Passed
<1>5. Common(places[Len(calls[r])].pc, Len(calls[r])) BY <1>1, <1>2, <1>4 DEF Itinerary
<1>6. Len(calls[r]) <= Len(calls[Source]) BY <1>5 DEF Common
<1>7. calls[Source] \in Seq(Calls) BY DEF IInv, TypeOK
<1>8. calls[Source][Len(calls[r])] \in Calls BY <1>2, <1>3, <1>6, <1>7
<1> QED BY <1>8 DEF Received, Calls

\* Every action that enters a collective does so with a value, and leaves the
\* weights well formed.
LEMMA Entering ==
    ASSUME IInv, NEW r \in Ranks,
           \/ AskReal(r) \/ ResolveMap(r) \/ ShareMap(r)
           \/ SendLayout(r) \/ CompareLayout(r) \/ RequireKeys(r) \/ Read(r)
           \/ SendSpecs(r) \/ Reconcile(r) \/ Materialize(r) \/ CheckStrides(r)
           \/ SendData(r) \/ Quantize(r)
    PROVE  Arrives(r) /\ TensorOK'
<1> USE Sizes
<1>0. Here(r) \in Loose /\ Here(r).spec \in Vals /\ "ok" \in Vals /\ "bad" \in Vals
  BY HereTyped DEF Loose, Vals
<1>1. \A t \in Loose : tensor' = SetHere(r, t) => TensorOK' BY HereTyped
<1>2. tensor' = tensor => TensorOK' BY DEF IInv, TypeOK, TensorOK
<1>3. \A phase \in Phases, v \in Vals :
        Enter(r, phase, v) /\ pc' = pc /\ (used' = used \/ used' = [used EXCEPT ![r] = @ \union {unit[r]}])
            => Arrives(r)
  BY DEF Enter, Arrives
<1>p. /\ "real" \in Phases /\ "resolve" \in Phases /\ "share" \in Phases /\ "layout" \in Phases
      /\ "compare" \in Phases /\ "keys" \in Phases /\ "read" \in Phases /\ "specs" \in Phases
      /\ "reconcile" \in Phases /\ "materialize" \in Phases /\ "strides" \in Phases
      /\ "data" \in Phases /\ "quantize" \in Phases
  BY DEF Phases, Denoiser, Encoder, Shared
<1>4. CASE AskReal(r)
  BY <1>4, <1>0, <1>2, <1>3, <1>p DEF AskReal
<1>5. CASE ResolveMap(r)
  BY <1>5, <1>0, <1>2, <1>3, <1>p DEF ResolveMap, CollectiveSourceCall
<1>6. CASE ShareMap(r)
  BY <1>6, <1>0, <1>2, <1>3, <1>p DEF ShareMap
<1>7. CASE SendLayout(r)
  <2>1. Arrives(r) BY <1>7, <1>0, <1>3, <1>p DEF SendLayout
  <2>2. [Here(r) EXCEPT !.data = "empty"] \in Loose BY <1>0 DEF Loose
  <2> QED BY <1>7, <1>1, <1>2, <2>1, <2>2 DEF SendLayout
<1>8. CASE CompareLayout(r)
  BY <1>8, <1>0, <1>2, <1>3, <1>p DEF CompareLayout
<1>9. CASE RequireKeys(r)
  BY <1>9, <1>0, <1>2, <1>3, <1>p DEF RequireKeys, CollectiveSourceCall
<1>10. CASE Read(r)
  <2>1. PICK ok \in BOOLEAN, spec \in Specs :
        /\ CollectiveSourceCall(r, "read", ok)
        /\ tensor' = IF r = Source /\ ok
                     THEN SetHere(r, [Here(r) EXCEPT !.spec = spec, !.data = "weights"])
                     ELSE IF InTail(r) THEN SetHere(r, [Here(r) EXCEPT !.data = "empty"])
                     ELSE tensor
        /\ used' = IF r = Source /\ ok THEN [used EXCEPT ![r] = @ \union {unit[r]}] ELSE used
    BY <1>10 DEF Read
  <2>2. Arrives(r) BY <2>1, <1>0, <1>3, <1>p DEF CollectiveSourceCall
  <2>3. /\ [Here(r) EXCEPT !.spec = spec, !.data = "weights"] \in Loose
        /\ [Here(r) EXCEPT !.data = "empty"] \in Loose
    BY <1>0 DEF Loose, Vals
  <2> QED BY <2>1, <2>2, <2>3, <1>1, <1>2
<1>11. CASE SendSpecs(r)
  BY <1>11, <1>0, <1>2, <1>3, <1>p DEF SendSpecs
<1>12. CASE Reconcile(r)
  <2>1. PICK ok \in BOOLEAN :
        /\ CollectiveBuildCall(r, "reconcile", ok)
        /\ tensor' = IF ok THEN SetHere(r, Reconciled(r, Received(r))) ELSE tensor
        /\ UNCHANGED used
    BY <1>12 DEF Reconcile
  <2>2. Arrives(r) BY <2>1, <1>0, <1>3, <1>p DEF CollectiveBuildCall
  <2>3. Received(r) \in Vals
    BY <2>1, <1>p, ReceivedTyped DEF CollectiveBuildCall, Enter
  <2>4. Reconciled(r, Received(r)) \in Loose
    BY <2>3, <1>0 DEF Reconciled, Loose
  <2> QED BY <2>1, <2>2, <2>4, <1>1, <1>2
<1>13. CASE Materialize(r)
  <2>1. Arrives(r) BY <1>13, <1>0, <1>3, <1>p DEF Materialize, CollectiveBuildCall
  <2>2. [Here(r) EXCEPT !.data = "empty"] \in Loose BY <1>0 DEF Loose
  <2> QED BY <1>13, <1>1, <1>2, <2>1, <2>2 DEF Materialize
<1>14. CASE CheckStrides(r)
  BY <1>14, <1>0, <1>2, <1>3, <1>p DEF CheckStrides
<1>15. CASE SendData(r)
  BY <1>15, <1>0, <1>2, <1>3, <1>p DEF SendData
<1>16. CASE Quantize(r)
  <2>1. Arrives(r) BY <1>16, <1>0, <1>3, <1>p DEF Quantize, CollectiveBuildCall
  <2>2. [Here(r) EXCEPT !.quantized = TRUE] \in Loose BY <1>0 DEF Loose
  <2> QED BY <1>16, <1>1, <1>2, <2>1, <2>2 DEF Quantize
<1> QED BY <1>4, <1>5, <1>6, <1>7, <1>8, <1>9, <1>10, <1>11, <1>12, <1>13, <1>14, <1>15, <1>16

\* The itinerary already says that this is the collective of the next place.
LEMMA ArrivesItinerary ==
    ASSUME IInv, NEW r \in Ranks, Arrives(r), TensorOK', NEW places, Itinerary(places)
    PROVE  TypeOK' /\ (\A s \in Ranks : Local(s)') /\ Itinerary(places)'
<1> USE Sizes
<1>1. PICK v \in Vals : calls' = [calls EXCEPT ![r] = Append(@, [op |-> Op[pc[r]], val |-> v])]
  BY DEF Arrives
<1> DEFINE call == [op |-> Op[pc[r]], val |-> v]
<1>2. call \in Calls
  <2>1. Op[pc[r]] \in {"all_reduce", "broadcast", "all_gather"}
    BY DEF Arrives, Op, Phases, Denoiser, Encoder, Shared
  <2> QED BY <2>1 DEF Calls
<1>3. /\ calls \in [Ranks -> Seq(Calls)] /\ called \in [Ranks -> BOOLEAN]
      /\ calls[r] \in Seq(Calls) /\ Len(calls[r]) \in Nat
  BY DEF IInv, TypeOK
<1>4. calls' \in [Ranks -> Seq(Calls)] /\ calls'[r] = Append(calls[r], call)
  BY <1>1, <1>2, <1>3
<1>5. /\ Len(calls'[r]) = Len(calls[r]) + 1 /\ calls'[r][Len(calls[r]) + 1] = call
      /\ \A k \in 1 .. Len(calls[r]) : calls'[r][k] = calls[r][k]
  BY <1>2, <1>3, <1>4
<1>6. \A s \in Ranks : s # r => calls'[s] = calls[s] /\ called'[s] = called[s]
  BY <1>1, <1>3 DEF Arrives
<1>7. called'[r] = TRUE /\ called' \in [Ranks -> BOOLEAN] BY <1>3 DEF Arrives
<1>u. /\ pc' = pc /\ comp' = comp /\ unit' = unit /\ strict' = strict /\ surplus' = surplus
      /\ used' = used \/ used' = [used EXCEPT ![r] = @ \union {unit[r]}]
  BY DEF Arrives
<1>v. used \in [Ranks -> SUBSET (0 .. Rest)] /\ unit \in [Ranks -> 0 .. Rest] BY DEF IInv, TypeOK
<1>w. used' \in [Ranks -> SUBSET (0 .. Rest)] BY <1>u, <1>v
<1>8. TypeOK'
  BY <1>4, <1>7, <1>u, <1>w DEF IInv, TypeOK
<1>9. ASSUME NEW s \in Ranks PROVE Local(s)'
  <2>1. used[s] \subseteq used'[s] /\ used'[s] \subseteq 0 .. Rest
    BY <1>u, <1>v, <1>w
  <2>2. Local(s) /\ calls[s] \in Seq(Calls) BY <1>3 DEF IInv
  <2>3. called'[s] => pc[s] \in Phases /\ calls'[s] # <<>>
    <3>1. CASE s = r
      <4>1. pc[r] \in Phases BY DEF Arrives
      <4>2. calls'[r] # <<>> BY <1>3, <1>5
      <4> QED BY <3>1, <4>1, <4>2
    <3>2. CASE s # r BY <3>2, <1>6, <2>2 DEF Local
    <3> QED BY <3>1, <3>2
  <2> QED BY <2>1, <2>2, <2>3 DEF Local, Arrives
<1>10. Itinerary(places) OBVIOUS
<1>11. places[Len(calls[r]) + 1] = Place(pc[r], comp[r], unit[r])
  BY <1>10 DEF Itinerary, Ahead, Onward, Arrives, Phases, Denoiser, Encoder, Shared
<1>12. \A s \in Ranks, k \in Nat : Passed(s, k)' <=> Passed(s, k)
  <2> SUFFICES ASSUME NEW s \in Ranks, NEW k \in Nat PROVE Passed(s, k)' <=> Passed(s, k)
    OBVIOUS
  <2>1. CASE s = r BY <2>1, <1>3, <1>5, <1>7 DEF Passed, Arrives
  <2>2. CASE s # r BY <2>2, <1>6 DEF Passed
  <2> QED BY <2>1, <2>2
<1>13. ASSUME NEW s \in Ranks, NEW k \in 1 .. Len(calls[s])
       PROVE  k \in 1 .. Len(calls'[s]) /\ calls'[s][k] = calls[s][k]
  <2>1. CASE s = r BY <2>1, <1>3, <1>5
  <2>2. CASE s # r BY <2>2, <1>6
  <2> QED BY <2>1, <2>2
<1>14. ASSUME NEW s \in Ranks, NEW k \in Nat, Passed(s, k)
       PROVE  Common(places[k].pc, k)' /\ places[k + 1] = Outcome(places[k], k)'
  <2>1. Common(places[k].pc, k) /\ places[k + 1] = Outcome(places[k], k)
    BY <1>10, <1>14 DEF Itinerary
  <2>2. k \in 1 .. Len(calls[s]) /\ places[k].pc \in Phases BY <1>10, <1>14 DEF Itinerary, Passed
  <2>3. Common(places[k].pc, k)'
    BY <2>1, <2>2, <1>13, <1>3 DEF Common
  <2>4. Fails(places[k].pc, k)' <=> Fails(places[k].pc, k)
    <3>1. CASE places[k].pc \in {"resolve", "keys", "read"}
      <4>1. k \in 1 .. Len(calls[Source]) BY <3>1, <2>1, <2>2 DEF Common, Op
      <4> QED BY <3>1, <4>1, <1>13 DEF Fails
    <3>2. CASE places[k].pc \in {"compare", "strides", "reconcile", "materialize", "quantize"}
      <4>1. \A t \in Ranks : k \in 1 .. Len(calls[t]) BY <3>2, <2>1, <2>2 DEF Common, Op
      <4> QED BY <3>2, <4>1, <1>13 DEF Fails
    <3> QED BY <3>1, <3>2 DEF Fails
  <2>5. Following(places[k], k)' = Following(places[k], k)
    <3>1. CASE places[k].pc = "real"
      <4>1. \A t \in Ranks : k \in 1 .. Len(calls[t]) BY <3>1, <2>1, <2>2 DEF Common, Op
      <4>2. \A t \in Ranks : calls'[t][k].val = calls[t][k].val BY <4>1, <1>13
      <4>3. {calls'[t][k].val : t \in Ranks} = {calls[t][k].val : t \in Ranks} BY <4>2
      <4> QED BY <3>1, <4>3 DEF Following
    <3>2. CASE places[k].pc # "real" BY <3>2 DEF Following
    <3> QED BY <3>1, <3>2
  <2>6. strict' = strict /\ surplus' = surplus BY DEF Arrives
  <2>7. \A f, c, u : Onward(f, c, u)' = Onward(f, c, u)
    BY <2>6 DEF Onward, AfterFinalize, AfterFinish
  <2>8. Outcome(places[k], k)' = Outcome(places[k], k)
    BY <2>4, <2>5, <2>7 DEF Outcome
  <2> QED BY <2>1, <2>3, <2>8
<1>15. ASSUME NEW s \in Ranks, NEW k \in 1 .. Len(calls'[s])
       PROVE  places[k].pc \in Phases /\ calls'[s][k].op = Op[places[k].pc]
  <2>1. CASE k \in 1 .. Len(calls[s]) BY <2>1, <1>10, <1>13 DEF Itinerary
  <2>2. CASE k \notin 1 .. Len(calls[s])
    <3>1. s = r /\ k = Len(calls[r]) + 1 BY <2>2, <1>15, <1>3, <1>5, <1>6
    <3>2. places[k].pc = pc[r] BY <3>1, <1>11 DEF Place
    <3> QED BY <3>1, <3>2, <1>5 DEF Arrives
  <2> QED BY <2>1, <2>2
<1>16. ASSUME NEW s \in Ranks
       PROVE  IF called'[s] THEN places[Len(calls'[s])] = Place(pc'[s], comp'[s], unit'[s])
              ELSE places[Len(calls'[s]) + 1] = Ahead(s)'
  <2>1. CASE s = r BY <2>1, <1>5, <1>7, <1>11 DEF Arrives
  <2>2. CASE s # r
    <3>1. Ahead(s)' = Ahead(s)
      BY DEF Ahead, Onward, AfterFinalize, AfterFinish, Arrives
    <3> QED BY <2>2, <3>1, <1>6, <1>10 DEF Itinerary, Arrives
  <2> QED BY <2>1, <2>2
<1>17. Itinerary(places)'
  <2>1. places \in [Nat -> Places] /\ places[1] = Place("real", 1, 0) BY <1>10 DEF Itinerary
  <2> QED BY <2>1, <1>12, <1>14, <1>15, <1>16 DEF Itinerary
<1> QED BY <1>8, <1>9, <1>17

\* Entering a collective keeps the invariant.
LEMMA ArrivesKeeps ==
    ASSUME IInv, NEW r \in Ranks, Arrives(r), TensorOK'
    PROVE  Kept
<1>1. PICK old : Itinerary(old) BY DEF IInv
<1>2. TypeOK' /\ (\A s \in Ranks : Local(s)') BY <1>1, ArrivesItinerary
<1>3. ASSUME NEW places, Itinerary(places) PROVE Itinerary(places)' /\ Extends(places, places)
  BY <1>3, ArrivesItinerary DEF Extends
<1> QED BY <1>2, <1>3 DEF Kept

-----------------------------------------------------------------------------
(* Returning from a collective *)

\* What the collective of a rank says, the itinerary says too.
LEMMA ReturnsOnward ==
    ASSUME IInv, NEW r \in Ranks, Return(r), NEW places, Itinerary(places)
    PROVE  LET k == Len(calls[r]) IN
           /\ k \in 1 .. Len(calls[r]) /\ places[k] = Place(pc[r], comp[r], unit[r])
           /\ Common(places[k].pc, k)
           /\ Ahead(r)' = Outcome(places[k], k)
<1> USE Sizes
<1> DEFINE k == Len(calls[r])
<1>1. /\ called[r] /\ Returned(r) /\ pc[r] \in PhasesOf(comp[r]) /\ comp[r] \in Components
      /\ calls[r] \in Seq(Calls) /\ calls[r] # <<>> /\ pc[r] \in Phases
      /\ pc \in [Ranks -> Phases \union {"finalize", "finish", "done", "failed"}]
      /\ unit \in [Ranks -> 0 .. Rest]
  BY DEF IInv, TypeOK, Local, Return
<1>2. k \in 1 .. Len(calls[r]) BY <1>1
<1>3. places[k] = Place(pc[r], comp[r], unit[r]) BY <1>1 DEF Itinerary
<1>4. /\ places[k].pc = pc[r] /\ places[k].comp = comp[r] /\ places[k].unit = unit[r]
  BY <1>3 DEF Place
<1>5. calls[r][k].op = Op[pc[r]] BY <1>2, <1>4 DEF Itinerary
<1>6. Common(pc[r], k) BY <1>1, <1>5 DEF Returned, Met, Common
<1>7. Fails(pc[r], k) <=> Raises(r)
  BY DEF Fails, Raises, Received, Contributions
<1>8. strict' = strict /\ surplus' = surplus /\ comp' = comp BY DEF Return
<1>9. \A f, c, u : Onward(f, c, u)' = Onward(f, c, u)
  BY <1>8 DEF Onward, AfterFinalize, AfterFinish
<1>10. CASE Raises(r)
  <2>1. pc'[r] = "failed" BY <1>1, <1>10 DEF Return
  <2>2. Ahead(r)' = End("failed") BY <2>1 DEF Ahead, Onward
  <2> QED BY <2>2, <1>2, <1>3, <1>4, <1>6, <1>7, <1>10 DEF Outcome
<1>11. CASE ~Raises(r)
  <2>1. /\ pc'[r] = (IF Skips(r) THEN "finish"
                     ELSE IF pc[r] = "data" /\ InTail(r) THEN "finalize"
                     ELSE AfterPhase(comp[r], pc[r]))
        /\ unit'[r] = NextUnit(r)
    BY <1>1, <1>11 DEF Return
  <2>2. pc'[r] = Following(places[k], k)
    BY <2>1, <1>4 DEF Skips, Contributions, InTail, Following
  <2>3. Ahead(r)' = Onward(pc'[r], comp[r], unit'[r])
    BY <1>8 DEF Ahead, Onward, AfterFinalize, AfterFinish
  <2>4. unit'[r] = IF places[k].pc = "quantize" THEN places[k].unit + 1 ELSE places[k].unit
    BY <2>1, <1>4 DEF NextUnit
  <2>5. Outcome(places[k], k) = Onward(pc'[r], comp[r], unit'[r])
    BY <2>2, <2>4, <1>4, <1>7, <1>11 DEF Outcome
  <2> QED BY <2>3, <2>5, <1>2, <1>3, <1>4, <1>6
<1> QED BY <1>10, <1>11

\* Alone, a rank that returns is again sure of what it needs.
LEMMA ReturnLocal ==
    ASSUME IInv, NEW r \in Ranks, Return(r)
    PROVE  /\ TypeOK' /\ \A s \in Ranks : Local(s)'
           /\ Ahead(r)' \in Places
<1> USE Sizes
<1>0. /\ pc \in [Ranks -> Phases \union {"finalize", "finish", "done", "failed"}]
      /\ called \in [Ranks -> BOOLEAN] /\ unit \in [Ranks -> 0 .. Rest]
      /\ used \in [Ranks -> SUBSET (0 .. Rest)] /\ comp \in [Ranks -> Components]
      /\ calls \in [Ranks -> Seq(Calls)] /\ strict \subseteq {c \in Components : Kind[c] = "denoiser"}
      /\ \A s \in Ranks : Local(s)
  BY DEF IInv, TypeOK
<1>1. /\ called[r] /\ called' = [called EXCEPT ![r] = FALSE]
      /\ comp' = comp /\ calls' = calls /\ strict' = strict /\ surplus' = surplus
  BY DEF Return
<1>2. pc[r] \in PhasesOf(comp[r]) BY <1>0, <1>1 DEF Local
<1>3. CASE Raises(r)
  <2>1. pc' = [pc EXCEPT ![r] = "failed"] /\ unit' = unit /\ used' = used /\ tensor' = tensor
    BY <1>3 DEF Return
  <2>2. TypeOK' BY <2>1, <1>0, <1>1 DEF IInv, TypeOK, TensorOK
  <2>3. ASSUME NEW s \in Ranks PROVE Local(s)'
    <3>1. Local(s) BY <1>0
    <3>2. CASE s = r
      <4>1. pc'[r] = "failed" /\ ~called'[r] BY <1>0, <1>1, <2>1
      <4>2. /\ "failed" \notin Phases /\ "failed" # "quantize" /\ "failed" # "finalize"
        BY DEF Phases, Denoiser, Encoder, Shared
      <4> QED BY <3>1, <3>2, <4>1, <4>2, <1>1, <2>1 DEF Local
    <3>3. CASE s # r
      <4>1. pc'[s] = pc[s] /\ called'[s] = called[s] BY <3>3, <2>1, <1>1, <1>0
      <4> QED BY <3>1, <4>1, <1>1, <2>1 DEF Local
    <3> QED BY <3>2, <3>3
  <2>4. Ahead(r)' = End("failed") BY <2>1, <1>0 DEF Ahead, Onward
  <2> QED BY <2>2, <2>3, <2>4 DEF End, Place, Places
<1>4. CASE ~Raises(r)
  <2>1. /\ pc' = [pc EXCEPT ![r] = IF Skips(r) THEN "finish"
                                   ELSE IF pc[r] = "data" /\ InTail(r) THEN "finalize"
                                   ELSE AfterPhase(comp[r], pc[r])]
        /\ unit' = [unit EXCEPT ![r] = NextUnit(r)]
        /\ tensor' = SetHere(r, Arrived(r))
        /\ used' = [used EXCEPT ![r] = Retired(r)]
    BY <1>4 DEF Return
  <2>2. TensorOK'
    <3>1. Arrived(r) \in Loose BY HereTyped DEF Arrived, Loose
    <3> QED BY <3>1, <2>1, HereTyped
  <2>3. NextUnit(r) \in 0 .. Rest
    BY <1>0 DEF NextUnit, Local
  <2>4. Retired(r) \in SUBSET (0 .. Rest) /\ used[r] \subseteq Retired(r)
    BY <1>0 DEF Retired
  <2>5. /\ pc'[r] = "finish" \/ pc'[r] = "finalize" \/ pc'[r] \in PhasesOf(comp[r])
        /\ pc'[r] = "finalize" => Kind[comp[r]] = "denoiser" /\ pc[r] = "data" /\ unit[r] = Rest
        /\ pc'[r] = "quantize" => Kind[comp[r]] = "denoiser" /\ pc[r] = "data" /\ unit[r] # Rest
    <3>1. CASE Kind[comp[r]] = "denoiser"
      BY <3>1, <2>1, <1>0, <1>2 DEF PhasesOf, Denoiser, Shared, AfterPhase, InTail, Skips
    <3>2. CASE Kind[comp[r]] # "denoiser"
      BY <3>2, <2>1, <1>0, <1>2 DEF PhasesOf, Encoder, Shared, AfterPhase, InTail, Skips
    <3> QED BY <3>1, <3>2
  <2>6. PhasesOf(comp[r]) \subseteq Phases BY DEF PhasesOf, Phases
  <2>7. TypeOK'
    <3>1. pc' \in [Ranks -> Phases \union {"finalize", "finish", "done", "failed"}]
      BY <2>1, <2>5, <2>6, <1>0
    <3>2. unit' \in [Ranks -> 0 .. Rest] /\ used' \in [Ranks -> SUBSET (0 .. Rest)]
          /\ called' \in [Ranks -> BOOLEAN]
      BY <2>1, <2>3, <2>4, <1>0, <1>1
    <3> QED BY <3>1, <3>2, <2>2, <1>0, <1>1 DEF TypeOK
  <2>8. ASSUME NEW s \in Ranks PROVE Local(s)'
    <3>1. Local(s) BY <1>0
    <3>2. CASE s = r
      <4>1. ~called'[r] /\ unit'[r] = NextUnit(r) /\ used'[r] = Retired(r)
        BY <1>0, <1>1, <2>1
      <4>2. Kind[comp[r]] # "denoiser" => unit'[r] = 0 /\ pc'[r] # "finalize"
        <5>1. Kind[comp[r]] # "denoiser" => pc[r] # "quantize"
          BY <1>2 DEF PhasesOf, Encoder, Shared
        <5> QED BY <3>1, <3>2, <4>1, <5>1, <2>5 DEF Local, NextUnit
      <4>3. pc[r] = "data" /\ Kind[comp[r]] = "denoiser" => unit[r] \in Retired(r)
        BY DEF Retired
      <4>4. Kind[comp[r]] = "denoiser" => \A u \in 0 .. Rest : u < unit'[r] => u \in used'[r]
        <5> SUFFICES ASSUME Kind[comp[r]] = "denoiser", NEW u \in 0 .. Rest, u < unit'[r]
                     PROVE  u \in used'[r]
          OBVIOUS
        <5>1. \A x \in 0 .. Rest : x < unit[r] => x \in used[r]
          BY <3>1, <3>2, <1>2, <2>6 DEF Local
        <5>2. u < unit[r] \/ (u = unit[r] /\ pc[r] = "quantize")
          BY <4>1, <1>0 DEF NextUnit
        <5> QED BY <5>1, <5>2, <4>1, <2>4, <3>1, <3>2 DEF Local
      <4>5. pc'[r] = "quantize" => unit'[r] < Rest /\ unit'[r] \in used'[r]
        BY <2>5, <4>1, <4>3, <1>0 DEF NextUnit
      <4>6. pc'[r] = "finalize" => used'[r] = 0 .. Rest
        <5> SUFFICES ASSUME pc'[r] = "finalize" PROVE 0 .. Rest \subseteq used'[r]
          BY <4>1, <2>4
        <5>1. unit'[r] = Rest /\ Rest \in used'[r] BY <2>5, <4>1, <4>3 DEF NextUnit
        <5> QED BY <5>1, <4>4, <2>5
      <4>7. /\ "finish" \notin Phases /\ "finalize" \notin Phases
        BY DEF Phases, Denoiser, Encoder, Shared
      <4> QED BY <3>2, <4>1, <4>2, <4>4, <4>5, <4>6, <4>7, <2>5, <1>1 DEF Local
    <3>3. CASE s # r
      <4>1. pc'[s] = pc[s] /\ called'[s] = called[s] /\ unit'[s] = unit[s] /\ used'[s] = used[s]
        BY <3>3, <2>1, <1>1, <1>0
      <4> QED BY <3>1, <4>1, <1>1 DEF Local
    <3> QED BY <3>2, <3>3
  <2>9. Ahead(r)' \in Places
    <3>1. pc'[r] \in {"finish", "finalize"} \union Phases /\ comp'[r] \in Components /\ unit'[r] \in 0 .. Rest
      BY <2>5, <2>6, <2>7 DEF TypeOK
    <3>2. \A f, c, u : f \in Phases \union {"done", "failed"} /\ c \in Components /\ u \in 0 .. Rest
                        => Place(f, c, u) \in Places
      BY DEF Place, Places
    <3>3. "real" \in Phases BY DEF Phases, Denoiser, Encoder, Shared
    <3>4. AfterFinish(comp[r]) \in Places
      <4>1. comp[r] \in Components BY <1>0
      <4>2. CASE comp[r] = Len(Kind) BY <4>2, <3>2 DEF AfterFinish, End
      <4>3. CASE comp[r] # Len(Kind)
        <5>1. comp[r] + 1 \in Components BY <4>1, <4>3 DEF Components
        <5> QED BY <4>3, <5>1, <3>2, <3>3 DEF AfterFinish
      <4> QED BY <4>2, <4>3
    <3>5. AfterFinalize(comp[r])' \in Places /\ AfterFinish(comp[r])' \in Places
      BY <3>2, <3>4, <1>1 DEF AfterFinalize, AfterFinish, End
    <3>6. CASE pc'[r] = "finish" BY <3>5, <3>6, <1>1 DEF Ahead, Onward
    <3>7. CASE pc'[r] = "finalize" BY <3>5, <3>7, <1>1 DEF Ahead, Onward
    <3>8. CASE pc'[r] \in Phases
      <4>1. pc'[r] \notin {"finish", "finalize", "done", "failed"}
        BY <3>8 DEF Phases, Denoiser, Encoder, Shared
      <4> QED BY <3>1, <3>2, <3>8, <4>1 DEF Ahead, Onward
    <3> QED BY <3>1, <3>6, <3>7, <3>8
  <2> QED BY <2>7, <2>8, <2>9
<1> QED BY <1>3, <1>4

\* The first rank that returns writes the next place of the itinerary, the
\* others find it as they need it.
LEMMA ReturnKeeps ==
    ASSUME IInv, NEW r \in Ranks, Return(r)
    PROVE  Kept
<1> USE Sizes
<1>1. TypeOK' /\ (\A s \in Ranks : Local(s)') /\ Ahead(r)' \in Places BY ReturnLocal
<1> SUFFICES ASSUME NEW old, Itinerary(old)
             PROVE  \E new : Itinerary(new)' /\ Extends(old, new)
  BY <1>1 DEF Kept
<1>2. Itinerary(old) OBVIOUS
<1>a. PICK k, next, places : /\ k = Len(calls[r]) /\ next = Ahead(r)'
                             /\ places = [old EXCEPT ![k + 1] = next]
  OBVIOUS
<1>3. /\ k \in 1 .. Len(calls[r]) /\ old[k] = Place(pc[r], comp[r], unit[r])
      /\ Common(old[k].pc, k) /\ Ahead(r)' = Outcome(old[k], k)
  BY <1>2, <1>a, ReturnsOnward
<1>4. /\ calls' = calls /\ comp' = comp /\ strict' = strict /\ surplus' = surplus
      /\ called[r] /\ called' = [called EXCEPT ![r] = FALSE]
      /\ \A s \in Ranks : s # r => pc'[s] = pc[s] /\ unit'[s] = unit[s] /\ called'[s] = called[s]
      /\ called'[r] = FALSE
  <2>1. /\ called \in [Ranks -> BOOLEAN] /\ unit \in [Ranks -> 0 .. Rest]
        /\ pc \in [Ranks -> Phases \union {"finalize", "finish", "done", "failed"}]
    BY DEF IInv, TypeOK
  <2> QED BY <2>1 DEF Return
<1>5. /\ old \in [Nat -> Places] /\ \A s \in Ranks : Len(calls[s]) \in Nat
  BY <1>2 DEF Itinerary, IInv, TypeOK
<1>6. /\ k + 1 \in Nat /\ k \in Nat /\ k # 0 /\ places \in [Nat -> Places] /\ places[k + 1] = Ahead(r)'
      /\ \A j \in Nat : j # k + 1 => places[j] = old[j]
  BY <1>1, <1>3, <1>5, <1>a
<1>7. ASSUME NEW s \in Ranks, Passed(s, k)
      PROVE  places[k + 1] = old[k + 1]
  BY <1>7, <1>6, <1>3, <1>2 DEF Itinerary
<1>8. \A s \in Ranks : ~called[s] /\ Len(calls[s]) = k => Passed(s, k) BY <1>3, <1>6 DEF Passed
<1>9. \A s \in Ranks : Len(calls[s]) > k => Passed(s, k) BY <1>5, <1>6 DEF Passed
\* Whatever place anybody relies on is the same in both.
<1>10. ASSUME NEW s \in Ranks, NEW j \in 1 .. Len(calls[s]) PROVE places[j] = old[j]
  <2>1. CASE j # k + 1 BY <2>1, <1>6
  <2>2. CASE j = k + 1
    <3>1. Len(calls[s]) > k BY <2>2, <1>5, <1>6
    <3> QED BY <2>2, <3>1, <1>7, <1>9
  <2> QED BY <2>1, <2>2
<1>11. ASSUME NEW s \in Ranks, NEW j \in Nat, Passed(s, j)
       PROVE  places[j] = old[j] /\ places[j + 1] = old[j + 1]
  <2>0. j \in 1 .. Len(calls[s]) BY <1>11 DEF Passed
  <2>1. places[j] = old[j] BY <2>0, <1>10
  <2>2. CASE j = k BY <2>2, <1>7, <1>11, <2>1
  <2>3. CASE j # k BY <2>3, <2>1, <1>6
  <2> QED BY <2>1, <2>2, <2>3
<1>12. places[1] = Place("real", 1, 0) BY <1>2, <1>6 DEF Itinerary
<1>13. ASSUME NEW s \in Ranks, NEW j \in 1 .. Len(calls'[s])
       PROVE  places[j].pc \in Phases /\ calls'[s][j].op = Op[places[j].pc]
  BY <1>2, <1>4, <1>10 DEF Itinerary
<1>14. ASSUME NEW s \in Ranks
       PROVE  IF called'[s] THEN places[Len(calls'[s])] = Place(pc'[s], comp'[s], unit'[s])
              ELSE places[Len(calls'[s]) + 1] = Ahead(s)'
  <2>1. CASE s = r BY <2>1, <1>4, <1>6, <1>a
  <2>2. CASE s # r
    <3>1. Ahead(s)' = Ahead(s)
      BY <2>2, <1>4 DEF Ahead, Onward, AfterFinalize, AfterFinish
    <3>2. CASE called[s]
      <4>1. Len(calls[s]) \in 1 .. Len(calls[s])
        <5>1. calls[s] # <<>> /\ calls[s] \in Seq(Calls) BY <3>2 DEF IInv, TypeOK, Local
        <5> QED BY <5>1
      <4> QED BY <2>2, <3>2, <4>1, <1>2, <1>4, <1>10 DEF Itinerary
    <3>3. CASE ~called[s]
      <4>1. old[Len(calls[s]) + 1] = Ahead(s) BY <3>3, <1>2 DEF Itinerary
      <4>2. places[Len(calls[s]) + 1] = old[Len(calls[s]) + 1]
        <5>1. CASE Len(calls[s]) = k BY <5>1, <3>3, <1>7, <1>8
        <5>2. CASE Len(calls[s]) # k BY <5>2, <1>5, <1>6
        <5> QED BY <5>1, <5>2
      <4> QED BY <2>2, <3>1, <3>3, <4>1, <4>2, <1>4
    <3> QED BY <3>2, <3>3
  <2> QED BY <2>1, <2>2
<1>15. \A p, j : Outcome(p, j)' = Outcome(p, j)
  BY <1>4 DEF Outcome, Fails, Following, Onward, AfterFinalize, AfterFinish
<1>16. \A p, j : Common(p, j)' = Common(p, j) BY <1>4 DEF Common
<1>17. ASSUME NEW s \in Ranks, NEW j \in Nat, Passed(s, j)'
       PROVE  Common(places[j].pc, j)' /\ places[j + 1] = Outcome(places[j], j)'
  <2>1. CASE Passed(s, j)
    <3>1. Common(old[j].pc, j) /\ old[j + 1] = Outcome(old[j], j) BY <2>1, <1>2 DEF Itinerary
    <3> QED BY <2>1, <3>1, <1>11, <1>15, <1>16
  <2>2. CASE ~Passed(s, j)
    <3>1. s = r /\ j = k BY <2>2, <1>17, <1>4, <1>5, <1>6, <1>a DEF Passed
    <3>2. places[k] = old[k] BY <1>3, <1>10
    <3> QED BY <3>1, <3>2, <1>3, <1>6, <1>15, <1>16
  <2> QED BY <2>1, <2>2
<1>18. Itinerary(places)'
  BY <1>6, <1>12, <1>13, <1>14, <1>17 DEF Itinerary
<1> QED BY <1>10, <1>18 DEF Extends

-----------------------------------------------------------------------------
(* Between the collectives *)

\* The end of a fill and the next component need no collective and lead where
\* the itinerary goes: every rank has consumed the same keys.
LEMMA OnKeeps ==
    ASSUME IInv, NEW r \in Ranks, Finalize(r) \/ NextComponent(r)
    PROVE  Kept
<1> USE Sizes
<1>0. /\ pc \in [Ranks -> Phases \union {"finalize", "finish", "done", "failed"}]
      /\ called \in [Ranks -> BOOLEAN] /\ unit \in [Ranks -> 0 .. Rest]
      /\ used \in [Ranks -> SUBSET (0 .. Rest)] /\ comp \in [Ranks -> Components]
      /\ calls \in [Ranks -> Seq(Calls)] /\ strict \subseteq {c \in Components : Kind[c] = "denoiser"}
      /\ TensorOK /\ \A s \in Ranks : Local(s)
  BY DEF IInv, TypeOK
<1>1. /\ called' = called /\ calls' = calls /\ tensor' = tensor
      /\ strict' = strict /\ surplus' = surplus
      /\ \A s \in Ranks : s # r => /\ pc'[s] = pc[s] /\ comp'[s] = comp[s]
                                   /\ unit'[s] = unit[s] /\ used'[s] = used[s]
  BY <1>0 DEF Finalize, NextComponent
<1>2. ~called[r]
  <2>1. "finalize" \notin Phases /\ "finish" \notin Phases BY DEF Phases, Denoiser, Encoder, Shared
  <2> QED BY <2>1, <1>0 DEF Local, Finalize, NextComponent
<1>3. TypeOK' /\ Local(r)' /\ Ahead(r)' = Ahead(r)
  <2>0. /\ "real" \in Phases /\ "real" \in PhasesOf(comp'[r])
        /\ {"finalize", "finish", "done", "failed"} \intersect Phases = {}
    BY DEF Phases, PhasesOf, Denoiser, Encoder, Shared
  <2>1. CASE Finalize(r)
    <3>1. /\ pc[r] = "finalize" /\ used[r] = 0 .. Rest /\ Units(comp[r]) = 0 .. Rest
      BY <2>1, <1>0 DEF Finalize, Local
    <3>2. UnusedKeys(r) = {} <=> comp[r] \notin surplus
      BY <3>1 DEF UnusedKeys
    <3>3. pc' = [pc EXCEPT ![r] = IF comp[r] \in strict /\ comp[r] \in surplus THEN "failed" ELSE "finish"]
          /\ comp' = comp /\ unit' = unit /\ used' = used
      BY <2>1, <3>2 DEF Finalize
    <3>4. pc'[r] = (IF comp[r] \in strict /\ comp[r] \in surplus THEN "failed" ELSE "finish")
      BY <3>3, <1>0
    <3>5. TypeOK' BY <3>3, <1>0, <1>1 DEF TypeOK, TensorOK
    <3>6. Local(r)'
      BY <3>3, <3>4, <2>0, <1>0, <1>1, <1>2 DEF Local
    <3>7. Ahead(r)' = Ahead(r)
      BY <3>1, <3>3, <3>4, <1>1 DEF Ahead, Onward, AfterFinalize, AfterFinish
    <3> QED BY <3>5, <3>6, <3>7
  <2>2. CASE NextComponent(r) /\ comp[r] = Len(Kind)
    <3>1. pc[r] = "finish" /\ pc' = [pc EXCEPT ![r] = "done"] /\ comp' = comp /\ unit' = unit /\ used' = used
      BY <2>2 DEF NextComponent
    <3>2. pc'[r] = "done" BY <3>1, <1>0
    <3>3. TypeOK' BY <3>1, <1>0, <1>1 DEF TypeOK, TensorOK
    <3>4. Local(r)' BY <3>1, <3>2, <2>0, <1>0, <1>1, <1>2 DEF Local
    <3>5. Ahead(r)' = Ahead(r)
      BY <3>1, <3>2, <2>2, <1>1 DEF Ahead, Onward, AfterFinalize, AfterFinish
    <3> QED BY <3>3, <3>4, <3>5
  <2>3. CASE NextComponent(r) /\ comp[r] # Len(Kind)
    <3>1. /\ pc[r] = "finish" /\ pc' = [pc EXCEPT ![r] = "real"]
          /\ comp' = [comp EXCEPT ![r] = @ + 1] /\ unit' = [unit EXCEPT ![r] = 0]
          /\ used' = [used EXCEPT ![r] = {}]
      BY <2>3 DEF NextComponent
    <3>2. comp[r] + 1 \in Components BY <2>3, <1>0 DEF Components
    <3>3. pc'[r] = "real" /\ comp'[r] = comp[r] + 1 /\ unit'[r] = 0 /\ used'[r] = {}
      BY <3>1, <1>0
    <3>4. TypeOK'
      <4>1. /\ pc' \in [Ranks -> Phases \union {"finalize", "finish", "done", "failed"}]
            /\ comp' \in [Ranks -> Components] /\ unit' \in [Ranks -> 0 .. Rest]
            /\ used' \in [Ranks -> SUBSET (0 .. Rest)]
        BY <3>1, <3>2, <2>0, <1>0
      <4> QED BY <4>1, <1>0, <1>1 DEF TypeOK, TensorOK
    <3>5. Local(r)' BY <3>3, <2>0, <1>1, <1>2 DEF Local
    <3>6. Ahead(r)' = Ahead(r)
      BY <3>1, <3>3, <2>3, <1>1 DEF Ahead, Onward, AfterFinalize, AfterFinish
    <3> QED BY <3>4, <3>5, <3>6
  <2> QED BY <2>1, <2>2, <2>3
<1>4. ASSUME NEW s \in Ranks PROVE Local(s)'
  <2>1. CASE s = r BY <2>1, <1>3
  <2>2. CASE s # r
    <3>1. Local(s) BY <1>0
    <3> QED BY <2>2, <3>1, <1>1 DEF Local
  <2> QED BY <2>1, <2>2
<1> SUFFICES ASSUME NEW places, Itinerary(places) PROVE Itinerary(places)'
  BY <1>3, <1>4 DEF Kept, Extends
<1>5. Itinerary(places) OBVIOUS
<1>6. ASSUME NEW s \in Ranks PROVE Ahead(s)' = Ahead(s)
  BY <1>1, <1>3 DEF Ahead, Onward, AfterFinalize, AfterFinish
<1>7. /\ \A p, j : Outcome(p, j)' = Outcome(p, j)
      /\ \A p, j : Common(p, j)' = Common(p, j)
      /\ \A s, j : Passed(s, j)' = Passed(s, j)
  BY <1>1 DEF Outcome, Fails, Following, Onward, AfterFinalize, AfterFinish, Common, Passed
<1>8. ASSUME NEW s \in Ranks
      PROVE  IF called'[s] THEN places[Len(calls'[s])] = Place(pc'[s], comp'[s], unit'[s])
             ELSE places[Len(calls'[s]) + 1] = Ahead(s)'
  BY <1>1, <1>2, <1>5, <1>6 DEF Itinerary
<1>9. Itinerary(places)'
  BY <1>1, <1>5, <1>7, <1>8 DEF Itinerary
<1> QED BY <1>9

-----------------------------------------------------------------------------
(* The theorems *)

\* Every step keeps the invariant, and with it the itinerary so far.
LEMMA StepKeeps == ASSUME IInv, [Next]_vars PROVE Kept
<1>1. ASSUME NEW r \in Ranks, Step(r) PROVE Kept
  <2>1. CASE \/ AskReal(r) \/ ResolveMap(r) \/ ShareMap(r)
             \/ SendLayout(r) \/ CompareLayout(r) \/ RequireKeys(r) \/ Read(r)
             \/ SendSpecs(r) \/ Reconcile(r) \/ Materialize(r) \/ CheckStrides(r)
             \/ SendData(r) \/ Quantize(r)
    BY <2>1, Entering, ArrivesKeeps
  <2>2. CASE Return(r) BY <2>2, ReturnKeeps
  <2>3. CASE Finalize(r) \/ NextComponent(r) BY <2>3, OnKeeps
  <2> QED BY <1>1, <2>1, <2>2, <2>3 DEF Step
<1>2. CASE UNCHANGED vars
  <2>1. TypeOK' BY <1>2 DEF IInv, TypeOK, TensorOK, vars
  <2>2. ASSUME NEW s \in Ranks PROVE Local(s)' BY <1>2 DEF IInv, Local, vars
  <2> SUFFICES ASSUME NEW places, Itinerary(places) PROVE Itinerary(places)'
    BY <2>1, <2>2 DEF Kept, Extends
  <2>3. Itinerary(places) OBVIOUS
  <2>4. /\ \A p, j : Outcome(p, j)' = Outcome(p, j)
        /\ \A p, j : Common(p, j)' = Common(p, j)
        /\ \A s, j : Passed(s, j)' = Passed(s, j)
        /\ \A s : Ahead(s)' = Ahead(s)
    BY <1>2 DEF vars, Outcome, Fails, Following, Ahead, Onward, AfterFinalize, AfterFinish,
                Common, Passed
  <2>5. Itinerary(places)' BY <1>2, <2>3, <2>4 DEF Itinerary, vars
  <2> QED BY <2>5
<1> QED BY <1>1, <1>2 DEF Next, Terminated

\* Every step keeps the invariant itself.
LEMMA Inductive == ASSUME IInv, [Next]_vars PROVE IInv'
BY StepKeeps DEF IInv, Kept

\* The invariant holds for all constants the assumptions allow.
THEOREM Invariance == Spec => []IInv
<1> QED BY Initially, Inductive, PTL DEF Spec

\* Type correctness.
THEOREM TypeCorrect == Spec => []TypeOK
<1>1. IInv => TypeOK BY DEF IInv
<1> QED BY <1>1, Invariance, PTL

\* The ranks' collectives match, in number order, whatever each of them found:
\* all of them are those of one itinerary.
THEOREM RanksCallAlike == Spec => []CollectivesMatch
<1>1. ASSUME IInv PROVE CollectivesMatch
  <2>1. PICK places : Itinerary(places) BY <1>1 DEF IInv
  <2>2. ASSUME NEW r \in Ranks, NEW s \in Ranks, NEW k \in 1 .. Len(calls[r]), k <= Len(calls[s])
        PROVE  calls[r][k].op = calls[s][k].op
    <3>1. Len(calls[s]) \in Nat /\ Len(calls[r]) \in Nat BY <1>1 DEF IInv, TypeOK
    <3>2. k \in 1 .. Len(calls[s]) BY <2>2, <3>1
    <3> QED BY <2>1, <2>2, <3>2 DEF Itinerary
  <2> QED BY <2>2 DEF CollectivesMatch
<1> QED BY <1>1, Invariance, PTL

\* No rank completes the load when another one has raised: the itinerary has
\* one end, and a rank beyond it would have made another collective there.
THEOREM RanksEndAlike == Spec => []SameOutcome
<1>1. ASSUME IInv PROVE SameOutcome
  <2>1. PICK places : Itinerary(places) BY <1>1 DEF IInv
  <2>2. ASSUME NEW r \in Ranks, NEW s \in Ranks, pc[r] = "done", pc[s] = "failed" PROVE FALSE
    <3>0. "done" \notin Phases /\ "failed" \notin Phases BY DEF Phases, Denoiser, Encoder, Shared
    <3>1. ~called[r] /\ ~called[s] BY <1>1, <2>2, <3>0 DEF IInv, Local
    <3>2. places[Len(calls[r]) + 1] = End("done") /\ places[Len(calls[s]) + 1] = End("failed")
      BY <2>1, <2>2, <3>1 DEF Itinerary, Ahead, Onward
    <3>3. Len(calls[s]) \in Nat /\ Len(calls[r]) \in Nat BY <1>1 DEF IInv, TypeOK
    <3>4. /\ \A k \in 1 .. Len(calls[r]) : places[k].pc \in Phases
          /\ \A k \in 1 .. Len(calls[s]) : places[k].pc \in Phases
      BY <2>1 DEF Itinerary
    <3>5. End("done").pc = "done" /\ End("failed").pc = "failed" BY DEF End, Place
    <3>6. Len(calls[r]) = Len(calls[s]) BY <3>0, <3>2, <3>3, <3>4, <3>5
    <3> QED BY <3>2, <3>5, <3>6
  <2> QED BY <2>2 DEF SameOutcome
<1> QED BY <1>1, Invariance, PTL

-----------------------------------------------------------------------------
(***************************************************************************)
(* What a replicated load puts into the ranks' tensors, for every number   *)
(* of ranks, list of components and number of blocks: no bytes in storage  *)
(* of another spec, only real weights quantized, rank 0's weights on every *)
(* rank that is done.                                                      *)
(*                                                                         *)
(* The argument follows one unit of weights on one rank: untouched, as it  *)
(* was built; current, with what each phase has made of it; through, with  *)
(* weights of the source's spec.  A peer takes the source's spec when the  *)
(* source may be far ahead, so the source must not change the spec of a    *)
(* unit it has announced, and what it sends with the data must be the spec *)
(* it announced: the itinerary says at which unit the source was when it   *)
(* made the collective that a peer now returns from.                       *)
(***************************************************************************)

IsDenoiser(c) == Kind[c] = "denoiser"
Current(r, c, u) == c = comp[r] /\ u = unit[r]
Last(r) == calls[r][Len(calls[r])].val

\* The rank has entered the collective of a phase without a failure of its own.
Agrees(r, phase) == pc[r] = phase /\ called[r] /\ Last(r) # "bad"

\* How far a rank is with a unit: it has not touched it, it is through with it,
\* or, for the source, it has announced its spec.
Fresh(r, c, u) == comp[r] < c \/ (c = comp[r] /\ (unit[r] < u \/ pc[r] = "real"))
Through(r, c, u) ==
    c < comp[r] \/ (c = comp[r] /\ (u < unit[r] \/ pc[r] \in {"finalize", "finish", "done"}))
AfterSpecs(c) == IF IsDenoiser(c) THEN {"reconcile", "data", "quantize"}
                 ELSE {"reconcile", "materialize", "layout", "compare", "strides", "data"}
Announced(r) == pc[r] \in AfterSpecs(comp[r]) \/ (pc[r] = "specs" /\ called[r])
Fixed(c, u) ==
    \/ c < comp[Source]
    \/ /\ c = comp[Source]
       /\ \/ u < unit[Source]
          \/ pc[Source] \in {"finalize", "finish", "done", "failed"}
          \/ u = unit[Source] /\ Announced(Source)

SourceSpec(c, u) == tensor[Source][c][u].spec

\* What the phases of a unit have made of it so far.
Stored(r) ==
    /\ IsDenoiser(comp[r]) =>
        /\ (pc[r] = "layout" /\ called[r]) \/ pc[r] \in {"compare", "keys", "read"} =>
                unit[r] = Rest \/ Here(r).data # "meta"
        /\ (pc[r] = "read" /\ called[r]) \/ pc[r] \in {"specs", "reconcile", "data", "quantize"} =>
                Here(r).data # "meta"
    /\ /\ ~IsDenoiser(comp[r])
       /\ Agrees(r, "materialize") \/ pc[r] \in {"layout", "compare", "strides", "data"}
       => Here(r).data # "meta"
Loaded(r) ==
    IF r = Source
    THEN IsDenoiser(comp[r])
            /\ (Agrees(r, "read") \/ pc[r] \in {"specs", "reconcile", "data", "quantize"}) =>
         Here(r).data = "weights"
    ELSE pc[r] = "quantize" => Here(r).data = "weights"
Alike(r) ==
    r # Source =>
        /\ pc[r] \in AfterSpecs(comp[r]) => Fixed(comp[r], unit[r])
        /\ Agrees(r, "reconcile") \/ pc[r] \in AfterSpecs(comp[r]) \ {"reconcile"} =>
                r \in differs[comp[r]] \/ Here(r).spec = SourceSpec(comp[r], unit[r])
AfterCompare(c) == IF IsDenoiser(c) THEN {"keys", "read", "specs", "reconcile", "data", "quantize"}
                   ELSE {"strides", "data"}
Compared(r) ==
    /\ Agrees(r, "compare") => r \notin differs[comp[r]]
    /\ pc[r] \in AfterCompare(comp[r]) => r \notin differs[comp[r]]
HereOK(r) ==
    pc[r] \in Phases =>
        /\ Here(r).quantized => pc[r] = "quantize" /\ called[r]
        /\ r = Source /\ ~IsDenoiser(comp[r]) => Here(r).data = "weights"
        /\ Stored(r) /\ Loaded(r) /\ Alike(r) /\ Compared(r)

\* What all the units of a rank are.
Sound(r, c, u) ==
    LET t == tensor[r][c][u] IN t.data # "corrupt" /\ (t.quantized => t.data = "weights")
Done(r, c, u) ==
    Through(r, c, u) =>
        /\ tensor[r][c][u].data = "weights"
        /\ r # Source => Fixed(c, u) /\ tensor[r][c][u].spec = SourceSpec(c, u)
UnitOK(wired, spec, r, c, u) ==
    /\ Sound(r, c, u)
    /\ Fresh(r, c, u) \/ ~wired[c] => tensor[r][c][u] = Built(c, r, wired[c], spec)
    /\ wired[c] => Done(r, c, u)

\* What the ranks put into the collectives that ask for real weights, and what
\* the source announced and sent.
Values(places, wired) ==
    /\ \A s \in Ranks : \A k \in 1 .. Len(calls[s]) : places[k].pc = "real" =>
            IF calls[s][k].val = "ok" THEN s = Source \/ ~wired[places[k].comp]
            ELSE wired[places[k].comp]
    /\ \A k \in 1 .. Len(calls[Source]) : places[k].pc \in {"specs", "data"} =>
            /\ places[k].unit \in Units(places[k].comp)
            /\ Fixed(places[k].comp, places[k].unit)
            /\ calls[Source][k].val = SourceSpec(places[k].comp, places[k].unit)
    /\ \A s \in Ranks : \A k \in 1 .. Len(calls[s]) : places[k].pc \in PhasesOf(places[k].comp)

RankOK(wired, r) ==
    /\ HereOK(r)
    /\ pc[r] = "done" => comp[r] = Len(Kind)
    /\ pc[r] \in Phases \ {"real"} => wired[comp[r]]

Holds(places, wired, spec) ==
    /\ wired \in [Components -> BOOLEAN]
    /\ \A r \in Ranks : RankOK(wired, r)
    /\ \A r \in Ranks, c \in Components : \A u \in Units(c) : UnitOK(wired, spec, r, c, u)
    /\ Values(places, wired)

WInv ==
    /\ TypeOK
    /\ \A r \in Ranks : Local(r)
    /\ \E places, wired, spec : Itinerary(places) /\ Holds(places, wired, spec)

-----------------------------------------------------------------------------
\* The initial states satisfy the invariant.
LEMMA WeightsInitially == Init => WInv
<1> SUFFICES ASSUME Init PROVE WInv OBVIOUS
<1> USE Sizes
<1>1. IInv BY Initially
<1>2. PICK wired \in [Components -> BOOLEAN], spec \in Specs :
            tensor = [r \in Ranks |-> [c \in Components |->
                        [u \in Units(c) |-> Built(c, r, wired[c], spec)]]]
  BY DEF Init
<1>3. PICK places : Itinerary(places) BY <1>1 DEF IInv
<1>4. \A r \in Ranks : pc[r] = "real" /\ ~called[r] /\ comp[r] = 1 /\ unit[r] = 0 /\ Len(calls[r]) = 0
  BY DEF Init
<1>5. \A r \in Ranks, c \in Components : \A u \in Units(c) : tensor[r][c][u] = Built(c, r, wired[c], spec)
  BY <1>2
<1>6. ASSUME NEW r \in Ranks PROVE RankOK(wired, r)
  <2>1. Here(r) = Built(1, r, wired[1], spec) BY <1>4, <1>5 DEF Here
  <2>2. ~Here(r).quantized /\ (r = Source /\ ~IsDenoiser(1) => Here(r).data = "weights")
    BY <2>1, KindAssumption DEF Built, IsDenoiser, Components
  <2>3. Stored(r) /\ Loaded(r) /\ Alike(r) /\ Compared(r)
    BY <1>4 DEF Stored, Loaded, Alike, Compared, Agrees, AfterSpecs, AfterCompare
  <2> QED BY <1>4, <2>2, <2>3 DEF RankOK, HereOK
<1>7. ASSUME NEW r \in Ranks, NEW c \in Components, NEW u \in Units(c) PROVE UnitOK(wired, spec, r, c, u)
  <2>1. ~Through(r, c, u)
    <3>1. c \in Nat \ {0} /\ u \in Nat BY DEF Components
    <3> QED BY <3>1, <1>4 DEF Through
  <2>2. Sound(r, c, u)
    <3>1. tensor[r][c][u] = Built(c, r, wired[c], spec) BY <1>5
    <3> QED BY <3>1 DEF Sound, Built
  <2> QED BY <2>1, <2>2, <1>5 DEF UnitOK, Done
<1>8. Values(places, wired) BY <1>4 DEF Values
<1> QED BY <1>1, <1>2, <1>3, <1>6, <1>7, <1>8 DEF WInv, IInv, Holds

-----------------------------------------------------------------------------
(* One unit of one rank at a time *)

\* The step gives the current unit of the rank another value, and no other.
Changes(r, t) ==
    \A s \in Ranks, c \in Components : \A u \in Units(c) :
        tensor'[s][c][u] = IF s = r /\ Current(r, c, u) THEN t ELSE tensor[s][c][u]

LEMMA SetChanges ==
    ASSUME IInv, NEW r \in Ranks, NEW t
    PROVE  /\ tensor' = SetHere(r, t) => Changes(r, t)
           /\ tensor' = tensor => Changes(r, Here(r))
<1>1. comp[r] \in Components /\ unit[r] \in Units(comp[r])
  BY HereTyped DEF IInv, TypeOK
<1>2. TensorOK BY DEF IInv, TypeOK
<1>3. ASSUME tensor' = SetHere(r, t) PROVE Changes(r, t)
  BY <1>1, <1>2, <1>3 DEF SetHere, Changes, Current, TensorOK
<1>4. ASSUME tensor' = tensor PROVE Changes(r, Here(r))
  BY <1>4 DEF Changes, Current, Here
<1> QED BY <1>3, <1>4

\* A rank that enters a collective keeps what it knows of all units, if its
\* current one stays sound, keeps an announced spec, and the value it puts in
\* is the one its tensors give it.
LEMMA EnterWeights ==
    ASSUME IInv, NEW places, NEW wired, NEW spec, Itinerary(places), Holds(places, wired, spec),
           NEW r \in Ranks, Arrives(r), NEW v \in Vals,
           calls' = [calls EXCEPT ![r] = Append(@, [op |-> Op[pc[r]], val |-> v])],
           NEW t, Changes(r, t),
           t.data # "corrupt", t.quantized => t.data = "weights",
           pc[r] = "real" => t = Here(r),
           r = Source => t.spec = Here(r).spec \/ ~Fixed(comp[r], unit[r]),
           pc[r] = "real" => IF v = "ok" THEN r = Source \/ ~wired[comp[r]] ELSE wired[comp[r]],
           r = Source /\ pc[r] \in {"specs", "data"} => v = Here(r).spec /\ t = Here(r),
           HereOK(r)'
    PROVE  Holds(places, wired, spec)'
<1> USE Sizes
<1>1. /\ pc' = pc /\ comp' = comp /\ unit' = unit /\ differs' = differs
      /\ called' = [called EXCEPT ![r] = TRUE] /\ pc[r] \in Phases /\ ~called[r]
  BY DEF Arrives
<1>2. /\ calls \in [Ranks -> Seq(Calls)] /\ called \in [Ranks -> BOOLEAN]
      /\ \A s \in Ranks : /\ comp[s] \in Components /\ unit[s] \in Units(comp[s])
                          /\ unit[s] \in Nat /\ calls[s] \in Seq(Calls)
      /\ \A s \in Ranks : pc[s] \in Phases => pc[s] \in PhasesOf(comp[s])
  BY HereTyped DEF IInv, TypeOK, Local
<1>3. \A s \in Ranks : s # r => calls'[s] = calls[s] /\ called'[s] = called[s]
  BY <1>1, <1>2
<1>4. called'[r] = TRUE BY <1>1, <1>2
<1>c. [op |-> Op[pc[r]], val |-> v] \in Calls
  <2>1. Op[pc[r]] \in {"all_reduce", "broadcast", "all_gather"}
    BY <1>1 DEF Op, Phases, Denoiser, Encoder, Shared
  <2> QED BY <2>1 DEF Calls
<1>5. /\ calls'[r] = Append(calls[r], [op |-> Op[pc[r]], val |-> v])
      /\ Len(calls'[r]) = Len(calls[r]) + 1 /\ calls'[r][Len(calls[r]) + 1].val = v
      /\ \A k \in 1 .. Len(calls[r]) : calls'[r][k] = calls[r][k]
  BY <1>2, <1>c
<1>6. \A c, u : Fixed(c, u) => Fixed(c, u)'
  BY <1>1, <1>3, <1>4 DEF Fixed, Announced
<1>7. \A s, c, u : /\ Fresh(s, c, u)' = Fresh(s, c, u) /\ Through(s, c, u)' = Through(s, c, u)
                   /\ Current(s, c, u)' = Current(s, c, u)
  BY <1>1 DEF Fresh, Through, Current
<1>8. ASSUME NEW c \in Components, NEW u \in Units(c), Fixed(c, u)
      PROVE  SourceSpec(c, u)' = SourceSpec(c, u)
  <2>1. CASE r = Source /\ Current(r, c, u)
    <3>1. tensor'[Source][c][u] = t BY <2>1 DEF Changes
    <3>2. Here(r) = tensor[Source][c][u] /\ t.spec = Here(r).spec
      BY <2>1, <1>8 DEF Here, Current
    <3> QED BY <3>1, <3>2 DEF SourceSpec
  <2>2. CASE ~(r = Source /\ Current(r, c, u))
    BY <2>2 DEF Changes, SourceSpec
  <2> QED BY <2>1, <2>2
<1>9. ASSUME NEW s \in Ranks PROVE RankOK(wired, s)'
  <2>1. RankOK(wired, s) BY DEF Holds
  <2>2. CASE s = r BY <2>1, <2>2, <1>1 DEF RankOK
  <2>3. CASE s # r
    <3>1. Here(s)' = Here(s) BY <2>3, <1>1, <1>2 DEF Here, Changes
    <3>2. \A phase : Agrees(s, phase)' = Agrees(s, phase)
      BY <2>3, <1>1, <1>3 DEF Agrees, Last
    <3>3. Stored(s)' = Stored(s) /\ Loaded(s)' = Loaded(s) /\ Compared(s)' = Compared(s)
      BY <3>1, <3>2, <2>3, <1>1, <1>3 DEF Stored, Loaded, Compared
    <3>4. HereOK(s) => (Alike(s) => Alike(s)')
      <4> SUFFICES ASSUME Alike(s), s # Source PROVE Alike(s)' BY DEF Alike
      <4>0. PICK c \in Components : c = comp[s] BY <1>2
      <4>u. PICK u \in Units(c) : u = unit[s] BY <1>2, <4>0
      <4>1. pc[s] \in AfterSpecs(comp[s]) =>
                Fixed(c, u)' /\ SourceSpec(c, u)' = SourceSpec(c, u)
        BY <4>0, <4>u, <1>6, <1>8 DEF Alike
      <4>2. Agrees(s, "reconcile") => pc[s] \in AfterSpecs(comp[s])
        BY DEF Agrees, AfterSpecs
      <4>3. /\ pc'[s] = pc[s] /\ comp'[s] = c /\ unit'[s] = u /\ differs' = differs
            /\ Here(s)' = Here(s) /\ Agrees(s, "reconcile")' = Agrees(s, "reconcile")
        BY <1>1, <3>1, <3>2, <4>0, <4>u
      <4>4. AfterSpecs(comp[s])' = AfterSpecs(comp[s]) BY <4>0, <4>u, <4>3 DEF AfterSpecs, IsDenoiser
      <4>5. /\ Fixed(c, u)' <=> Fixed(comp[s], unit[s])'
            /\ SourceSpec(c, u)' = SourceSpec(comp[s], unit[s])'
        BY <4>3 DEF Fixed, SourceSpec
      <4> QED BY <4>0, <4>u, <4>1, <4>2, <4>3, <4>4, <4>5 DEF Alike
    <3> QED BY <2>1, <2>3, <3>1, <3>3, <3>4, <1>1, <1>3 DEF RankOK, HereOK
  <2> QED BY <2>2, <2>3
<1>10. ASSUME NEW s \in Ranks, NEW c \in Components, NEW u \in Units(c)
       PROVE  UnitOK(wired, spec, s, c, u)'
  <2>1. UnitOK(wired, spec, s, c, u) BY DEF Holds
  <2>2. CASE s = r /\ Current(r, c, u)
    <3>1. tensor'[s][c][u] = t BY <2>2 DEF Changes
    <3>2. Sound(s, c, u)' BY <3>1 DEF Sound
    <3>3. CASE pc[r] = "real"
      <4>1. t = tensor[s][c][u] BY <2>2, <3>3 DEF Here, Current
      <4>2. ~Through(s, c, u)
        BY <2>2, <3>3, <1>2 DEF Through, Current, Components
      <4> QED BY <2>1, <3>1, <3>2, <4>1, <4>2, <1>7 DEF UnitOK, Done
    <3>4. CASE pc[r] # "real"
      <4>1. wired[c] BY <2>2, <3>4, <1>1 DEF Holds, RankOK, Current
      <4>2. pc[r] \notin {"finalize", "finish", "done"}
        BY <1>1 DEF Phases, Denoiser, Encoder, Shared
      <4>3. ~Fresh(s, c, u) /\ ~Through(s, c, u)
        BY <2>2, <3>4, <4>2, <1>2 DEF Fresh, Through, Current, Components
      <4> QED BY <3>2, <4>1, <4>3, <1>7 DEF UnitOK, Done
    <3> QED BY <3>3, <3>4
  <2>3. CASE ~(s = r /\ Current(r, c, u))
    <3>1. tensor'[s][c][u] = tensor[s][c][u] BY <2>3 DEF Changes
    <3>2. Done(s, c, u) => Done(s, c, u)'
      BY <3>1, <1>6, <1>7, <1>8 DEF Done
    <3> QED BY <2>1, <3>1, <3>2, <1>7 DEF UnitOK, Sound
  <2> QED BY <2>2, <2>3
<1>11. Values(places, wired)'
  <2>0. places[Len(calls[r]) + 1] = Place(pc[r], comp[r], unit[r])
    BY <1>1 DEF Itinerary, Ahead, Onward, Phases, Denoiser, Encoder, Shared
  <2>1. ASSUME NEW s \in Ranks, NEW k \in 1 .. Len(calls'[s]), places[k].pc = "real"
        PROVE  IF calls'[s][k].val = "ok" THEN s = Source \/ ~wired[places[k].comp]
               ELSE wired[places[k].comp]
    <3>1. CASE k \in 1 .. Len(calls[s])
      <4>1. calls'[s][k] = calls[s][k] BY <3>1, <1>3, <1>5
      <4> QED BY <2>1, <3>1, <4>1 DEF Holds, Values
    <3>2. CASE k \notin 1 .. Len(calls[s])
      <4>1. s = r /\ k = Len(calls[r]) + 1 BY <3>2, <2>1, <1>2, <1>3, <1>5
      <4> QED BY <2>0, <2>1, <4>1, <1>5 DEF Place
    <3> QED BY <3>1, <3>2
  <2>2. ASSUME NEW k \in 1 .. Len(calls'[Source]), places[k].pc \in {"specs", "data"}
        PROVE  /\ places[k].unit \in Units(places[k].comp)
               /\ Fixed(places[k].comp, places[k].unit)'
               /\ calls'[Source][k].val = SourceSpec(places[k].comp, places[k].unit)'
    <3>1. CASE k \in 1 .. Len(calls[Source])
      <4>1. calls'[Source][k] = calls[Source][k] BY <3>1, <1>3, <1>5
      <4>2. /\ places[k].unit \in Units(places[k].comp)
            /\ Fixed(places[k].comp, places[k].unit)
            /\ calls[Source][k].val = SourceSpec(places[k].comp, places[k].unit)
        BY <2>2, <3>1 DEF Holds, Values
      <4>3. places[k].comp \in Components
        <5>1. places[k] \in Places BY <3>1, <1>2 DEF Itinerary
        <5> QED BY <5>1 DEF Places
      <4>4. SourceSpec(places[k].comp, places[k].unit)' = SourceSpec(places[k].comp, places[k].unit)
        BY <4>2, <4>3, <1>8
      <4> QED BY <4>1, <4>2, <4>4, <1>6
    <3>2. CASE k \notin 1 .. Len(calls[Source])
      <4>1. r = Source /\ k = Len(calls[r]) + 1 BY <3>2, <2>2, <1>2, <1>3, <1>5
      <4>2. /\ places[k].pc = pc[r] /\ places[k].comp = comp[r] /\ places[k].unit = unit[r]
        BY <2>0, <4>1 DEF Place
      <4>3. v = Here(r).spec /\ t = Here(r) BY <2>2, <4>1, <4>2
      <4>4. SourceSpec(comp[r], unit[r])' = v
        <5>1. tensor'[r][comp[r]][unit[r]] = t BY <1>2 DEF Changes, Current
        <5> QED BY <4>1, <4>3, <5>1, <1>1 DEF SourceSpec
      <4>5. Announced(r)'
        BY <2>2, <4>2, <1>1, <1>4 DEF Announced, AfterSpecs
      <4>6. Fixed(comp[r], unit[r])' BY <4>1, <4>5, <1>1 DEF Fixed
      <4>7. /\ SourceSpec(places[k].comp, places[k].unit)' = v
            /\ Fixed(places[k].comp, places[k].unit)'
        BY <4>2, <4>4, <4>6, <1>1 DEF SourceSpec, Fixed
      <4> QED BY <4>1, <4>2, <4>7, <1>2, <1>5
    <3> QED BY <3>1, <3>2
  <2>3. ASSUME NEW s \in Ranks, NEW k \in 1 .. Len(calls'[s])
        PROVE  places[k].pc \in PhasesOf(places[k].comp)
    <3>1. CASE k \in 1 .. Len(calls[s]) BY <3>1 DEF Holds, Values
    <3>2. CASE k \notin 1 .. Len(calls[s])
      <4>1. s = r /\ k = Len(calls[r]) + 1 BY <3>2, <2>3, <1>2, <1>3, <1>5
      <4> QED BY <2>0, <4>1, <1>1, <1>2 DEF Place
    <3> QED BY <3>1, <3>2
  <2> QED BY <2>1, <2>2, <2>3 DEF Values
<1> QED BY <1>9, <1>10, <1>11 DEF Holds

\* What has changed for a rank that enters a collective.
LEMMA EnterFacts ==
    ASSUME IInv, NEW r \in Ranks, NEW phase \in Phases, NEW v \in Vals, NEW t,
           Enter(r, phase, v), pc' = pc, Changes(r, t)
    PROVE  /\ phase = pc[r] /\ pc[r] \in PhasesOf(comp[r]) /\ comp[r] \in Components
           /\ unit[r] \in Units(comp[r]) /\ ~called[r]
           /\ pc'[r] = pc[r] /\ comp'[r] = comp[r] /\ unit'[r] = unit[r] /\ called'[r] = TRUE
           /\ differs' = differs /\ Here(r)' = t /\ Last(r)' = v
           /\ calls' = [calls EXCEPT ![r] = Append(@, [op |-> Op[pc[r]], val |-> v])]
           /\ r # Source => /\ SourceSpec(comp[r], unit[r])' = SourceSpec(comp[r], unit[r])
                            /\ Fixed(comp[r], unit[r]) => Fixed(comp[r], unit[r])'
<1> USE Sizes
<1>1. /\ phase = pc[r] /\ ~called[r] /\ called' = [called EXCEPT ![r] = TRUE]
      /\ calls' = [calls EXCEPT ![r] = Append(@, [op |-> Op[phase], val |-> v])]
      /\ comp' = comp /\ unit' = unit /\ differs' = differs
  BY DEF Enter
<1>2. /\ calls \in [Ranks -> Seq(Calls)] /\ called \in [Ranks -> BOOLEAN]
      /\ comp[r] \in Components /\ unit[r] \in Units(comp[r]) /\ calls[r] \in Seq(Calls)
      /\ comp[Source] \in Components /\ pc[r] \in PhasesOf(comp[r])
  BY <1>1, HereTyped DEF IInv, TypeOK, Local
<1>3. Here(r)' = t BY <1>1, <1>2 DEF Here, Changes, Current
<1>4. Last(r)' = v
  <2>1. Op[phase] \in {"all_reduce", "broadcast", "all_gather"}
    BY DEF Op, Phases, Denoiser, Encoder, Shared
  <2>2. [op |-> Op[phase], val |-> v] \in Calls BY <2>1 DEF Calls
  <2>3. calls'[r] = Append(calls[r], [op |-> Op[phase], val |-> v]) BY <1>1, <1>2
  <2>4. calls'[r][Len(calls'[r])] = [op |-> Op[phase], val |-> v] BY <1>2, <2>2, <2>3
  <2> QED BY <2>4 DEF Last
<1>5. ASSUME r # Source
      PROVE  /\ SourceSpec(comp[r], unit[r])' = SourceSpec(comp[r], unit[r])
             /\ Fixed(comp[r], unit[r]) => Fixed(comp[r], unit[r])'
  <2>1. called'[Source] = called[Source] BY <1>1, <1>2, <1>5
  <2>2. Fixed(comp[r], unit[r]) => Fixed(comp[r], unit[r])'
    BY <1>1, <2>1 DEF Fixed, Announced, AfterSpecs, IsDenoiser
  <2>3. SourceSpec(comp[r], unit[r])' = SourceSpec(comp[r], unit[r])
    BY <1>1, <1>2, <1>5 DEF SourceSpec, Changes
  <2> QED BY <2>2, <2>3
<1> QED BY <1>1, <1>2, <1>3, <1>4, <1>5

\* The source's spec is still open before it is announced.
LEMMA NotFixed ==
    ASSUME IInv, pc[Source] \in Phases, pc[Source] \notin AfterSpecs(comp[Source]), pc[Source] # "specs"
    PROVE  ~Fixed(comp[Source], unit[Source])
<1>1. comp[Source] \in Nat /\ unit[Source] \in Nat
  <2>1. comp[Source] \in Components /\ unit[Source] \in 0 .. Rest BY Sizes DEF IInv, TypeOK
  <2>2. comp[Source] \in Nat BY <2>1, Sizes
  <2>3. unit[Source] \in Nat BY <2>1, Sizes
  <2> QED BY <2>2, <2>3
<1>2. pc[Source] \notin {"finalize", "finish", "done", "failed"}
  BY DEF Phases, Denoiser, Encoder, Shared
<1> QED BY <1>1, <1>2 DEF Fixed, Announced

\* What the rank has to know of its unit when it is in the collective of a phase
\* with a value.
Knows(r, phase, v, t) ==
    LET c == comp[r] IN
    /\ t.quantized => phase = "quantize"
    /\ r = Source /\ ~IsDenoiser(c) => t.data = "weights"
    /\ IsDenoiser(c) /\ phase \in {"layout", "compare", "keys"} => unit[r] = Rest \/ t.data # "meta"
    /\ IsDenoiser(c) /\ phase \in {"read", "specs", "reconcile", "data", "quantize"} => t.data # "meta"
    /\ ~IsDenoiser(c) /\ ((phase = "materialize" /\ v # "bad") \/ phase \in {"layout", "compare", "strides", "data"})
            => t.data # "meta"
    /\ IF r = Source
       THEN IsDenoiser(c) /\ ((phase = "read" /\ v # "bad") \/ phase \in {"specs", "reconcile", "data", "quantize"})
                => t.data = "weights"
       ELSE /\ phase = "quantize" => t.data = "weights"
            /\ (phase = "reconcile" /\ v # "bad") \/ phase \in AfterSpecs(c) \ {"reconcile"} =>
                    r \in differs[c] \/ t.spec = SourceSpec(c, unit[r])
    /\ (phase = "compare" /\ v # "bad") \/ phase \in AfterCompare(c) => r \notin differs[c]

\* The rank is in the collective with what it has to know.
LEMMA EnterKnows ==
    ASSUME IInv, NEW r \in Ranks, NEW phase \in Phases, NEW v \in Vals, NEW t,
           Enter(r, phase, v), pc' = pc, Changes(r, t), HereOK(r), Knows(r, phase, v, t)
    PROVE  HereOK(r)'
<1>1. /\ phase = pc[r] /\ pc'[r] = pc[r] /\ comp'[r] = comp[r] /\ unit'[r] = unit[r]
      /\ called'[r] = TRUE /\ differs' = differs /\ Here(r)' = t /\ Last(r)' = v
      /\ r # Source => /\ SourceSpec(comp[r], unit[r])' = SourceSpec(comp[r], unit[r])
                       /\ Fixed(comp[r], unit[r]) => Fixed(comp[r], unit[r])'
  BY EnterFacts
<1>2. PICK c, u : c = comp[r] /\ u = unit[r] OBVIOUS
<1>3. AfterSpecs(c)' = AfterSpecs(c) /\ AfterCompare(c)' = AfterCompare(c) /\ IsDenoiser(c)' = IsDenoiser(c)
  BY DEF AfterSpecs, AfterCompare, IsDenoiser
<1>4. /\ SourceSpec(comp[r], unit[r])' = SourceSpec(c, u)' /\ Fixed(comp[r], unit[r])' = Fixed(c, u)'
      /\ AfterSpecs(comp[r])' = AfterSpecs(c) /\ AfterCompare(comp[r])' = AfterCompare(c)
      /\ IsDenoiser(comp[r])' = IsDenoiser(c)
  BY <1>1, <1>2 DEF SourceSpec, Fixed, AfterSpecs, AfterCompare, IsDenoiser
<1>5. \A g : Agrees(r, g)' <=> (phase = g /\ v # "bad") BY <1>1 DEF Agrees
<1>6. Stored(r)' BY <1>1, <1>2, <1>4, <1>5 DEF Stored, Knows
<1>7. Loaded(r)' BY <1>1, <1>2, <1>4, <1>5 DEF Loaded, Knows
<1>8. Compared(r)' BY <1>1, <1>2, <1>4, <1>5 DEF Compared, Knows
<1>9. Alike(r)'
  <2> SUFFICES ASSUME r # Source PROVE Alike(r)' BY DEF Alike
  <2>1. phase \in AfterSpecs(c) => Fixed(c, u)
    BY <1>1, <1>2 DEF HereOK, Alike
  <2>2. SourceSpec(c, u)' = SourceSpec(c, u) /\ (Fixed(c, u) => Fixed(c, u)')
    BY <1>1, <1>2, <1>4
  <2>3. (phase = "reconcile" /\ v # "bad") \/ phase \in AfterSpecs(c) \ {"reconcile"} =>
            r \in differs[c] \/ t.spec = SourceSpec(c, u)
    BY <1>2 DEF Knows
  <2> QED BY <1>1, <1>2, <1>4, <1>5, <2>1, <2>2, <2>3 DEF Alike
<1> QED BY <1>1, <1>2, <1>4, <1>6, <1>7, <1>8, <1>9 DEF HereOK, Knows

\* A peer that reconciles does so with the spec that the source has of the unit.
LEMMA ReceivedSpec ==
    ASSUME IInv, NEW places, NEW wired, NEW spec, Itinerary(places), Holds(places, wired, spec),
           NEW r \in Ranks, pc[r] = "reconcile", ~called[r]
    PROVE  Received(r) = SourceSpec(comp[r], unit[r])
<1> USE Sizes
<1> DEFINE k == Len(calls[r])
<1>1. /\ calls[r] \in Seq(Calls) /\ k \in Nat /\ places \in [Nat -> Places]
      /\ "reconcile" \in Phases
  BY DEF IInv, TypeOK, Itinerary, Phases, Denoiser, Encoder, Shared
<1>2. places[k + 1] = Place("reconcile", comp[r], unit[r])
  BY DEF Itinerary, Ahead, Onward
<1>3. k \in 1 .. k
  <2>1. places[1].pc = "real" BY DEF Itinerary, Place
  <2>2. k # 0 BY <2>1, <1>2 DEF Place
  <2> QED BY <2>2, <1>1
<1>4. Passed(r, k) BY <1>1, <1>3 DEF Passed
<1>5. /\ Common(places[k].pc, k) /\ places[k + 1] = Outcome(places[k], k)
      /\ places[k].pc \in PhasesOf(places[k].comp)
  BY <1>1, <1>3, <1>4 DEF Itinerary, Holds, Values
<1>6. PICK p : p = places[k] OBVIOUS
<1>7. p.pc \in PhasesOf(p.comp) /\ Outcome(p, k) = Place("reconcile", comp[r], unit[r])
  BY <1>2, <1>5, <1>6
<1>8. ~Fails(p.pc, k) BY <1>7 DEF Outcome, End, Place
<1>9. PICK f, u : /\ f = Following(p, k)
                  /\ u = (IF p.pc = "quantize" THEN p.unit + 1 ELSE p.unit)
                  /\ Onward(f, p.comp, u) = Place("reconcile", comp[r], unit[r])
  BY <1>7, <1>8 DEF Outcome
<1>10. /\ AfterFinish(p.comp).pc # "reconcile" /\ AfterFinalize(p.comp).pc # "reconcile"
       /\ \A g : End(g).pc = g /\ Place(g, p.comp, u).pc = g
       /\ Place("reconcile", comp[r], unit[r]).pc = "reconcile"
  BY DEF AfterFinish, AfterFinalize, End, Place
<1>11. f = "reconcile" /\ p.comp = comp[r] /\ u = unit[r]
  <2>1. f \notin {"finish", "finalize", "done", "failed"} BY <1>9, <1>10 DEF Onward
  <2>2. Place(f, p.comp, u) = Place("reconcile", comp[r], unit[r]) BY <1>9, <2>1 DEF Onward
  <2> QED BY <2>2 DEF Place
<1>12. p.pc = "specs"
  <2>1. AfterPhase(p.comp, p.pc) = "reconcile" BY <1>9, <1>11 DEF Following
  <2> QED BY <1>7, <2>1 DEF AfterPhase, PhasesOf, Denoiser, Encoder, Shared
<1>13. p.unit = unit[r] BY <1>9, <1>11, <1>12
<1>14. k \in 1 .. Len(calls[Source])
  <2>1. calls[Source] \in Seq(Calls) BY DEF IInv, TypeOK
  <2>2. k <= Len(calls[Source]) BY <1>5, <1>6, <1>12 DEF Common, Op
  <2> QED BY <2>1, <2>2, <1>1, <1>3
<1> QED BY <1>6, <1>11, <1>12, <1>13, <1>14 DEF Holds, Values, Received

\* Entering a collective keeps the invariant, action by action.
LEMMA EnteringWeights ==
    ASSUME IInv, NEW places, NEW wired, NEW spec, Itinerary(places), Holds(places, wired, spec),
           NEW r \in Ranks,
           \/ AskReal(r) \/ ResolveMap(r) \/ ShareMap(r)
           \/ SendLayout(r) \/ CompareLayout(r) \/ RequireKeys(r) \/ Read(r)
           \/ SendSpecs(r) \/ Reconcile(r) \/ Materialize(r) \/ CheckStrides(r)
           \/ SendData(r) \/ Quantize(r)
    PROVE  Holds(places, wired, spec)'
<1> USE Sizes
<1>1. Arrives(r) BY Entering
<1>2. /\ comp[r] \in Components /\ unit[r] \in Units(comp[r]) /\ Here(r) \in Loose
      /\ Here(r).spec \in Vals /\ "ok" \in Vals /\ "bad" \in Vals /\ "ok" # "bad"
      /\ unit[r] \in 0 .. Rest
  BY HereTyped DEF IInv, TypeOK, Loose, Vals
<1>3. /\ HereOK(r) /\ Sound(r, comp[r], unit[r]) /\ pc[r] \in Phases /\ ~called[r]
      /\ pc[r] \in PhasesOf(comp[r])
      /\ pc[r] # "real" => wired[comp[r]]
  BY <1>1, <1>2 DEF Arrives, Holds, RankOK, UnitOK, IInv, Local
<1>4. /\ Here(r).data # "corrupt" /\ (Here(r).quantized => Here(r).data = "weights")
      /\ ~Here(r).quantized
  BY <1>3 DEF Sound, Here, HereOK
<1>p. /\ "real" \in Phases /\ "resolve" \in Phases /\ "share" \in Phases /\ "layout" \in Phases
      /\ "compare" \in Phases /\ "keys" \in Phases /\ "read" \in Phases /\ "specs" \in Phases
      /\ "reconcile" \in Phases /\ "materialize" \in Phases /\ "strides" \in Phases
      /\ "data" \in Phases /\ "quantize" \in Phases
  BY DEF Phases, Denoiser, Encoder, Shared
\* The unit stays as it is.
<1>5. ASSUME NEW phase \in Phases, NEW v \in Vals, Enter(r, phase, v), pc' = pc, tensor' = tensor,
             phase = "real" => IF v = "ok" THEN r = Source \/ ~wired[comp[r]] ELSE wired[comp[r]],
             r = Source /\ phase \in {"specs", "data"} => v = Here(r).spec,
             Knows(r, phase, v, Here(r))
      PROVE  Holds(places, wired, spec)'
  <2>1. Changes(r, Here(r)) BY <1>5, SetChanges
  <2>2. phase = pc[r] /\ calls' = [calls EXCEPT ![r] = Append(@, [op |-> Op[pc[r]], val |-> v])]
    BY ZenonT(40), <1>5, <2>1, EnterFacts
  <2>3. HereOK(r)' BY <1>3, <1>5, <2>1, EnterKnows
  <2> QED BY <1>1, <1>4, <1>5, <2>1, <2>2, <2>3, EnterWeights
\* The unit takes another value.
<1>6. ASSUME NEW phase \in Phases, NEW v \in Vals, Enter(r, phase, v), pc' = pc,
             NEW t, tensor' = SetHere(r, t), phase \notin {"real", "specs", "data"},
             t.data # "corrupt", t.quantized => t.data = "weights",
             r = Source => t.spec = Here(r).spec \/ ~Fixed(comp[r], unit[r]),
             Knows(r, phase, v, t)
      PROVE  Holds(places, wired, spec)'
  <2>1. Changes(r, t) BY <1>6, SetChanges
  <2>2. phase = pc[r] /\ calls' = [calls EXCEPT ![r] = Append(@, [op |-> Op[pc[r]], val |-> v])]
    BY <1>6, <2>1, EnterFacts
  <2>3. HereOK(r)' BY <1>3, <1>6, <2>1, EnterKnows
  <2> QED BY <1>1, <1>6, <2>1, <2>2, <2>3, EnterWeights
\* A phase that leaves its unit alone asks for no more than the rank knows.
<1>7. ASSUME NEW phase \in Phases, NEW v \in Vals, Enter(r, phase, v),
             phase \notin {"layout", "compare", "read", "reconcile", "materialize", "quantize"}
      PROVE  Knows(r, phase, v, Here(r))
  <2>1. phase = pc[r] BY <1>7 DEF Enter
  <2> QED BY <1>3, <1>4, <1>7, <2>1
       DEF Knows, HereOK, Stored, Loaded, Alike, Compared, Agrees, AfterSpecs, AfterCompare
<1>8. CASE AskReal(r)
  <2>1. Enter(r, "real", IF LoadedReal(r) THEN "ok" ELSE "bad") /\ pc' = pc /\ tensor' = tensor
    BY <1>8 DEF AskReal
  <2>2. \A u \in Units(comp[r]) : tensor[r][comp[r]][u] = Built(comp[r], r, wired[comp[r]], spec)
    BY <1>2, <2>1 DEF Holds, UnitOK, Fresh, Enter
  <2>3. IF LoadedReal(r) THEN r = Source \/ ~wired[comp[r]] ELSE wired[comp[r]]
    BY <1>2, <2>2 DEF LoadedReal, Built
  <2> QED BY <1>2, <1>5, <1>7, <1>p, <2>1, <2>3
<1>9. CASE ResolveMap(r)
  BY <1>9, <1>2, <1>5, <1>7, <1>p DEF ResolveMap, CollectiveSourceCall
<1>10. CASE ShareMap(r)
  BY <1>10, <1>2, <1>5, <1>7, <1>p DEF ShareMap
<1>11. CASE RequireKeys(r)
  BY <1>11, <1>2, <1>5, <1>7, <1>p DEF RequireKeys, CollectiveSourceCall
<1>12. CASE SendSpecs(r)
  BY <1>12, <1>2, <1>5, <1>7, <1>p DEF SendSpecs
<1>13. CASE CheckStrides(r)
  BY <1>13, <1>2, <1>5, <1>7, <1>p DEF CheckStrides
<1>14. CASE SendData(r)
  BY <1>14, <1>2, <1>5, <1>7, <1>p DEF SendData
<1>15. CASE CompareLayout(r)
  <2>1. PICK v \in {"ok", "bad"} : /\ Enter(r, "compare", v) /\ pc' = pc /\ tensor' = tensor
                                   /\ r \in differs[comp[r]] => v = "bad"
    BY <1>15 DEF CompareLayout
  <2>2. pc[r] = "compare" /\ pc[r] \in PhasesOf(comp[r]) BY <1>3, <2>1 DEF Enter
  <2>3. Knows(r, "compare", v, Here(r))
    BY <1>2, <1>3, <1>4, <2>1, <2>2
       DEF Knows, HereOK, Stored, Loaded, Alike, Compared, Agrees, AfterSpecs, AfterCompare
  <2> QED BY <1>2, <1>5, <1>p, <2>1, <2>3
<1>16. CASE SendLayout(r)
  <2>1. Enter(r, "layout", Here(r).spec) /\ pc' = pc BY <1>16 DEF SendLayout
  <2>2. CASE IsDenoiser(comp[r]) /\ unit[r] # Rest
    <3> DEFINE t == [Here(r) EXCEPT !.data = "empty"]
    <3>1. tensor' = SetHere(r, t) BY <1>16, <2>2 DEF SendLayout, IsDenoiser, InTail
    <3>2. /\ t.data = "empty" /\ t.quantized = Here(r).quantized /\ t.spec = Here(r).spec
      BY <1>2 DEF Loose
    <3> HIDE DEF t
    <3>4. Knows(r, "layout", Here(r).spec, t)
      BY <1>2, <1>3, <1>p, <2>1, <2>2, <3>2
         DEF Knows, HereOK, Stored, Loaded, Alike, Compared, Agrees, AfterSpecs, AfterCompare
    <3> QED BY <1>2, <1>4, <1>6, <1>p, <2>1, <3>1, <3>2, <3>4
  <2>3. CASE ~(IsDenoiser(comp[r]) /\ unit[r] # Rest)
    <3>1. tensor' = tensor BY <1>16, <2>3 DEF SendLayout, IsDenoiser, InTail
    <3>2. pc[r] = "layout" BY <2>1 DEF Enter
    <3>3. Knows(r, "layout", Here(r).spec, Here(r))
      BY <1>2, <1>3, <1>4, <2>3, <3>2
         DEF Knows, HereOK, Stored, Loaded, Alike, Compared, Agrees, AfterSpecs, AfterCompare
    <3> QED BY <1>2, <1>5, <1>p, <2>1, <3>1, <3>3
  <2> QED BY <2>2, <2>3
<1>17. CASE Read(r)
  <2>1. PICK ok \in BOOLEAN, stored \in Specs :
        /\ CollectiveSourceCall(r, "read", ok)
        /\ tensor' = IF r = Source /\ ok
                     THEN SetHere(r, [Here(r) EXCEPT !.spec = stored, !.data = "weights"])
                     ELSE IF InTail(r) THEN SetHere(r, [Here(r) EXCEPT !.data = "empty"])
                     ELSE tensor
    BY <1>17 DEF Read
  <2>2. PICK v \in {"ok", "bad"} : /\ Enter(r, "read", v) /\ pc' = pc
                                   /\ r = Source => (v = "ok" <=> ok)
    BY <2>1 DEF CollectiveSourceCall
  <2>3. /\ pc[r] = "read" /\ pc[r] \in PhasesOf(comp[r])
    BY <1>3, <2>2 DEF Enter
  <2>4. IsDenoiser(comp[r]) BY <2>3 DEF PhasesOf, Encoder, Shared, IsDenoiser
  <2>5. CASE r = Source /\ ok
    <3> DEFINE t == [Here(r) EXCEPT !.spec = stored, !.data = "weights"]
    <3>1. tensor' = SetHere(r, t) BY <2>1, <2>5
    <3>2. t.data = "weights" /\ t.quantized = Here(r).quantized BY <1>2 DEF Loose
    <3>4. ~Fixed(comp[r], unit[r])
      BY <1>3, <2>3, <2>4, <2>5, NotFixed DEF AfterSpecs
    <3> HIDE DEF t
    <3>5. Knows(r, "read", v, t)
      BY <1>2, <1>3, <1>p, <2>2, <2>3, <2>4, <2>5, <3>2
         DEF Knows, HereOK, Stored, Loaded, Alike, Compared, Agrees, AfterSpecs, AfterCompare
    <3> QED BY <1>2, <1>4, <1>6, <1>p, <2>2, <3>1, <3>2, <3>4, <3>5
  <2>6. CASE ~(r = Source /\ ok) /\ unit[r] = Rest
    <3> DEFINE t == [Here(r) EXCEPT !.data = "empty"]
    <3>1. tensor' = SetHere(r, t) BY <2>1, <2>4, <2>6 DEF InTail, IsDenoiser
    <3>2. /\ t.data = "empty" /\ t.quantized = Here(r).quantized /\ t.spec = Here(r).spec
      BY <1>2 DEF Loose
    <3> HIDE DEF t
    <3>4. Knows(r, "read", v, t)
      BY <1>2, <1>3, <1>p, <2>2, <2>3, <2>4, <2>6, <3>2
         DEF Knows, HereOK, Stored, Loaded, Alike, Compared, Agrees, AfterSpecs, AfterCompare
    <3> QED BY <1>2, <1>4, <1>6, <1>p, <2>2, <3>1, <3>2, <3>4
  <2>7. CASE ~(r = Source /\ ok) /\ unit[r] # Rest
    <3>1. tensor' = tensor BY <2>1, <2>4, <2>7 DEF InTail, IsDenoiser
    <3>3. Knows(r, "read", v, Here(r))
      BY <1>2, <1>3, <1>p, <2>2, <2>3, <2>4, <2>7
         DEF Knows, HereOK, Stored, Loaded, Alike, Compared, Agrees, AfterSpecs, AfterCompare
    <3> QED BY <1>2, <1>5, <1>p, <2>2, <3>1, <3>3
  <2> QED BY <2>5, <2>6, <2>7
<1>18. CASE Reconcile(r)
  <2>1. PICK ok \in BOOLEAN :
        /\ r = Source => ok
        /\ CollectiveBuildCall(r, "reconcile", ok)
        /\ tensor' = IF ok THEN SetHere(r, Reconciled(r, Received(r))) ELSE tensor
    BY <1>18 DEF Reconcile
  <2>2. PICK v \in {"ok", "bad"} : /\ Enter(r, "reconcile", v) /\ pc' = pc /\ (v = "ok" <=> ok)
    BY <2>1 DEF CollectiveBuildCall
  <2>3. /\ pc[r] = "reconcile" /\ pc[r] \in PhasesOf(comp[r])
    BY <1>3, <2>2 DEF Enter, IInv, Local
  <2>4. CASE ok
    <3> DEFINE t == Reconciled(r, Received(r))
    <3>1. tensor' = SetHere(r, t) BY <2>1, <2>4
    <3>2. /\ t.data # "corrupt" /\ ~t.quantized
          /\ r = Source => t = Here(r)
          /\ t.data = Here(r).data \/ t.data = "empty"
          /\ r # Source => r \in differs[comp[r]] \/ t.spec = Received(r)
      BY <1>2, <1>4 DEF Loose, Reconciled
    <3>4. r # Source => Received(r) = SourceSpec(comp[r], unit[r])
      BY <1>3, <2>3, ReceivedSpec
    <3>5. t.data # "meta" \/ ~IsDenoiser(comp[r])
      BY <1>3, <2>3, <3>2 DEF HereOK, Stored
    <3>6. r # Source => Fixed(comp[r], unit[r])
      BY <1>3, <2>3 DEF HereOK, Alike, AfterSpecs
    <3> HIDE DEF t
    <3>7. Knows(r, "reconcile", v, t)
      BY <1>2, <1>3, <1>p, <2>2, <2>3, <3>2, <3>4, <3>5, <3>6
         DEF Knows, HereOK, Stored, Loaded, Alike, Compared, Agrees, AfterSpecs, AfterCompare
    <3> QED BY <1>2, <1>4, <1>6, <1>p, <2>2, <3>1, <3>2, <3>7
  <2>5. CASE ~ok
    <3>1. tensor' = tensor /\ r # Source /\ v = "bad" BY <2>1, <2>2, <2>5
    <3>3. Knows(r, "reconcile", v, Here(r))
      BY <1>2, <1>3, <1>p, <2>2, <2>3, <3>1
         DEF Knows, HereOK, Stored, Loaded, Alike, Compared, Agrees, AfterSpecs, AfterCompare
    <3> QED BY <1>2, <1>5, <1>p, <2>2, <3>1, <3>3
  <2> QED BY <2>4, <2>5
<1>19. CASE Materialize(r)
  <2>1. PICK ok \in BOOLEAN :
        /\ CollectiveBuildCall(r, "materialize", ok)
        /\ tensor' = IF ok /\ Here(r).data = "meta"
                     THEN SetHere(r, [Here(r) EXCEPT !.data = "empty"]) ELSE tensor
    BY <1>19 DEF Materialize
  <2>2. PICK v \in {"ok", "bad"} : /\ Enter(r, "materialize", v) /\ pc' = pc /\ (v = "ok" <=> ok)
    BY <2>1 DEF CollectiveBuildCall
  <2>3. /\ pc[r] = "materialize" /\ pc[r] \in PhasesOf(comp[r])
    BY <1>3, <2>2 DEF Enter, IInv, Local
  <2>4. ~IsDenoiser(comp[r]) BY <2>3 DEF PhasesOf, Denoiser, Shared, IsDenoiser
  <2>5. CASE ok /\ Here(r).data = "meta"
    <3> DEFINE t == [Here(r) EXCEPT !.data = "empty"]
    <3>1. tensor' = SetHere(r, t) BY <2>1, <2>5
    <3>2. /\ t.data = "empty" /\ t.quantized = Here(r).quantized /\ t.spec = Here(r).spec
      BY <1>2 DEF Loose
    <3>4. r # Source BY <1>3, <2>4, <2>5 DEF HereOK
    <3> HIDE DEF t
    <3>5. Knows(r, "materialize", v, t)
      BY <1>2, <1>3, <1>p, <2>2, <2>3, <2>4, <3>2, <3>4
         DEF Knows, HereOK, Stored, Loaded, Alike, Compared, Agrees, AfterSpecs, AfterCompare
    <3> QED BY <1>2, <1>4, <1>6, <1>p, <2>2, <3>1, <3>2, <3>5
  <2>6. CASE ~(ok /\ Here(r).data = "meta")
    <3>1. tensor' = tensor BY <2>1, <2>6
    <3>3. Knows(r, "materialize", v, Here(r))
      BY <1>2, <1>3, <1>p, <2>2, <2>3, <2>4, <2>6
         DEF Knows, HereOK, Stored, Loaded, Alike, Compared, Agrees, AfterSpecs, AfterCompare
    <3> QED BY <1>2, <1>5, <1>p, <2>2, <3>1, <3>3
  <2> QED BY <2>5, <2>6
<1>20. CASE Quantize(r)
  <2>1. PICK ok \in BOOLEAN :
        /\ CollectiveBuildCall(r, "quantize", ok)
        /\ tensor' = IF ok THEN SetHere(r, [Here(r) EXCEPT !.quantized = TRUE]) ELSE tensor
    BY <1>20 DEF Quantize
  <2>2. PICK v \in {"ok", "bad"} : /\ Enter(r, "quantize", v) /\ pc' = pc
    BY <2>1 DEF CollectiveBuildCall
  <2>3. /\ pc[r] = "quantize" /\ pc[r] \in PhasesOf(comp[r])
    BY <1>3, <2>2 DEF Enter, IInv, Local
  <2>4. IsDenoiser(comp[r]) BY <2>3 DEF PhasesOf, Encoder, Shared, IsDenoiser
  <2>5. Here(r).data = "weights" BY <1>3, <2>3, <2>4 DEF HereOK, Loaded
  <2>6. CASE ok
    <3> DEFINE t == [Here(r) EXCEPT !.quantized = TRUE]
    <3>1. tensor' = SetHere(r, t) BY <2>1, <2>6
    <3>2. t.data = "weights" /\ t.spec = Here(r).spec BY <1>2, <2>5 DEF Loose
    <3> HIDE DEF t
    <3>4. Knows(r, "quantize", v, t)
      BY <1>2, <1>3, <1>p, <2>2, <2>3, <2>4, <3>2
         DEF Knows, HereOK, Stored, Loaded, Alike, Compared, Agrees, AfterSpecs, AfterCompare
    <3> QED BY <1>2, <1>4, <1>6, <1>p, <2>2, <3>1, <3>2, <3>4
  <2>7. CASE ~ok
    <3>1. tensor' = tensor BY <2>1, <2>7
    <3>3. Knows(r, "quantize", v, Here(r))
      BY <1>2, <1>3, <1>p, <2>2, <2>3, <2>4, <2>5
         DEF Knows, HereOK, Stored, Loaded, Alike, Compared, Agrees, AfterSpecs, AfterCompare
    <3> QED BY <1>2, <1>5, <1>p, <2>2, <3>1, <3>3
  <2> QED BY <2>6, <2>7
<1> QED
  BY <1>8, <1>9, <1>10, <1>11, <1>12, <1>13, <1>14, <1>15, <1>16, <1>17, <1>18, <1>19, <1>20

-----------------------------------------------------------------------------
(* Going on from a collective, and between two *)

\* A rank that goes on keeps what is known of all units, if it fixes no spec
\* anew, touches none of the units ahead and is through with a unit only when
\* the weights are there.
LEMMA MoveWeights ==
    ASSUME IInv, NEW old, NEW new, NEW wired, NEW spec, Itinerary(old), Holds(old, wired, spec),
           Extends(old, new), NEW r \in Ranks, NEW t, Changes(r, t),
           calls' = calls, differs' = differs,
           \A s \in Ranks : s # r => /\ pc'[s] = pc[s] /\ called'[s] = called[s]
                                     /\ comp'[s] = comp[s] /\ unit'[s] = unit[s],
           t.data # "corrupt", t.quantized => t.data = "weights",
           r = Source => t = Here(r),
           ~wired[comp[r]] => t = Here(r),
           \A c \in Components : \A u \in Units(c) : Fixed(c, u) => Fixed(c, u)',
           \A c \in Components : \A u \in Units(c) :
                Fresh(r, c, u)' => Fresh(r, c, u) /\ (Current(r, c, u) => t = Here(r)),
           \A c \in Components : \A u \in Units(c) : wired[c] /\ Through(r, c, u)' =>
                IF Current(r, c, u)
                THEN t.data = "weights" /\ (r # Source => Fixed(c, u) /\ t.spec = SourceSpec(c, u))
                ELSE Through(r, c, u),
           RankOK(wired, r)'
    PROVE  Holds(new, wired, spec)'
<1> USE Sizes
<1>1. /\ \A s \in Ranks : comp[s] \in Components /\ unit[s] \in Units(comp[s])
      /\ Len(calls[r]) \in Nat
  BY HereTyped DEF IInv, TypeOK
<1>2. ASSUME NEW c \in Components, NEW u \in Units(c)
      PROVE  SourceSpec(c, u)' = SourceSpec(c, u)
  <2>1. CASE r = Source /\ Current(r, c, u)
    <3>1. tensor'[Source][c][u] = t BY <2>1 DEF Changes
    <3>2. Here(r) = tensor[Source][c][u] BY <2>1 DEF Here, Current
    <3> QED BY <2>1, <3>1, <3>2 DEF SourceSpec
  <2>2. CASE ~(r = Source /\ Current(r, c, u)) BY <2>2 DEF Changes, SourceSpec
  <2> QED BY <2>1, <2>2
<1>3. ASSUME NEW s \in Ranks PROVE RankOK(wired, s)'
  <2>1. RankOK(wired, s) BY DEF Holds
  <2>2. CASE s = r BY <2>2
  <2>3. CASE s # r
    <3>0. PICK c, u : c = comp[s] /\ u = unit[s] OBVIOUS
    <3>1. /\ pc'[s] = pc[s] /\ called'[s] = called[s] /\ comp'[s] = c /\ unit'[s] = u
          /\ calls' = calls /\ differs' = differs /\ c \in Components /\ u \in Units(c)
      BY <2>3, <3>0, <1>1
    <3>2. Here(s)' = Here(s) BY <2>3, <3>0, <3>1 DEF Here, Changes
    <3>3. \A g : Agrees(s, g)' = Agrees(s, g) BY <3>1 DEF Agrees, Last
    <3>4. /\ SourceSpec(comp[s], unit[s])' = SourceSpec(c, u)' /\ Fixed(comp[s], unit[s])' = Fixed(c, u)'
          /\ AfterSpecs(comp[s])' = AfterSpecs(c) /\ AfterCompare(comp[s])' = AfterCompare(c)
          /\ IsDenoiser(comp[s])' = IsDenoiser(c)
      BY <3>1 DEF SourceSpec, Fixed, AfterSpecs, AfterCompare, IsDenoiser
    <3>5. SourceSpec(c, u)' = SourceSpec(c, u) /\ (Fixed(c, u) => Fixed(c, u)') BY <3>1, <1>2
    <3>6. /\ Stored(s) => Stored(s)'
          /\ Loaded(s) => Loaded(s)'
          /\ Compared(s) => Compared(s)'
      BY <3>0, <3>1, <3>2, <3>3, <3>4 DEF Stored, Loaded, Compared
    <3>7. Alike(s) => Alike(s)'
      BY <3>0, <3>1, <3>2, <3>3, <3>4, <3>5 DEF Alike
    <3>8. HereOK(s) => HereOK(s)' BY <3>0, <3>1, <3>2, <3>4, <3>6, <3>7 DEF HereOK
    <3> QED BY <2>1, <3>0, <3>1, <3>8 DEF RankOK
  <2> QED BY <2>2, <2>3
<1>4. ASSUME NEW s \in Ranks, NEW c \in Components, NEW u \in Units(c)
      PROVE  UnitOK(wired, spec, s, c, u)'
  <2>1. UnitOK(wired, spec, s, c, u) BY DEF Holds
  <2>2. SourceSpec(c, u)' = SourceSpec(c, u) /\ (Fixed(c, u) => Fixed(c, u)') BY <1>2
  <2>3. CASE s = r /\ Current(r, c, u)
    <3>1. tensor'[s][c][u] = t /\ tensor[s][c][u] = Here(r) /\ c = comp[r]
      BY <2>3 DEF Changes, Here, Current
    <3>2. Sound(s, c, u)' BY <3>1 DEF Sound
    <3>3. (Fresh(s, c, u) \/ ~wired[c])' => tensor'[s][c][u] = Built(c, s, wired[c], spec)
      BY <2>1, <2>3, <3>1 DEF UnitOK
    <3>4. wired[c] => Done(s, c, u)' BY <2>2, <2>3, <3>1 DEF Done
    <3> QED BY <3>2, <3>3, <3>4 DEF UnitOK
  <2>4. CASE s = r /\ ~Current(r, c, u)
    <3>1. tensor'[s][c][u] = tensor[s][c][u] BY <2>4 DEF Changes
    <3>2. wired[c] => Done(s, c, u)' BY <2>1, <2>2, <2>4, <3>1 DEF UnitOK, Done
    <3> QED BY <2>1, <2>4, <3>1, <3>2 DEF UnitOK, Sound
  <2>5. CASE s # r
    <3>1. tensor'[s][c][u] = tensor[s][c][u] BY <2>5 DEF Changes
    <3>2. Fresh(s, c, u)' = Fresh(s, c, u) /\ Through(s, c, u)' = Through(s, c, u)
      BY <2>5 DEF Fresh, Through
    <3>3. Done(s, c, u) => Done(s, c, u)' BY <2>2, <3>1, <3>2 DEF Done
    <3> QED BY <2>1, <3>1, <3>2, <3>3 DEF UnitOK, Sound
  <2> QED BY <2>3, <2>4, <2>5
<1>5. Values(new, wired)'
  <2>1. \A s \in Ranks : \A k \in 1 .. Len(calls[s]) : new[k] = old[k] BY DEF Extends
  <2>2. ASSUME NEW k \in 1 .. Len(calls[Source]), old[k].pc \in {"specs", "data"}
        PROVE  /\ old[k].unit \in Units(old[k].comp)
               /\ Fixed(old[k].comp, old[k].unit)'
               /\ calls[Source][k].val = SourceSpec(old[k].comp, old[k].unit)'
    <3>1. /\ old[k].unit \in Units(old[k].comp)
          /\ Fixed(old[k].comp, old[k].unit)
          /\ calls[Source][k].val = SourceSpec(old[k].comp, old[k].unit)
      BY <2>2 DEF Holds, Values
    <3>2. old[k].comp \in Components
      <4>1. calls[Source] \in Seq(Calls) BY DEF IInv, TypeOK
      <4>2. old[k] \in Places BY <4>1 DEF Itinerary
      <4> QED BY <4>2 DEF Places
    <3>3. PICK c, u : c = old[k].comp /\ u = old[k].unit OBVIOUS
    <3>4. SourceSpec(c, u)' = SourceSpec(c, u) /\ Fixed(c, u)' BY <3>1, <3>2, <3>3, <1>2
    <3> QED BY <3>1, <3>3, <3>4
  <2>3. /\ \A s \in Ranks : \A k \in 1 .. Len(calls[s]) : old[k].pc = "real" =>
                IF calls[s][k].val = "ok" THEN s = Source \/ ~wired[old[k].comp]
                ELSE wired[old[k].comp]
        /\ \A s \in Ranks : \A k \in 1 .. Len(calls[s]) : old[k].pc \in PhasesOf(old[k].comp)
    BY DEF Holds, Values
  <2>4. ASSUME NEW k \in 1 .. Len(calls'[Source]), new[k].pc \in {"specs", "data"}
        PROVE  /\ new[k].unit \in Units(new[k].comp)
               /\ Fixed(new[k].comp, new[k].unit)'
               /\ calls'[Source][k].val = SourceSpec(new[k].comp, new[k].unit)'
    <3>1. k \in 1 .. Len(calls[Source]) /\ new[k] = old[k] BY <2>1, <2>4
    <3> QED BY <2>2, <2>4, <3>1
  <2> QED BY <2>1, <2>3, <2>4 DEF Values
<1> QED BY <1>3, <1>4, <1>5 DEF Holds

\* The order of the phases.
Precedes(c, p, q) ==
    IF IsDenoiser(c)
    THEN \/ p = "real" /\ q = "resolve"
         \/ p = "resolve" /\ q = "share"
         \/ p = "share" /\ q = "layout"
         \/ p = "layout" /\ q = "compare"
         \/ p = "compare" /\ q = "keys"
         \/ p = "keys" /\ q = "read"
         \/ p = "read" /\ q = "specs"
         \/ p = "specs" /\ q = "reconcile"
         \/ p = "reconcile" /\ q = "data"
         \/ p = "data" /\ q = "quantize"
         \/ p = "quantize" /\ q = "layout"
    ELSE \/ p = "real" /\ q = "specs"
         \/ p = "specs" /\ q = "reconcile"
         \/ p = "reconcile" /\ q = "materialize"
         \/ p = "materialize" /\ q = "layout"
         \/ p = "layout" /\ q = "compare"
         \/ p = "compare" /\ q = "strides"
         \/ p = "strides" /\ q = "data"
         \/ p = "data" /\ q = "finish"

\* A phase that is not the last of its unit leads to the next one.
LEMMA Phasing == ASSUME NEW c, NEW p \in PhasesOf(c) PROVE Precedes(c, p, AfterPhase(c, p))
<1>1. ASSUME IsDenoiser(c)
      PROVE  \/ p = "real" /\ AfterPhase(c, p) = "resolve"
             \/ p = "resolve" /\ AfterPhase(c, p) = "share"
             \/ p = "share" /\ AfterPhase(c, p) = "layout"
             \/ p = "layout" /\ AfterPhase(c, p) = "compare"
             \/ p = "compare" /\ AfterPhase(c, p) = "keys"
             \/ p = "keys" /\ AfterPhase(c, p) = "read"
             \/ p = "read" /\ AfterPhase(c, p) = "specs"
             \/ p = "specs" /\ AfterPhase(c, p) = "reconcile"
             \/ p = "reconcile" /\ AfterPhase(c, p) = "data"
             \/ p = "data" /\ AfterPhase(c, p) = "quantize"
             \/ p = "quantize" /\ AfterPhase(c, p) = "layout"
  BY <1>1 DEF AfterPhase, IsDenoiser, PhasesOf, Denoiser, Shared
<1>2. ASSUME ~IsDenoiser(c)
      PROVE  \/ p = "real" /\ AfterPhase(c, p) = "specs"
             \/ p = "specs" /\ AfterPhase(c, p) = "reconcile"
             \/ p = "reconcile" /\ AfterPhase(c, p) = "materialize"
             \/ p = "materialize" /\ AfterPhase(c, p) = "layout"
             \/ p = "layout" /\ AfterPhase(c, p) = "compare"
             \/ p = "compare" /\ AfterPhase(c, p) = "strides"
             \/ p = "strides" /\ AfterPhase(c, p) = "data"
             \/ p = "data" /\ AfterPhase(c, p) = "finish"
  BY <1>2 DEF AfterPhase, IsDenoiser, PhasesOf, Encoder, Shared
<1> QED BY <1>1, <1>2 DEF Precedes

\* What the collective a rank returns from tells it.
LEMMA ReturnFacts ==
    ASSUME IInv, NEW old, NEW wired, NEW spec, Itinerary(old), Holds(old, wired, spec),
           NEW r \in Ranks, Return(r)
    PROVE  /\ pc[r] = "real" => (wired[comp[r]] <=> ~Skips(r))
           /\ pc[r] \in {"specs", "data"} =>
                Fixed(comp[r], unit[r]) /\ Received(r) = SourceSpec(comp[r], unit[r])
           /\ ~Raises(r) =>
                /\ pc[r] \in {"compare", "reconcile", "materialize"} => Agrees(r, pc[r])
                /\ pc[r] = "read" /\ r = Source => Agrees(r, "read")
<1> USE Sizes
<1> DEFINE k == Len(calls[r])
<1>1. /\ k \in 1 .. Len(calls[r]) /\ old[k] = Place(pc[r], comp[r], unit[r])
      /\ Common(old[k].pc, k)
  BY ReturnsOnward
<1>2. old[k].pc = pc[r] /\ old[k].comp = comp[r] /\ old[k].unit = unit[r] BY <1>1 DEF Place
<1>3. \A s \in Ranks : calls[s] \in Seq(Calls) /\ Len(calls[s]) \in Nat BY DEF IInv, TypeOK
<1>4. called[r] /\ pc[r] \in Phases BY DEF Return, IInv, Local
<1>5. ASSUME pc[r] = "real" PROVE wired[comp[r]] <=> ~Skips(r)
  <2>1. \A s \in Ranks : k \in 1 .. Len(calls[s]) BY <1>1, <1>2, <1>3, <1>5 DEF Common, Op
  <2>2. \A s \in Ranks : IF calls[s][k].val = "ok" THEN s = Source \/ ~wired[comp[r]]
                         ELSE wired[comp[r]]
    BY <1>2, <1>5, <2>1 DEF Holds, Values
  <2>3. 1 \in Ranks /\ 1 # Source BY RanksAssumption DEF Ranks, Source
  <2>4. CASE \A s \in Ranks : calls[s][k].val = "ok"
    <3>1. Contributions(r) = {"ok"} BY <2>4 DEF Contributions
    <3> QED BY <1>5, <2>2, <2>3, <2>4, <3>1 DEF Skips
  <2>5. CASE \E s \in Ranks : calls[s][k].val # "ok"
    <3>1. Contributions(r) # {"ok"} BY <2>5 DEF Contributions
    <3> QED BY <2>2, <2>5, <3>1 DEF Skips
  <2> QED BY <2>4, <2>5
<1>6. ASSUME pc[r] \in {"specs", "data"}
      PROVE  Fixed(comp[r], unit[r]) /\ Received(r) = SourceSpec(comp[r], unit[r])
  <2>1. k \in 1 .. Len(calls[Source]) BY <1>1, <1>2, <1>3, <1>6 DEF Common, Op
  <2> QED BY <1>2, <1>6, <2>1 DEF Holds, Values, Received
<1>7. ASSUME ~Raises(r), pc[r] \in {"compare", "reconcile", "materialize"}
      PROVE  Agrees(r, pc[r])
  <2>1. Last(r) \in Contributions(r) BY DEF Last, Contributions
  <2> QED BY <1>4, <1>7, <2>1 DEF Raises, Agrees
<1>8. ASSUME ~Raises(r), pc[r] = "read", r = Source PROVE Agrees(r, "read")
  BY <1>4, <1>8 DEF Raises, Received, Agrees, Last
<1> QED BY <1>5, <1>6, <1>7, <1>8

\* Returning from a collective keeps the invariant.
LEMMA ReturnWeights ==
    ASSUME IInv, NEW old, NEW new, NEW wired, NEW spec, Itinerary(old), Holds(old, wired, spec),
           Extends(old, new), NEW r \in Ranks, Return(r)
    PROVE  Holds(new, wired, spec)'
<1> USE Sizes
<1>1. /\ called[r] /\ pc[r] \in Phases /\ pc[r] \in PhasesOf(comp[r])
      /\ comp[r] \in Components /\ unit[r] \in Units(comp[r]) /\ unit[r] \in 0 .. Rest
      /\ Here(r) \in Loose
      /\ pc[r] = "quantize" => IsDenoiser(comp[r]) /\ unit[r] < Rest
  BY HereTyped DEF Return, IInv, TypeOK, Local, PhasesOf, Encoder, Shared, IsDenoiser
<1>n. comp[r] \in Nat /\ unit[r] \in Nat
  <2>1. comp[r] \in Nat BY <1>1
  <2>2. unit[r] \in Nat BY <1>1
  <2> QED BY <2>1, <2>2
<1>2. /\ calls' = calls /\ differs' = differs /\ comp' = comp /\ called'[r] = FALSE
      /\ \A s \in Ranks : s # r => /\ pc'[s] = pc[s] /\ called'[s] = called[s]
                                   /\ comp'[s] = comp[s] /\ unit'[s] = unit[s]
      /\ IF Raises(r) THEN pc'[r] = "failed" /\ unit'[r] = unit[r] /\ tensor' = tensor
         ELSE /\ pc'[r] = (IF Skips(r) THEN "finish"
                           ELSE IF pc[r] = "data" /\ InTail(r) THEN "finalize"
                           ELSE AfterPhase(comp[r], pc[r]))
              /\ unit'[r] = NextUnit(r) /\ tensor' = SetHere(r, Arrived(r))
  BY DEF Return, IInv, TypeOK
<1>3. /\ HereOK(r) /\ Sound(r, comp[r], unit[r]) /\ (pc[r] # "real" => wired[comp[r]])
      /\ Here(r).data # "corrupt" /\ (Here(r).quantized => Here(r).data = "weights")
      /\ Stored(r) /\ Loaded(r) /\ Alike(r) /\ Compared(r)
      /\ Here(r).quantized => pc[r] = "quantize"
  BY <1>1 DEF Holds, RankOK, UnitOK, Sound, Here, HereOK
<1>4. "finish" \notin Phases /\ "finalize" \notin Phases /\ "done" \notin Phases /\ "failed" \notin Phases
  BY DEF Phases, Denoiser, Encoder, Shared
<1>5. \A c \in Components : \A u \in Units(c) : c \in Nat /\ u \in Nat
  <2> TAKE c \in Components
  <2> TAKE u \in Units(c)
  <2>1. c \in Nat OBVIOUS
  <2>2. u \in 0 .. Rest OBVIOUS
  <2> QED BY <2>1, <2>2
<1>6. CASE Raises(r)
  <2>1. Changes(r, Here(r)) BY <1>2, <1>6, SetChanges
  <2>2. pc'[r] = "failed" /\ unit'[r] = unit[r] /\ comp'[r] = comp[r] BY <1>2, <1>6
  <2>3. \A c \in Components : \A u \in Units(c) : Fixed(c, u) => Fixed(c, u)'
    BY <1>2, <2>2 DEF Fixed, Announced
  <2>4. \A c \in Components : \A u \in Units(c) : Fresh(r, c, u)' => Fresh(r, c, u)
    BY <2>2 DEF Fresh
  <2>5. \A c \in Components : \A u \in Units(c) :
            Through(r, c, u)' => Through(r, c, u) /\ ~Current(r, c, u)
    BY <1>5, <1>n, <2>2 DEF Through, Current
  <2>6. RankOK(wired, r)' BY <1>4, <2>2 DEF RankOK, HereOK
  <2> QED BY <1>2, <1>3, <2>1, <2>3, <2>4, <2>5, <2>6, MoveWeights
<1>7. CASE ~Raises(r)
  <2>1. /\ pc'[r] = (IF Skips(r) THEN "finish"
                     ELSE IF pc[r] = "data" /\ InTail(r) THEN "finalize"
                     ELSE AfterPhase(comp[r], pc[r]))
        /\ unit'[r] = NextUnit(r) /\ tensor' = SetHere(r, Arrived(r)) /\ comp'[r] = comp[r]
    BY <1>2, <1>7
  <2>2. Precedes(comp[r], pc[r], AfterPhase(comp[r], pc[r])) BY <1>1, Phasing
  <2>3. /\ pc[r] = "real" => (wired[comp[r]] <=> ~Skips(r))
        /\ pc[r] \in {"specs", "data"} =>
                Fixed(comp[r], unit[r]) /\ Received(r) = SourceSpec(comp[r], unit[r])
        /\ pc[r] \in {"compare", "reconcile", "materialize"} => Agrees(r, pc[r])
        /\ pc[r] = "read" /\ r = Source => Agrees(r, "read")
    BY <1>7, ReturnFacts
  <2>4. PICK t : t = Arrived(r) OBVIOUS
  <2>5. Changes(r, t) BY <2>1, <2>4, SetChanges
  \* The data has arrived in a tensor of the source's spec.
  <2>6. /\ pc[r] # "data" \/ r = Source => t = Here(r)
        /\ t.spec = Here(r).spec /\ t.quantized = Here(r).quantized
        /\ pc[r] = "data" => t.data = "weights"
        /\ pc[r] \in {"data", "quantize"} /\ r # Source =>
                Fixed(comp[r], unit[r]) /\ t.spec = SourceSpec(comp[r], unit[r])
    <3>1. t.spec = Here(r).spec /\ t.quantized = Here(r).quantized
      BY <2>4, <1>1 DEF Arrived, Loose
    <3>2. ASSUME r # Source, pc[r] \in {"data", "quantize"}
          PROVE  Fixed(comp[r], unit[r]) /\ Here(r).spec = SourceSpec(comp[r], unit[r])
      <4>1. pc[r] \in AfterSpecs(comp[r]) \ {"reconcile"} /\ pc[r] \in AfterCompare(comp[r])
        BY <3>2, <1>1 DEF AfterSpecs, AfterCompare
      <4> QED BY <3>2, <4>1, <1>3 DEF Alike, Compared
    <3>3. ASSUME r # Source, pc[r] = "data" PROVE t.data = "weights"
      <4>1. Here(r).data # "meta" BY <1>3, <3>3 DEF Stored
      <4>2. Here(r).spec = Received(r) BY <2>3, <3>2, <3>3
      <4> QED BY <2>4, <3>3, <4>1, <4>2, <1>1 DEF Arrived, Loose
    <3>4. ASSUME r = Source, pc[r] = "data" PROVE Here(r).data = "weights"
      BY <1>1, <1>3, <3>4 DEF Loaded, HereOK
    <3>5. pc[r] # "data" \/ r = Source => t = Here(r) BY <2>4 DEF Arrived
    <3> QED BY <3>1, <3>2, <3>3, <3>4, <3>5
  <2>7. t.data # "corrupt" /\ (t.quantized => t.data = "weights")
    BY <1>3, <2>6
  <2>8. ~wired[comp[r]] => t = Here(r) BY <1>3, <2>6
  <2>9. \A c \in Components : \A u \in Units(c) : Fixed(c, u) => Fixed(c, u)'
    <3>1. CASE r # Source BY <3>1, <1>2 DEF Fixed, Announced, AfterSpecs, IsDenoiser
    <3>2. CASE r = Source
      <4> SUFFICES ASSUME NEW c \in Components, NEW u \in Units(c), Fixed(c, u)
                   PROVE  Fixed(c, u)'
        OBVIOUS
      <4>1. CASE c < comp[r] BY <3>2, <4>1, <2>1 DEF Fixed
      <4>2. CASE c = comp[r] /\ u < unit[r]
        <5>1. u < unit'[r] BY <1>5, <1>n, <2>1, <4>2 DEF NextUnit
        <5> QED BY <3>2, <4>2, <5>1, <2>1 DEF Fixed
      <4>3. CASE c = comp[r] /\ u = unit[r] /\ Announced(r)
        <5>1. CASE pc[r] = "quantize"
          <6>1. u < unit'[r] BY <1>n, <2>1, <4>3, <5>1 DEF NextUnit
          <6> QED BY <3>2, <4>3, <6>1, <2>1 DEF Fixed
        <5>2. CASE pc'[r] \in {"finalize", "finish"} BY <3>2, <4>3, <5>2, <2>1 DEF Fixed
        <5>3. CASE pc[r] # "quantize" /\ pc'[r] \notin {"finalize", "finish"}
          <6>1. pc'[r] \in AfterSpecs(comp[r]) /\ unit'[r] = unit[r]
            BY <2>1, <2>2, <4>3, <5>3, <1>1 DEF Precedes, Announced, AfterSpecs, NextUnit
          <6>2. Announced(r)' BY <6>1, <2>1 DEF Announced, AfterSpecs, IsDenoiser
          <6> QED BY <3>2, <4>3, <6>1, <6>2, <2>1 DEF Fixed
        <5> QED BY <5>1, <5>2, <5>3
      <4> QED BY <1>1, <1>4, <3>2, <4>1, <4>2, <4>3 DEF Fixed
    <3> QED BY <3>1, <3>2
  <2>10. pc'[r] # "real" BY <2>1, <2>2 DEF Precedes
  <2>11. \A c \in Components : \A u \in Units(c) :
            Fresh(r, c, u)' => Fresh(r, c, u) /\ ~Current(r, c, u)
    BY <1>5, <1>n, <2>1, <2>10 DEF Fresh, Current, NextUnit
  <2>12. ASSUME NEW c \in Components, NEW u \in Units(c), wired[c], Through(r, c, u)'
         PROVE  IF Current(r, c, u)
                THEN t.data = "weights" /\ (r # Source => Fixed(c, u) /\ t.spec = SourceSpec(c, u))
                ELSE Through(r, c, u)
    <3>1. CASE c < comp[r] BY <3>1, <1>5, <1>n DEF Through, Current
    <3>2. CASE c = comp[r] /\ u # unit[r]
      <4>1. CASE u < unit[r] BY <3>2, <4>1 DEF Through, Current
      <4>2. CASE unit[r] < u
        <5>1. CASE pc'[r] = "finish"
          <6>1. Kind[c] = "denoiser"
            <7>1. Kind[c] # "denoiser" => Units(c) = {0} BY DEF Units
            <7> QED BY <7>1, <1>1, <3>2
          <6>2. pc[r] = "real" /\ Skips(r)
            BY <2>1, <2>2, <3>2, <5>1, <6>1 DEF Precedes, IsDenoiser, Skips
          <6> QED BY <2>3, <2>12, <3>2, <6>2
        <5>2. CASE pc'[r] = "finalize"
          <6>1. unit[r] = Rest BY <1>4, <2>1, <2>2, <5>2 DEF Precedes, InTail, Rest
          <6>2. u <= Rest
            <7>1. u \in 0 .. Rest OBVIOUS
            <7> QED BY <7>1
          <6> QED BY <6>1, <6>2, <4>2, <1>5, <1>n
        <5>3. CASE pc'[r] \notin {"finish", "finalize"}
          <6>1. u < unit'[r] BY <2>1, <2>2, <2>12, <3>2, <5>3 DEF Through, Precedes
          <6> QED BY <1>5, <1>n, <2>1, <4>2, <6>1 DEF NextUnit
        <5> QED BY <5>1, <5>2, <5>3
      <4> QED BY <1>5, <1>n, <3>2, <4>1, <4>2
    <3>3. CASE Current(r, c, u)
      <4>1. c = comp[r] /\ u = unit[r] BY <3>3 DEF Current
      <4>2. CASE pc[r] = "quantize"
        <5>1. t.data = "weights"
          BY <1>1, <1>3, <2>6, <4>2 DEF Loaded
        <5> QED BY <3>3, <4>1, <4>2, <5>1, <2>6
      <4>3. CASE pc[r] = "data" BY <3>3, <4>1, <4>3, <2>6
      <4>4. CASE pc[r] \notin {"quantize", "data"}
        <5>1. pc'[r] \in {"finalize", "finish", "done"}
          BY <1>n, <2>1, <2>12, <4>1, <4>4 DEF Through, NextUnit
        <5>2. pc[r] = "real" /\ Skips(r)
          BY <2>1, <2>2, <4>4, <5>1 DEF Precedes, Skips
        <5> QED BY <2>3, <2>12, <4>1, <5>2
      <4> QED BY <4>2, <4>3, <4>4
    <3>4. c < comp[r] \/ c = comp[r] BY <2>1, <2>12 DEF Through
    <3>5. c < comp[r] \/ (c = comp[r] /\ u # unit[r]) \/ Current(r, c, u)
      BY <3>4 DEF Current
    <3> QED BY <3>1, <3>2, <3>3, <3>5
  <2>13. RankOK(wired, r)'
    <3>1. /\ pc'[r] # "done" /\ pc'[r] # "real"
          /\ pc[r] # "quantize" => unit'[r] = unit[r]
      BY <2>1, <2>2 DEF Precedes, NextUnit
    <3>2. pc'[r] \in Phases => wired[comp[r]]
      <4>1. CASE pc[r] = "real"
        <5>1. Skips(r) => pc'[r] = "finish" BY <2>1
        <5> QED BY <1>4, <2>3, <4>1, <5>1
      <4>2. CASE pc[r] # "real" BY <1>3, <4>2
      <4> QED BY <4>1, <4>2
    <3>3. /\ \A g : ~Agrees(r, g)'
          /\ AfterSpecs(comp[r])' = AfterSpecs(comp[r]) /\ AfterCompare(comp[r])' = AfterCompare(comp[r])
          /\ IsDenoiser(comp[r])' = IsDenoiser(comp[r])
      BY <1>2 DEF Agrees, AfterSpecs, AfterCompare, IsDenoiser
    <3>4. CASE pc[r] = "quantize"
      <4>1. pc'[r] = "layout" /\ unit'[r] = unit[r] + 1 /\ IsDenoiser(comp[r])
        BY <1>1, <2>1, <2>2, <3>4 DEF Precedes, Skips, NextUnit
      <4>2. PICK c, u : c = comp[r] /\ u = unit[r] + 1 OBVIOUS
      <4>3. c \in Components /\ u \in Units(c)
        <5>1. u \in 0 .. Rest BY <1>1, <1>n, <3>4, <4>2
        <5> QED BY <1>1, <4>1, <4>2, <5>1 DEF IsDenoiser
      <4>4. Fresh(r, c, u) /\ ~Current(r, c, u) BY <1>n, <4>2 DEF Fresh, Current
      <4>5. wired[c] BY <1>1, <1>3, <3>4, <4>2
      <4>6. tensor[r][c][u] = Built(c, r, wired[c], spec) BY <4>3, <4>4 DEF Holds, UnitOK
      <4>7. tensor'[r][c][u] = tensor[r][c][u] BY <2>5, <4>3, <4>4 DEF Changes
      <4>8. Here(r)' = tensor'[r][c][u] BY <2>1, <4>1, <4>2 DEF Here
      <4>9. ~Here(r)'.quantized BY <4>5, <4>6, <4>7, <4>8 DEF Built
      <4>10. Stored(r)' BY <1>2, <2>1, <3>3, <4>1 DEF Stored
      <4>11. Loaded(r)' BY <1>2, <2>1, <3>3, <4>1 DEF Loaded
      <4>12. Alike(r)'
        <5>1. pc'[r] \notin AfterSpecs(comp[r]) BY <4>1 DEF AfterSpecs
        <5> QED BY <2>1, <3>3, <5>1 DEF Alike
      <4>13. Compared(r)'
        <5>1. pc'[r] \notin AfterCompare(comp[r]) BY <4>1 DEF AfterCompare
        <5> QED BY <2>1, <3>3, <5>1 DEF Compared
      <4>14. HereOK(r)' BY <2>1, <3>3, <4>1, <4>9, <4>10, <4>11, <4>12, <4>13 DEF HereOK
      <4> QED BY <2>1, <3>1, <3>2, <4>14 DEF RankOK
    <3>5. CASE pc[r] # "quantize" /\ pc'[r] \in Phases
      <4>0. pc'[r] = AfterPhase(comp[r], pc[r]) BY <1>4, <2>1, <3>5
      <4>1. Precedes(comp[r], pc[r], pc'[r]) BY <2>2, <4>0
      <4>2. unit'[r] = unit[r] /\ Here(r)' = t
        BY <1>1, <2>1, <2>5, <3>1, <3>5 DEF Here, Changes, Current
      <4>3. PICK c, u : c = comp[r] /\ u = unit[r] OBVIOUS
      <4>4. /\ SourceSpec(comp[r], unit[r])' = SourceSpec(c, u)' /\ Fixed(comp[r], unit[r])' = Fixed(c, u)'
        BY <2>1, <4>2, <4>3 DEF SourceSpec, Fixed
      <4>5. Fixed(c, u) => Fixed(c, u)' BY <1>1, <2>9, <4>3
      <4>6. SourceSpec(c, u)' = SourceSpec(c, u)
        <5>1. CASE r = Source BY <1>1, <2>5, <2>6, <4>3, <5>1 DEF SourceSpec, Changes, Here
        <5>2. CASE r # Source BY <1>1, <2>5, <4>3, <5>2 DEF SourceSpec, Changes
        <5> QED BY <5>1, <5>2
      <4>7. pc[r] \in {"data", "real"} \/ t = Here(r) BY <2>6
      <4>8. t.data # Here(r).data => pc[r] = "data" /\ t.data = "weights" BY <2>6
      <4>9. ~t.quantized BY <1>3, <2>6, <3>5
      <4>10. Stored(r)'
        BY <1>1, <1>2, <1>3, <2>1, <2>3, <3>3, <4>1, <4>2, <4>8 DEF Stored, Precedes
      <4>11. Loaded(r)'
        BY <1>2, <1>3, <2>1, <2>3, <2>6, <3>3, <4>1, <4>2 DEF Loaded, Precedes
      <4>12. Compared(r)'
        BY <1>2, <1>3, <2>1, <2>3, <3>3, <4>1 DEF Compared, Precedes, AfterCompare
      <4>13. Alike(r)'
        <5> SUFFICES ASSUME r # Source PROVE Alike(r)' BY DEF Alike
        <5>1. pc'[r] \in AfterSpecs(c) => Fixed(c, u)
          BY <1>3, <2>3, <4>1, <4>3 DEF Alike, Precedes, AfterSpecs
        <5>2. pc'[r] \in AfterSpecs(c) \ {"reconcile"} => r \in differs[c] \/ t.spec = SourceSpec(c, u)
          BY <1>3, <2>3, <2>6, <4>1, <4>3 DEF Alike, Precedes, AfterSpecs
        <5> QED BY <1>2, <2>1, <3>3, <4>2, <4>3, <4>4, <4>5, <4>6, <5>1, <5>2 DEF Alike
      <4>14. r = Source /\ ~IsDenoiser(comp[r]) => t.data = "weights"
        BY <1>1, <1>3, <2>6 DEF HereOK
      <4>15. HereOK(r)' BY <2>1, <3>3, <4>2, <4>9, <4>10, <4>11, <4>12, <4>13, <4>14 DEF HereOK
      <4> QED BY <2>1, <3>1, <3>2, <4>15 DEF RankOK
    <3>6. CASE pc'[r] \notin Phases BY <2>1, <3>1, <3>6 DEF RankOK, HereOK
    <3> QED BY <3>4, <3>5, <3>6
  <2> QED BY <1>2, <2>5, <2>6, <2>7, <2>8, <2>9, <2>11, <2>12, <2>13, MoveWeights
<1> QED BY <1>6, <1>7

\* The end of a fill and the next component touch no tensor.
LEMMA OnWeights ==
    ASSUME IInv, NEW old, NEW new, NEW wired, NEW spec, Itinerary(old), Holds(old, wired, spec),
           Extends(old, new), NEW r \in Ranks, Finalize(r) \/ NextComponent(r)
    PROVE  Holds(new, wired, spec)'
<1> USE Sizes
<1>1. /\ pc \in [Ranks -> Phases \union {"finalize", "finish", "done", "failed"}]
      /\ comp \in [Ranks -> Components] /\ unit \in [Ranks -> 0 .. Rest]
      /\ comp[r] \in Components /\ unit[r] \in Units(comp[r])
  BY HereTyped DEF IInv, TypeOK
<1>n. comp[r] \in Nat /\ unit[r] \in Nat
  <2>1. comp[r] \in Nat BY <1>1
  <2>2. unit[r] \in Nat BY <1>1
  <2> QED BY <2>1, <2>2
<1>2. /\ called' = called /\ calls' = calls /\ tensor' = tensor /\ differs' = differs
      /\ \A s \in Ranks : s # r => pc'[s] = pc[s] /\ comp'[s] = comp[s] /\ unit'[s] = unit[s]
  BY <1>1 DEF Finalize, NextComponent
<1>3. \/ /\ pc[r] = "finalize" /\ pc'[r] \in {"failed", "finish"}
         /\ comp'[r] = comp[r] /\ unit'[r] = unit[r]
      \/ /\ pc[r] = "finish" /\ pc'[r] = "done" /\ comp[r] = Len(Kind)
         /\ comp'[r] = comp[r] /\ unit'[r] = unit[r]
      \/ /\ pc[r] = "finish" /\ pc'[r] = "real" /\ comp'[r] = comp[r] + 1 /\ unit'[r] = 0
         /\ comp[r] + 1 \in Components
  <2>1. CASE Finalize(r) BY <2>1, <1>1 DEF Finalize
  <2>2. CASE NextComponent(r) /\ comp[r] = Len(Kind) BY <2>2, <1>1 DEF NextComponent
  <2>3. CASE NextComponent(r) /\ comp[r] # Len(Kind)
    <3>1. comp[r] + 1 \in Components BY <2>3, <1>1 DEF Components
    <3> QED BY <2>3, <3>1, <1>1 DEF NextComponent
  <2> QED BY <2>1, <2>2, <2>3
<1>4. /\ "real" \in Phases
      /\ "finish" \notin Phases /\ "finalize" \notin Phases /\ "done" \notin Phases /\ "failed" \notin Phases
  BY DEF Phases, Denoiser, Encoder, Shared
<1>5. Changes(r, Here(r)) BY <1>2, SetChanges
<1>6. ASSUME NEW c \in Components, NEW u \in Units(c) PROVE c \in Nat /\ u \in Nat
  <2>1. c \in Nat OBVIOUS
  <2>2. u \in 0 .. Rest OBVIOUS
  <2> QED BY <2>1, <2>2
<1>7. Sound(r, comp[r], unit[r]) BY <1>1 DEF Holds, UnitOK
<1>8. Here(r).data # "corrupt" /\ (Here(r).quantized => Here(r).data = "weights")
  BY <1>7 DEF Sound, Here
<1>9. ASSUME NEW c \in Components, NEW u \in Units(c), Fixed(c, u) PROVE Fixed(c, u)'
  <2>1. CASE r # Source BY <2>1, <1>2, <1>9 DEF Fixed, Announced, AfterSpecs, IsDenoiser
  <2>2. CASE r = Source
    <3>1. c <= comp[r] BY <2>2, <1>6, <1>9, <1>n DEF Fixed
    <3>2. pc'[r] \in {"failed", "finish", "done"} \/ comp'[r] = comp[r] + 1 BY <1>3
    <3> QED BY <2>2, <3>1, <3>2, <1>3, <1>6, <1>9, <1>n DEF Fixed
  <2> QED BY <2>1, <2>2
<1>10. ASSUME NEW c \in Components, NEW u \in Units(c), Fresh(r, c, u)' PROVE Fresh(r, c, u)
  BY <1>3, <1>6, <1>10, <1>n DEF Fresh
<1>11. ASSUME NEW c \in Components, NEW u \in Units(c), Through(r, c, u)' PROVE Through(r, c, u)
  BY <1>3, <1>6, <1>11, <1>n DEF Through
<1>12. ASSUME NEW c \in Components, NEW u \in Units(c), wired[c], Through(r, c, u)'
       PROVE  IF Current(r, c, u)
              THEN /\ Here(r).data = "weights"
                   /\ r # Source => Fixed(c, u) /\ Here(r).spec = SourceSpec(c, u)
              ELSE Through(r, c, u)
  <2>1. Through(r, c, u) BY <1>11, <1>12
  <2>2. Done(r, c, u) BY <1>12 DEF Holds, UnitOK
  <2> QED BY <2>1, <2>2 DEF Done, Here, Current
<1>13. RankOK(wired, r)'
  <2>0. RankOK(wired, r) BY DEF Holds
  <2>1. CASE pc'[r] \in {"failed", "finish"} BY <2>1, <1>4 DEF RankOK, HereOK
  <2>2. CASE pc'[r] = "done" BY <2>2, <1>3, <1>4 DEF RankOK, HereOK
  <2>3. CASE pc'[r] = "real"
    <3>1. PICK c : c = comp[r] + 1 OBVIOUS
    <3>2. /\ c \in Components /\ comp'[r] = c /\ unit'[r] = 0 /\ 0 \in Units(c) BY <2>3, <3>1, <1>3
    <3>3. Fresh(r, c, 0) BY <3>1, <1>n DEF Fresh
    <3>4. tensor[r][c][0] = Built(c, r, wired[c], spec) BY <3>2, <3>3 DEF Holds, UnitOK
    <3>5. Here(r)' = Built(c, r, wired[c], spec) BY <3>2, <3>4, <1>2 DEF Here
    <3>6. Kind[c] \in {"denoiser", "encoder"} BY <3>2, KindAssumption DEF Components
    <3>7. /\ ~Here(r)'.quantized
          /\ r = Source /\ Kind[c] # "denoiser" => Here(r)'.data = "weights"
      BY <3>5, <3>6 DEF Built
    <3>8. \A g : Agrees(r, g)' => g = "real" BY <2>3 DEF Agrees
    <3>9. Stored(r)' /\ Loaded(r)' BY <2>3, <3>8 DEF Stored, Loaded
    <3>10. Alike(r)' /\ Compared(r)'
      <4>1. /\ "real" \notin AfterSpecs(comp[r])' /\ "real" \notin AfterCompare(comp[r])'
        BY DEF AfterSpecs, AfterCompare
      <4> QED BY <2>3, <3>8, <4>1 DEF Alike, Compared
    <3>11. IsDenoiser(comp[r])' <=> Kind[c] = "denoiser" BY <3>2 DEF IsDenoiser
    <3> QED BY <2>3, <3>7, <3>9, <3>10, <3>11, <1>4 DEF RankOK, HereOK
  <2> QED BY <2>1, <2>2, <2>3, <1>3
<1> QED BY <1>2, <1>5, <1>8, <1>9, <1>10, <1>12, <1>13, MoveWeights

-----------------------------------------------------------------------------
(* The theorem *)

\* Every step keeps the invariant.
LEMMA WeightsKeep == ASSUME WInv, [Next]_vars PROVE WInv'
<1>1. PICK old, wired, spec : Itinerary(old) /\ Holds(old, wired, spec) BY DEF WInv
<1>2. IInv BY <1>1 DEF WInv, IInv
<1>3. Kept BY <1>2, StepKeeps
<1>4. PICK new : Itinerary(new)' /\ Extends(old, new) BY <1>1, <1>3 DEF Kept
<1>5. ASSUME NEW r \in Ranks, Step(r) PROVE \E places : Itinerary(places)' /\ Holds(places, wired, spec)'
  <2>1. CASE \/ AskReal(r) \/ ResolveMap(r) \/ ShareMap(r)
             \/ SendLayout(r) \/ CompareLayout(r) \/ RequireKeys(r) \/ Read(r)
             \/ SendSpecs(r) \/ Reconcile(r) \/ Materialize(r) \/ CheckStrides(r)
             \/ SendData(r) \/ Quantize(r)
    <3>1. Holds(old, wired, spec)' BY <1>1, <1>2, <2>1, EnteringWeights
    <3>2. Itinerary(old)' BY <1>1, <1>2, <2>1, Entering, ArrivesItinerary
    <3> QED BY <3>1, <3>2
  <2>2. CASE Return(r)
    <3>1. Holds(new, wired, spec)' BY <1>1, <1>2, <1>4, <2>2, ReturnWeights
    <3> QED BY <1>4, <3>1
  <2>3. CASE Finalize(r) \/ NextComponent(r)
    <3>1. Holds(new, wired, spec)' BY <1>1, <1>2, <1>4, <2>3, OnWeights
    <3> QED BY <1>4, <3>1
  <2> QED BY <1>5, <2>1, <2>2, <2>3 DEF Step
<1>6. CASE UNCHANGED vars
  <2>1. Holds(old, wired, spec)'
    <3>0. /\ pc' = pc /\ called' = called /\ comp' = comp /\ unit' = unit
          /\ calls' = calls /\ tensor' = tensor /\ differs' = differs
      BY <1>6 DEF vars
    <3>1. /\ \A r : Here(r)' = Here(r)
          /\ \A r, g : Agrees(r, g)' = Agrees(r, g)
          /\ \A r : Announced(r)' = Announced(r)
          /\ \A c, u : SourceSpec(c, u)' = SourceSpec(c, u)
      BY <3>0 DEF Here, Agrees, Last, Announced, SourceSpec
    <3>2. \A c, u : Fixed(c, u)' = Fixed(c, u) BY <3>0, <3>1 DEF Fixed
    <3>3. \A r : /\ Stored(r)' = Stored(r)
                /\ Loaded(r)' = Loaded(r)
      BY <3>0, <3>1 DEF Stored, Loaded
    <3>4. \A r : Alike(r)' = Alike(r) BY <3>0, <3>1, <3>2 DEF Alike
    <3>5. \A r : Compared(r)' = Compared(r) BY <3>0, <3>1 DEF Compared
    <3>6. \A r : HereOK(r)' = HereOK(r) BY <3>0, <3>1, <3>3, <3>4, <3>5 DEF HereOK, IsDenoiser
    <3>7. \A r : RankOK(wired, r)' = RankOK(wired, r) BY <3>0, <3>6 DEF RankOK
    <3>8. \A r, c, u : /\ Fresh(r, c, u)' = Fresh(r, c, u)
                      /\ Through(r, c, u)' = Through(r, c, u)
      BY <3>0 DEF Fresh, Through
    <3>9. \A r, c, u : UnitOK(wired, spec, r, c, u)' = UnitOK(wired, spec, r, c, u)
      <4>1. TAKE r, c, u
      <4>2. Sound(r, c, u)' = Sound(r, c, u) BY <3>0 DEF Sound
      <4>3. Done(r, c, u)' = Done(r, c, u) BY <3>0, <3>1, <3>2, <3>8 DEF Done
      <4>4. Built(c, r, wired[c], spec)' = Built(c, r, wired[c], spec) BY DEF Built
      <4> QED BY <3>0, <3>8, <4>2, <4>3, <4>4 DEF UnitOK
    <3>10. Values(old, wired)' = Values(old, wired) BY <3>0, <3>1, <3>2 DEF Values
    <3> QED BY <1>1, <3>7, <3>9, <3>10 DEF Holds
  <2>2. /\ \A p, j : Outcome(p, j)' = Outcome(p, j)
        /\ \A p, j : Common(p, j)' = Common(p, j)
        /\ \A s, j : Passed(s, j)' = Passed(s, j)
        /\ \A s : Ahead(s)' = Ahead(s)
    BY <1>6 DEF vars, Outcome, Fails, Following, Ahead, Onward, AfterFinalize, AfterFinish,
                Common, Passed
  <2>3. Itinerary(old)' BY <1>1, <1>6, <2>2 DEF Itinerary, vars
  <2> QED BY <1>3, <2>1, <2>3 DEF WInv, Kept
<1>7. ASSUME NEW r \in Ranks, Step(r) PROVE WInv' BY <1>3, <1>5, <1>7 DEF WInv, Kept
<1> QED BY <1>6, <1>7 DEF Next, Terminated

\* A rank that is done has rank 0's weights in every tensor, whatever it had
\* built and whatever rank 0 read; no tensor ever holds bytes of another spec,
\* and nothing but real weights is quantized.
THEOREM WeightsArrive == Spec => []WeightsIntact
<1> USE Sizes
<1>1. ASSUME WInv PROVE WeightsIntact
  <2>1. PICK places, wired, spec : Itinerary(places) /\ Holds(places, wired, spec) BY <1>1 DEF WInv
  <2> SUFFICES ASSUME NEW r \in Ranks, NEW c \in Components, NEW u \in Units(c)
               PROVE  LET t == tensor[r][c][u] IN
                      /\ t.data # "corrupt"
                      /\ t.quantized => t.data = "weights"
                      /\ pc[r] = "done" => t.data = "weights" /\ t.spec = tensor[Source][c][u].spec
    BY DEF WeightsIntact
  <2>2. UnitOK(wired, spec, r, c, u) /\ UnitOK(wired, spec, Source, c, u) BY <2>1 DEF Holds
  <2>3. Sound(r, c, u) BY <2>2 DEF UnitOK
  <2>4. ASSUME pc[r] = "done"
        PROVE  tensor[r][c][u].data = "weights" /\ tensor[r][c][u].spec = tensor[Source][c][u].spec
    <3>1. CASE ~wired[c] BY <2>2, <3>1 DEF UnitOK, Built
    <3>2. CASE wired[c]
      <4>1. comp[r] = Len(Kind) BY <2>1, <2>4 DEF Holds, RankOK
      <4>2. c \in Nat /\ Len(Kind) \in Nat /\ c <= Len(Kind) BY DEF Components
      <4>3. Through(r, c, u) BY <2>4, <4>1, <4>2 DEF Through
      <4> QED BY <2>2, <3>2, <4>3 DEF UnitOK, Done, SourceSpec
    <3> QED BY <3>1, <3>2
  <2> QED BY <2>3, <2>4 DEF Sound
<1> QED BY <1>1, WeightsInitially, WeightsKeep, PTL DEF Spec
=============================================================================
