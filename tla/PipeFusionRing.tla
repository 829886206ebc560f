---------------------------- MODULE PipeFusionRing ----------------------------
(***************************************************************************)
(* What the asynchronous PipeFusion pipeline promises, without transport:  *)
(* a ring of stages, each of which computes every patch of every step, in  *)
(* order, a patch only after the stage before has computed it; for the     *)
(* first stage that is the last stage, one step earlier.                   *)
(***************************************************************************)
EXTENDS Naturals

CONSTANTS NumStages, NumSteps, NumPatches

VARIABLE todo  \* todo[i]: the next patch stage i computes, and in which step

Stages == 0 .. NumStages - 1
Work   == [step : 0 .. NumSteps, patch : 0 .. NumPatches - 1]

Before(a, b) == a.step < b.step \/ (a.step = b.step /\ a.patch < b.patch)

NextWork(w) == IF w.patch < NumPatches - 1 THEN [w EXCEPT !.patch = @ + 1]
               ELSE [step |-> w.step + 1, patch |-> 0]

\* The input of the first step comes from the warmup.
InputReady(i) ==
    IF i = 0
    THEN todo[0].step = 0 \/ Before([todo[0] EXCEPT !.step = @ - 1], todo[NumStages - 1])
    ELSE Before(todo[i], todo[i - 1])

Compute(i) ==
    /\ todo[i].step < NumSteps
    /\ InputReady(i)
    /\ todo' = [todo EXCEPT ![i] = NextWork(@)]

Init == todo = [i \in Stages |-> [step |-> 0, patch |-> 0]]
Next == \E i \in Stages : Compute(i)
Spec == Init /\ [][Next]_todo
FairSpec == Spec /\ \A i \in Stages : WF_todo(Compute(i))
=============================================================================
