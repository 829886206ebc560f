---------------------------- MODULE MCAttentionA2A ----------------------------
(* Values of the constants of AttentionA2A for TLC. *)
EXTENDS AttentionA2A
CONSTANTS r1, r2, A, B
TwoRecipes == <<A, B>>
Uniform    == {{}, {r1, r2}}
=============================================================================
