--------------------------- MODULE MCRequestOutput ---------------------------
(* Values of the constants of RequestOutput for TLC. *)
EXTENDS RequestOutput

\* A setup from its degrees, decoder, caller and prompts.
S(tp, sp, pp, cfg, dp, vae, parallel, caller, prompts, batch) ==
    [tp |-> tp, sp |-> sp, pp |-> pp, cfg |-> cfg, dp |-> dp, vae |-> vae,
     parallel |-> parallel, caller |-> caller, prompts |-> prompts, batch |-> batch]

ManySetups ==
    { \* wrappers whose replicas' latents are gathered and broadcast
      S(1, 1, 1, 2, 2, 0, TRUE, "legacy", 4, 1),
      S(1, 2, 1, 1, 2, 0, TRUE, "legacy", 4, 0),
      S(1, 1, 2, 1, 3, 0, TRUE, "legacy", 3, 0),
      S(1, 1, 2, 2, 2, 0, TRUE, "legacy", 1, 0),
      S(1, 2, 2, 1, 1, 0, TRUE, "legacy", 3, 2),
      S(2, 1, 1, 1, 2, 0, TRUE, "legacy", 2, 0),
      \* wrappers that decode their own
      S(1, 1, 2, 1, 2, 0, FALSE, "legacy", 3, 1),
      S(1, 2, 1, 1, 2, 0, FALSE, "legacy", 5, 2),
      S(1, 2, 1, 2, 1, 0, FALSE, "legacy", 2, 0),
      S(1, 1, 1, 1, 3, 0, TRUE, "legacy", 4, 2),
      \* native pipelines
      S(1, 2, 1, 1, 2, 0, FALSE, "native", 3, 0),
      S(1, 1, 1, 2, 3, 0, TRUE, "native", 4, 1),
      S(1, 2, 1, 2, 1, 0, FALSE, "native", 2, 0),
      \* refused: uneven shares for a gather, fewer prompts than replicas
      S(1, 2, 1, 1, 2, 0, TRUE, "legacy", 3, 0),
      S(1, 1, 2, 1, 3, 0, FALSE, "legacy", 2, 0),
      \* under Ray: a decoder of its own ranks, and none
      S(1, 2, 2, 1, 1, 2, TRUE, "ray", 2, 0),
      S(1, 1, 1, 2, 1, 1, TRUE, "ray", 1, 0),
      S(1, 1, 2, 1, 2, 0, TRUE, "ray", 4, 0),
      S(1, 2, 1, 1, 2, 0, FALSE, "ray", 4, 0) }
=============================================================================
