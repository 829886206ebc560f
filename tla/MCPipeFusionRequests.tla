------------------------ MODULE MCPipeFusionRequests ------------------------
(* Values of the constants of PipeFusionRequests for TLC. *)
EXTENDS PipeFusionRequests

\* HunyuanDiT with an even split, PixArt with a given one.
TwoModels ==
    { [skips |-> TRUE, layers |-> <<>>],
      [skips |-> FALSE, layers |-> <<1, 3, 2, 2>>] }

\* HunyuanDiT with a given split, the one it has without.
GivenSplit == { [skips |-> TRUE, layers |-> <<2, 2, 2, 2>>] }

\* A request with two asynchronous steps and one that is over after a step of
\* its warm-up, followed by one of another size, or of the same one.
TwoRequests ==
    { <<[steps |-> 3, size |-> 1], [steps |-> 2, size |-> 2]>>,
      <<[steps |-> 1, size |-> 1], [steps |-> 3, size |-> 1]>> }

OneRequest == { <<[steps |-> 2, size |-> 1]>> }
=============================================================================
