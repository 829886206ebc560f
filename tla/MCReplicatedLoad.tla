--------------------------- MODULE MCReplicatedLoad ---------------------------
EXTENDS ReplicatedLoad

\* A denoiser after a text encoder, as Wan2.2 loads its second one.
OneOfEach == <<"encoder", "denoiser">>
=============================================================================
