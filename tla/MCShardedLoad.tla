---------------------------- MODULE MCShardedLoad ----------------------------
EXTENDS ShardedLoad

\* Wan2.2: both denoisers are built before the text encoder.
WanComponents == <<"denoiser", "denoiser", "encoder">>
\* Flux, Qwen, Z-Image and the rest.
OneEncoder == <<"denoiser", "encoder">>
=============================================================================
