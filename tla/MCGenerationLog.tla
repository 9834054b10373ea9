--------------------------- MODULE MCGenerationLog ---------------------------
(* Instances of GenerationLog for TLC; the calls are model values. *)
EXTENDS GenerationLog

CONSTANTS g1
=============================================================================
