-------------------------- MODULE MCUpstreamDialogue --------------------------
(* Constants of the runs of UpstreamDialogue.                               *)
EXTENDS UpstreamDialogue

CONSTANTS o1, o2, l1
=============================================================================
