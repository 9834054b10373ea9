---------------------------- MODULE MCMediaCache ----------------------------
(* Constants of the runs of MediaCache.                                     *)
EXTENDS MediaCache

CONSTANTS d1, d2, m1, t1, t2
=============================================================================
