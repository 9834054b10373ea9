---------------------------- MODULE MCTokenRefresh ----------------------------
(* Instances of TokenRefresh for TLC; the refreshers are model values.  No *)
(* symmetry: the same instance checks a liveness property.                 *)
EXTENDS TokenRefresh

CONSTANTS p1, p2
=============================================================================
