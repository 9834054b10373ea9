----------------------------- MODULE MCGuestQuota -----------------------------
(* Instances of GuestQuota for TLC; requests and addresses are model values.  No *)
(* symmetry: the same instance checks a liveness property.                       *)
EXTENDS GuestQuota

CONSTANTS i1, i2, r1, r2
=============================================================================
