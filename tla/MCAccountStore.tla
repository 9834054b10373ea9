---------------------------- MODULE MCAccountStore ----------------------------
(* Constants of the run of AccountStore: an import of up to two items that  *)
(* disable, enable or do not mention an account, with or without address.   *)
EXTENDS AccountStore, TLC

CONSTANTS r1, r2, e1, e2

Brought == {[email |-> e1, active |-> "off"], [email |-> e2, active |-> "absent"]}

Given == {e2, NoEmail, Same}

Symmetry == Permutations({r1, r2})
=============================================================================
