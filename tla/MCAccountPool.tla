---------------------------- MODULE MCAccountPool ----------------------------
(* Instances of AccountPool for TLC; the accounts and calls are model values. *)
EXTENDS AccountPool, TLC

CONSTANTS a1, a2, g1, g2

\* Accounts and calls are interchangeable.  Sound for invariants and for the
\* refinement, whose [][Next] says the same of every permutation; the run of the
\* liveness property does not use it.
PoolSymmetry == Permutations(Account) \cup Permutations(Call)
=============================================================================
