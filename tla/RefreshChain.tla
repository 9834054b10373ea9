----------------------------- MODULE RefreshChain -----------------------------
(***************************************************************************)
(* What the refreshing of an account promises about its refresh token, with*)
(* no lock, no working copies and no row: there is one token, Supabase is  *)
(* shown no other, and its successor takes its place in the same step.  The*)
(* promise lasts until a successor gets lost, or is overwritten.           *)
(*                                                                         *)
(* A token is its place in the chain of rotations, 0 is no token.          *)
(***************************************************************************)
EXTENDS Naturals

VARIABLES
  held,     \* the token the account has
  live,     \* upstream: the token that is not spent
  lost,     \* a successor never reached the account, or was overwritten
  reused    \* a spent token was presented

chainVars == <<held, live, lost, reused>>

Init ==
  /\ held \in {0, 1}
  /\ live = 1
  /\ lost = FALSE
  /\ reused = FALSE

\* The live token is presented and replaced by its successor.
Rotate ==
  /\ held = live
  /\ live' = live + 1
  /\ held' = live'
  /\ UNCHANGED <<lost, reused>>

\* An account learns the live token from the session of its cookies.
Learn ==
  /\ held' = live
  /\ UNCHANGED <<live, lost, reused>>

\* A token is lost, or was: nothing is promised any longer, but that a chain
\* never goes back.
Lose ==
  /\ lost' = TRUE
  /\ live' \in {live, live + 1}

Next == Rotate \/ Learn \/ Lose

Spec == Init /\ [][Next]_chainVars
=============================================================================
