-------------------------- MODULE ExclusiveAccounts --------------------------
(***************************************************************************)
(* What the account pool promises to the generation calls that share it,   *)
(* with no clock, no lease table and no database: an account belongs to at *)
(* most one call, and a call tries an account at most once.  The promise   *)
(* lasts until some call has outlived its own lease (lapsed); from then on *)
(* the pool may hand an account out twice.                                 *)
(***************************************************************************)
CONSTANTS Account, Call, NoAccount

VARIABLES
  user,     \* user[g]: the account call g holds, or NoAccount
  tried,    \* tried[g]: the accounts call g held and gave back for another
  lapsed    \* some call kept an account beyond its lease

abstractVars == <<user, tried, lapsed>>

Init ==
  /\ user = [g \in Call |-> NoAccount]
  /\ tried = [g \in Call |-> {}]
  /\ lapsed = FALSE

\* A call with no account takes one that nobody uses and it has not tried.
Take(g, a) ==
  /\ user[g] = NoAccount
  /\ a \notin tried[g]
  /\ lapsed \/ \A h \in Call : user[h] # a
  /\ user' = [user EXCEPT ![g] = a]
  /\ UNCHANGED <<tried, lapsed>>

\* A call gives its account back and looks for another one.
GiveBack(g) ==
  /\ user[g] # NoAccount
  /\ user' = [user EXCEPT ![g] = NoAccount]
  /\ tried' = [tried EXCEPT ![g] = @ \cup {user[g]}]
  /\ UNCHANGED lapsed

\* A call ends, with or without an account.
End(g) ==
  /\ user' = [user EXCEPT ![g] = NoAccount]
  /\ tried' = [tried EXCEPT ![g] = {}]
  /\ UNCHANGED lapsed

Lapse ==
  /\ lapsed' = TRUE
  /\ UNCHANGED <<user, tried>>

Next ==
  \/ \E g \in Call : GiveBack(g) \/ End(g) \/ \E a \in Account : Take(g, a)
  \/ Lapse

Spec == Init /\ [][Next]_abstractVars
=============================================================================
