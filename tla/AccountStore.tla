----------------------------- MODULE AccountStore -----------------------------
(***************************************************************************)
(* The table of accounts (internal/store/accounts.go) under the requests   *)
(* of administrators that create, import and edit accounts                 *)
(* (internal/httpapi/server.go).  No request uses a transaction: each is a *)
(* row of statements between which others run, and an import stops at the  *)
(* first of its items that fails, with the ones before it stored.          *)
(*                                                                         *)
(* A row is what these requests find, keep apart or may undo: its address  *)
(* (the column email, which is UNIQUE), whether it is enabled, and which   *)
(* account it is.  Credentials and their races are in TokenRefresh.        *)
(***************************************************************************)
EXTENDS Naturals, Sequences

CONSTANTS
  Request,    \* requests of administrators
  Email,      \* addresses
  Item,       \* what an import may bring
  Field,      \* the addresses a creation or an edit may give
  NoEmail,    \* the empty address
  Same,       \* an edit that does not mention the address
  Nothing,    \* neither row nor account
  Seed,       \* address of the account the environment configures, or NoEmail
  MaxId,      \* bound of the model: accounts ever created
  MaxItems    \* bound of the model: items of an import

Id == 1 .. MaxId
Wish == {"on", "off", "absent"}   \* an item's is_active

\* CreateAccount makes up an address where it was given none; the id stands for it.
Address == Email \cup {NoEmail} \cup Id
Row == [email : Address, active : BOOLEAN, account : Nat]

ASSUME StoreAssumption ==
  /\ Item \subseteq [email : Email \cup {NoEmail}, active : Wish]
  /\ Field \subseteq Email \cup {NoEmail, Same}
  /\ \A e \in Email \cup {NoEmail, Same, Nothing} : e \notin Id
  /\ NoEmail \notin Email /\ Same \notin Email /\ Nothing \notin Email
  /\ NoEmail # Same /\ NoEmail # Nothing /\ Same # Nothing
  /\ Seed \in Email \cup {NoEmail}
  /\ MaxId \in Nat \ {0} /\ MaxItems \in Nat \ {0}
  /\ Nothing \notin Row

VARIABLES
  rows,         \* the table: a row or Nothing for every id
  lastId,       \* its sequence of ids
  what,         \* what a request does
  pc,           \* where it stands
  items,        \* what it was given
  idx,          \* the item it is at
  target,       \* id of the row it writes
  copy,         \* address in UpdateAccount's copy of that row
  born,         \* history: the account it found under that id
  gone,         \* history: addresses that left the table since it began
  inserts,      \* history: accounts created
  meant         \* history: ids of the accounts that were last said to be disabled

progress == <<what, items>>
history == <<gone, inserts, meant>>
vars == <<rows, lastId, pc, idx, target, copy, born, progress, history>>

Entry == [email : Email \cup {NoEmail, Same}, active : Wish]
Working == {"looking", "reading", "updating", "inserting", "activating"}

Addresses(table) == {table[id].email : id \in {i \in Id : table[i] # Nothing}}

TypeOK ==
  /\ rows \in [Id -> Row \cup {Nothing}]
  /\ lastId \in 0 .. MaxId
  /\ what \in [Request -> {"import", "create", "update"}]
  /\ pc \in [Request -> Working \cup {"idle", "stored", "failed"}]
  /\ items \in [Request -> Seq(Entry)]
  /\ idx \in [Request -> Nat]
  /\ target \in [Request -> Id \cup {Nothing}]
  /\ copy \in [Request -> Address \cup {Nothing}]
  /\ born \in [Request -> Nat]
  /\ gone \in [Request -> SUBSET Address]
  /\ inserts \in Nat
  /\ meant \subseteq Id
  /\ \A r \in Request : pc[r] \in Working => idx[r] \in 1 .. Len(items[r])

Init ==
  /\ rows = [id \in Id |-> Nothing]
  /\ lastId = 0
  /\ what = [r \in Request |-> "import"]
  /\ pc = [r \in Request |-> "idle"]
  /\ items = [r \in Request |-> <<>>]
  /\ idx = [r \in Request |-> 1]
  /\ target = [r \in Request |-> Nothing]
  /\ copy = [r \in Request |-> Nothing]
  /\ born = [r \in Request |-> 0]
  /\ gone = [r \in Request |-> {}]
  /\ inserts = 0
  /\ meant = {}
-----------------------------------------------------------------------------
(* Helpers: the item at hand, and what a statement leaves behind.           *)

Now(r) == items[r][idx[r]]

\* Another row has the address: the statement is refused.
Taken(address, id) == \E i \in Id \ {id} : rows[i] # Nothing /\ rows[i].email = address

\* The addresses a request was given, up to the item it is at.
Reached(r) == {items[r][k].email : k \in {n \in DOMAIN items[r] : n <= idx[r]}}

\* Every request notes which of them a step removes.
Noted == gone' = [r \in Request |->
  gone[r] \cup ((Addresses(rows) \ Addresses(rows')) \cap Reached(r))]

\* What was said in the statement that does not come.
Unsaid(cut) == {target[r] : r \in {q \in cut : pc[q] = "activating"}}

\* Mutant of NextId: without AUTOINCREMENT the highest id is given out again.
NextFreeId == 1 + CHOOSE n \in 0 .. MaxId :
  /\ n = 0 \/ rows[n] # Nothing
  /\ \A i \in Id : rows[i] # Nothing => i <= n

NextId == lastId + 1

NewRow(address) == [email |-> address, active |-> TRUE, account |-> inserts + 1]

\* INSERT of a row that is enabled.
Inserted(id, address) ==
  /\ id \in Id
  /\ rows' = [rows EXCEPT ![id] = NewRow(address)]
  /\ lastId' = id
  /\ inserts' = inserts + 1

\* What it knows of an item ends with the item.
Dropped(r) ==
  /\ target' = [target EXCEPT ![r] = Nothing]
  /\ copy' = [copy EXCEPT ![r] = Nothing]
  /\ born' = [born EXCEPT ![r] = 0]

\* Mutant of Handled: one item too many.
HandledPast(r) ==
  /\ idx' = [idx EXCEPT ![r] = @ + 1]
  /\ pc' = [pc EXCEPT ![r] = IF idx[r] <= Len(items[r]) THEN "looking" ELSE "stored"]
  /\ Dropped(r)

\* The item is dealt with; after the last one the request is answered.
Handled(r) ==
  /\ idx' = [idx EXCEPT ![r] = @ + 1]
  /\ pc' = [pc EXCEPT ![r] = IF idx[r] < Len(items[r]) THEN "looking" ELSE "stored"]
  /\ Dropped(r)

\* Mutant of Written: the item's is_active is forgotten.
WrittenOnly(r, id, account) == Handled(r)

\* The row of an account is written; is_active is a statement of its own.
Written(r, id, account) ==
  IF Now(r).active = "absent"
    THEN Handled(r)
    ELSE /\ pc' = [pc EXCEPT ![r] = "activating"]
         /\ target' = [target EXCEPT ![r] = id]
         /\ born' = [born EXCEPT ![r] = account]
         /\ copy' = [copy EXCEPT ![r] = Nothing]
         /\ UNCHANGED idx

\* The request ends with an error.
Failed(r) == pc' = [pc EXCEPT ![r] = "failed"] /\ Dropped(r)
-----------------------------------------------------------------------------
(* Requests.                                                                *)

Begin(r, kind, given, id) ==
  /\ pc[r] = "idle"
  /\ what' = [what EXCEPT ![r] = kind]
  /\ items' = [items EXCEPT ![r] = given]
  /\ pc' = [pc EXCEPT ![r] = IF id = Nothing THEN "looking" ELSE "reading"]
  /\ target' = [target EXCEPT ![r] = id]
  /\ born' = [born EXCEPT ![r] = IF id = Nothing THEN 0 ELSE rows[id].account]
  /\ UNCHANGED <<rows, lastId, idx, copy, history>>

\* handleImportTokens.
Import(r) == \E n \in 1 .. MaxItems : \E given \in [1 .. n -> Item] :
  Begin(r, "import", given, Nothing)

\* handleCreateToken.
Create(r) == \E e \in Field \ {Same} :
  Begin(r, "create", <<[email |-> e, active |-> "absent"]>>, Nothing)

\* handleUpdateToken of an account the administrator sees: the address may
\* change, be emptied, or not be mentioned.
Update(r, id) ==
  /\ rows[id] # Nothing
  /\ \E e \in Field :
       Begin(r, "update", <<[email |-> e, active |-> "absent"]>>, id)

\* GetAccountByEmail, for an import the one in UpsertAccount: nobody is found
\* under the empty address, nor by a creation whose query fails.
Look(r) ==
  /\ pc[r] = "looking"
  /\ \/ /\ Now(r).email \notin Addresses(rows) \ {NoEmail} \/ what[r] = "create"
        /\ pc' = [pc EXCEPT ![r] = "inserting"]
        /\ UNCHANGED <<target, copy, born>>
     \/ \E id \in Id :
          /\ rows[id] # Nothing
          /\ rows[id].email = Now(r).email
          /\ Now(r).email # NoEmail
          /\ IF what[r] = "create"
               THEN Failed(r)
               ELSE /\ pc' = [pc EXCEPT ![r] = "reading"]
                    /\ target' = [target EXCEPT ![r] = id]
                    /\ born' = [born EXCEPT ![r] = rows[id].account]
                    /\ UNCHANGED copy
  /\ UNCHANGED <<rows, lastId, idx, progress, history>>

\* The address after the edit: the row's own, if the edit does not mention it.
NewEmail(r) == IF Now(r).email = Same THEN rows[target[r]].email ELSE Now(r).email

\* UpdateAccount reads the row, gives up if there is none, and edits its copy.
Read(r) ==
  /\ pc[r] = "reading"
  /\ IF rows[target[r]] = Nothing
       THEN Failed(r)
       ELSE /\ pc' = [pc EXCEPT ![r] = "updating"]
            /\ copy' = [copy EXCEPT ![r] = NewEmail(r)]
            /\ UNCHANGED <<target, born>>
  /\ UNCHANGED <<rows, lastId, idx, progress, history>>

\* What an import says of an account's activity, last word first.
Meant(r, id) ==
  CASE Now(r).active = "off" -> meant \cup {id}
    [] Now(r).active = "on" -> meant \ {id}
    [] OTHER -> meant

\* UPDATE of a row that is gone changes nothing, and is no error.
Rewritten(r, row) ==
  /\ rows' = [rows EXCEPT ![target[r]] = IF @ = Nothing THEN @ ELSE row]
  /\ meant' = IF rows[target[r]] = Nothing THEN meant ELSE Meant(r, target[r])

\* UpdateAccount writes every column but is_active.
Write(r) ==
  /\ pc[r] = "updating"
  /\ ~(rows[target[r]] # Nothing /\ Taken(copy[r], target[r]))
  /\ Rewritten(r, [rows[target[r]] EXCEPT !.email = copy[r]])
  /\ Written(r, target[r], born[r])
  /\ Noted
  /\ UNCHANGED <<lastId, progress, inserts>>

\* CreateAccount of an address that another request stored after Look.
InsertTaken(r) ==
  /\ pc[r] = "inserting"
  /\ Taken(Now(r).email, Nothing)
  /\ Failed(r)
  /\ UNCHANGED <<rows, lastId, idx, progress, history>>

\* CreateAccount; an account without an address gets one of its own.
Insert(r) ==
  /\ pc[r] = "inserting"
  /\ LET id == NextId
         e == IF Now(r).email = NoEmail THEN id ELSE Now(r).email
     IN  /\ ~Taken(e, Nothing)
         /\ Inserted(id, e)
         /\ Written(r, id, inserts + 1)
         /\ meant' = Meant(r, id)
  /\ UNCHANGED <<progress, gone>>

\* SetAccountActive, with what the item says.
Activate(r) ==
  /\ pc[r] = "activating"
  /\ Rewritten(r, [rows[target[r]] EXCEPT !.active = (Now(r).active = "on")])
  /\ Handled(r)
  /\ UNCHANGED <<lastId, progress, gone, inserts>>

\* Mutant of StatementFails: the import goes on with the next item.
SkipItem(r) ==
  /\ pc[r] \in Working
  /\ ~(pc[r] = "looking" /\ what[r] = "create")
  /\ Handled(r)
  /\ meant' = meant \ Unsaid({r})
  /\ UNCHANGED <<rows, lastId, progress, gone, inserts>>

\* The client leaves, the database fails, or the item cannot be decoded.
StatementFails(r) ==
  /\ pc[r] \in Working
  /\ ~(pc[r] = "looking" /\ what[r] = "create")
  /\ Failed(r)
  /\ meant' = meant \ Unsaid({r})
  /\ UNCHANGED <<rows, lastId, idx, progress, gone, inserts>>

\* The answer is sent, and the request forgotten.
Answer(r) ==
  /\ pc[r] \in {"stored", "failed"}
  /\ pc' = [pc EXCEPT ![r] = "idle"]
  /\ what' = [what EXCEPT ![r] = "import"]
  /\ items' = [items EXCEPT ![r] = <<>>]
  /\ idx' = [idx EXCEPT ![r] = 1]
  /\ gone' = [gone EXCEPT ![r] = {}]
  /\ UNCHANGED <<rows, lastId, target, copy, born, inserts, meant>>
-----------------------------------------------------------------------------
(* Single statements of other requests, and restarts.                       *)

\* handleDeleteToken.
Delete(id) ==
  /\ rows[id] # Nothing
  /\ rows' = [rows EXCEPT ![id] = Nothing]
  /\ Noted
  /\ meant' = meant \ {id}
  /\ UNCHANGED <<lastId, pc, idx, target, copy, born, progress, inserts>>

\* SetAccountActive, by an administrator or by recordFailure's ban.
SetActive(id, active) ==
  /\ rows[id] # Nothing
  /\ rows' = [rows EXCEPT ![id].active = active]
  /\ meant' = IF active THEN meant \ {id} ELSE meant \cup {id}
  /\ UNCHANGED <<lastId, pc, idx, target, copy, born, progress, gone, inserts>>

\* ensureInitialAccount, at every start, before requests are served: the
\* account of the environment is there again, were it deleted or not.
Seeded ==
  IF Seed = NoEmail \/ Seed \in Addresses(rows)
    THEN UNCHANGED <<rows, lastId, inserts>>
    ELSE Inserted(NextId, Seed)

\* The process is killed and started again.
Restart ==
  /\ pc' = [r \in Request |-> "idle"]
  /\ what' = [r \in Request |-> "import"]
  /\ items' = [r \in Request |-> <<>>]
  /\ idx' = [r \in Request |-> 1]
  /\ target' = [r \in Request |-> Nothing]
  /\ copy' = [r \in Request |-> Nothing]
  /\ born' = [r \in Request |-> 0]
  /\ gone' = [r \in Request |-> {}]
  /\ meant' = meant \ Unsaid(Request)
  /\ Seeded
-----------------------------------------------------------------------------
Serve(r) == Import(r) \/ Create(r) \/ (\E id \in Id : Update(r, id)) \/ Answer(r)
Statement(r) == Look(r) \/ Read(r) \/ Write(r) \/ Insert(r) \/ InsertTaken(r)
                \/ Activate(r) \/ StatementFails(r)

Next ==
  \/ \E r \in Request : Serve(r) \/ Statement(r)
  \/ \E id \in Id : Delete(id) \/ \E active \in BOOLEAN : SetActive(id, active)
  \/ Restart

Spec == Init /\ [][Next]_vars
-----------------------------------------------------------------------------
\* What an import or a creation has dealt with is stored: each of its addresses
\* up to the item it is at has a row, unless somebody removed the address
\* since; so an error leaves exactly the items before it, and success all.
HandledItemsAreStored ==
  \A r \in Request :
    pc[r] # "idle" /\ what[r] # "update" =>
      /\ pc[r] = "stored" => idx[r] = Len(items[r]) + 1
      /\ \A k \in 1 .. idx[r] - 1 :
           items[r][k].email \in Addresses(rows) \cup {NoEmail} \cup gone[r]

\* However long ago a request looked its row up, its statements reach that
\* account or none: the id of a deleted account is not given to another.
StatementsHitTheirAccount ==
  \A r \in Request :
    pc[r] \in {"reading", "updating", "activating"} /\ rows[target[r]] # Nothing =>
      rows[target[r]].account = born[r]

\* An account that somebody disabled last, by a request or in an import, is
\* disabled: no edit that overlaps enables it.  Only an import on its way to
\* that statement, or one that was cut short there, leaves it enabled.
DisabledStaysDisabled ==
  \A id \in meant :
    rows[id] # Nothing /\ rows[id].active =>
      \E r \in Request : pc[r] = "activating" /\ target[r] = id /\ Now(r).active = "off"
=============================================================================
