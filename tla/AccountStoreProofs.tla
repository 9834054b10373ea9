-------------------------- MODULE AccountStoreProofs --------------------------
(***************************************************************************)
(* Proofs about AccountStore, for any requests, addresses, items and       *)
(* numbers of accounts: typing; that the statements of a request reach the *)
(* account it found; that a disabled account stays disabled; that an       *)
(* import has stored the items it dealt with.                              *)
(***************************************************************************)
EXTENDS AccountStore, TLAPS

Aimed == {"reading", "updating", "activating"}

\* The part of TypeOK about the table and what is remembered of it.
TableTypes ==
  /\ rows \in [Id -> Row \cup {Nothing}]
  /\ lastId \in 0 .. MaxId
  /\ inserts \in Nat
  /\ meant \subseteq Id

\* The part about what requests were given.
GivenTypes ==
  /\ what \in [Request -> {"import", "create", "update"}]
  /\ items \in [Request -> Seq(Entry)]

\* The part about where they stand.
StepTypes ==
  /\ pc \in [Request -> Working \cup {"idle", "stored", "failed"}]
  /\ idx \in [Request -> Nat]
  /\ target \in [Request -> Id \cup {Nothing}]
  /\ copy \in [Request -> Address \cup {Nothing}]
  /\ born \in [Request -> Nat]

InRange(r) == pc[r] \in Working => idx[r] \in 1 .. Len(items[r])

GoneTypes == gone \in [Request -> SUBSET Address]

LEMMA Parts ==
  TypeOK <=> TableTypes /\ GivenTypes /\ StepTypes /\ GoneTypes /\ (\A r \in Request : InRange(r))
BY DEF TypeOK, TableTypes, GivenTypes, StepTypes, GoneTypes, InRange

\* What every request keeps: an edit has one item, only an edit leaves the
\* address unsaid, and one that is about to write a row has one to write.
Shape(r) ==
  /\ pc[r] = "idle" => idx[r] = 1
  /\ pc[r] \in Aimed => target[r] \in Id
  /\ pc[r] = "updating" => copy[r] \in Address
  /\ what[r] = "update" => Len(items[r]) = 1 /\ pc[r] \notin {"looking", "inserting"}
  /\ what[r] # "update" => \A k \in 1 .. Len(items[r]) : items[r][k].email # Same

\* Every account keeps the id it was created with, and no id is ahead of the sequence.
Ids ==
  /\ inserts = lastId
  /\ \A id \in Id : rows[id] # Nothing => rows[id].account = id /\ id <= lastId
  /\ \A id \in meant : id <= lastId

\* A request that has looked its row up knows whose it is.
Known(r) == pc[r] \in Aimed => born[r] = target[r]

Good(r) == InRange(r) /\ Shape(r)

IInv ==
  /\ TableTypes /\ GivenTypes /\ StepTypes /\ GoneTypes
  /\ \A r \in Request : Good(r)
-----------------------------------------------------------------------------
\* Facts about the constants.
LEMMA ConstantFacts ==
  /\ MaxId \in Nat /\ Id \subseteq Nat
  /\ Item \subseteq Entry
  /\ \A entry \in Item : entry.email # Same
  /\ \A e \in Email \cup {NoEmail, Same, Nothing} : e \notin Id
  /\ Seed \in Email \cup {NoEmail}
  /\ NoEmail # Same /\ Nothing \notin Id
  /\ Field \subseteq Email \cup {NoEmail, Same}
  /\ Same \notin Email
  /\ Nothing \notin Row
BY StoreAssumption DEF Id, Entry

\* The item at hand is one.
LEMMA NowIsEntry ==
  ASSUME GivenTypes, NEW r \in Request, InRange(r), pc[r] \in Working
  PROVE  Now(r) \in Entry
BY DEF GivenTypes, InRange, Now

\* The addresses of a table are addresses.
LEMMA AddressesTyped ==
  ASSUME NEW table \in [Id -> Row \cup {Nothing}]
  PROVE  Addresses(table) \subseteq Address
BY DEF Addresses, Row

\* A request that is dealt with, or fails, keeps its types and shape.
LEMMA DroppedTypes ==
  ASSUME StepTypes, NEW r \in Request, Dropped(r)
  PROVE  /\ target' \in [Request -> Id \cup {Nothing}]
         /\ copy' \in [Request -> Address \cup {Nothing}]
         /\ born' \in [Request -> Nat]
BY DEF StepTypes, Dropped

LEMMA FailedGood ==
  ASSUME GivenTypes, StepTypes, \A q \in Request : Good(q), NEW r \in Request,
         Failed(r), UNCHANGED <<progress, idx>>
  PROVE  StepTypes' /\ (\A q \in Request : Good(q))'
<1>1. pc' \in [Request -> Working \cup {"idle", "stored", "failed"}] /\ idx' \in [Request -> Nat]
  BY DEF StepTypes, Failed
<1>2. StepTypes'
  BY <1>1, DroppedTypes DEF StepTypes, Failed
<1>3. ASSUME NEW q \in Request PROVE Good(q)'
  <2>1. CASE q = r
    BY <2>1 DEF Good, InRange, Shape, Failed, Dropped, progress, StepTypes, Working, Aimed
  <2>2. CASE q # r
    BY <2>2 DEF Good, InRange, Shape, Failed, Dropped, progress, StepTypes
  <2>3. QED BY <2>1, <2>2
<1>4. QED BY <1>2, <1>3

LEMMA HandledGood ==
  ASSUME GivenTypes, StepTypes, \A q \in Request : Good(q), NEW r \in Request,
         pc[r] \in Working, Handled(r), UNCHANGED progress
  PROVE  StepTypes' /\ (\A q \in Request : Good(q))'
<1>1. pc' \in [Request -> Working \cup {"idle", "stored", "failed"}]
  BY DEF StepTypes, Handled, Working
<1>2. idx' \in [Request -> Nat]
  BY DEF StepTypes, Handled
<1>3. StepTypes'
  BY <1>1, <1>2, DroppedTypes DEF StepTypes, Handled
<1>4. ASSUME NEW q \in Request PROVE Good(q)'
  <2>1. CASE q = r
    <3>1. items[r] \in Seq(Entry) /\ Len(items[r]) \in Nat /\ idx[r] \in 1 .. Len(items[r])
      BY DEF GivenTypes, Good, InRange
    <3>2. idx'[r] = idx[r] + 1 /\ pc'[r] = IF idx[r] < Len(items[r]) THEN "looking" ELSE "stored"
      BY DEF StepTypes, Handled
    <3>3. InRange(r)'
      BY <3>1, <3>2 DEF InRange, progress, Working
    <3>4. what'[r] = what[r] /\ items'[r] = items[r]
      BY DEF progress
    <3>5. what[r] = "update" => Len(items[r]) = 1
      BY DEF Good, Shape
    <3>6. what[r] = "update" => pc'[r] = "stored"
      <4> DEFINE n == Len(items[r])
      <4>1. n \in Nat /\ idx[r] \in 1 .. n /\ (what[r] = "update" => n = 1)
        BY <3>1, <3>5
      <4>2. pc'[r] = IF idx[r] < n THEN "looking" ELSE "stored"
        BY <3>2
      <4> HIDE DEF n
      <4>3. QED BY <4>1, <4>2
    <3>7. pc'[r] \in {"looking", "stored"}
      BY <3>2
    <3>8. Shape(r)'
      BY <3>4, <3>6, <3>7 DEF Good, Shape, Aimed
    <3>9. QED BY <2>1, <3>3, <3>8 DEF Good
  <2>2. CASE q # r
    BY <2>2 DEF Good, InRange, Shape, Handled, Dropped, progress, StepTypes
  <2>3. QED BY <2>1, <2>2
<1>5. QED BY <1>3, <1>4

LEMMA WrittenGood ==
  ASSUME GivenTypes, StepTypes, \A q \in Request : Good(q), NEW r \in Request,
         pc[r] \in Working, NEW id \in Id, NEW account \in Nat,
         Written(r, id, account), UNCHANGED progress
  PROVE  StepTypes' /\ (\A q \in Request : Good(q))'
<1>1. CASE Now(r).active = "absent"
  BY <1>1, HandledGood DEF Written
<1>2. CASE Now(r).active # "absent"
  <2>1. /\ pc' = [pc EXCEPT ![r] = "activating"]
        /\ target' = [target EXCEPT ![r] = id]
        /\ born' = [born EXCEPT ![r] = account]
        /\ copy' = [copy EXCEPT ![r] = Nothing]
        /\ UNCHANGED idx
    BY <1>2 DEF Written
  <2>2. StepTypes'
    BY <2>1 DEF StepTypes, Working
  <2>3. ASSUME NEW q \in Request PROVE Good(q)'
    <3>1. CASE q = r
      BY <2>1, <3>1 DEF Good, InRange, Shape, progress, StepTypes, Working, Aimed
    <3>2. CASE q # r
      BY <2>1, <3>2 DEF Good, InRange, Shape, progress, StepTypes
    <3>3. QED BY <3>1, <3>2
  <2>4. QED BY <2>2, <2>3
<1>3. QED BY <1>1, <1>2

\* A request that begins has items to deal with, or a row to write.
LEMMA BeginGood ==
  ASSUME TableTypes, GivenTypes, StepTypes, \A q \in Request : Good(q), NEW r \in Request,
         NEW kind \in {"import", "create", "update"}, NEW given \in Seq(Entry),
         NEW id \in Id \cup {Nothing}, 1 \in 1 .. Len(given),
         kind = "update" => Len(given) = 1 /\ id \in Id /\ rows[id] # Nothing,
         kind # "update" => id = Nothing /\ \A k \in 1 .. Len(given) : given[k].email # Same,
         Begin(r, kind, given, id)
  PROVE  GivenTypes' /\ StepTypes' /\ (\A q \in Request : Good(q))'
<1>1. /\ pc[r] = "idle"
      /\ what' = [what EXCEPT ![r] = kind]
      /\ items' = [items EXCEPT ![r] = given]
      /\ pc' = [pc EXCEPT ![r] = IF id = Nothing THEN "looking" ELSE "reading"]
      /\ target' = [target EXCEPT ![r] = id]
      /\ born' = [born EXCEPT ![r] = IF id = Nothing THEN 0 ELSE rows[id].account]
      /\ UNCHANGED <<idx, copy>>
  BY DEF Begin
<1>2. GivenTypes'
  BY <1>1 DEF GivenTypes
<1>3. (IF id = Nothing THEN 0 ELSE rows[id].account) \in Nat
  <2>1. CASE id = Nothing
    BY <2>1
  <2>2. CASE id # Nothing
    <3>1. id \in Id /\ rows[id] # Nothing
      BY <2>2
    <3>2. rows[id] \in Row
      BY <3>1 DEF TableTypes
    <3>3. QED BY <2>2, <3>2 DEF Row
  <2>3. QED BY <2>1, <2>2
<1>4. (IF id = Nothing THEN "looking" ELSE "reading") \in Working
  BY DEF Working
<1>5. StepTypes'
  BY <1>1, <1>3, <1>4 DEF StepTypes
<1>6. ASSUME NEW q \in Request PROVE Good(q)'
  <2>1. CASE q = r
    <3>1. idx'[r] = 1 /\ what'[r] = kind /\ items'[r] = given /\ target'[r] = id
      BY <1>1 DEF GivenTypes, StepTypes, Good, Shape
    <3>2. pc'[r] = IF id = Nothing THEN "looking" ELSE "reading"
      BY <1>1 DEF StepTypes
    <3>3. InRange(r)'
      BY <3>1 DEF InRange
    <3>4. CASE kind = "update"
      BY <2>1, <3>1, <3>2, <3>3, <3>4, ConstantFacts DEF Good, Shape, Aimed
    <3>5. CASE kind # "update"
      BY <2>1, <3>1, <3>2, <3>3, <3>5 DEF Good, Shape, Aimed
    <3>6. QED BY <3>4, <3>5
  <2>2. CASE q # r
    BY <1>1, <2>2 DEF Good, InRange, Shape, GivenTypes, StepTypes
  <2>3. QED BY <2>1, <2>2
<1>7. QED BY <1>2, <1>5, <1>6

\* What a table of rows becomes when one is rewritten.
LEMMA RewrittenTypes ==
  ASSUME TableTypes, GivenTypes, NEW r \in Request, target[r] \in Id,
         NEW row, rows[target[r]] # Nothing => row \in Row,
         Rewritten(r, row), UNCHANGED <<lastId, inserts>>
  PROVE  TableTypes'
<1>1. rows' = [rows EXCEPT ![target[r]] = IF @ = Nothing THEN @ ELSE row]
  BY DEF Rewritten
<1>2. rows' \in [Id -> Row \cup {Nothing}]
  BY <1>1 DEF TableTypes
<1>3. meant' \subseteq Id
  BY DEF Rewritten, Meant, TableTypes
<1>4. QED BY <1>2, <1>3 DEF TableTypes

LEMMA InsertedTypes ==
  ASSUME TableTypes, NEW id, NEW address \in Address, Inserted(id, address)
  PROVE  /\ id \in Id
         /\ rows' \in [Id -> Row \cup {Nothing}]
         /\ lastId' \in 0 .. MaxId
         /\ inserts' \in Nat
         /\ NewRow(address) \in Row
<1>1. id \in Id /\ rows' = [rows EXCEPT ![id] = NewRow(address)] /\ lastId' = id /\ inserts' = inserts + 1
  BY DEF Inserted
<1>2. inserts + 1 \in Nat
  BY DEF TableTypes
<1>3. NewRow(address) \in Row
  BY <1>2 DEF NewRow, Row
<1>4. lastId' \in 0 .. MaxId
  BY <1>1, ConstantFacts DEF Id
<1>5. QED BY <1>1, <1>2, <1>3, <1>4 DEF TableTypes

LEMMA NotedTypes ==
  ASSUME TableTypes, GoneTypes, Noted
  PROVE  GoneTypes'
BY AddressesTyped DEF TableTypes, GoneTypes, Noted
-----------------------------------------------------------------------------
LEMMA InitIInv == Init => IInv
<1> SUFFICES ASSUME Init PROVE IInv
  OBVIOUS
<1>1. TableTypes
  BY ConstantFacts DEF Init, TableTypes
<1>2. GivenTypes /\ GoneTypes
  BY DEF Init, GivenTypes, GoneTypes
<1>3. StepTypes
  BY DEF Init, StepTypes
<1>4. ASSUME NEW r \in Request PROVE Good(r)
  BY DEF Init, Good, InRange, Shape, Working, Aimed
<1>5. QED BY <1>1, <1>2, <1>3, <1>4 DEF IInv

\* A statement of a request keeps the types.
LEMMA StatementIInv ==
  ASSUME IInv, NEW r \in Request, Statement(r)
  PROVE  IInv'
<1> USE DEF IInv
<1>1. CASE Look(r)
  <2>1. pc[r] = "looking" /\ UNCHANGED <<rows, lastId, idx, progress, history>>
    BY <1>1 DEF Look
  <2>2. CASE pc' = [pc EXCEPT ![r] = "inserting"] /\ UNCHANGED <<target, copy, born>>
    <3>1. StepTypes'
      BY <2>1, <2>2 DEF StepTypes, Working
    <3>2. ASSUME NEW q \in Request PROVE Good(q)'
      BY <2>1, <2>2 DEF Good, InRange, Shape, StepTypes, Working, Aimed, progress
    <3>3. QED BY <2>1, <3>1, <3>2 DEF TableTypes, GivenTypes, GoneTypes, progress, history
  <2>3. CASE Failed(r)
    BY <2>1, <2>3, FailedGood DEF TableTypes, GivenTypes, GoneTypes, progress, history
  <2>4. ASSUME NEW id \in Id, rows[id] # Nothing, what[r] # "create",
               pc' = [pc EXCEPT ![r] = "reading"],
               target' = [target EXCEPT ![r] = id],
               born' = [born EXCEPT ![r] = rows[id].account],
               UNCHANGED copy
        PROVE  IInv'
    <3>1. rows[id].account \in Nat
      <4>1. rows[id] \in Row
        BY <2>4 DEF TableTypes
      <4>2. QED BY <4>1 DEF Row
    <3>2. StepTypes'
      BY <2>1, <2>4, <3>1 DEF StepTypes, Working
    <3>3. ASSUME NEW q \in Request PROVE Good(q)'
      <4>1. CASE q = r
        BY <2>1, <2>4, <4>1 DEF Good, InRange, Shape, StepTypes, Working, Aimed, progress
      <4>2. CASE q # r
        BY <2>1, <2>4, <4>2 DEF Good, InRange, Shape, StepTypes, progress
      <4>3. QED BY <4>1, <4>2
    <3>4. QED BY <2>1, <3>2, <3>3 DEF TableTypes, GivenTypes, GoneTypes, progress, history
  <2>5. QED BY <1>1, <2>2, <2>3, <2>4 DEF Look
<1>2. CASE Read(r)
  <2>1. pc[r] = "reading" /\ UNCHANGED <<rows, lastId, idx, progress, history>>
    BY <1>2 DEF Read
  <2>2. CASE Failed(r)
    BY <2>1, <2>2, FailedGood DEF TableTypes, GivenTypes, GoneTypes, progress, history
  <2>3. CASE /\ rows[target[r]] # Nothing
             /\ pc' = [pc EXCEPT ![r] = "updating"]
             /\ copy' = [copy EXCEPT ![r] = NewEmail(r)]
             /\ UNCHANGED <<target, born>>
    <3>1. target[r] \in Id
      BY <2>1 DEF Good, Shape, Aimed
    <3>2. rows[target[r]] \in Row
      BY <2>3, <3>1 DEF TableTypes
    <3>3. Now(r) \in Entry
      BY <2>1, NowIsEntry DEF Good, Working
    <3>4. NewEmail(r) \in Address
      BY <3>2, <3>3 DEF NewEmail, Row, Entry, Address
    <3>5. StepTypes'
      BY <2>1, <2>3, <3>4 DEF StepTypes, Working
    <3>6. ASSUME NEW q \in Request PROVE Good(q)'
      <4>1. CASE q = r
        BY <2>1, <2>3, <3>1, <3>4, <4>1 DEF Good, InRange, Shape, StepTypes, Working, Aimed, progress
      <4>2. CASE q # r
        BY <2>1, <2>3, <4>2 DEF Good, InRange, Shape, StepTypes, progress
      <4>3. QED BY <4>1, <4>2
    <3>7. QED BY <2>1, <3>5, <3>6 DEF TableTypes, GivenTypes, GoneTypes, progress, history
  <2>4. QED BY <1>2, <2>2, <2>3 DEF Read
<1>3. CASE Write(r)
  <2>1. pc[r] = "updating" /\ target[r] \in Id /\ copy[r] \in Address
    BY <1>3 DEF Write, Good, Shape, Aimed
  <2>2. rows[target[r]] # Nothing => [rows[target[r]] EXCEPT !.email = copy[r]] \in Row
    BY <2>1 DEF TableTypes, Row
  <2>3. TableTypes'
    BY <1>3, <2>1, <2>2, RewrittenTypes DEF Write
  <2>4. GoneTypes'
    BY <1>3, NotedTypes DEF Write
  <2>5. born[r] \in Nat
    BY DEF StepTypes
  <2>6. StepTypes' /\ (\A q \in Request : Good(q))'
    BY <1>3, <2>1, <2>5, WrittenGood DEF Write, Working
  <2>7. QED BY <1>3, <2>3, <2>4, <2>6 DEF Write, GivenTypes, progress
<1>4. CASE Insert(r)
  <2>1. pc[r] = "inserting" /\ UNCHANGED <<progress, gone>>
    BY <1>4 DEF Insert
  <2> DEFINE e == IF Now(r).email = NoEmail THEN NextId ELSE Now(r).email
  <2>2. /\ Inserted(NextId, e)
        /\ Written(r, NextId, inserts + 1)
        /\ meant' = Meant(r, NextId)
    BY <1>4 DEF Insert
  <2>3. NextId \in Id
    BY <2>2 DEF Inserted
  <2>4. Now(r) \in Entry
    BY <2>1, NowIsEntry DEF Good, Working
  <2>5. Now(r).email # Same
    BY <2>1 DEF Good, InRange, Shape, Working, Now
  <2>6. e \in Address
    BY <2>3, <2>4, <2>5 DEF Entry, Address
  <2>7. meant' \subseteq Id
    BY <2>2, <2>3 DEF Meant, TableTypes
  <2>8. TableTypes'
    BY <2>2, <2>6, <2>7, InsertedTypes DEF TableTypes
  <2>9. inserts + 1 \in Nat
    BY DEF TableTypes
  <2>10. StepTypes' /\ (\A q \in Request : Good(q))'
    BY <2>1, <2>2, <2>3, <2>9, WrittenGood DEF Working
  <2>11. QED BY <2>1, <2>8, <2>10 DEF GivenTypes, GoneTypes, progress
<1>5. CASE InsertTaken(r)
  BY <1>5, FailedGood DEF InsertTaken, TableTypes, GivenTypes, GoneTypes, progress, history
<1>6. CASE Activate(r)
  <2>1. pc[r] = "activating" /\ target[r] \in Id
    BY <1>6 DEF Activate, Good, Shape, Aimed
  <2>2. rows[target[r]] # Nothing => [rows[target[r]] EXCEPT !.active = (Now(r).active = "on")] \in Row
    <3>1. (Now(r).active = "on") \in BOOLEAN
      OBVIOUS
    <3>2. QED BY <2>1, <3>1 DEF TableTypes, Row
  <2>3. TableTypes'
    BY <1>6, <2>1, <2>2, RewrittenTypes DEF Activate
  <2>4. StepTypes' /\ (\A q \in Request : Good(q))'
    BY <1>6, <2>1, HandledGood DEF Activate, Working
  <2>5. QED BY <1>6, <2>3, <2>4 DEF Activate, GivenTypes, GoneTypes, progress
<1>7. CASE StatementFails(r)
  <2>1. TableTypes'
    BY <1>7 DEF StatementFails, TableTypes
  <2>2. StepTypes' /\ (\A q \in Request : Good(q))'
    BY <1>7, FailedGood DEF StatementFails
  <2>3. QED BY <1>7, <2>1, <2>2 DEF StatementFails, GivenTypes, GoneTypes, progress
<1>8. QED BY <1>1, <1>2, <1>3, <1>4, <1>5, <1>6, <1>7 DEF Statement

\* A request that begins or ends keeps them too.
LEMMA ServeIInv ==
  ASSUME IInv, NEW r \in Request, Serve(r)
  PROVE  IInv'
<1> USE DEF IInv
<1>1. CASE Import(r)
  <2>1. PICK n \in 1 .. MaxItems : \E given \in [1 .. n -> Item] : Begin(r, "import", given, Nothing)
    BY <1>1 DEF Import
  <2>2. PICK given \in [1 .. n -> Item] : Begin(r, "import", given, Nothing)
    BY <2>1
  <2>3. n \in Nat \ {0}
    BY StoreAssumption
  <2>4. given \in Seq(Entry) /\ Len(given) = n
    BY <2>3, ConstantFacts
  <2>5. \A k \in 1 .. Len(given) : given[k].email # Same
    BY <2>4, ConstantFacts
  <2>6. GivenTypes' /\ StepTypes' /\ (\A q \in Request : Good(q))'
    BY <2>2, <2>3, <2>4, <2>5, BeginGood
  <2>7. QED BY <2>2, <2>6 DEF Begin, TableTypes, GoneTypes, history
<1>2. CASE Create(r)
  <2>1. PICK e \in Field \ {Same} : Begin(r, "create", <<[email |-> e, active |-> "absent"]>>, Nothing)
    BY <1>2 DEF Create
  <2> DEFINE given == <<[email |-> e, active |-> "absent"]>>
  <2>2. [email |-> e, active |-> "absent"] \in Entry
    BY ConstantFacts DEF Entry, Wish
  <2>3. given \in Seq(Entry) /\ Len(given) = 1 /\ given[1].email # Same
    BY <2>2
  <2>4. GivenTypes' /\ StepTypes' /\ (\A q \in Request : Good(q))'
    BY <2>1, <2>3, BeginGood
  <2>5. QED BY <2>1, <2>4 DEF Begin, TableTypes, GoneTypes, history
<1>3. ASSUME NEW id \in Id, Update(r, id) PROVE IInv'
  <2>1. PICK e \in Field : Begin(r, "update", <<[email |-> e, active |-> "absent"]>>, id)
    BY <1>3 DEF Update
  <2> DEFINE given == <<[email |-> e, active |-> "absent"]>>
  <2>2. [email |-> e, active |-> "absent"] \in Entry
    BY ConstantFacts DEF Entry, Wish
  <2>3. given \in Seq(Entry) /\ Len(given) = 1
    BY <2>2
  <2>4. /\ Begin(r, "update", given, id)
        /\ id \in Id \cup {Nothing} /\ rows[id] # Nothing /\ 1 \in 1 .. Len(given)
    BY <1>3, <2>1, <2>3 DEF Update
  <2> HIDE DEF given
  <2>5. GivenTypes' /\ StepTypes' /\ (\A q \in Request : Good(q))'
    BY <2>3, <2>4, BeginGood
  <2>6. QED BY <2>4, <2>5 DEF Begin, TableTypes, GoneTypes, history
<1>4. CASE Answer(r)
  <2>1. GivenTypes' /\ StepTypes' /\ GoneTypes' /\ TableTypes'
    BY <1>4 DEF Answer, GivenTypes, StepTypes, GoneTypes, TableTypes
  <2>2. ASSUME NEW q \in Request PROVE Good(q)'
    <3>1. CASE q = r
      BY <1>4, <3>1 DEF Answer, Good, InRange, Shape, GivenTypes, StepTypes, Working, Aimed
    <3>2. CASE q # r
      BY <1>4, <3>2 DEF Answer, Good, InRange, Shape, GivenTypes, StepTypes
    <3>3. QED BY <3>1, <3>2
  <2>3. QED BY <2>1, <2>2
<1>5. QED BY <1>1, <1>2, <1>3, <1>4 DEF Serve

\* So do the single statements of others, and restarts.
LEMMA OthersIInv ==
  ASSUME IInv,
         \/ \E id \in Id : Delete(id) \/ \E active \in BOOLEAN : SetActive(id, active)
         \/ Restart
  PROVE  IInv'
<1> USE DEF IInv
<1>1. ASSUME NEW id \in Id, Delete(id) PROVE IInv'
  <2>1. TableTypes' /\ GivenTypes' /\ StepTypes'
    BY <1>1 DEF Delete, TableTypes, GivenTypes, StepTypes, progress
  <2>2. GoneTypes'
    BY <1>1, NotedTypes DEF Delete
  <2>3. QED BY <1>1, <2>1, <2>2 DEF Delete, Good, InRange, Shape, progress
<1>2. ASSUME NEW id \in Id, NEW active \in BOOLEAN, SetActive(id, active) PROVE IInv'
  <2>1. [rows[id] EXCEPT !.active = active] \in Row
    BY <1>2 DEF SetActive, TableTypes, Row
  <2>2. rows' = [rows EXCEPT ![id] = [rows[id] EXCEPT !.active = active]]
    BY <1>2 DEF SetActive
  <2>3. rows' \in [Id -> Row \cup {Nothing}]
    BY <2>1, <2>2 DEF TableTypes
  <2>4. TableTypes'
    BY <1>2, <2>3 DEF SetActive, TableTypes
  <2>5. QED BY <1>2, <2>4 DEF SetActive, GivenTypes, StepTypes, GoneTypes, Good, InRange, Shape, progress
<1>3. CASE Restart
  <2>1. rows' \in [Id -> Row \cup {Nothing}] /\ lastId' \in 0 .. MaxId /\ inserts' \in Nat
    <3>1. CASE UNCHANGED <<rows, lastId, inserts>>
      BY <3>1 DEF TableTypes
    <3>2. CASE Inserted(NextId, Seed)
      BY <3>2, InsertedTypes, ConstantFacts DEF Address
    <3>3. QED BY <1>3, <3>1, <3>2 DEF Restart, Seeded
  <2>2. TableTypes'
    BY <1>3, <2>1 DEF Restart, TableTypes
  <2>3. GivenTypes' /\ GoneTypes' /\ StepTypes'
    BY <1>3 DEF Restart, GivenTypes, GoneTypes, StepTypes
  <2>4. ASSUME NEW q \in Request PROVE Good(q)'
    BY <1>3 DEF Restart, Good, InRange, Shape, Working, Aimed
  <2>5. QED BY <2>2, <2>3, <2>4
<1>4. QED BY <1>1, <1>2, <1>3

LEMMA StepIInv == IInv /\ [Next]_vars => IInv'
<1> SUFFICES ASSUME IInv, [Next]_vars PROVE IInv'
  OBVIOUS
<1>1. CASE Next
  BY <1>1, ServeIInv, StatementIInv, OthersIInv DEF Next
<1>2. CASE UNCHANGED vars
  BY <1>2 DEF IInv, vars, progress, history, TableTypes, GivenTypes, StepTypes, GoneTypes, Good, InRange, Shape
<1>3. QED BY <1>1, <1>2

\* The table, and every request at every point of its statements, has its types.
THEOREM TypeCorrect == Spec => []TypeOK
<1>1. IInv => TypeOK
  BY Parts DEF IInv, Good
<1>2. QED BY InitIInv, StepIInv, <1>1, PTL DEF Spec
-----------------------------------------------------------------------------
(* The ids of the table, and what requests know of them.                    *)

IdInvariant == Ids /\ \A r \in Request : Known(r)

\* The next account, its id and what was said of it are new.
LEMMA InsertedIds ==
  ASSUME TableTypes, Ids, NEW address, Inserted(NextId, address)
  PROVE  /\ NextId = inserts + 1 /\ NextId \notin meant
         /\ inserts' = lastId'
         /\ \A id \in Id : rows'[id] # Nothing => rows'[id].account = id /\ id <= lastId'
         /\ \A id \in Id : id <= lastId => id <= lastId'
<1>1. /\ NextId = lastId + 1 /\ NextId \in Id
      /\ rows' = [rows EXCEPT ![NextId] = NewRow(address)]
      /\ lastId' = lastId + 1 /\ inserts' = inserts + 1
  BY DEF Inserted, NextId
<1>2. lastId \in Nat /\ Id \subseteq Nat /\ meant \subseteq Id
  BY ConstantFacts DEF TableTypes
<1>3. NextId \notin meant
  BY <1>1, <1>2 DEF Ids
<1>4. NewRow(address).account = NextId
  BY <1>1 DEF NewRow, Ids
<1>5. ASSUME NEW id \in Id, rows'[id] # Nothing
      PROVE  rows'[id].account = id /\ id <= lastId'
  <2>1. CASE id = NextId
    BY <1>1, <1>2, <1>4, <2>1 DEF TableTypes
  <2>2. CASE id # NextId
    <3>1. rows'[id] = rows[id]
      BY <1>1, <2>2 DEF TableTypes
    <3>2. rows[id].account = id /\ id <= lastId /\ id \in Nat
      BY <1>2, <1>5, <3>1 DEF Ids
    <3>3. QED BY <1>1, <1>2, <3>1, <3>2
  <2>3. QED BY <2>1, <2>2
<1>6. \A id \in Id : id <= lastId => id <= lastId'
  BY <1>1, <1>2
<1>7. QED BY <1>1, <1>3, <1>5, <1>6 DEF Ids

\* A row that is rewritten stays the account's.
LEMMA RewrittenIds ==
  ASSUME IInv, Ids, NEW r \in Request, target[r] \in Id, NEW row,
         rows[target[r]] # Nothing => row.account = rows[target[r]].account,
         Rewritten(r, row), UNCHANGED <<lastId, inserts>>
  PROVE  Ids'
<1>1. \A id \in Id : rows'[id] # Nothing => rows[id] # Nothing /\ rows'[id].account = rows[id].account
  BY DEF Rewritten, IInv, TableTypes
<1>2. \A id \in meant' : id \in meant \/ (rows[id] # Nothing /\ id \in Id)
  BY DEF Rewritten, Meant, IInv, TableTypes
<1>3. QED BY <1>1, <1>2 DEF Ids

\* A request that forgets its target, or writes down the account it has, knows it.
LEMMA DroppedKnown ==
  ASSUME IInv, IdInvariant, NEW r \in Request, Handled(r) \/ Failed(r)
  PROVE  \A q \in Request : Known(q)'
<1>1. ASSUME NEW q \in Request PROVE Known(q)'
  <2>1. CASE q = r
    <3>1. pc'[r] \notin Aimed
      BY DEF Handled, Failed, IInv, StepTypes, Aimed
    <3>2. QED BY <2>1, <3>1 DEF Known
  <2>2. CASE q # r
    BY <2>2 DEF IdInvariant, Known, Handled, Failed, Dropped, IInv, StepTypes
  <2>3. QED BY <2>1, <2>2
<1>2. QED BY <1>1

LEMMA WrittenKnown ==
  ASSUME IInv, IdInvariant, NEW r \in Request, NEW id, NEW account, id = account, Written(r, id, account)
  PROVE  \A q \in Request : Known(q)'
<1>1. CASE Now(r).active = "absent"
  BY <1>1, DroppedKnown DEF Written
<1>2. CASE Now(r).active # "absent"
  BY <1>2 DEF Written, IdInvariant, Known, IInv, StepTypes
<1>3. QED BY <1>1, <1>2

LEMMA BeginIds ==
  ASSUME IInv, IdInvariant, NEW r \in Request, NEW kind, NEW given, NEW id \in Id \cup {Nothing},
         id # Nothing => rows[id] # Nothing, Begin(r, kind, given, id)
  PROVE  IdInvariant'
<1>1. Ids'
  BY DEF Begin, IdInvariant, Ids, history
<1>2. ASSUME NEW q \in Request PROVE Known(q)'
  <2>1. CASE q = r /\ id = Nothing
    BY <2>1 DEF Begin, Known, IInv, StepTypes, Aimed
  <2>2. CASE q = r /\ id # Nothing
    BY <2>2 DEF Begin, Known, IInv, StepTypes, IdInvariant, Ids
  <2>3. CASE q # r
    BY <2>3 DEF Begin, IdInvariant, Known, IInv, StepTypes
  <2>4. QED BY <2>1, <2>2, <2>3
<1>3. QED BY <1>1, <1>2 DEF IdInvariant

LEMMA StepIdInvariant ==
  ASSUME IInv, IdInvariant, [Next]_vars
  PROVE  IdInvariant'
<1>1. ASSUME NEW r \in Request, Import(r) \/ Create(r) \/ \E id \in Id : Update(r, id)
      PROVE  IdInvariant'
  <2>1. CASE Import(r)
    BY <2>1, BeginIds DEF Import
  <2>2. CASE Create(r)
    BY <2>2, BeginIds DEF Create
  <2>3. ASSUME NEW id \in Id, Update(r, id) PROVE IdInvariant'
    BY <2>3, BeginIds DEF Update
  <2>4. QED BY <1>1, <2>1, <2>2, <2>3
<1>2. ASSUME NEW r \in Request, Answer(r) PROVE IdInvariant'
  BY <1>2 DEF Answer, IdInvariant, Ids, Known, IInv, StepTypes, Aimed
<1>3. ASSUME NEW r \in Request, Look(r) PROVE IdInvariant'
  <2>1. Ids'
    BY <1>3 DEF Look, IdInvariant, Ids, history
  <2>2. CASE Failed(r)
    BY <2>1, <2>2, DroppedKnown DEF IdInvariant
  <2>3. CASE pc' = [pc EXCEPT ![r] = "inserting"] /\ UNCHANGED <<target, copy, born>>
    BY <2>1, <2>3 DEF IdInvariant, Known, IInv, StepTypes, Aimed
  <2>4. ASSUME NEW id \in Id, rows[id] # Nothing,
               pc' = [pc EXCEPT ![r] = "reading"],
               target' = [target EXCEPT ![r] = id],
               born' = [born EXCEPT ![r] = rows[id].account]
        PROVE  IdInvariant'
    BY <2>1, <2>4 DEF IdInvariant, Ids, Known, IInv, StepTypes
  <2>5. QED BY <1>3, <2>2, <2>3, <2>4 DEF Look
<1>4. ASSUME NEW r \in Request, Read(r) PROVE IdInvariant'
  <2>1. Ids'
    BY <1>4 DEF Read, IdInvariant, Ids, history
  <2>2. CASE Failed(r)
    BY <2>1, <2>2, DroppedKnown DEF IdInvariant
  <2>3. CASE pc' = [pc EXCEPT ![r] = "updating"] /\ UNCHANGED <<target, born>>
    BY <1>4, <2>1, <2>3 DEF Read, IdInvariant, Known, IInv, StepTypes, Aimed
  <2>4. QED BY <1>4, <2>2, <2>3 DEF Read
<1>5. ASSUME NEW r \in Request, Write(r) PROVE IdInvariant'
  <2>1. pc[r] = "updating" /\ target[r] \in Id /\ born[r] = target[r]
    BY <1>5 DEF Write, IInv, Good, Shape, Aimed, IdInvariant, Known
  <2>2. rows[target[r]] # Nothing =>
          [rows[target[r]] EXCEPT !.email = copy[r]].account = rows[target[r]].account
    BY <2>1 DEF IInv, TableTypes, Row
  <2>3. Ids'
    BY <1>5, <2>1, <2>2, RewrittenIds DEF Write, IdInvariant
  <2>4. QED BY <1>5, <2>1, <2>3, WrittenKnown DEF Write, IdInvariant
<1>6. ASSUME NEW r \in Request, Insert(r) PROVE IdInvariant'
  <2>1. PICK e : Inserted(NextId, e) /\ Written(r, NextId, inserts + 1) /\ meant' = Meant(r, NextId)
    BY <1>6 DEF Insert
  <2>2. NextId = inserts + 1 /\ NextId \in Id /\ lastId' = NextId
    BY <2>1, InsertedIds DEF IInv, IdInvariant, Inserted
  <2>3. \A id \in meant' : id \in meant \/ id = NextId
    BY <2>1 DEF Meant
  <2>4. NextId <= lastId'
    BY <2>2, ConstantFacts
  <2>5. Ids'
    BY <2>1, <2>3, <2>4, InsertedIds DEF IInv, TableTypes, IdInvariant, Ids
  <2>6. QED BY <2>1, <2>2, <2>5, WrittenKnown DEF IdInvariant
<1>7. ASSUME NEW r \in Request, InsertTaken(r) PROVE IdInvariant'
  BY <1>7, DroppedKnown DEF InsertTaken, IdInvariant, Ids, history
<1>8. ASSUME NEW r \in Request, Activate(r) PROVE IdInvariant'
  <2>1. pc[r] = "activating" /\ target[r] \in Id
    BY <1>8 DEF Activate, IInv, Good, Shape, Aimed
  <2>2. rows[target[r]] # Nothing =>
          [rows[target[r]] EXCEPT !.active = (Now(r).active = "on")].account = rows[target[r]].account
    BY <2>1 DEF IInv, TableTypes, Row
  <2>3. Ids'
    BY <1>8, <2>1, <2>2, RewrittenIds DEF Activate, IdInvariant
  <2>4. QED BY <1>8, <2>3, DroppedKnown DEF Activate, IdInvariant
<1>9. ASSUME NEW r \in Request, StatementFails(r) PROVE IdInvariant'
  BY <1>9, DroppedKnown DEF StatementFails, IdInvariant, Ids
<1>10. ASSUME NEW id \in Id, Delete(id) PROVE IdInvariant'
  <2>1. \A i \in Id : rows'[i] # Nothing => rows'[i] = rows[i]
    BY <1>10 DEF Delete, IInv, TableTypes
  <2>2. QED BY <1>10, <2>1 DEF Delete, IdInvariant, Ids, Known
<1>11. ASSUME NEW id \in Id, NEW active \in BOOLEAN, SetActive(id, active) PROVE IdInvariant'
  <2>1. \A i \in Id : rows'[i] # Nothing => rows[i] # Nothing /\ rows'[i].account = rows[i].account
    BY <1>11 DEF SetActive, IInv, TableTypes, Row
  <2>2. \A i \in meant' : i \in meant \/ i = id
    BY <1>11 DEF SetActive
  <2>3. id <= lastId
    BY <1>11 DEF SetActive, IdInvariant, Ids
  <2>4. QED BY <1>11, <2>1, <2>2, <2>3 DEF SetActive, IdInvariant, Ids, Known
<1>12. ASSUME Restart PROVE IdInvariant'
  <2>1. \A i \in meant' : i \in meant /\ i \in Id
    BY <1>12 DEF Restart, IInv, TableTypes
  <2>2. CASE UNCHANGED <<rows, lastId, inserts>>
    BY <1>12, <2>1, <2>2 DEF Restart, IdInvariant, Ids, Known, Aimed
  <2>3. CASE Inserted(NextId, Seed)
    <3>1. Ids'
      BY <2>1, <2>3, InsertedIds DEF IInv, IdInvariant, Ids
    <3>2. QED BY <1>12, <3>1 DEF Restart, IdInvariant, Known, Aimed
  <2>4. QED BY <1>12, <2>2, <2>3 DEF Restart, Seeded
<1>13. CASE UNCHANGED vars
  BY <1>13 DEF vars, progress, history, IdInvariant, Ids, Known
<1>14. QED
  BY <1>1, <1>2, <1>3, <1>4, <1>5, <1>6, <1>7, <1>8, <1>9, <1>10, <1>11, <1>12, <1>13
  DEF Next, Serve, Statement

\* The statements of a request reach the account it looked up, or none.
THEOREM AccountHit == Spec => []StatementsHitTheirAccount
<1>1. Init => IInv /\ IdInvariant
  <2> SUFFICES ASSUME Init PROVE IdInvariant
    BY InitIInv
  <2>1. QED BY DEF Init, IdInvariant, Ids, Known, Aimed
<1>2. (IInv /\ IdInvariant) /\ [Next]_vars => (IInv /\ IdInvariant)'
  BY StepIInv, StepIdInvariant
<1>3. IInv /\ IdInvariant => StatementsHitTheirAccount
  BY DEF IInv, Good, Shape, Aimed, IdInvariant, Ids, Known, StatementsHitTheirAccount
<1>4. QED BY <1>1, <1>2, <1>3, PTL DEF Spec
-----------------------------------------------------------------------------
(* What was said to be disabled.                                            *)

\* Some request is about to disable the account.
Owed(id) == \E r \in Request : pc[r] = "activating" /\ target[r] = id /\ Now(r).active = "off"

\* A step of r leaves every other request where it is.
Apart(r) == \A q \in Request \ {r} :
  pc'[q] = pc[q] /\ target'[q] = target[q] /\ items'[q] = items[q] /\ idx'[q] = idx[q]

LEMMA OthersOwe ==
  ASSUME NEW r \in Request, pc[r] # "activating", Apart(r), NEW id, Owed(id)
  PROVE  Owed(id)'
<1>1. PICK q \in Request : pc[q] = "activating" /\ target[q] = id /\ Now(q).active = "off"
  BY DEF Owed
<1>2. q # r
  BY <1>1
<1>3. pc'[q] = "activating" /\ target'[q] = id /\ Now(q)'.active = "off"
  BY <1>1, <1>2 DEF Apart, Now
<1>4. QED BY <1>3 DEF Owed

LEMMA HandledApart ==
  ASSUME IInv, NEW r \in Request, Handled(r), UNCHANGED progress
  PROVE  Apart(r)
BY DEF Handled, Dropped, IInv, StepTypes, progress, Apart

LEMMA FailedApart ==
  ASSUME IInv, NEW r \in Request, Failed(r), UNCHANGED <<progress, idx>>
  PROVE  Apart(r)
BY DEF Failed, Dropped, IInv, StepTypes, progress, Apart

LEMMA WrittenApart ==
  ASSUME IInv, NEW r \in Request, NEW id, NEW account, Written(r, id, account), UNCHANGED progress
  PROVE  Apart(r)
<1>1. CASE Now(r).active = "absent"
  BY <1>1, HandledApart DEF Written
<1>2. CASE Now(r).active # "absent"
  BY <1>2 DEF Written, IInv, StepTypes, progress, Apart
<1>3. QED BY <1>1, <1>2

\* A step that leaves the table alone, and is not the disabling.
LEMMA TableKept ==
  ASSUME DisabledStaysDisabled, NEW r \in Request, pc[r] # "activating", Apart(r), UNCHANGED <<rows, meant>>
  PROVE  DisabledStaysDisabled'
<1>1. ASSUME NEW id \in meant, rows[id] # Nothing, rows[id].active PROVE Owed(id)'
  BY <1>1, OthersOwe DEF DisabledStaysDisabled, Owed
<1>2. QED BY <1>1 DEF DisabledStaysDisabled, Owed

\* A row was written: an account the item disables is owed it.
LEMMA WrittenOwes ==
  ASSUME IInv, NEW r \in Request, NEW id, NEW account,
         Written(r, id, account), UNCHANGED progress, Now(r).active = "off"
  PROVE  Owed(id)'
<1>1. pc'[r] = "activating" /\ target'[r] = id /\ idx'[r] = idx[r] /\ items'[r] = items[r]
  BY DEF Written, IInv, StepTypes, progress
<1>2. Now(r)'.active = "off"
  BY <1>1 DEF Now
<1>3. QED BY <1>1, <1>2 DEF Owed

LEMMA StepDisabled ==
  ASSUME IInv, IdInvariant, DisabledStaysDisabled, [Next]_vars
  PROVE  DisabledStaysDisabled'
<1>1. ASSUME NEW r \in Request, Import(r) \/ Create(r) \/ \E id \in Id : Update(r, id)
      PROVE  DisabledStaysDisabled'
  <2>1. ASSUME NEW kind, NEW given, NEW id, Begin(r, kind, given, id) PROVE DisabledStaysDisabled'
    <3>1. Apart(r)
      BY <2>1 DEF Begin, IInv, StepTypes, GivenTypes, Apart
    <3>2. QED BY <2>1, <3>1, TableKept DEF Begin, history
  <2>2. QED BY <1>1, <2>1 DEF Import, Create, Update
<1>2. ASSUME NEW r \in Request, Answer(r) PROVE DisabledStaysDisabled'
  <2>1. Apart(r)
    BY <1>2 DEF Answer, IInv, StepTypes, GivenTypes, Apart
  <2>2. QED BY <1>2, <2>1, TableKept DEF Answer
<1>3. ASSUME NEW r \in Request, Look(r) PROVE DisabledStaysDisabled'
  <2>1. Apart(r)
    <3>1. CASE Failed(r)
      BY <1>3, <3>1, FailedApart DEF Look
    <3>2. CASE ~Failed(r)
      BY <1>3, <3>2 DEF Look, IInv, StepTypes, progress, Apart
    <3>3. QED BY <3>1, <3>2
  <2>2. QED BY <1>3, <2>1, TableKept DEF Look, history
<1>4. ASSUME NEW r \in Request, Read(r) PROVE DisabledStaysDisabled'
  <2>1. Apart(r)
    <3>1. CASE Failed(r)
      BY <1>4, <3>1, FailedApart DEF Read
    <3>2. CASE ~Failed(r)
      BY <1>4, <3>2 DEF Read, IInv, StepTypes, progress, Apart
    <3>3. QED BY <3>1, <3>2
  <2>2. QED BY <1>4, <2>1, TableKept DEF Read, history
<1>5. ASSUME NEW r \in Request, InsertTaken(r) PROVE DisabledStaysDisabled'
  BY <1>5, FailedApart, TableKept DEF InsertTaken, history
<1>6. ASSUME NEW r \in Request, Write(r) PROVE DisabledStaysDisabled'
  <2>1. /\ pc[r] = "updating" /\ target[r] \in Id
        /\ Rewritten(r, [rows[target[r]] EXCEPT !.email = copy[r]])
        /\ Written(r, target[r], born[r]) /\ UNCHANGED progress
    BY <1>6 DEF Write, IInv, Good, Shape, Aimed
  <2>2. Apart(r)
    BY <2>1, WrittenApart
  <2>3. ASSUME NEW id \in meant', rows'[id] # Nothing, rows'[id].active PROVE Owed(id)'
    <3>1. id \in Id /\ rows[id] # Nothing /\ rows[id] \in Row
      BY <2>1, <2>3 DEF Rewritten, Meant, IInv, TableTypes
    <3>2. rows[id].active
      BY <2>1, <2>3, <3>1 DEF Rewritten, IInv, TableTypes, Row
    <3>3. CASE id \in meant
      BY <2>1, <2>2, <3>1, <3>2, <3>3, OthersOwe DEF DisabledStaysDisabled, Owed
    <3>4. CASE id \notin meant
      <4>1. id = target[r] /\ Now(r).active = "off"
        BY <2>1, <2>3, <3>4 DEF Rewritten, Meant
      <4>2. QED BY <2>1, <4>1, WrittenOwes
    <3>5. QED BY <3>3, <3>4
  <2>4. QED BY <2>3 DEF DisabledStaysDisabled, Owed
<1>7. ASSUME NEW r \in Request, Insert(r) PROVE DisabledStaysDisabled'
  <2>1. PICK e : Inserted(NextId, e) /\ Written(r, NextId, inserts + 1) /\ meant' = Meant(r, NextId)
    BY <1>7 DEF Insert
  <2>2. pc[r] = "inserting" /\ UNCHANGED progress
    BY <1>7 DEF Insert
  <2>3. NextId \in Id /\ NextId \notin meant
    BY <2>1, InsertedIds DEF IInv, IdInvariant, Inserted
  <2>4. Apart(r)
    BY <2>1, <2>2, WrittenApart
  <2>5. ASSUME NEW id \in meant', rows'[id] # Nothing, rows'[id].active PROVE Owed(id)'
    <3>1. CASE id = NextId
      <4>1. Now(r).active = "off"
        BY <2>1, <2>3, <2>5, <3>1 DEF Meant
      <4>2. QED BY <2>1, <2>2, <3>1, <4>1, WrittenOwes
    <3>2. CASE id # NextId
      <4>1. id \in meant /\ id \in Id
        BY <2>1, <3>2, <2>5 DEF Meant, IInv, TableTypes
      <4>2. rows'[id] = rows[id]
        BY <2>1, <3>2, <4>1 DEF Inserted, IInv, TableTypes
      <4>3. QED BY <2>2, <2>4, <2>5, <4>1, <4>2, OthersOwe DEF DisabledStaysDisabled, Owed
    <3>3. QED BY <3>1, <3>2
  <2>6. QED BY <2>5 DEF DisabledStaysDisabled, Owed
<1>8. ASSUME NEW r \in Request, Activate(r) PROVE DisabledStaysDisabled'
  <2>1. /\ pc[r] = "activating" /\ target[r] \in Id
        /\ Rewritten(r, [rows[target[r]] EXCEPT !.active = (Now(r).active = "on")])
        /\ Handled(r) /\ UNCHANGED progress
    BY <1>8 DEF Activate, IInv, Good, Shape, Aimed
  <2>2. Apart(r)
    BY <2>1, HandledApart
  <2>3. ASSUME NEW id \in meant', rows'[id] # Nothing, rows'[id].active PROVE Owed(id)'
    <3>1. id \in Id /\ rows[id] # Nothing /\ rows[id] \in Row
      BY <2>1, <2>3 DEF Rewritten, Meant, IInv, TableTypes
    <3>2. id # target[r]
      <4> SUFFICES ASSUME id = target[r] PROVE FALSE
        OBVIOUS
      <4>1. rows'[id] = [rows[id] EXCEPT !.active = (Now(r).active = "on")]
        BY <2>1, <3>1 DEF Rewritten, IInv, TableTypes
      <4>2. Now(r).active = "on"
        BY <2>3, <3>1, <4>1 DEF Row
      <4>3. QED BY <2>1, <2>3, <3>1, <4>2 DEF Rewritten, Meant
    <3>3. id \in meant /\ rows[id].active
      BY <2>1, <2>3, <3>1, <3>2 DEF Rewritten, Meant, IInv, TableTypes
    <3>4. PICK q \in Request : pc[q] = "activating" /\ target[q] = id /\ Now(q).active = "off"
      BY <3>1, <3>3 DEF DisabledStaysDisabled
    <3>5. pc'[q] = "activating" /\ target'[q] = id /\ Now(q)'.active = "off"
      BY <2>2, <3>2, <3>4 DEF Apart, Now
    <3>6. QED BY <3>5 DEF Owed
  <2>4. QED BY <2>3 DEF DisabledStaysDisabled, Owed
<1>9. ASSUME NEW r \in Request, StatementFails(r) PROVE DisabledStaysDisabled'
  <2>1. Failed(r) /\ UNCHANGED <<rows, progress, idx>> /\ meant' = meant \ Unsaid({r})
    BY <1>9 DEF StatementFails
  <2>2. Apart(r)
    BY <2>1, FailedApart
  <2>3. ASSUME NEW id \in meant', rows[id] # Nothing, rows[id].active PROVE Owed(id)'
    <3>1. PICK q \in Request : pc[q] = "activating" /\ target[q] = id /\ Now(q).active = "off"
      BY <2>1, <2>3 DEF DisabledStaysDisabled
    <3>2. q # r
      BY <2>1, <2>3, <3>1 DEF Unsaid
    <3>3. pc'[q] = "activating" /\ target'[q] = id /\ Now(q)'.active = "off"
      BY <2>2, <3>1, <3>2 DEF Apart, Now
    <3>4. QED BY <3>3 DEF Owed
  <2>4. QED BY <2>1, <2>3 DEF DisabledStaysDisabled, Owed
<1>10. ASSUME NEW id \in Id, Delete(id) PROVE DisabledStaysDisabled'
  BY <1>10 DEF Delete, DisabledStaysDisabled, Now, progress, IInv, TableTypes
<1>11. ASSUME NEW id \in Id, NEW active \in BOOLEAN, SetActive(id, active) PROVE DisabledStaysDisabled'
  <2>1. ASSUME NEW i \in meant', rows'[i] # Nothing, rows'[i].active
        PROVE  i \in meant /\ rows[i] # Nothing /\ rows[i].active
    <3>1. i \in Id /\ rows[id] \in Row
      BY <1>11, <2>1 DEF SetActive, IInv, TableTypes
    <3>2. CASE i = id
      <4>1. rows'[i].active = active
        BY <1>11, <3>1, <3>2 DEF SetActive, IInv, TableTypes, Row
      <4>2. QED BY <1>11, <2>1, <3>2, <4>1 DEF SetActive
    <3>3. CASE i # id
      BY <1>11, <2>1, <3>1, <3>3 DEF SetActive, IInv, TableTypes
    <3>4. QED BY <3>2, <3>3
  <2>2. QED BY <1>11, <2>1 DEF SetActive, DisabledStaysDisabled, Now, progress
<1>12. ASSUME Restart PROVE DisabledStaysDisabled'
  <2>1. ASSUME NEW id \in meant', rows[id] # Nothing, rows[id].active PROVE FALSE
    <3>1. id \in meant
      BY <1>12, <2>1 DEF Restart
    <3>2. PICK q \in Request : pc[q] = "activating" /\ target[q] = id
      BY <2>1, <3>1 DEF DisabledStaysDisabled
    <3>3. QED BY <1>12, <2>1, <3>2 DEF Restart, Unsaid
  <2>2. ASSUME NEW id \in meant', rows'[id] # Nothing PROVE rows'[id] = rows[id]
    <3>1. id \in meant /\ id \in Id
      BY <1>12, <2>2 DEF Restart, IInv, TableTypes
    <3>2. CASE UNCHANGED rows
      BY <3>2
    <3>3. CASE Inserted(NextId, Seed)
      <4>1. id # NextId
        BY <3>1, <3>3, InsertedIds DEF IInv, IdInvariant
      <4>2. QED BY <3>1, <3>3, <4>1 DEF Inserted, IInv, TableTypes
    <3>4. QED BY <1>12, <3>2, <3>3 DEF Restart, Seeded
  <2>3. QED BY <2>1, <2>2 DEF DisabledStaysDisabled
<1>13. CASE UNCHANGED vars
  BY <1>13 DEF vars, progress, history, DisabledStaysDisabled, Now
<1>14. QED
  BY <1>1, <1>2, <1>3, <1>4, <1>5, <1>6, <1>7, <1>8, <1>9, <1>10, <1>11, <1>12, <1>13
  DEF Next, Serve, Statement

\* An account that was last said to be disabled is, or a request is about to do it.
THEOREM StaysDisabled == Spec => []DisabledStaysDisabled
<1>1. Init => IInv /\ IdInvariant /\ DisabledStaysDisabled
  <2> SUFFICES ASSUME Init PROVE IdInvariant /\ DisabledStaysDisabled
    BY InitIInv
  <2>1. QED BY DEF Init, IdInvariant, Ids, Known, Aimed, DisabledStaysDisabled
<1>2. (IInv /\ IdInvariant /\ DisabledStaysDisabled) /\ [Next]_vars
        => (IInv /\ IdInvariant /\ DisabledStaysDisabled)'
  BY StepIInv, StepIdInvariant, StepDisabled
<1>3. QED BY <1>1, <1>2, PTL DEF Spec
-----------------------------------------------------------------------------
(* What a request has dealt with.                                           *)

\* The address is in the table, or left it under the eyes of the request.
Kept(r, e) == e \in Addresses(rows) \cup {NoEmail} \cup gone[r]

\* It has dealt with an item, or found the item's row.
Dealt(r, k) == k < idx[r] \/ (k = idx[r] /\ pc[r] \in Aimed)

\* Where it may stand among its items.
Placed(r) ==
  /\ idx[r] \in 1 .. Len(items[r]) + 1
  /\ pc[r] = "stored" => idx[r] = Len(items[r]) + 1

Recorded(r) ==
  what[r] # "update" => \A k \in 1 .. Len(items[r]) : Dealt(r, k) => Kept(r, items[r][k].email)

HandledInvariant == \A r \in Request : Placed(r) /\ Recorded(r)

\* No address it has reached leaves the table unnoticed.
Carried(r) ==
  /\ gone[r] \subseteq gone'[r]
  /\ Reached(r) \cap Addresses(rows) \subseteq Addresses(rows') \cup gone'[r]

LEMMA KeptStays ==
  ASSUME NEW r \in Request, Carried(r), Placed(r), NEW k \in 1 .. Len(items[r]),
         items[r] \in Seq(Entry), k <= idx[r], Kept(r, items[r][k].email)
  PROVE  items[r][k].email \in Addresses(rows') \cup {NoEmail} \cup gone'[r]
<1>1. k \in DOMAIN items[r]
  OBVIOUS
<1>2. items[r][k].email \in Reached(r)
  BY <1>1 DEF Reached
<1>3. QED BY <1>2 DEF Carried, Kept

\* A request that stays where it is.
LEMMA StandingRecorded ==
  ASSUME IInv, HandledInvariant, NEW r \in Request, Carried(r),
         pc'[r] = pc[r] \/ pc'[r] \notin Aimed \cup {"stored"},
         idx'[r] = idx[r], items'[r] = items[r], what'[r] = what[r]
  PROVE  (Placed(r) /\ Recorded(r))'
<1>1. items[r] \in Seq(Entry) /\ Placed(r)
  BY DEF IInv, GivenTypes, HandledInvariant
<1>2. Placed(r)'
  BY <1>1 DEF Placed
<1>3. ASSUME what[r] # "update", NEW k \in 1 .. Len(items[r]), Dealt(r, k)'
      PROVE  items[r][k].email \in Addresses(rows') \cup {NoEmail} \cup gone'[r]
  <2>1. Dealt(r, k)
    BY <1>3 DEF Dealt
  <2>2. Kept(r, items[r][k].email)
    BY <1>3, <2>1 DEF HandledInvariant, Recorded
  <2>3. k <= idx[r]
    BY <1>1, <2>1 DEF Dealt, Placed
  <2>4. QED BY <1>1, <2>2, <2>3, KeptStays
<1>4. QED BY <1>2, <1>3 DEF Recorded, Kept

\* A request that found, or wrote, the row of its item.
LEMMA AimedRecorded ==
  ASSUME IInv, HandledInvariant, NEW r \in Request, Carried(r), pc'[r] \in Aimed,
         what[r] # "update" => Now(r).email \in Addresses(rows') \cup {NoEmail} \cup gone'[r],
         idx'[r] = idx[r], items'[r] = items[r], what'[r] = what[r]
  PROVE  (Placed(r) /\ Recorded(r))'
<1>1. items[r] \in Seq(Entry) /\ Placed(r)
  BY DEF IInv, GivenTypes, HandledInvariant
<1>2. Placed(r)'
  BY <1>1 DEF Placed, Aimed
<1>3. ASSUME what[r] # "update", NEW k \in 1 .. Len(items[r]), Dealt(r, k)'
      PROVE  items[r][k].email \in Addresses(rows') \cup {NoEmail} \cup gone'[r]
  <2>1. CASE k = idx[r]
    BY <1>3, <2>1 DEF Now
  <2>2. CASE k # idx[r]
    <3>1. k < idx[r]
      BY <1>3, <2>2 DEF Dealt
    <3>2. Kept(r, items[r][k].email)
      BY <1>3, <3>1 DEF HandledInvariant, Recorded, Dealt
    <3>3. k <= idx[r]
      BY <1>1, <3>1 DEF Placed
    <3>4. QED BY <1>1, <3>2, <3>3, KeptStays
  <2>3. QED BY <2>1, <2>2
<1>4. QED BY <1>2, <1>3 DEF Recorded, Kept

\* A request that goes on to its next item.
LEMMA HandledRecorded ==
  ASSUME IInv, HandledInvariant, NEW r \in Request, Carried(r), pc[r] \in Working,
         what[r] # "update" => Now(r).email \in Addresses(rows') \cup {NoEmail} \cup gone'[r],
         Handled(r), UNCHANGED progress
  PROVE  (Placed(r) /\ Recorded(r))'
<1>1. items[r] \in Seq(Entry) /\ Placed(r) /\ Len(items[r]) \in Nat
  BY DEF IInv, GivenTypes, HandledInvariant
<1>2. /\ idx'[r] = idx[r] + 1 /\ items'[r] = items[r] /\ what'[r] = what[r]
      /\ pc'[r] = IF idx[r] < Len(items[r]) THEN "looking" ELSE "stored"
  BY DEF Handled, IInv, StepTypes, progress
<1>3. idx[r] \in 1 .. Len(items[r])
  BY DEF IInv, Good, InRange
<1>4. Placed(r)'
  BY <1>1, <1>2, <1>3 DEF Placed
<1>5. pc'[r] \notin Aimed
  BY <1>2 DEF Aimed
<1>6. ASSUME what[r] # "update", NEW k \in 1 .. Len(items[r]), Dealt(r, k)'
      PROVE  items[r][k].email \in Addresses(rows') \cup {NoEmail} \cup gone'[r]
  <2>1. k < idx[r] + 1
    BY <1>2, <1>5, <1>6 DEF Dealt
  <2>2. CASE k = idx[r]
    BY <1>6, <2>2 DEF Now
  <2>3. CASE k # idx[r]
    <3>1. k < idx[r] /\ k <= idx[r]
      BY <1>3, <2>1, <2>3
    <3>2. Kept(r, items[r][k].email)
      BY <1>6, <3>1 DEF HandledInvariant, Recorded, Dealt
    <3>3. QED BY <1>1, <3>1, <3>2, KeptStays
  <2>4. QED BY <2>2, <2>3
<1>7. QED BY <1>2, <1>4, <1>6 DEF Recorded, Kept

LEMMA WrittenRecorded ==
  ASSUME IInv, HandledInvariant, NEW r \in Request, Carried(r), pc[r] \in Working,
         what[r] # "update" => Now(r).email \in Addresses(rows') \cup {NoEmail} \cup gone'[r],
         NEW id, NEW account, Written(r, id, account), UNCHANGED progress
  PROVE  (Placed(r) /\ Recorded(r))'
<1>1. CASE Now(r).active = "absent"
  BY <1>1, HandledRecorded DEF Written
<1>2. CASE Now(r).active # "absent"
  <2>1. pc'[r] \in Aimed /\ idx'[r] = idx[r] /\ items'[r] = items[r] /\ what'[r] = what[r]
    BY <1>2 DEF Written, IInv, StepTypes, progress, Aimed
  <2>2. QED BY <2>1, AimedRecorded
<1>3. QED BY <1>1, <1>2

\* The others stand where they are.
LEMMA OthersRecorded ==
  ASSUME IInv, HandledInvariant, NEW r \in Request, Apart(r), UNCHANGED what,
         \A q \in Request : Carried(q), (Placed(r) /\ Recorded(r))'
  PROVE  HandledInvariant'
<1>1. ASSUME NEW q \in Request \ {r} PROVE (Placed(q) /\ Recorded(q))'
  BY <1>1, StandingRecorded DEF Apart
<1>2. QED BY <1>1 DEF HandledInvariant

\* What a step does to the addresses.
LEMMA UntouchedCarried ==
  ASSUME UNCHANGED <<rows, gone>>
  PROVE  \A q \in Request : Carried(q)
BY DEF Carried, Addresses

LEMMA NotedCarried ==
  ASSUME Noted
  PROVE  \A q \in Request : Carried(q)
BY DEF Noted, Carried

LEMMA AddedCarried ==
  ASSUME Addresses(rows) \subseteq Addresses(rows'), UNCHANGED gone
  PROVE  \A q \in Request : Carried(q)
BY DEF Carried

\* The row of an account that has been found is met, or gone.
LEMMA AimedKept ==
  ASSUME IInv, HandledInvariant, NEW r \in Request, pc[r] \in Aimed, what[r] # "update", Carried(r)
  PROVE  Now(r).email \in Addresses(rows') \cup {NoEmail} \cup gone'[r]
<1>1. items[r] \in Seq(Entry) /\ idx[r] \in 1 .. Len(items[r]) /\ Placed(r)
  BY DEF IInv, GivenTypes, Good, InRange, Aimed, Working, HandledInvariant
<1>2. Kept(r, items[r][idx[r]].email)
  BY <1>1 DEF HandledInvariant, Recorded, Dealt
<1>3. QED BY <1>1, <1>2, KeptStays DEF Now

LEMMA BeginRecorded ==
  ASSUME IInv, HandledInvariant, NEW r \in Request, NEW kind, NEW given \in Seq(Entry),
         NEW id, 1 \in 1 .. Len(given), kind # "update" => id = Nothing, Begin(r, kind, given, id)
  PROVE  HandledInvariant'
<1>1. \A q \in Request : Carried(q)
  BY UntouchedCarried DEF Begin, history
<1>2. /\ pc'[r] = IF id = Nothing THEN "looking" ELSE "reading"
      /\ idx'[r] = 1 /\ items'[r] = given /\ what'[r] = kind
  BY DEF Begin, IInv, StepTypes, GivenTypes, Good, Shape
<1>3. Placed(r)'
  BY <1>2 DEF Placed
<1>4. Recorded(r)'
  BY <1>2 DEF Recorded, Dealt, Aimed
<1>5. ASSUME NEW q \in Request \ {r} PROVE (Placed(q) /\ Recorded(q))'
  <2>1. pc'[q] = pc[q] /\ idx'[q] = idx[q] /\ items'[q] = items[q] /\ what'[q] = what[q]
    BY DEF Begin, IInv, StepTypes, GivenTypes
  <2>2. QED BY <1>1, <2>1, StandingRecorded
<1>6. QED BY <1>3, <1>4, <1>5 DEF HandledInvariant

LEMMA ServeRecorded ==
  ASSUME IInv, HandledInvariant, NEW r \in Request, Serve(r)
  PROVE  HandledInvariant'
<1>1. CASE Import(r)
  <2>1. PICK n \in 1 .. MaxItems : \E given \in [1 .. n -> Item] : Begin(r, "import", given, Nothing)
    BY <1>1 DEF Import
  <2>2. PICK given \in [1 .. n -> Item] : Begin(r, "import", given, Nothing)
    BY <2>1
  <2>3. given \in Seq(Entry) /\ Len(given) = n /\ n \in Nat \ {0}
    BY StoreAssumption, ConstantFacts
  <2>4. QED BY <2>2, <2>3, BeginRecorded
<1>2. CASE Create(r)
  <2>1. PICK e \in Field \ {Same} : Begin(r, "create", <<[email |-> e, active |-> "absent"]>>, Nothing)
    BY <1>2 DEF Create
  <2> DEFINE given == <<[email |-> e, active |-> "absent"]>>
  <2>2. [email |-> e, active |-> "absent"] \in Entry
    BY ConstantFacts DEF Entry, Wish
  <2>3. given \in Seq(Entry) /\ 1 \in 1 .. Len(given)
    BY <2>2
  <2>4. Begin(r, "create", given, Nothing)
    BY <2>1
  <2> HIDE DEF given
  <2>5. QED BY <2>3, <2>4, BeginRecorded
<1>3. ASSUME NEW id \in Id, Update(r, id) PROVE HandledInvariant'
  <2>1. PICK e \in Field : Begin(r, "update", <<[email |-> e, active |-> "absent"]>>, id)
    BY <1>3 DEF Update
  <2> DEFINE given == <<[email |-> e, active |-> "absent"]>>
  <2>2. [email |-> e, active |-> "absent"] \in Entry
    BY ConstantFacts DEF Entry, Wish
  <2>3. given \in Seq(Entry) /\ 1 \in 1 .. Len(given)
    BY <2>2
  <2>4. Begin(r, "update", given, id)
    BY <2>1
  <2> HIDE DEF given
  <2>5. QED BY <2>3, <2>4, BeginRecorded
<1>4. CASE Answer(r)
  <2>1. /\ pc'[r] = "idle" /\ idx'[r] = 1 /\ items'[r] = <<>>
    BY <1>4 DEF Answer, IInv, StepTypes, GivenTypes
  <2>2. Placed(r)' /\ Recorded(r)'
    BY <2>1 DEF Placed, Recorded
  <2>3. ASSUME NEW q \in Request \ {r} PROVE (Placed(q) /\ Recorded(q))'
    <3>1. /\ pc'[q] = pc[q] /\ idx'[q] = idx[q] /\ items'[q] = items[q] /\ what'[q] = what[q]
          /\ gone'[q] = gone[q] /\ rows' = rows
      BY <1>4 DEF Answer, IInv, StepTypes, GivenTypes, GoneTypes
    <3>2. Carried(q)
      BY <3>1 DEF Carried, Addresses
    <3>3. QED BY <3>1, <3>2, StandingRecorded
  <2>4. QED BY <2>2, <2>3 DEF HandledInvariant
<1>5. QED BY <1>1, <1>2, <1>3, <1>4 DEF Serve

LEMMA StatementRecorded ==
  ASSUME IInv, IdInvariant, HandledInvariant, NEW r \in Request, Statement(r)
  PROVE  HandledInvariant'
<1>1. ASSUME Failed(r), UNCHANGED <<rows, gone, idx, progress>> PROVE HandledInvariant'
  <2>1. /\ pc'[r] \notin Aimed \cup {"stored"}
        /\ idx'[r] = idx[r] /\ items'[r] = items[r] /\ what'[r] = what[r]
    BY <1>1 DEF Failed, IInv, StepTypes, progress, Aimed
  <2>2. \A q \in Request : Carried(q)
    BY <1>1, UntouchedCarried
  <2>3. (Placed(r) /\ Recorded(r))'
    BY <2>1, <2>2, StandingRecorded
  <2>4. QED BY <1>1, <2>2, <2>3, FailedApart, OthersRecorded DEF progress
<1>2. CASE Look(r)
  <2>1. pc[r] = "looking" /\ UNCHANGED <<rows, lastId, idx, progress, history>>
    BY <1>2 DEF Look
  <2>2. \A q \in Request : Carried(q)
    BY <2>1, UntouchedCarried DEF history
  <2>3. CASE pc' = [pc EXCEPT ![r] = "inserting"] /\ UNCHANGED <<target, copy, born>>
    <3>1. pc'[r] \notin Aimed \cup {"stored"}
      BY <2>3 DEF IInv, StepTypes, Aimed
    <3>2. (Placed(r) /\ Recorded(r))'
      BY <2>1, <2>2, <3>1, StandingRecorded DEF progress
    <3>3. Apart(r)
      BY <2>1, <2>3 DEF Apart, IInv, StepTypes, progress
    <3>4. QED BY <2>1, <2>2, <3>2, <3>3, OthersRecorded DEF progress
  <2>4. CASE Failed(r)
    BY <1>1, <2>1, <2>4 DEF history
  <2>5. ASSUME NEW id \in Id, rows[id] # Nothing, rows[id].email = Now(r).email,
               pc' = [pc EXCEPT ![r] = "reading"], target' = [target EXCEPT ![r] = id]
        PROVE  HandledInvariant'
    <3>1. Now(r).email \in Addresses(rows')
      BY <2>1, <2>5 DEF Addresses
    <3>2. pc'[r] \in Aimed
      BY <2>5 DEF IInv, StepTypes, Aimed
    <3>3. (Placed(r) /\ Recorded(r))'
      BY <2>1, <2>2, <3>1, <3>2, AimedRecorded DEF progress
    <3>4. Apart(r)
      BY <2>1, <2>5 DEF Apart, IInv, StepTypes, progress
    <3>5. QED BY <2>1, <2>2, <3>3, <3>4, OthersRecorded DEF progress
  <2>6. QED BY <1>2, <2>3, <2>4, <2>5 DEF Look
<1>3. CASE Read(r)
  <2>1. pc[r] = "reading" /\ UNCHANGED <<rows, lastId, idx, progress, history>>
    BY <1>3 DEF Read
  <2>2. CASE Failed(r)
    BY <1>1, <2>1, <2>2 DEF history
  <2>3. CASE pc' = [pc EXCEPT ![r] = "updating"] /\ UNCHANGED <<target, born>>
    <3>1. \A q \in Request : Carried(q)
      BY <2>1, UntouchedCarried DEF history
    <3>2. pc[r] \in Aimed /\ pc'[r] \in Aimed
      BY <2>1, <2>3 DEF IInv, StepTypes, Aimed
    <3>3. (Placed(r) /\ Recorded(r))'
      BY <2>1, <3>1, <3>2, AimedKept, AimedRecorded DEF progress
    <3>4. Apart(r)
      BY <2>1, <2>3 DEF Apart, IInv, StepTypes, progress
    <3>5. QED BY <2>1, <3>1, <3>3, <3>4, OthersRecorded DEF progress
  <2>4. QED BY <1>3, <2>2, <2>3 DEF Read
<1>4. CASE Write(r)
  <2>1. pc[r] = "updating" /\ Written(r, target[r], born[r]) /\ Noted /\ UNCHANGED progress
    BY <1>4 DEF Write
  <2>2. \A q \in Request : Carried(q)
    BY <2>1, NotedCarried
  <2>3. pc[r] \in Aimed /\ pc[r] \in Working
    BY <2>1 DEF Aimed, Working
  <2>4. what[r] # "update" => Now(r).email \in Addresses(rows') \cup {NoEmail} \cup gone'[r]
    BY <2>2, <2>3, AimedKept
  <2>5. (Placed(r) /\ Recorded(r))'
    BY <2>1, <2>2, <2>3, <2>4, WrittenRecorded
  <2>6. QED BY <2>1, <2>2, <2>5, WrittenApart, OthersRecorded DEF progress
<1>5. CASE Insert(r)
  <2> DEFINE e == IF Now(r).email = NoEmail THEN NextId ELSE Now(r).email
  <2>1. /\ pc[r] = "inserting" /\ UNCHANGED <<progress, gone>>
        /\ Inserted(NextId, e) /\ Written(r, NextId, inserts + 1)
    BY <1>5 DEF Insert
  <2>2. NextId \in Id /\ rows' = [rows EXCEPT ![NextId] = NewRow(e)]
    BY <2>1 DEF Inserted
  <2>3. rows[NextId] = Nothing
    BY <2>2 DEF NextId, IInv, TableTypes, IdInvariant, Ids
  <2>4. Addresses(rows) \subseteq Addresses(rows')
    BY <2>2, <2>3 DEF Addresses, IInv, TableTypes
  <2>5. \A q \in Request : Carried(q)
    BY <2>1, <2>4, AddedCarried
  <2>6. e \in Addresses(rows')
    <3>1. rows'[NextId] = NewRow(e) /\ NewRow(e).email = e
      BY <2>2 DEF IInv, TableTypes, NewRow
    <3>2. NewRow(e) # Nothing
      <4>1. Now(r) \in Entry /\ Now(r).email # Same
        BY <2>1, NowIsEntry DEF IInv, Good, InRange, Shape, Working, Now
      <4>2. e \in Address
        BY <2>2, <4>1 DEF Entry, Address
      <4>3. NewRow(e) \in Row
        BY <2>1, <4>2, InsertedTypes DEF IInv
      <4>4. QED BY <4>3, ConstantFacts
    <3>3. QED BY <2>2, <3>1, <3>2 DEF Addresses
  <2>7. Now(r).email \in Addresses(rows') \cup {NoEmail} \cup gone'[r]
    BY <2>6
  <2> HIDE DEF e
  <2>8. (Placed(r) /\ Recorded(r))'
    BY <2>1, <2>5, <2>7, WrittenRecorded DEF Working
  <2>9. QED BY <2>1, <2>5, <2>8, WrittenApart, OthersRecorded DEF progress
<1>6. CASE InsertTaken(r)
  BY <1>1, <1>6 DEF InsertTaken, history
<1>7. CASE Activate(r)
  <2>1. /\ pc[r] = "activating" /\ target[r] \in Id
        /\ Rewritten(r, [rows[target[r]] EXCEPT !.active = (Now(r).active = "on")])
        /\ Handled(r) /\ UNCHANGED <<progress, gone>>
    BY <1>7 DEF Activate, IInv, Good, Shape, Aimed
  <2>2. Addresses(rows) \subseteq Addresses(rows')
    <3>1. ASSUME NEW id \in Id, rows[id] # Nothing
          PROVE  rows'[id] # Nothing /\ rows'[id].email = rows[id].email
      <4>1. rows[id] \in Row
        BY <3>1 DEF IInv, TableTypes
      <4>2. CASE id = target[r]
        <5>1. rows'[id] = [rows[id] EXCEPT !.active = (Now(r).active = "on")]
          BY <2>1, <3>1, <4>2 DEF Rewritten, IInv, TableTypes
        <5>2. rows'[id] \in Row /\ rows'[id].email = rows[id].email
          <6>1. (Now(r).active = "on") \in BOOLEAN
            OBVIOUS
          <6>2. QED BY <4>1, <5>1, <6>1 DEF Row
        <5>3. QED BY <5>2, ConstantFacts
      <4>3. CASE id # target[r]
        BY <2>1, <3>1, <4>3 DEF Rewritten, IInv, TableTypes
      <4>4. QED BY <4>2, <4>3
    <3>2. QED BY <3>1 DEF Addresses
  <2>3. \A q \in Request : Carried(q)
    BY <2>1, <2>2, AddedCarried
  <2>4. pc[r] \in Aimed /\ pc[r] \in Working
    BY <2>1 DEF Aimed, Working
  <2>5. (Placed(r) /\ Recorded(r))'
    BY <2>1, <2>3, <2>4, AimedKept, HandledRecorded
  <2>6. QED BY <2>1, <2>3, <2>5, HandledApart, OthersRecorded DEF progress
<1>8. CASE StatementFails(r)
  BY <1>1, <1>8 DEF StatementFails
<1>9. QED BY <1>2, <1>3, <1>4, <1>5, <1>6, <1>7, <1>8 DEF Statement

LEMMA StepRecorded ==
  ASSUME IInv, IdInvariant, HandledInvariant, [Next]_vars
  PROVE  HandledInvariant'
<1>1. ASSUME NEW r \in Request, Serve(r) \/ Statement(r) PROVE HandledInvariant'
  BY <1>1, ServeRecorded, StatementRecorded
<1>2. ASSUME UNCHANGED <<pc, idx, progress>>, \A q \in Request : Carried(q)
      PROVE  HandledInvariant'
  BY <1>2, StandingRecorded DEF HandledInvariant, progress
<1>3. ASSUME NEW id \in Id, Delete(id) PROVE HandledInvariant'
  BY <1>2, <1>3, NotedCarried DEF Delete
<1>4. ASSUME NEW id \in Id, NEW active \in BOOLEAN, SetActive(id, active) PROVE HandledInvariant'
  <2>1. ASSUME NEW i \in Id, rows[i] # Nothing
        PROVE  rows'[i] # Nothing /\ rows'[i].email = rows[i].email
    <3>1. rows[i] \in Row /\ rows[id] \in Row
      BY <1>4, <2>1 DEF SetActive, IInv, TableTypes
    <3>2. CASE i = id
      <4>1. rows'[i] = [rows[i] EXCEPT !.active = active]
        BY <1>4, <3>2 DEF SetActive, IInv, TableTypes
      <4>2. rows'[i] \in Row /\ rows'[i].email = rows[i].email
        BY <3>1, <4>1 DEF Row
      <4>3. QED BY <4>2, ConstantFacts
    <3>3. CASE i # id
      BY <1>4, <2>1, <3>3 DEF SetActive, IInv, TableTypes
    <3>4. QED BY <3>2, <3>3
  <2>2. Addresses(rows) \subseteq Addresses(rows')
    BY <2>1 DEF Addresses
  <2>3. QED BY <1>2, <1>4, <2>2, AddedCarried DEF SetActive
<1>5. ASSUME Restart PROVE HandledInvariant'
  <2>1. ASSUME NEW r \in Request PROVE idx'[r] = 1 /\ items'[r] = <<>> /\ pc'[r] = "idle"
    BY <1>5 DEF Restart
  <2>2. QED BY <2>1 DEF HandledInvariant, Placed, Recorded
<1>6. CASE UNCHANGED vars
  BY <1>2, <1>6, UntouchedCarried DEF vars, history
<1>7. QED BY <1>1, <1>3, <1>4, <1>5, <1>6 DEF Next

\* What an import or a creation has dealt with is in the table, or was removed since.
THEOREM HandledItemsStay == Spec => []HandledItemsAreStored
<1>1. Init => IInv /\ IdInvariant /\ HandledInvariant
  <2> SUFFICES ASSUME Init PROVE IdInvariant /\ HandledInvariant
    BY InitIInv
  <2>1. QED BY DEF Init, IdInvariant, Ids, Known, Aimed, HandledInvariant, Placed, Recorded
<1>2. (IInv /\ IdInvariant /\ HandledInvariant) /\ [Next]_vars
        => (IInv /\ IdInvariant /\ HandledInvariant)'
  BY StepIInv, StepIdInvariant, StepRecorded
<1>3. IInv /\ HandledInvariant => HandledItemsAreStored
  <2> SUFFICES ASSUME IInv, HandledInvariant, NEW r \in Request, pc[r] # "idle", what[r] # "update"
      PROVE  /\ pc[r] = "stored" => idx[r] = Len(items[r]) + 1
             /\ \A k \in 1 .. idx[r] - 1 :
                  items[r][k].email \in Addresses(rows) \cup {NoEmail} \cup gone[r]
    BY DEF HandledItemsAreStored
  <2>1. items[r] \in Seq(Entry) /\ Len(items[r]) \in Nat /\ Placed(r) /\ Recorded(r)
    BY DEF IInv, GivenTypes, HandledInvariant
  <2>2. ASSUME NEW k \in 1 .. idx[r] - 1 PROVE k \in 1 .. Len(items[r]) /\ k < idx[r]
    BY <2>1 DEF Placed
  <2>3. QED BY <2>1, <2>2 DEF Placed, Recorded, Dealt, Kept
<1>4. QED BY <1>1, <1>2, <1>3, PTL DEF Spec
=============================================================================
