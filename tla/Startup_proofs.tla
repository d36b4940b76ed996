--------------------------- MODULE Startup_proofs ---------------------------
(***************************************************************************)
(* Theorems about Accounts and Startup, for every set of requests, starts, *)
(* calls, indexed fields and faults.                                       *)
(*                                                                         *)
(* The table users changes in two ways only: one row is inserted that      *)
(* violates no unique constraint, or rows are rewritten one for one by a   *)
(* function that keeps their identity and undoes nothing.  UsersChange     *)
(* states it, and every property about accounts follows from it.           *)
(***************************************************************************)
EXTENDS Startup, TLAPS

\* Nothing that a session wrote of u is undone in v.
Refines(u, v) ==
  /\ v.id = u.id /\ v.email = u.email /\ v.name = u.name
  /\ u.role = "admin" => v.role = "admin"
  /\ v.role = "admin" => u.role = "admin" \/ u.email = AdminEmail
  /\ ~u.active => ~v.active
  /\ u.stamped => v.stamped

Inserted ==
  \E u \in User :
    /\ ~Violates(u.email, u.name)
    /\ u.role = "admin" => u.email = AdminEmail
    /\ users' = users \cup {u}

Rewritten ==
  \E F \in [users -> User] :
    /\ users' = {F[u] : u \in users}
    /\ \A u \in users : Refines(u, F[u])

UsersChange == Inserted \/ Rewritten

-----------------------------------------------------------------------------
(* The two ways the table users changes *)

\* An unchanged table is rewritten by the identity.
LEMMA UnchangedRewritten ==
  ASSUME users \subseteq User, users' = users PROVE Rewritten
  <1> DEFINE F == [u \in users |-> u]
  <1>1. F \in [users -> User] /\ users' = {F[u] : u \in users}
    OBVIOUS
  <1>2. \A u \in users : Refines(u, F[u])
    BY DEF Refines
  <1>. QED  BY <1>1, <1>2 DEF Rewritten

\* The stamp of a login rewrites the rows of one account.
LEMMA StampRewrites ==
  ASSUME users \subseteq User, NEW i,
         Assign(i, LAMBDA u : [u EXCEPT !.stamped = TRUE])
  PROVE  Rewritten
  <1> DEFINE F == [u \in users |-> IF u.id = i THEN [u EXCEPT !.stamped = TRUE] ELSE u]
  <1>1. F \in [users -> User]
    BY DEF User
  <1>2. users' = {F[u] : u \in users}
    BY DEF Assign, ById
  <1>3. \A u \in users : Refines(u, F[u])
    BY DEF Refines, User
  <1>. QED  BY <1>1, <1>2, <1>3 DEF Rewritten

\* So does a deactivation.
LEMMA DeactivateRewrites ==
  ASSUME users \subseteq User, NEW i,
         Assign(i, LAMBDA u : [u EXCEPT !.active = FALSE])
  PROVE  Rewritten
  <1> DEFINE F == [u \in users |-> IF u.id = i THEN [u EXCEPT !.active = FALSE] ELSE u]
  <1>1. F \in [users -> User]
    BY DEF User
  <1>2. users' = {F[u] : u \in users}
    BY DEF Assign, ById
  <1>3. \A u \in users : Refines(u, F[u])
    BY DEF Refines, User
  <1>. QED  BY <1>1, <1>2, <1>3 DEF Rewritten

\* So does the promotion of the account with the administrator's address.
LEMMA PromoteRewrites ==
  ASSUME users \subseteq User, Promote(ByEmail(AdminEmail))
  PROVE  Rewritten
  <1> DEFINE F == [u \in users |-> IF u.email = AdminEmail THEN [u EXCEPT !.role = "admin"] ELSE u]
  <1>1. F \in [users -> User]
    BY DEF User, Role
  <1>2. users' = {F[u] : u \in users}
    BY DEF Promote, ByEmail
  <1>3. \A u \in users : Refines(u, F[u])
    BY DEF Refines, User
  <1>. QED  BY <1>1, <1>2, <1>3 DEF Rewritten

\* An insert that passes the unique constraints.
LEMMA InsertInserts ==
  ASSUME NEW i \in Actor, NEW e \in Email, NEW n \in Name, NEW role \in Role,
         ~Violates(e, n), Insert(i, e, n, role), role = "admin" => e = AdminEmail
  PROVE  Inserted
  <1> DEFINE row == [id |-> i, email |-> e, name |-> n, role |-> role,
                     active |-> TRUE, stamped |-> FALSE]
  <1>1. row \in User /\ users' = users \cup {row}
    BY DEF User, Insert
  <1>. QED  BY <1>1 DEF Inserted

\* What a request that has been made asks for is well typed.
LEMMA CallType ==
  ASSUME TypeOK, NEW r \in Request, call[r] # NoCall
  PROVE  EmailOf(r) \in Email /\ call[r].name \in Name /\ call[r].op \in Op
  BY AccountsAssumption DEF TypeOK, AccountsTypeOK, EmailOf

\* A request that was made has arguments.
CallMade == \A r \in Request : pc[r] # "idle" => call[r] # NoCall

\* A start that connects has an attempt left; one at a payload index is at one of
\* the fields; before, it counts from 1.
AtField ==
  \A p \in Process :
    /\ stage[p] \in {"down", "connect"} => attempts[p] < MaxAttempts
    /\ stage[p] = "index" => step[p] \in 1..Len(IndexedFields)
    /\ stage[p] \in {"seed", "seed_insert", "seed_promote", "collections", "create"} =>
         step[p] = 1

Shape == TypeOK /\ CallMade /\ AtField

\* Every step changes the table users in one of the two ways.
LEMMA UsersChangeStep == Shape /\ [Next]_vars => UsersChange
  <1> SUFFICES ASSUME Shape, [Next]_vars PROVE UsersChange
    OBVIOUS
  <1>0. users \subseteq User
    BY DEF Shape, TypeOK, AccountsTypeOK
  <1>1. CASE users' = users
    BY <1>0, <1>1, UnchangedRewritten DEF UsersChange
  <1>2. ASSUME NEW r \in Request, CreateUser(r) \/ CreateUserFails(r), users' # users
        PROVE  UsersChange
    <2>1. call[r] # NoCall
      BY <1>2 DEF Shape, CallMade, CreateUser, CreateUserFails
    <2>2. EmailOf(r) \in Email /\ call[r].name \in Name
      BY <2>1, CallType DEF Shape
    <2>3. ~Violates(EmailOf(r), call[r].name) /\ Insert(r, EmailOf(r), call[r].name, "viewer")
      BY <1>2 DEF CreateUser, CreateUserFails
    <2>. QED  BY <2>2, <2>3, InsertInserts, AccountsAssumption DEF UsersChange, Role
  <1>3. ASSUME NEW r \in Request, StampLogin(r) \/ StampLoginFails(r), users' # users
        PROVE  UsersChange
    <2>1. Assign(found[r], LAMBDA u : [u EXCEPT !.stamped = TRUE])
      BY <1>3 DEF StampLogin, StampLoginFails
    <2>. QED  BY <1>0, <2>1, StampRewrites DEF UsersChange
  <1>4. ASSUME NEW i \in Actor, Deactivate(i) PROVE UsersChange
    <2>1. Assign(i, LAMBDA u : [u EXCEPT !.active = FALSE])
      BY <1>4 DEF Deactivate
    <2>. QED  BY <1>0, <2>1, DeactivateRewrites DEF UsersChange
  <1>5. ASSUME NEW p \in Process, SeedPromote(p) \/ SeedInsert(p) \/ SeedFails(p), users' # users
        PROVE  UsersChange
    <2>1. \/ Promote(ByEmail(AdminEmail))
          \/ ~Violates(AdminEmail, AdminName) /\ Insert(p, AdminEmail, AdminName, "admin")
      BY <1>5 DEF SeedPromote, SeedInsert, SeedFails
    <2>. QED  BY <1>0, <2>1, PromoteRewrites, InsertInserts, StartupAssumption
              DEF UsersChange, Role
  <1>6. ASSUME NEW r \in Request, Serve(r), users' # users PROVE UsersChange
    <2>1. \/ CreateUser(r) \/ CreateUserFails(r) \/ StampLogin(r) \/ StampLoginFails(r)
      BY <1>6 DEF Serve, CheckEmail, CheckName, FetchUser, Deny, WriteAudit, AuditFails,
                  RefuseToken, CurrentUser, ReadFails, table
    <2>. QED  BY <2>1, <1>2, <1>3, <1>6
  <1>7. ASSUME NEW p \in Process, Boot(p) \/ StartStep(p) \/ Shutdown(p) \/ Crash(p), users' # users
        PROVE  UsersChange
    <2>1. SeedPromote(p) \/ SeedInsert(p) \/ SeedFails(p)
      BY <1>7 DEF Boot, StartStep, Shutdown, Crash, Connect, ConnectFails, SeedRead,
                  ListCollections, CreateCollection, CollectionFails, CreatePayloadIndex,
                  PayloadIndexFails, BuildIndex, accountVars
    <2>. QED  BY <2>1, <1>5, <1>7
  <1>8. ASSUME NEW r \in Request, Accept(r) PROVE users' = users
    BY <1>8 DEF Accept, Begin, table
  <1>9. CASE UNCHANGED vars
    BY <1>1, <1>9 DEF vars, accountVars
  <1>. QED  BY <1>1, <1>4, <1>6, <1>7, <1>8, <1>9 DEF Next

\* An inserted row is a row, and rewriting gives rows.
LEMMA UsersTypeStep == ASSUME users \subseteq User, UsersChange PROVE users' \subseteq User
  BY DEF UsersChange, Inserted, Rewritten

-----------------------------------------------------------------------------
(* Typing *)

\* The steps of a request keep the types of what they change.
LEMMA RequestShape ==
  ASSUME Shape, NEW r \in Request, Serve(r), UNCHANGED startVars, users' \subseteq User
  PROVE  Shape'
  <1> USE DEF Shape, TypeOK, AccountsTypeOK, CallMade, AtField, startVars, Waiting, Answered, Goto,
              table
  <1>1. found[r] \in Actor \cup {NoUser}
    OBVIOUS
  <1>2. CASE CheckEmail(r) \/ CheckName(r) \/ RefuseToken(r) \/ ReadFails(r)
    BY <1>2 DEF CheckEmail, CheckName, RefuseToken, ReadFails
  <1>3. CASE CreateUser(r) \/ CreateUserFails(r)
    BY <1>3, AccountsAssumption DEF CreateUser, CreateUserFails
  <1>4. CASE FetchUser(r)
    <2>1. IdOf(ByEmail(EmailOf(r))) \in Actor \cup {NoUser}
      BY DEF IdOf, ByEmail, User
    <2>. QED  BY <1>4, <2>1 DEF FetchUser
  <1>5. CASE Deny(r) \/ WriteAudit(r) \/ AuditFails(r)
    <2>1. PICK status \in {"success", "failure"} : UNCHANGED audit \/ Record(r, status)
      BY <1>5 DEF Deny, WriteAudit, AuditFails
    <2>2. audit' \subseteq Entry
      BY <1>1, <2>1 DEF Record, Entry
    <2>3. PICK label \in Answered : pc' = [pc EXCEPT ![r] = label] /\ pc[r] # "idle"
      BY <1>5 DEF Deny, WriteAudit, AuditFails
    <2>4. UNCHANGED <<users, call, found>>
      BY <1>5 DEF Deny, WriteAudit, AuditFails
    <2>. QED  BY <2>2, <2>3, <2>4
  <1>6. CASE StampLogin(r) \/ StampLoginFails(r)
    BY <1>6 DEF StampLogin, StampLoginFails
  <1>7. CASE CurrentUser(r)
    <2>1. \A k \in Token : IdOf(ById(k.sub)) \in Actor \cup {NoUser}
      BY DEF IdOf, ById, User
    <2>. QED  BY <1>7, <2>1 DEF CurrentUser
  <1>. QED  BY <1>2, <1>3, <1>4, <1>5, <1>6, <1>7 DEF Serve

\* So do the steps of a start.
LEMMA StartShape ==
  ASSUME Shape, NEW p \in Process, Boot(p) \/ StartStep(p) \/ Shutdown(p) \/ Crash(p),
         users' \subseteq User
  PROVE  Shape'
  <1> USE DEF Shape, TypeOK, CallMade, AtField, Advance, Warn, Starting
  <1>0. Len(Services) = 4 /\ Len(IndexedFields) \in Nat /\ DOMAIN IndexedFields = 1..Len(IndexedFields)
    BY StartupAssumption DEF Services
  <1>1. CASE Boot(p) \/ Shutdown(p) \/ SeedRead(p) \/ ListCollections(p) \/ BuildIndex(p)
    BY <1>1 DEF Boot, Shutdown, SeedRead, ListCollections, BuildIndex, accountVars, AccountsTypeOK
  <1>2. CASE Connect(p)
    BY <1>0, <1>2, StartupAssumption DEF Connect, accountVars, AccountsTypeOK
  <1>3. CASE ConnectFails(p)
    <2>1. attempts[p] \in Nat /\ attempts[p] + 1 \in 0..MaxAttempts
      BY <1>3, StartupAssumption DEF ConnectFails
    <2>2. attempts[p] + 1 # MaxAttempts => attempts[p] + 1 < MaxAttempts
      BY <2>1, StartupAssumption
    <2>. QED  BY <1>3, <2>1, <2>2 DEF ConnectFails, accountVars, AccountsTypeOK
  <1>4. CASE SeedPromote(p) \/ SeedInsert(p)
    BY <1>4 DEF SeedPromote, SeedInsert, AccountsTypeOK
  <1>5. CASE SeedFails(p)
    BY <1>5 DEF SeedFails, AccountsTypeOK
  <1>6. CASE CreateCollection(p)
    <2>1. IndexedFields # <<>> => 1 \in 1..Len(IndexedFields)
      BY <1>0, StartupAssumption
    <2>. QED  BY <1>6, <2>1 DEF CreateCollection, accountVars, AccountsTypeOK
  <1>7. CASE CollectionFails(p)
    BY <1>7 DEF CollectionFails, accountVars, AccountsTypeOK
  <1>8. CASE CreatePayloadIndex(p) \/ PayloadIndexFails(p)
    <2>1. stage[p] = "index" /\ NextField(p) /\ UNCHANGED <<accountVars, attempts, exists>>
      BY <1>8 DEF CreatePayloadIndex, PayloadIndexFails
    <2>2. step[p] \in 1..Len(IndexedFields)
      BY <2>1
    <2>3. step[p] # Len(IndexedFields) => step[p] + 1 \in 1..Len(IndexedFields)
      BY <1>0, <2>2
    <2>a. step[p] \in DOMAIN IndexedFields
      BY <1>0, <2>2
    <2>b. IndexedFields[step[p]] \in {IndexedFields[k] : k \in DOMAIN IndexedFields}
      BY <2>a
    <2>c. indexed' \subseteq indexed \cup {IndexedFields[step[p]]}
      BY <1>8 DEF CreatePayloadIndex, PayloadIndexFails
    <2>4. indexed' \subseteq {IndexedFields[k] : k \in DOMAIN IndexedFields}
      BY <2>b, <2>c
    <2>d. warned' \in [Process -> SUBSET {"seed", "collection"}]
      BY <1>8 DEF CreatePayloadIndex, PayloadIndexFails
    <2>e. step[p] + 1 \in Nat \ {0}
      BY <1>0, <2>2
    <2>5. AtField'
      BY <2>1, <2>3 DEF NextField
    <2>6. TypeOK' /\ CallMade'
      BY <2>1, <2>4, <2>d, <2>e DEF NextField, accountVars, AccountsTypeOK
    <2>. QED  BY <2>5, <2>6
  <1>9. CASE Crash(p)
    BY <1>9 DEF Crash, AccountsTypeOK, Waiting, Answered
  <1>. QED  BY <1>1, <1>2, <1>3, <1>4, <1>5, <1>6, <1>7, <1>8, <1>9 DEF StartStep

\* Typing, with what it needs of calls and counters, is inductive.
LEMMA ShapeStep == Shape /\ [Next]_vars => Shape'
  <1> SUFFICES ASSUME Shape, [Next]_vars PROVE Shape'
    OBVIOUS
  <1>1. users' \subseteq User
    BY UsersChangeStep, UsersTypeStep DEF Shape, TypeOK, AccountsTypeOK
  <1>2. ASSUME NEW r \in Request, Accept(r) PROVE Shape'
    <2>1. \A c \in Call : FirstAwait[c.op] \in Waiting
      BY AccountsAssumption DEF FirstAwait, Op, Waiting
    <2>2. PICK c \in Call : call' = [call EXCEPT ![r] = c] /\ pc' = [pc EXCEPT ![r] = FirstAwait[c.op]]
      BY <1>2 DEF Accept, Begin, Goto
    <2>. QED  BY <1>2, <2>1, <2>2, AccountsAssumption
              DEF Accept, Begin, Goto, Shape, TypeOK, AccountsTypeOK, CallMade, AtField, startVars, table
  <1>3. ASSUME NEW i \in Actor, Deactivate(i), UNCHANGED startVars PROVE Shape'
    BY <1>1, <1>3 DEF Deactivate, Shape, TypeOK, AccountsTypeOK, CallMade, AtField, startVars
  <1>4. CASE UNCHANGED vars
    BY <1>4 DEF vars, accountVars, startVars, Shape, TypeOK, AccountsTypeOK, CallMade, AtField
  <1>. QED  BY <1>1, <1>2, <1>3, <1>4, RequestShape, StartShape DEF Next

LEMMA ShapeInit == Init => Shape
  <1> SUFFICES ASSUME Init PROVE Shape
    OBVIOUS
  <1>1. 0 \in 0..MaxAttempts /\ 0 < MaxAttempts
    BY StartupAssumption
  <1>2. AccountsTypeOK
    BY DEF Init, AccountsInit, AccountsTypeOK
  <1>3. TypeOK
    <2>1. stage \in [Process -> {"down"}] /\ warned \in [Process -> {{}}] /\ exists \in BOOLEAN
      BY DEF Init
    <2>2. step \in [Process -> Nat \ {0}] /\ attempts \in [Process -> 0..MaxAttempts]
      BY <1>1 DEF Init
    <2>3. indexed \subseteq {IndexedFields[k] : k \in DOMAIN IndexedFields}
      BY DEF Init
    <2>. QED  BY <1>2, <2>1, <2>2, <2>3 DEF TypeOK
  <1>. QED  BY <1>1, <1>3 DEF Init, AccountsInit, Shape, CallMade, AtField

LEMMA ShapeHolds == Spec => []Shape
  BY ShapeInit, ShapeStep, PTL DEF Spec

\* Every variable of accounts and start-up keeps its type.
THEOREM TypeCorrect == Spec => []TypeOK
  BY ShapeHolds, PTL DEF Shape

-----------------------------------------------------------------------------
(* Accounts *)

\* No two accounts share an address or a name.
THEOREM AccountsUnique == Spec => []UniqueAccounts
  <1>1. Init => UniqueAccounts
    BY DEF Init, AccountsInit, UniqueAccounts
  <1>2. Shape /\ UniqueAccounts /\ [Next]_vars => UniqueAccounts'
    <2> SUFFICES ASSUME UniqueAccounts, UsersChange PROVE UniqueAccounts'
      BY UsersChangeStep
    <2>1. CASE Inserted
      BY <2>1 DEF Inserted, Violates, UniqueAccounts
    <2>2. CASE Rewritten
      <3>1. PICK F \in [users -> User] :
              users' = {F[u] : u \in users} /\ \A u \in users : Refines(u, F[u])
        BY <2>2 DEF Rewritten
      <3>2. SUFFICES ASSUME NEW v \in users', NEW w \in users', v.email = w.email \/ v.name = w.name
                     PROVE  v = w
        BY DEF UniqueAccounts
      <3>3. PICK x \in users, y \in users : v = F[x] /\ w = F[y]
        BY <3>1
      <3>4. x.email = y.email \/ x.name = y.name
        BY <3>1, <3>2, <3>3 DEF Refines
      <3>. QED  BY <3>3, <3>4 DEF UniqueAccounts
    <2>. QED  BY <2>1, <2>2 DEF UsersChange
  <1>. QED  BY <1>1, <1>2, ShapeHolds, PTL DEF Spec

\* A step keeps every account, and nothing written of it is undone.
LEMMA AccountsKept ==
  ASSUME UsersChange
  PROVE  \A u \in users : \E v \in users' : Refines(u, v)
  <1>1. CASE Inserted
    BY <1>1 DEF Inserted, Refines
  <1>2. CASE Rewritten
    BY <1>2 DEF Rewritten
  <1>. QED  BY <1>1, <1>2 DEF UsersChange

\* What one session wrote of an account, another does not undo.
THEOREM UpdatesKept == Spec => NoLostUpdate
  <1>1. Shape /\ [Next]_vars =>
          [\A u \in users : \E v \in users' :
             /\ v.id = u.id /\ v.email = u.email /\ v.name = u.name
             /\ u.role = "admin" => v.role = "admin"
             /\ ~u.active => ~v.active
             /\ u.stamped => v.stamped]_users
    BY UsersChangeStep, AccountsKept DEF Refines
  <1>. QED  BY <1>1, ShapeHolds, PTL DEF Spec, NoLostUpdate

\* A promotion has an account to promote.
PromoteReady ==
  \A p \in Process : stage[p] = "seed_promote" => \E u \in users : u.email = AdminEmail

\* Every start past the seeding found or made the administrator, or said that it
\* did not; nobody else has the role.
THEOREM AdminSeeded == Spec => []AdminIsSeeded
  <1> DEFINE Inv == AdminIsSeeded /\ PromoteReady
  <1>1. Init => Inv
    BY DEF Init, AccountsInit, AdminIsSeeded, PromoteReady
  <1>2. Shape /\ Inv /\ [Next]_vars => Inv'
    <2> SUFFICES ASSUME Shape, Inv, [Next]_vars PROVE Inv'
      OBVIOUS
    <2> DEFINE HasEmail == \E u \in users : u.email = AdminEmail
               HasAdmin == \E u \in users : u.email = AdminEmail /\ u.role = "admin"
               Past(p) == /\ stage[p] \in {"collections", "create", "index", "bm25",
                                           "serving", "stopped"}
                          /\ "seed" \notin warned[p]
    <2>1. UsersChange
      BY UsersChangeStep
    <2>2. (HasAdmin => HasAdmin') /\ (HasEmail => HasEmail')
      BY <2>1, AccountsKept DEF Refines
    <2>3. \A v \in users' : v.role = "admin" => v.email = AdminEmail
      <3>1. CASE Inserted
        BY <3>1 DEF Inserted, AdminIsSeeded
      <3>2. CASE Rewritten
        BY <3>2 DEF Rewritten, Refines, AdminIsSeeded
      <3>. QED  BY <2>1, <3>1, <3>2 DEF UsersChange
    <2>4. ASSUME NEW p \in Process
          PROVE  /\ Past(p)' => Past(p) \/ HasAdmin'
                 /\ stage'[p] = "seed_promote" => stage[p] = "seed_promote" \/ HasEmail
      <3> USE DEF Shape, TypeOK, AccountsTypeOK, Advance, Warn
      <3>1. CASE UNCHANGED <<stage, warned>>
        BY <3>1
      <3>2. ASSUME NEW q \in Process, SeedRead(q)
            PROVE  /\ Past(p)' => Past(p) \/ HasAdmin
                   /\ stage'[p] = "seed_promote" => stage[p] = "seed_promote" \/ HasEmail
        <4>1. /\ stage'[q] = "collections" => HasAdmin
              /\ stage'[q] = "seed_promote" => HasEmail
          BY <3>2 DEF SeedRead, ByEmail
        <4>2. \A x \in Process \ {q} : stage'[x] = stage[x]
          BY <3>2 DEF SeedRead
        <4>3. stage'[q] \in {"collections", "seed_promote", "seed_insert"} /\ warned' = warned
          BY <3>2 DEF SeedRead
        <4>. QED  BY <4>1, <4>2, <4>3
      <3>3. ASSUME NEW q \in Process, SeedPromote(q)
            PROVE  HasAdmin' /\ (stage'[p] = "seed_promote" => stage[p] = "seed_promote")
        <4>1. PICK u \in users : u.email = AdminEmail
          BY <3>3 DEF SeedPromote, PromoteReady
        <4>2. [u EXCEPT !.role = "admin"] \in users'
          BY <3>3, <4>1 DEF SeedPromote, Promote, ByEmail
        <4>3. HasAdmin'
          BY <4>1, <4>2 DEF User
        <4>. QED  BY <3>3, <4>3 DEF SeedPromote
      <3>4. ASSUME NEW q \in Process, SeedInsert(q)
            PROVE  HasAdmin' /\ (stage'[p] = "seed_promote" => stage[p] = "seed_promote")
        <4> DEFINE row == [id |-> q, email |-> AdminEmail, name |-> AdminName, role |-> "admin",
                           active |-> TRUE, stamped |-> FALSE]
        <4>1. row \in users' /\ row.email = AdminEmail /\ row.role = "admin"
          BY <3>4 DEF SeedInsert, Insert
        <4>2. HasAdmin'
          BY <4>1
        <4>. QED  BY <3>4, <4>2 DEF SeedInsert
      <3>5. ASSUME NEW q \in Process, SeedFails(q)
            PROVE  /\ Past(p)' => Past(p)
                   /\ stage'[p] = "seed_promote" => stage[p] = "seed_promote"
        BY <3>5 DEF SeedFails
      <3>6. ASSUME NEW q \in Process, Boot(q) \/ Connect(q) \/ ConnectFails(q) \/ Shutdown(q) \/ Crash(q)
            PROVE  /\ Past(p)' => Past(p)
                   /\ stage'[p] = "seed_promote" => stage[p] = "seed_promote"
        BY <3>6 DEF Boot, Connect, ConnectFails, Shutdown, Crash
      <3>7. ASSUME NEW q \in Process,
                   ListCollections(q) \/ CreateCollection(q) \/ CollectionFails(q)
            PROVE  /\ Past(p)' => Past(p)
                   /\ stage'[p] = "seed_promote" => stage[p] = "seed_promote"
        BY <3>7 DEF ListCollections, CreateCollection, CollectionFails
      <3>8. ASSUME NEW q \in Process,
                   CreatePayloadIndex(q) \/ PayloadIndexFails(q) \/ BuildIndex(q)
            PROVE  /\ Past(p)' => Past(p)
                   /\ stage'[p] = "seed_promote" => stage[p] = "seed_promote"
        BY <3>8 DEF CreatePayloadIndex, PayloadIndexFails, NextField, BuildIndex
      <3>. QED  BY <2>2, <3>1, <3>2, <3>3, <3>4, <3>5, <3>6, <3>7, <3>8
                DEF Next, StartStep, Accept, startVars, vars
    <2>5. AdminIsSeeded'
      BY <2>2, <2>3, <2>4 DEF AdminIsSeeded
    <2>6. PromoteReady'
      BY <2>2, <2>4 DEF PromoteReady
    <2>. QED  BY <2>5, <2>6
  <1>3. Inv => AdminIsSeeded
    OBVIOUS
  <1>. QED  BY <1>1, <1>2, <1>3, ShapeHolds, PTL DEF Spec

-----------------------------------------------------------------------------
(* The audit trail *)

\* While a login goes on it has read an account that is in the table; whoever
\* passed has.
FoundIsStored ==
  \A r \in Request : pc[r] \in {"stamp", "audit"} => ById(found[r]) # {}

\* Who has written an entry has been called.
WriterIsCalled == \A e \in audit : pc[e.by] # "idle"

\* Each step belongs to one kind of call.
StepFitsCall ==
  \A r \in Request :
    /\ pc[r] = "lookup" => call[r].op = "parse"
    /\ pc[r] \in {"email", "name", "insert"} => call[r].op = "register"
    /\ pc[r] \in {"fetch", "deny", "stamp"} => call[r].op = "login"
    /\ pc[r] = "audit" => call[r].op # "parse"

LEMMA StepFitsCallHolds == Spec => []StepFitsCall
  <1>1. Init => StepFitsCall
    BY DEF Init, AccountsInit, StepFitsCall
  <1>2. Shape /\ StepFitsCall /\ [Next]_vars => StepFitsCall'
    <2> SUFFICES ASSUME Shape, StepFitsCall, [Next]_vars PROVE StepFitsCall'
      OBVIOUS
    <2> USE DEF Shape, TypeOK, AccountsTypeOK, StepFitsCall
    <2>1. ASSUME NEW r \in Request, Accept(r) PROVE StepFitsCall'
      <3>1. PICK c \in Call : /\ call' = [call EXCEPT ![r] = c]
                             /\ pc' = [pc EXCEPT ![r] = FirstAwait[c.op]]
        BY <2>1 DEF Accept, Begin, Goto
      <3>2. c.op \in Op
        BY AccountsAssumption
      <3>. QED  BY <3>1, <3>2 DEF FirstAwait, Op
    <2>2. ASSUME NEW r \in Request, Serve(r) PROVE StepFitsCall'
      BY <2>2 DEF Serve, CheckEmail, CheckName, CreateUser, CreateUserFails, FetchUser,
                  Deny, StampLogin, StampLoginFails, WriteAudit, AuditFails, RefuseToken,
                  CurrentUser, ReadFails, Goto
    <2>3. ASSUME NEW p \in Process, Crash(p) PROVE StepFitsCall'
      BY <2>3 DEF Crash
    <2>4. ASSUME NEW p \in Process, Boot(p) \/ StartStep(p) \/ Shutdown(p) PROVE UNCHANGED <<pc, call>>
      BY <2>4 DEF Boot, StartStep, Shutdown, Connect, ConnectFails, SeedRead, SeedPromote,
                  SeedInsert, SeedFails, ListCollections, CreateCollection, CollectionFails,
                  CreatePayloadIndex, PayloadIndexFails, BuildIndex, accountVars
    <2>. QED  BY <2>1, <2>2, <2>3, <2>4 DEF Next, Deactivate, vars, accountVars
  <1>. QED  BY <1>1, <1>2, ShapeHolds, PTL DEF Spec

\* An account keeps its row, and a deactivated one stays so.
LEMMA IdsKept == ASSUME UsersChange, NEW i PROVE ById(i) # {} => ById(i)' # {}
  BY AccountsKept DEF Refines, ById

LEMMA InactiveKept ==
  ASSUME UsersChange, NEW i, \E u \in ById(i) : ~u.active
  PROVE  \E u \in ById(i)' : ~u.active
  <1>1. PICK u \in users : u.id = i /\ ~u.active
    BY DEF ById
  <1>2. PICK v \in users' : Refines(u, v)
    BY AccountsKept
  <1>. QED  BY <1>1, <1>2 DEF Refines, ById

\* A query that finds the rows of an id returns that id.
LEMMA IdOfRows == ASSUME NEW S, S # {}, S \subseteq users PROVE ById(IdOf(S)) # {}
  BY DEF IdOf, ById

LEMMA IdOfById == ASSUME NEW i, ById(i) # {} PROVE IdOf(ById(i)) = i
  BY DEF IdOf, ById

\* With unique addresses a query by address finds at most one row.
LEMMA IdOfByEmail ==
  ASSUME UniqueAccounts, NEW e, NEW u \in ByEmail(e)
  PROVE  IdOf(ByEmail(e)) = u.id
  <1>1. \A v \in ByEmail(e) : v = u
    BY DEF UniqueAccounts, ByEmail
  <1>. QED  BY <1>1 DEF IdOf

\* A registration or a login answered with success has its own entry, and so has a
\* login that is refused, unless the account is deactivated; behind a guard there is
\* a login's entry of success.
THEOREM AnswersAudited == Spec => []AnswersAreAudited
  <1> DEFINE Inv == AnswersAreAudited /\ FoundIsStored /\ WriterIsCalled
  <1>1. Init => Inv
    BY DEF Init, AccountsInit, AnswersAreAudited, FoundIsStored, WriterIsCalled
  <1>2. Shape /\ StepFitsCall /\ UniqueAccounts /\ Inv /\ [Next]_vars => Inv'
    <2> SUFFICES ASSUME Shape, StepFitsCall, UniqueAccounts, Inv, [Next]_vars PROVE Inv'
      OBVIOUS
    <2>0. users \subseteq User /\ audit \subseteq audit'
      BY DEF Shape, TypeOK, AccountsTypeOK, Next, Boot, StartStep, Shutdown, Crash, Connect,
             ConnectFails, SeedRead, SeedPromote, SeedInsert, SeedFails, ListCollections,
             CreateCollection, CollectionFails, CreatePayloadIndex, PayloadIndexFails, BuildIndex,
             Accept, Begin, Serve, CheckEmail, CheckName, CreateUser, CreateUserFails, FetchUser,
             Deny, StampLogin, StampLoginFails, WriteAudit, AuditFails, RefuseToken, CurrentUser,
             ReadFails, Record, Deactivate, vars, accountVars, table
    <2>1. /\ \A i : ById(i) # {} => ById(i)' # {}
          /\ \A i : (\E u \in ById(i) : ~u.active) => \E u \in ById(i)' : ~u.active
      BY UsersChangeStep, IdsKept, InactiveKept
    <2> DEFINE
          Stored(e) == e.status = "success" => ById(e.user) # {}
          Ready(q) == pc[q] \in {"stamp", "audit"} => ById(found[q]) # {}
          Granted(q) == pc[q] = "ok" /\ call[q].op # "parse" =>
                          HasEntry(q, "success") /\ ById(found[q]) # {}
          Denied(q) == pc[q] = "unauthorized" /\ call[q].op = "login" =>
                         HasEntry(q, "failure") \/ IsDeactivated(q)
          Names(s, i) == call[s].op = "login" /\ [by |-> s, user |-> i, status |-> "success"] \in audit
          Guarded(q) == pc[q] = "ok" /\ call[q].op = "parse" =>
                          \E s \in Request : Names(s, found[q])
    <2>2. ASSUME NEW q \in Request, found'[q] = found[q], call'[q] = call[q],
                 pc'[q] \in {pc[q], "dead"}
          PROVE  Ready(q)' /\ Granted(q)' /\ Denied(q)'
      <3>1. Ready(q)'
        BY <2>1, <2>2 DEF FoundIsStored
      <3>2. Granted(q)'
        BY <2>0, <2>1, <2>2 DEF AnswersAreAudited, HasEntry
      <3>3. HasEntry(q, "failure") => HasEntry(q, "failure")'
        BY <2>0, <2>2 DEF HasEntry
      <3>4. IsDeactivated(q) => IsDeactivated(q)'
        BY <2>1, <2>2 DEF IsDeactivated
      <3>5. Denied(q)'
        BY <2>2, <3>3, <3>4 DEF AnswersAreAudited
      <3>. QED  BY <3>1, <3>2, <3>5
    <2>3. ASSUME audit' = audit PROVE \A e \in audit' : Stored(e)'
      BY <2>1, <2>3 DEF AnswersAreAudited
    <2>4. ASSUME NEW s \in Request, NEW i, Names(s, i), pc[s] # "idle" => call'[s] = call[s]
          PROVE  Names(s, i)'
      BY <2>0, <2>4 DEF WriterIsCalled
    <2>5. ASSUME \A s \in Request : pc[s] # "idle" => call'[s] = call[s],
                 NEW q \in Request, found'[q] = found[q], call'[q] = call[q],
                 pc'[q] \in {pc[q], "dead"}
          PROVE  Guarded(q)'
      <3> SUFFICES ASSUME pc'[q] = "ok", call'[q].op = "parse"
                   PROVE  \E s \in Request : Names(s, found[q])'
        BY <2>5
      <3>1. PICK s \in Request : Names(s, found[q])
        BY <2>5 DEF AnswersAreAudited
      <3>2. Names(s, found[q])'
        BY <2>4, <2>5, <3>1
      <3>. QED  BY <3>2
    <2>6. ASSUME \A q \in Request : Ready(q)' /\ Granted(q)' /\ Denied(q)' /\ Guarded(q)',
                 \A e \in audit' : Stored(e)', WriterIsCalled'
          PROVE  Inv'
      BY <2>6 DEF AnswersAreAudited, FoundIsStored
    <2>7. ASSUME NEW r \in Request, Serve(r) PROVE Inv'
      <3> USE DEF Shape, TypeOK, AccountsTypeOK, Goto, table
      <3>1. \A q \in Request \ {r} : found'[q] = found[q] /\ pc'[q] = pc[q]
        BY <2>7 DEF Serve, CheckEmail, CheckName, CreateUser, CreateUserFails, FetchUser,
                    Deny, StampLogin, StampLoginFails, WriteAudit, AuditFails, RefuseToken,
                    CurrentUser, ReadFails
      <3>2. call' = call /\ pc[r] # "idle" /\ pc'[r] # "idle"
        BY <2>7 DEF Serve, CheckEmail, CheckName, CreateUser, CreateUserFails, FetchUser,
                    Deny, StampLogin, StampLoginFails, WriteAudit, AuditFails, RefuseToken,
                    CurrentUser, ReadFails
      <3>3. WriterIsCalled'
        <4>1. \A e \in audit' : e \in audit \/ e.by = r
          BY <2>7 DEF Serve, CheckEmail, CheckName, CreateUser, CreateUserFails, FetchUser,
                    Deny, StampLogin, StampLoginFails, WriteAudit, AuditFails, RefuseToken,
                    CurrentUser, ReadFails, Record
        <4>2. \A e \in audit : e.by \in Request
          BY DEF Entry
        <4>. QED  BY <3>1, <3>2, <4>1, <4>2 DEF WriterIsCalled
      <3>4. \A q \in Request \ {r} : Ready(q)' /\ Granted(q)' /\ Denied(q)' /\ Guarded(q)'
        BY <2>2, <2>5, <3>1, <3>2
      <3>5. ASSUME Ready(r)', Granted(r)', Denied(r)', Guarded(r)', \A e \in audit' : Stored(e)'
            PROVE  Inv'
        BY <2>6, <3>3, <3>4, <3>5
      <3> HIDE DEF Ready, Granted, Denied, Guarded, Stored
      <3>6. CASE CheckEmail(r) \/ CheckName(r) \/ CreateUserFails(r) \/ RefuseToken(r) \/ ReadFails(r)
                 \/ StampLoginFails(r)
        <4>1. audit' = audit /\ pc'[r] \notin {"stamp", "audit", "ok"}
          BY <3>6 DEF CheckEmail, CheckName, CreateUserFails, RefuseToken, ReadFails, StampLoginFails
        <4>2. pc'[r] = "unauthorized" => call'[r].op = "parse"
          BY <3>6 DEF CheckEmail, CheckName, CreateUserFails, RefuseToken, ReadFails,
                      StampLoginFails, StepFitsCall
        <4>. QED  BY <2>3, <3>5, <4>1, <4>2 DEF Ready, Granted, Denied, Guarded
      <3>7. CASE CreateUser(r)
        <4>1. audit' = audit /\ pc'[r] = "audit" /\ found'[r] = r
          BY <3>7, AccountsAssumption DEF CreateUser
        <4>2. ById(r)' # {}
          <5> DEFINE row == [id |-> r, email |-> EmailOf(r), name |-> call[r].name,
                             role |-> "viewer", active |-> TRUE, stamped |-> FALSE]
          <5>1. row \in users' /\ row.id = r
            BY <3>7 DEF CreateUser, Insert
          <5>. QED  BY <5>1 DEF ById
        <4>. QED  BY <2>3, <3>5, <4>1, <4>2 DEF Ready, Granted, Denied, Guarded
      <3>8. CASE FetchUser(r)
        <4> DEFINE rows == ByEmail(EmailOf(r))
        <4>1. /\ audit' = audit /\ users' = users /\ pc'[r] \in {"deny", "unauthorized", "stamp"}
              /\ found'[r] = IdOf(rows)
              /\ pc'[r] = "stamp" => rows # {}
              /\ pc'[r] = "unauthorized" => call[r].good /\ \E u \in rows : ~u.active
          BY <3>8 DEF FetchUser
        <4>2. rows \subseteq users
          BY DEF ByEmail
        <4>3. Ready(r)'
          <5>1. pc'[r] = "stamp" => ById(found'[r]) # {}
            BY <4>1, <4>2, IdOfRows
          <5>. QED  BY <4>1, <5>1 DEF ById, Ready
        <4>4. ASSUME pc'[r] = "unauthorized" PROVE IsDeactivated(r)'
          <5>1. PICK u \in rows : ~u.active
            BY <4>1, <4>4
          <5>2. u.id = found'[r]
            BY <4>1, IdOfByEmail
          <5>3. u \in ById(found[r])' /\ call'[r].good
            BY <3>2, <4>1, <4>2, <4>4, <5>2 DEF ById
          <5>. QED  BY <5>1, <5>3 DEF IsDeactivated
        <4>. QED  BY <2>3, <3>5, <4>1, <4>3, <4>4 DEF Granted, Denied, Guarded
      <3>9. CASE StampLogin(r)
        <4>1. /\ audit' = audit /\ pc[r] = "stamp" /\ pc'[r] = "audit" /\ found'[r] = found[r]
          BY <3>9 DEF StampLogin
        <4>2. Ready(r)'
          BY <2>1, <4>1 DEF FoundIsStored, Ready
        <4>. QED  BY <2>3, <3>5, <4>1, <4>2 DEF Granted, Denied, Guarded
      <3>10. CASE Deny(r) \/ AuditFails(r)
        <4>1. /\ pc[r] \in {"deny", "audit"} /\ pc'[r] \in {"unauthorized", "error"}
              /\ found'[r] = found[r]
              /\ \/ audit' = audit
                 \/ pc[r] = "deny" /\ Record(r, "failure")
                 \/ pc[r] = "audit" /\ Record(r, "success")
          BY <3>10 DEF Deny, AuditFails
        <4>2. pc[r] = "audit" => ById(found[r]) # {}
          BY DEF FoundIsStored
        <4>3. \A e \in audit' : e \in audit \/ (e.status = "success" => e.user = found[r] /\ pc[r] = "audit")
          BY <4>1 DEF Record
        <4>4. \A e \in audit' : Stored(e)'
          BY <2>1, <4>2, <4>3 DEF AnswersAreAudited, Stored
        <4>5. pc'[r] = "unauthorized" => HasEntry(r, "failure")'
          BY <3>10, <4>1 DEF Deny, AuditFails, Record, HasEntry
        <4>. QED  BY <3>5, <4>1, <4>4, <4>5 DEF Ready, Granted, Denied, Guarded
      <3>11. CASE WriteAudit(r)
        <4> DEFINE entry == [by |-> r, user |-> found[r], status |-> "success"]
        <4>1. /\ pc[r] = "audit" /\ pc'[r] = "ok" /\ audit' = audit \cup {entry}
              /\ found'[r] = found[r] /\ users' = users
          BY <3>11 DEF WriteAudit, Record
        <4>2. ById(found[r]) # {}
          BY <4>1 DEF FoundIsStored
        <4>3. \A e \in audit' : Stored(e)'
          BY <2>1, <4>1, <4>2 DEF AnswersAreAudited, Stored
        <4>4. HasEntry(r, "success")' /\ (ById(found[r]) # {})'
          BY <4>1, <4>2 DEF HasEntry, ById
        <4>5. call'[r].op # "parse"
          BY <3>2, <4>1 DEF StepFitsCall
        <4>. QED  BY <3>5, <4>1, <4>3, <4>4, <4>5 DEF Ready, Granted, Denied, Guarded
      <3>12. CASE CurrentUser(r)
        <4>1. PICK k \in Token :
                /\ found'[r] = IdOf(ById(k.sub))
                /\ pc'[r] = "ok" => ById(k.sub) # {}
                /\ pc[r] = "lookup" /\ pc'[r] \in {"unauthorized", "forbidden", "ok"}
          BY <3>12 DEF CurrentUser
        <4>2. audit' = audit
          BY <3>12 DEF CurrentUser
        <4>3. PICK s \in Request : pc[s] = "ok" /\ call[s].op = "login" /\ k.sub = found[s]
          BY <4>1 DEF Token
        <4>4. ASSUME pc'[r] = "ok"
              PROVE  call'[s].op = "login"
                     /\ [by |-> s, user |-> found'[r], status |-> "success"] \in audit'
          <5>1. found'[r] = found[s]
            BY <4>1, <4>3, <4>4, IdOfById
          <5>2. [by |-> s, user |-> found[s], status |-> "success"] \in audit
            BY <4>3 DEF AnswersAreAudited, HasEntry
          <5>. QED  BY <3>2, <4>2, <4>3, <5>1, <5>2
        <4>5. call'[r].op = "parse"
          BY <3>2, <4>1 DEF StepFitsCall
        <4>6. Guarded(r)'
          BY <4>4 DEF Guarded
        <4>. QED  BY <2>3, <3>5, <4>1, <4>2, <4>5, <4>6 DEF Ready, Granted, Denied
      <3>. QED  BY <2>7, <3>6, <3>7, <3>8, <3>9, <3>10, <3>11, <3>12 DEF Serve
    <2>8. ASSUME NEW r \in Request, Accept(r) PROVE Inv'
      <3> USE DEF Shape, TypeOK, AccountsTypeOK, Goto, table
      <3>1. /\ \A q \in Request \ {r} : found'[q] = found[q] /\ call'[q] = call[q] /\ pc'[q] = pc[q]
            /\ pc[r] = "idle" /\ audit' = audit
        BY <2>8 DEF Accept, Begin
      <3>2. pc'[r] \in {"email", "fetch", "lookup"}
        BY <2>8, AccountsAssumption DEF Accept, Begin, FirstAwait, Op
      <3>3. WriterIsCalled'
        BY <3>1, <3>2 DEF WriterIsCalled, Entry
      <3>. QED  BY <2>2, <2>3, <2>5, <2>6, <3>1, <3>2, <3>3
    <2>9. ASSUME \A q \in Request : pc'[q] \in {pc[q], "dead"}, UNCHANGED <<audit, call, found>>
          PROVE  Inv'
      <3>1. WriterIsCalled'
        BY <2>9 DEF WriterIsCalled, Shape, TypeOK, AccountsTypeOK, Entry
      <3>. QED  BY <2>2, <2>3, <2>5, <2>6, <2>9, <3>1
    <2>10. ASSUME NEW p \in Process, Boot(p) \/ StartStep(p) \/ Shutdown(p) PROVE Inv'
      <3>1. UNCHANGED <<audit, call, pc, found>>
        BY <2>10 DEF Boot, StartStep, Shutdown, Connect, ConnectFails, SeedRead, SeedPromote,
                    SeedInsert, SeedFails, ListCollections, CreateCollection, CollectionFails,
                    CreatePayloadIndex, PayloadIndexFails, BuildIndex, accountVars
      <3>. QED  BY <2>9, <3>1
    <2>11. ASSUME NEW p \in Process, Crash(p) PROVE Inv'
      <3>1. \A q \in Request : pc'[q] \in {pc[q], "dead"}
        BY <2>11 DEF Crash, Shape, TypeOK, AccountsTypeOK
      <3>2. UNCHANGED <<audit, call, found>>
        BY <2>11 DEF Crash
      <3>. QED  BY <2>9, <3>1, <3>2
    <2>12. CASE UNCHANGED <<audit, call, pc, found>>
      BY <2>9, <2>12
    <2>. QED  BY <2>7, <2>8, <2>10, <2>11, <2>12 DEF Next, Deactivate, vars, accountVars
  <1>3. Inv => AnswersAreAudited
    OBVIOUS
  <1>. QED  BY <1>1, <1>2, <1>3, ShapeHolds, StepFitsCallHolds, AccountsUnique, PTL DEF Spec

-----------------------------------------------------------------------------
(* The payload indexes *)

Flawed(p) == stage[p] = "dead" \/ "collection" \in warned[p]

\* A start at an index has created all those before it, or logged the failure.
IndexedSoFar ==
  \A p \in Process : stage[p] = "index" =>
    /\ exists
    /\ \A k \in 1..(step[p] - 1) : IndexedFields[k] \in indexed \/ Flawed(p)

\* A payload index is missing only while the creator of the collection works, or
\* because a process logged a failure or died.
THEOREM MissingIndexCaused == Spec => []MissingIndexHasCause
  <1> DEFINE Inv == MissingIndexHasCause /\ IndexedSoFar
             Missing == \E k \in DOMAIN IndexedFields : IndexedFields[k] \notin indexed
             Cause(p) == stage[p] = "index" \/ Flawed(p)
  <1>1. Init => Inv
    BY DEF Init, MissingIndexHasCause, IndexedSoFar
  <1>2. Shape /\ Inv /\ [Next]_vars => Inv'
    <2> SUFFICES ASSUME Shape, Inv, [Next]_vars PROVE Inv'
      OBVIOUS
    <2> USE DEF Shape, TypeOK, AccountsTypeOK, Advance, Warn
    <2>0. Len(IndexedFields) \in Nat /\ DOMAIN IndexedFields = 1..Len(IndexedFields)
      BY StartupAssumption
    <2>1. ASSUME exists' = exists, indexed' = indexed,
                 \A p \in Process : /\ Cause(p) => Cause(p)'
                                    /\ Flawed(p) => Flawed(p)'
                                    /\ stage'[p] = "index" => stage[p] = "index" /\ step'[p] = step[p]
          PROVE  Inv'
      <3>1. MissingIndexHasCause'
        BY <2>1 DEF MissingIndexHasCause, Flawed
      <3>2. IndexedSoFar'
        BY <2>1 DEF IndexedSoFar
      <3>. QED  BY <3>1, <3>2
    <2>2. CASE UNCHANGED startVars
      BY <2>1, <2>2 DEF startVars, Flawed
    <2>3. ASSUME NEW q \in Process, Boot(q) \/ Connect(q) \/ ConnectFails(q) \/ Shutdown(q) PROVE Inv'
      BY <2>1, <2>3 DEF Boot, Connect, ConnectFails, Shutdown, Flawed
    <2>4. ASSUME NEW q \in Process, SeedRead(q) \/ SeedPromote(q) \/ SeedInsert(q) \/ SeedFails(q) PROVE Inv'
      BY <2>1, <2>4 DEF SeedRead, SeedPromote, SeedInsert, SeedFails, Flawed
    <2>5. ASSUME NEW q \in Process, ListCollections(q) \/ BuildIndex(q) PROVE Inv'
      BY <2>1, <2>5 DEF ListCollections, BuildIndex, Flawed
    <2>6. ASSUME NEW q \in Process, Crash(q) PROVE Inv'
      <3>1. \A p \in Process : /\ Cause(p) => Cause(p)'
                               /\ Flawed(p) => Flawed(p)'
                               /\ stage'[p] = "index" => stage[p] = "index" /\ step'[p] = step[p]
        BY <2>6 DEF Crash, Flawed
      <3>. QED  BY <2>1, <2>6, <3>1 DEF Crash
    <2>7. ASSUME NEW q \in Process, CreateCollection(q) PROVE Inv'
      <3>1. step[q] = 1 /\ step' = step /\ exists' /\ indexed' = indexed /\ warned' = warned
        BY <2>7 DEF CreateCollection, AtField
      <3>2. stage'[q] = IF exists \/ IndexedFields = <<>> THEN "bm25" ELSE "index"
        BY <2>7 DEF CreateCollection
      <3>3. \A p \in Process \ {q} : stage'[p] = stage[p]
        BY <2>7 DEF CreateCollection
      <3>4. \A p \in Process : Cause(p) => Cause(p)'
        BY <2>7, <3>1, <3>3 DEF CreateCollection, Flawed
      <3>5. IndexedFields = <<>> => ~Missing'
        BY <2>0, <3>1
      <3>6. MissingIndexHasCause'
        BY <3>1, <3>2, <3>4, <3>5 DEF MissingIndexHasCause, Flawed
      <3>7. IndexedSoFar'
        <4>1. 1..(step'[q] - 1) = {}
          BY <3>1
        <4>2. ASSUME NEW p \in Process \ {q}, stage'[p] = "index"
              PROVE  \A k \in 1..(step'[p] - 1) : IndexedFields[k] \in indexed' \/ Flawed(p)'
          BY <3>1, <3>3, <4>2 DEF IndexedSoFar, Flawed
        <4>. QED  BY <3>1, <4>1, <4>2 DEF IndexedSoFar
      <3>. QED  BY <3>6, <3>7
    <2>8. ASSUME NEW q \in Process, CollectionFails(q) PROVE Inv'
      <3>1. Flawed(q)' /\ UNCHANGED <<step, indexed>> /\ (exists => exists')
        BY <2>8 DEF CollectionFails, Flawed
      <3>2. \A p \in Process \ {q} : stage'[p] = stage[p] /\ warned'[p] = warned[p]
        BY <2>8 DEF CollectionFails
      <3>3. stage'[q] = "bm25"
        BY <2>8 DEF CollectionFails
      <3>4. MissingIndexHasCause'
        BY <3>1 DEF MissingIndexHasCause, Flawed
      <3>5. IndexedSoFar'
        <4>1. ASSUME NEW p \in Process, stage'[p] = "index"
              PROVE  /\ exists'
                     /\ \A k \in 1..(step'[p] - 1) : IndexedFields[k] \in indexed' \/ Flawed(p)'
          <5>1. p \in Process \ {q} /\ stage[p] = "index"
            BY <3>2, <3>3, <4>1
          <5>2. step'[p] = step[p] /\ indexed' = indexed /\ (Flawed(p) => Flawed(p)')
            BY <3>1, <3>2, <5>1 DEF Flawed
          <5>. QED  BY <3>1, <5>1, <5>2 DEF IndexedSoFar
        <4>. QED  BY <4>1 DEF IndexedSoFar
      <3>. QED  BY <3>4, <3>5
    <2>9. ASSUME NEW q \in Process, CreatePayloadIndex(q) \/ PayloadIndexFails(q) PROVE Inv'
      <3>1. /\ stage[q] = "index" /\ NextField(q) /\ exists' = exists /\ exists
            /\ step[q] \in 1..Len(IndexedFields)
        BY <2>9 DEF CreatePayloadIndex, PayloadIndexFails, AtField, IndexedSoFar
      <3>2. \/ "collection" \in warned'[q]
            \/ IndexedFields[step[q]] \in indexed' /\ warned' = warned
        BY <2>9 DEF CreatePayloadIndex, PayloadIndexFails
      <3>3. indexed \subseteq indexed' /\ \A p \in Process : warned[p] \subseteq warned'[p]
        BY <2>9 DEF CreatePayloadIndex, PayloadIndexFails
      <3>4. /\ \A p \in Process \ {q} : stage'[p] = stage[p] /\ step'[p] = step[p]
            /\ step'[q] = step[q] + 1
            /\ stage'[q] = IF step[q] = Len(IndexedFields) THEN "bm25" ELSE "index"
        BY <3>1 DEF NextField
      <3>5. \A k \in 1..step[q] : IndexedFields[k] \in indexed' \/ "collection" \in warned'[q]
        <4>1. \A k \in 1..step[q] : k = step[q] \/ k \in 1..(step[q] - 1)
          BY <2>0, <3>1
        <4>. QED  BY <3>1, <3>2, <3>3, <4>1 DEF IndexedSoFar, Flawed
      <3>6. IndexedSoFar'
        <4>1. step[q] + 1 - 1 = step[q]
          BY <2>0, <3>1
        <4>2. ASSUME NEW p \in Process \ {q}, stage'[p] = "index"
              PROVE  \A k \in 1..(step'[p] - 1) : IndexedFields[k] \in indexed' \/ Flawed(p)'
          BY <3>3, <3>4, <4>2 DEF IndexedSoFar, Flawed
        <4>3. \A k \in 1..(step'[q] - 1) : IndexedFields[k] \in indexed' \/ Flawed(q)'
          BY <3>4, <3>5, <4>1 DEF Flawed
        <4>. QED  BY <3>1, <4>2, <4>3 DEF IndexedSoFar
      <3>7. MissingIndexHasCause'
        <4>1. CASE stage'[q] = "index"
          BY <4>1 DEF MissingIndexHasCause
        <4>2. CASE step[q] = Len(IndexedFields)
          BY <2>0, <3>5, <4>2 DEF MissingIndexHasCause
        <4>. QED  BY <3>4, <4>1, <4>2
      <3>. QED  BY <3>6, <3>7
    <2>. QED  BY <2>2, <2>3, <2>4, <2>5, <2>6, <2>7, <2>8, <2>9
              DEF Next, StartStep, Accept, vars
  <1>3. Inv => MissingIndexHasCause
    OBVIOUS
  <1>. QED  BY <1>1, <1>2, <1>3, ShapeHolds, PTL DEF Spec
=============================================================================
