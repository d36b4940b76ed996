------------------------------ MODULE Accounts ------------------------------
(***************************************************************************)
(* Accounts and the audit trail: AuthService.register and login, the guard *)
(* get_current_user / require_role and the repositories they call.         *)
(*                                                                         *)
(* Every request has a session of its own and one action is one await.     *)
(* Nothing spans two commits: UserRepository.create, update_last_login and *)
(* AuditRepository.log each commit what they wrote.                        *)
(***************************************************************************)
EXTENDS Naturals, FiniteSets

CONSTANTS
  Request,     \* calls of the API, each made at most once
  Actor,       \* what can insert a row: a request or a start of the server
  Spelling,    \* e-mail addresses as clients write them
  Email,       \* addresses as stored
  Norm,        \* email.lower().strip()
  Name,        \* user names
  Call,        \* what clients ask for: [op, email, name, good]
  NoCall,      \* a request not made yet
  NoUser,      \* the answer None of a query
  AuthFaults   \* the failures of the database that may happen

Op == {"register", "login", "parse"}

ASSUME AccountsAssumption ==
  /\ Request \subseteq Actor
  /\ Norm \in [Spelling -> Email]
  /\ Call \subseteq [op : Op, email : Spelling, name : Name, good : BOOLEAN]
  /\ NoCall \notin Call
  /\ NoUser \notin Actor
  /\ AuthFaults \subseteq {"db", "ack"}

VARIABLES
  users,  \* rows of the table users; a row's id is the actor that inserted it
  audit,  \* rows of audit_logs; a request writes at most one
  call,   \* the arguments of each request
  pc,     \* where each request is
  found   \* the row its session has read, by id

table == <<users, audit>>
accountVars == <<users, audit, call, pc, found>>

Role == {"viewer", "admin"}
User == [id : Actor, email : Email, name : Name, role : Role,
         active : BOOLEAN, stamped : BOOLEAN]
Entry == [by : Request, user : Actor \cup {NoUser}, status : {"success", "failure"}]

\* Steps of a request, and the answers: 201/200, 409, 401, 403, 500, or none.
Waiting == {"email", "name", "insert", "fetch", "deny", "stamp", "audit", "lookup"}
Answered == {"ok", "conflict", "unauthorized", "forbidden", "error", "dead"}

EmailOf(r) == Norm[call[r].email]
ByEmail(e) == {u \in users : u.email = e}
ById(i) == {u \in users : u.id = i}
IdOf(S) == IF S = {} THEN NoUser ELSE (CHOOSE u \in S : TRUE).id

AccountsInit ==
  /\ users = {}
  /\ audit = {}
  /\ call = [r \in Request |-> NoCall]
  /\ pc = [r \in Request |-> "idle"]
  /\ found = [r \in Request |-> NoUser]

Goto(r, label) == pc' = [pc EXCEPT ![r] = label]

\* The column assignment of an ORM object: only the changed column is written.
Assign(i, f(_)) == users' = (users \ ById(i)) \cup {f(u) : u \in ById(i)}

-----------------------------------------------------------------------------
(* Inserts *)

\* Variant: the columns e-mail and user name are indexed, not unique.
ViolatesNothing(e, n) == FALSE

\* The unique constraints of the table users.
Violates(e, n) == \E u \in users : u.email = e \/ u.name = n

Insert(i, e, n, role) ==
  users' = users \cup {[id |-> i, email |-> e, name |-> n, role |-> role,
                        active |-> TRUE, stamped |-> FALSE]}

-----------------------------------------------------------------------------
(* register *)

FirstAwait == [register |-> "email", login |-> "fetch", parse |-> "lookup"]

\* A call reaches its handler, or for a guarded route the guard before it.
Begin(r) ==
  /\ pc[r] = "idle"
  /\ \E c \in Call :
       /\ call' = [call EXCEPT ![r] = c]
       /\ Goto(r, FirstAwait[c.op])
  /\ UNCHANGED <<table, found>>

CheckEmail(r) ==
  /\ pc[r] = "email"
  /\ Goto(r, IF ByEmail(EmailOf(r)) # {} THEN "conflict" ELSE "name")
  /\ UNCHANGED <<table, call, found>>

CheckName(r) ==
  /\ pc[r] = "name"
  /\ Goto(r, IF \E u \in users : u.name = call[r].name THEN "conflict" ELSE "insert")
  /\ UNCHANGED <<table, call, found>>

CreateUser(r) ==
  /\ pc[r] = "insert"
  /\ ~Violates(EmailOf(r), call[r].name)
  /\ Insert(r, EmailOf(r), call[r].name, "viewer")
  /\ found' = [found EXCEPT ![r] = r]
  /\ Goto(r, "audit")
  /\ UNCHANGED <<audit, call>>

\* The unique constraint decides against this request, or the commit fails, or
\* its answer is lost; none of the three is caught.
CreateUserFails(r) ==
  /\ pc[r] = "insert"
  /\ \/ /\ Violates(EmailOf(r), call[r].name) \/ "db" \in AuthFaults
        /\ UNCHANGED users
     \/ /\ "ack" \in AuthFaults
        /\ ~Violates(EmailOf(r), call[r].name)
        /\ Insert(r, EmailOf(r), call[r].name, "viewer")
  /\ Goto(r, "error")
  /\ UNCHANGED <<audit, call, found>>

-----------------------------------------------------------------------------
(* login *)

FetchUser(r) ==
  /\ pc[r] = "fetch"
  /\ LET rowsRead == ByEmail(EmailOf(r)) IN
     /\ found' = [found EXCEPT ![r] = IdOf(rowsRead)]
     /\ Goto(r, IF rowsRead = {} \/ ~call[r].good THEN "deny"
                ELSE IF \E u \in rowsRead : ~u.active THEN "unauthorized"
                ELSE "stamp")
  /\ UNCHANGED <<table, call>>

Record(r, status) ==
  audit' = audit \cup {[by |-> r, user |-> found[r], status |-> status]}

Deny(r) ==
  /\ pc[r] = "deny"
  /\ Record(r, "failure")
  /\ Goto(r, "unauthorized")
  /\ UNCHANGED <<users, call, found>>

\* Variant: the whole row is written back as FetchUser read it, that is, active.
StampLoginWholeRow(r) ==
  /\ pc[r] = "stamp"
  /\ Assign(found[r], LAMBDA u : [u EXCEPT !.stamped = TRUE, !.active = TRUE])
  /\ Goto(r, "audit")
  /\ UNCHANGED <<audit, call, found>>

StampLogin(r) ==
  /\ pc[r] = "stamp"
  /\ Assign(found[r], LAMBDA u : [u EXCEPT !.stamped = TRUE])
  /\ Goto(r, "audit")
  /\ UNCHANGED <<audit, call, found>>

StampLoginFails(r) ==
  /\ pc[r] = "stamp"
  /\ \/ "db" \in AuthFaults /\ UNCHANGED users
     \/ "ack" \in AuthFaults /\ Assign(found[r], LAMBDA u : [u EXCEPT !.stamped = TRUE])
  /\ Goto(r, "error")
  /\ UNCHANGED <<audit, call, found>>

-----------------------------------------------------------------------------
(* The audit entry of a success, the last step of register and of login *)

WriteAudit(r) ==
  /\ pc[r] = "audit"
  /\ Record(r, "success")
  /\ Goto(r, "ok")
  /\ UNCHANGED <<users, call, found>>

\* Variant: the failure is logged and swallowed, as the docstring has it.
AuditFailsSwallowed(r) ==
  /\ pc[r] \in {"deny", "audit"}
  /\ "db" \in AuthFaults
  /\ Goto(r, IF pc[r] = "deny" THEN "unauthorized" ELSE "ok")
  /\ UNCHANGED <<table, call, found>>

\* AuditRepository.log rolls back and raises again, although its docstring says
\* "Never raises"; the entry is there when only the answer to the commit was lost.
AuditFails(r) ==
  /\ pc[r] \in {"deny", "audit"}
  /\ \/ "db" \in AuthFaults /\ UNCHANGED audit
     \/ "ack" \in AuthFaults /\ Record(r, IF pc[r] = "deny" THEN "failure" ELSE "success")
  /\ Goto(r, "error")
  /\ UNCHANGED <<users, call, found>>

-----------------------------------------------------------------------------
(* A guarded route: get_current_user, then require_role *)

\* The tokens clients hold: both kinds, from logins answered with success.
Token == {[sub |-> found[s], type |-> t] :
            s \in {q \in Request : pc[q] = "ok" /\ call[q].op = "login"},
            t \in {"access", "refresh"}}

\* No token, or one of another type, is refused before the database is asked.
RefuseToken(r) ==
  /\ pc[r] = "lookup"
  /\ Goto(r, "unauthorized")
  /\ UNCHANGED <<table, call, found>>

CurrentUser(r) ==
  /\ pc[r] = "lookup"
  /\ \E k \in Token :
       /\ k.type = "access"
       /\ LET rowsRead == ById(k.sub) IN
          /\ found' = [found EXCEPT ![r] = IdOf(rowsRead)]
          /\ Goto(r, IF rowsRead = {} THEN "unauthorized"
                     ELSE IF \E u \in rowsRead : ~u.active THEN "forbidden"
                     ELSE IF \E u \in rowsRead : u.role = "admin" THEN "ok"
                     ELSE "forbidden")
  /\ UNCHANGED <<table, call>>

\* UserRepository.deactivate; no route calls it in this version.
Deactivate(i) ==
  /\ \E u \in ById(i) : u.active
  /\ Assign(i, LAMBDA u : [u EXCEPT !.active = FALSE])
  /\ UNCHANGED <<audit, call, pc, found>>

-----------------------------------------------------------------------------
\* A query fails: nothing catches it.
ReadFails(r) ==
  /\ pc[r] \in {"email", "name", "fetch", "lookup"}
  /\ "db" \in AuthFaults
  /\ Goto(r, "error")
  /\ UNCHANGED <<table, call, found>>

Serve(r) ==
  \/ CheckEmail(r) \/ CheckName(r) \/ CreateUser(r) \/ CreateUserFails(r)
  \/ FetchUser(r) \/ Deny(r) \/ StampLogin(r) \/ StampLoginFails(r)
  \/ WriteAudit(r) \/ AuditFails(r)
  \/ RefuseToken(r) \/ CurrentUser(r) \/ ReadFails(r)

-----------------------------------------------------------------------------
(* Properties *)

AccountsTypeOK ==
  /\ users \subseteq User
  /\ audit \subseteq Entry
  /\ call \in [Request -> Call \cup {NoCall}]
  /\ pc \in [Request -> {"idle"} \cup Waiting \cup Answered]
  /\ found \in [Request -> Actor \cup {NoUser}]

\* No two accounts share an address or a name, although register and the seeding
\* of the administrator look both up before, and apart from, their insert.
UniqueAccounts ==
  \A u, v \in users : (u.email = v.email \/ u.name = v.name) => u = v

\* The entry that a request wrote itself, of the account it has read.
HasEntry(r, status) == [by |-> r, user |-> found[r], status |-> status] \in audit

\* The right password of a deactivated account: login raises and writes no entry.
IsDeactivated(r) == call[r].good /\ \E u \in ById(found[r]) : ~u.active

\* A registration or a login answered with success has written its own entry of
\* success, and it names an account of the table.  A login that is refused has
\* written its own entry of the refusal, unless the account is deactivated and
\* the password right.  Whoever passes a guard is an account for which a login has
\* written its entry of success.  No entry of success names an account that is
\* not in the table.
AnswersAreAudited ==
  /\ \A r \in Request : pc[r] = "ok" /\ call[r].op # "parse" =>
       HasEntry(r, "success") /\ ById(found[r]) # {}
  /\ \A r \in Request : pc[r] = "unauthorized" /\ call[r].op = "login" =>
       HasEntry(r, "failure") \/ IsDeactivated(r)
  /\ \A r \in Request : pc[r] = "ok" /\ call[r].op = "parse" =>
       \E s \in Request :
         call[s].op = "login" /\ [by |-> s, user |-> found[r], status |-> "success"] \in audit
  /\ \A e \in audit : e.status = "success" => ById(e.user) # {}

\* What one session wrote of an account, another does not undo: the columns
\* role, is_active and last_login_at are each written from stale objects.
NoLostUpdate ==
  [][\A u \in users : \E v \in users' :
       /\ v.id = u.id /\ v.email = u.email /\ v.name = u.name
       /\ u.role = "admin" => v.role = "admin"
       /\ ~u.active => ~v.active
       /\ u.stamped => v.stamped]_users
=============================================================================
