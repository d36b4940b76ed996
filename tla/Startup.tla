------------------------------ MODULE Startup -------------------------------
(***************************************************************************)
(* Start-up and shutdown of the server around the requests of Accounts:    *)
(* the lifespan of app.py with the four clients it connects, the seeding   *)
(* of the administrator, the creation of the knowledge collection in       *)
(* Qdrant, and the death of a process at any await.                        *)
(*                                                                         *)
(* A member of Process is one start of the server: two of them at once are *)
(* two workers, one after the death of the other is a restart.             *)
(***************************************************************************)
EXTENDS Accounts, Sequences

CONSTANTS
  Process,
  At,             \* the process a request reaches: one server, or a balancer before many
  MaxAttempts,    \* stop_after_attempt of the four init functions: 10
  IndexedFields,  \* the payload fields to index, in order
  AdminEmail,     \* admin@sentinelx.ai
  AdminName,
  StartFaults     \* the failures of services and processes that may happen

Services == <<"postgres", "redis", "neo4j", "qdrant">>

ASSUME StartupAssumption ==
  /\ Actor = Request \cup Process
  /\ Request \cap Process = {}
  /\ At \in [Request -> Process]
  /\ MaxAttempts \in Nat \ {0}
  /\ IndexedFields \in Seq(STRING)
  /\ AdminEmail \in Email
  /\ AdminName \in Name
  /\ StartFaults \subseteq {"service", "qdrant", "qdrant_ack", "crash"}

VARIABLES
  stage,     \* where each process is in its lifespan
  step,      \* the service to connect, or the field to index
  attempts,  \* failed attempts at the current service
  warned,    \* the best-effort steps a process has logged a warning for
  exists,    \* the knowledge collection exists
  indexed    \* the payload fields with an index

startVars == <<stage, step, attempts, warned, exists, indexed>>
vars == <<accountVars, startVars>>

Starting == {"connect", "seed", "seed_insert", "seed_promote",
             "collections", "create", "index", "bm25"}

Init ==
  /\ AccountsInit
  /\ stage = [p \in Process |-> "down"]
  /\ step = [p \in Process |-> 1]
  /\ attempts = [p \in Process |-> 0]
  /\ warned = [p \in Process |-> {}]
  /\ exists = FALSE
  /\ indexed = {}

Advance(p, label) == stage' = [stage EXCEPT ![p] = label]
Warn(p, what) == warned' = [warned EXCEPT ![p] = @ \cup {what}]

-----------------------------------------------------------------------------
(* lifespan: init_db, init_redis, init_neo4j, init_qdrant *)

Boot(p) ==
  /\ stage[p] = "down"
  /\ Advance(p, "connect")
  /\ UNCHANGED <<accountVars, step, attempts, warned, exists, indexed>>

Connect(p) ==
  /\ stage[p] = "connect"
  /\ step' = [step EXCEPT ![p] = IF @ = Len(Services) THEN 1 ELSE @ + 1]
  /\ attempts' = [attempts EXCEPT ![p] = 0]
  /\ Advance(p, IF step[p] = Len(Services) THEN "seed" ELSE "connect")
  /\ UNCHANGED <<accountVars, warned, exists, indexed>>

\* Variant: retry without stop_after_attempt.
ConnectFailsForever(p) ==
  /\ stage[p] = "connect"
  /\ "service" \in StartFaults
  /\ attempts' = [attempts EXCEPT ![p] = @ + 1]
  /\ UNCHANGED <<accountVars, stage, step, warned, exists, indexed>>

\* reraise: the last failure leaves lifespan and ends the process.
ConnectFails(p) ==
  /\ stage[p] = "connect"
  /\ "service" \in StartFaults
  /\ attempts' = [attempts EXCEPT ![p] = @ + 1]
  /\ Advance(p, IF attempts[p] + 1 = MaxAttempts THEN "aborted" ELSE "connect")
  /\ UNCHANGED <<accountVars, step, warned, exists, indexed>>

-----------------------------------------------------------------------------
(* _seed_admin: every exception is swallowed with a warning *)

\* Variant: an account with the address is taken for the administrator's.
SeedReadAnyRole(p) ==
  /\ stage[p] = "seed"
  /\ Advance(p, IF ByEmail(AdminEmail) = {} THEN "seed_insert" ELSE "collections")
  /\ UNCHANGED <<accountVars, step, attempts, warned, exists, indexed>>

SeedRead(p) ==
  /\ stage[p] = "seed"
  /\ Advance(p, IF ByEmail(AdminEmail) = {} THEN "seed_insert"
                ELSE IF \E u \in ByEmail(AdminEmail) : u.role # "admin"
                  THEN "seed_promote" ELSE "collections")
  /\ UNCHANGED <<accountVars, step, attempts, warned, exists, indexed>>

Promote(S) == users' = (users \ S) \cup {[u EXCEPT !.role = "admin"] : u \in S}

SeedPromote(p) ==
  /\ stage[p] = "seed_promote"
  /\ Promote(ByEmail(AdminEmail))
  /\ Advance(p, "collections")
  /\ UNCHANGED <<audit, call, pc, found, step, attempts, warned, exists, indexed>>

SeedInsert(p) ==
  /\ stage[p] = "seed_insert"
  /\ ~Violates(AdminEmail, AdminName)
  /\ Insert(p, AdminEmail, AdminName, "admin")
  /\ Advance(p, "collections")
  /\ UNCHANGED <<audit, call, pc, found, step, attempts, warned, exists, indexed>>

SeedFails(p) ==
  /\ \/ /\ stage[p] \in {"seed", "seed_insert", "seed_promote"}
        /\ "db" \in AuthFaults
        /\ UNCHANGED users
     \/ /\ stage[p] = "seed_insert"
        /\ Violates(AdminEmail, AdminName)
        /\ UNCHANGED users
     \/ /\ stage[p] = "seed_insert"
        /\ "ack" \in AuthFaults
        /\ ~Violates(AdminEmail, AdminName)
        /\ Insert(p, AdminEmail, AdminName, "admin")
     \/ /\ stage[p] = "seed_promote"
        /\ "ack" \in AuthFaults
        /\ Promote(ByEmail(AdminEmail))
  /\ Warn(p, "seed")
  /\ Advance(p, "collections")
  /\ UNCHANGED <<audit, call, pc, found, step, attempts, exists, indexed>>

-----------------------------------------------------------------------------
(* _init_knowledge_layer: ensure_knowledge_collection, then the BM25 index *)

ListCollections(p) ==
  /\ stage[p] = "collections"
  /\ Advance(p, IF exists THEN "bm25" ELSE "create")
  /\ UNCHANGED <<accountVars, step, attempts, warned, exists, indexed>>

\* Variant: a collection just created is treated as one that was there.
CreateCollectionNoIndexes(p) ==
  /\ stage[p] = "create"
  /\ exists' = TRUE
  /\ Advance(p, "bm25")
  /\ UNCHANGED <<accountVars, step, attempts, warned, indexed>>

\* The answer "already exists" is a race that another process has won.
CreateCollection(p) ==
  /\ stage[p] = "create"
  /\ exists' = TRUE
  /\ Advance(p, IF exists \/ IndexedFields = <<>> THEN "bm25" ELSE "index")
  /\ UNCHANGED <<accountVars, step, attempts, warned, indexed>>

\* A RuntimeError, which _init_knowledge_layer logs; the collection is there
\* when only the answer was lost.
CollectionFails(p) ==
  /\ stage[p] \in {"collections", "create"}
  /\ \/ "qdrant" \in StartFaults /\ UNCHANGED exists
     \/ "qdrant_ack" \in StartFaults /\ stage[p] = "create" /\ ~exists /\ exists' = TRUE
  /\ Warn(p, "collection")
  /\ Advance(p, "bm25")
  /\ UNCHANGED <<accountVars, step, attempts, indexed>>

NextField(p) ==
  /\ step' = [step EXCEPT ![p] = @ + 1]
  /\ Advance(p, IF step[p] = Len(IndexedFields) THEN "bm25" ELSE "index")

CreatePayloadIndex(p) ==
  /\ stage[p] = "index"
  /\ indexed' = indexed \cup {IndexedFields[step[p]]}
  /\ NextField(p)
  /\ UNCHANGED <<accountVars, attempts, warned, exists>>

PayloadIndexFails(p) ==
  /\ stage[p] = "index"
  /\ "qdrant" \in StartFaults
  /\ Warn(p, "collection")
  /\ NextField(p)
  /\ UNCHANGED <<accountVars, attempts, exists, indexed>>

\* The build of the BM25 index (KnowledgeSearch) ends the start either way.
BuildIndex(p) ==
  /\ stage[p] = "bm25"
  /\ Advance(p, "serving")
  /\ UNCHANGED <<accountVars, step, attempts, warned, exists, indexed>>

-----------------------------------------------------------------------------
(* Requests, shutdown, crash *)

Accept(r) ==
  /\ stage[At[r]] = "serving"
  /\ Begin(r)
  /\ UNCHANGED startVars

\* uvicorn ends lifespan when the requests it has accepted are answered.
Shutdown(p) ==
  /\ stage[p] = "serving"
  /\ \A r \in Request : pc[r] \in Waiting => At[r] # p
  /\ Advance(p, "stopped")
  /\ UNCHANGED <<accountVars, step, attempts, warned, exists, indexed>>

Crash(p) ==
  /\ "crash" \in StartFaults
  /\ stage[p] \in Starting \cup {"serving"}
  /\ Advance(p, "dead")
  /\ pc' = [r \in Request |-> IF pc[r] \in Waiting /\ At[r] = p THEN "dead" ELSE pc[r]]
  /\ UNCHANGED <<users, audit, call, found, step, attempts, warned, exists, indexed>>

StartStep(p) ==
  \/ Connect(p) \/ ConnectFails(p)
  \/ SeedRead(p) \/ SeedPromote(p) \/ SeedInsert(p) \/ SeedFails(p)
  \/ ListCollections(p) \/ CreateCollection(p) \/ CollectionFails(p)
  \/ CreatePayloadIndex(p) \/ PayloadIndexFails(p) \/ BuildIndex(p)

Next ==
  \/ \E p \in Process : Boot(p) \/ StartStep(p) \/ Shutdown(p) \/ Crash(p)
  \/ \E r \in Request : Accept(r) \/ (Serve(r) /\ UNCHANGED startVars)
  \/ \E i \in Actor : Deactivate(i) /\ UNCHANGED startVars

Spec == Init /\ [][Next]_vars

-----------------------------------------------------------------------------
(* Properties *)

\* Every variable keeps its type; no start tries a service more than MaxAttempts
\* times.
TypeOK ==
  /\ AccountsTypeOK
  /\ stage \in [Process -> {"down", "serving", "stopped", "aborted", "dead"} \cup Starting]
  /\ step \in [Process -> Nat \ {0}]
  /\ attempts \in [Process -> 0..MaxAttempts]
  /\ warned \in [Process -> SUBSET {"seed", "collection"}]
  /\ exists \in BOOLEAN
  /\ indexed \subseteq {IndexedFields[k] : k \in DOMAIN IndexedFields}

\* A process past the seeding has found or made the administrator, or has logged
\* that it skipped it; no other account ever has the role.
AdminIsSeeded ==
  /\ \A p \in Process :
       /\ stage[p] \in {"collections", "create", "index", "bm25", "serving", "stopped"}
       /\ "seed" \notin warned[p]
       => \E u \in users : u.email = AdminEmail /\ u.role = "admin"
  /\ \A u \in users : u.role = "admin" => u.email = AdminEmail

\* The collection lacks a payload index only while its creator is at work, or
\* because a process logged a failure or died: starts that find the collection,
\* or lose the race to create it, never add an index.
MissingIndexHasCause ==
  exists /\ (\E k \in DOMAIN IndexedFields : IndexedFields[k] \notin indexed) =>
    \E p \in Process :
      stage[p] \in {"index", "dead"} \/ "collection" \in warned[p]
=============================================================================
