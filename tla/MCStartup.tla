----------------------------- MODULE MCStartup ------------------------------
(***************************************************************************)
(* A small instance of Startup: clients may register the administrator's   *)
(* address in another spelling, or its name with another address.          *)
(***************************************************************************)
EXTENDS Startup, TLC

CONSTANTS r1, r2, p1, p2

MCActor == {r1, r2, p1, p2}
MCSpelling == {"Admin", "admin", "b"}
MCNorm == "Admin" :> "admin" @@ "admin" :> "admin" @@ "b" :> "b"
Ask(op, e, n, g) == [op |-> op, email |-> e, name |-> n, good |-> g]
MCCall == {Ask("register", "Admin", "x", TRUE), Ask("register", "b", "root", TRUE),
           Ask("login", "admin", "x", TRUE), Ask("login", "admin", "x", FALSE),
           Ask("parse", "b", "x", TRUE)}
MCAt == [r \in {r1, r2} |-> p1]
MCFields == <<"doc_hash", "cve_id">>
Symmetry == Permutations(Request)
=============================================================================
