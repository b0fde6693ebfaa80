------------------------------- MODULE Startup -------------------------------
(***************************************************************************)
(* What runServer does before it reconciles: it seeds the first            *)
(* administrator, writes the JWT of the system account into the directory  *)
(* of the resolver if it shares it, connects as the system account and     *)
(* pushes that JWT.  Every failure is logged and passed over.  The process *)
(* dies anywhere and starts again, perhaps with another configuration.     *)
(***************************************************************************)
EXTENDS Naturals, FiniteSets

CONSTANTS Emails,  \* values of BOOTSTRAP_ADMIN_EMAIL
          Faults   \* what may go wrong: "db", "file", "nats", "crash"

ASSUME StartupAssumption == Faults \subseteq {"db", "file", "nats", "crash"}

VARIABLES admins,   \* the table admin_users, by the UNIQUE email
          sysJWT,   \* the entry of the system account in the resolver's directory
          process   \* the backend

bootVars == <<admins, sysJWT, process>>

\* "shared" is whether RESOLVER_DIR is set, to the resolver's directory, and
\* "failed" whether a call of this start failed (history).
Process == [pc : {"down", "count", "insert", "read", "write", "connect", "push", "up"},
            shared : BOOLEAN, connected : BOOLEAN, failed : BOOLEAN]

Down == [pc |-> "down", shared |-> FALSE, connected |-> FALSE, failed |-> FALSE]

BootTypeOK ==
    /\ admins \subseteq Emails
    /\ sysJWT \in {"none", "torn", "complete"}
    /\ process \in Process
    /\ process.pc = "push" => process.connected

\* A new deployment: operator.jwt and the tables are there, nothing else is.
BootInit ==
    /\ admins = {}
    /\ sysJWT = "none"
    /\ process = Down

At(pc) == process.pc = pc

Continue(pc) == process' = [process EXCEPT !.pc = pc]

Fail(fault, pc) ==
    /\ fault \in Faults
    /\ process' = [process EXCEPT !.pc = pc, !.failed = TRUE]

Start ==
    /\ At("down")
    /\ \E dir \in BOOLEAN : process' = [Down EXCEPT !.pc = "count", !.shared = dir]
    /\ UNCHANGED <<admins, sysJWT>>

-----------------------------------------------------------------------------
\* seedAdmin.

Seeded == IF process.shared THEN "read" ELSE "connect"

\* Faulty variant: count >= 0.
Unseeded_Never == FALSE

\* Faulty variant: the table is not looked at.
Unseeded_Always == TRUE

Unseeded == admins = {}

CountAdmins ==
    /\ At("count")
    /\ \/ Continue(IF Unseeded THEN "insert" ELSE Seeded)
       \/ Fail("db", Seeded)
    /\ UNCHANGED <<admins, sysJWT>>

\* The address this start was configured with; config.go has a default for it.
InsertAdmin ==
    /\ At("insert")
    /\ \E e \in Emails :
           \/ admins' = admins \union {e} /\ Continue(Seeded)
           \/ admins' \in {admins, admins \union {e}} /\ Fail("db", Seeded)
    /\ UNCHANGED sysJWT

-----------------------------------------------------------------------------
\* seedSystemAccountJWT: the file is truncated and then written.

\* Faulty variant: a file that is there is left alone.
Current_Exists == sysJWT # "none"

\* A complete file may be the very JWT that was signed just now.
Current == sysJWT = "complete"

ReadFile ==
    /\ At("read")
    /\ \/ Current /\ Continue("connect") /\ UNCHANGED sysJWT
       \/ sysJWT' = "torn" /\ Continue("write")
       \/ Fail("file", "connect") /\ UNCHANGED sysJWT
    /\ UNCHANGED admins

WriteFile ==
    /\ At("write")
    /\ \/ sysJWT' = "complete" /\ Continue("connect")
       \/ Fail("file", "connect") /\ UNCHANGED sysJWT
    /\ UNCHANGED admins

-----------------------------------------------------------------------------
\* connectSystemAccount and pushSystemAccountJWT.

\* Faulty variant: the error of the connection is not looked at.
Connect_Unchecked ==
    /\ At("connect")
    /\ process' = [process EXCEPT !.pc = "push", !.connected = sysJWT = "complete"]
    /\ UNCHANGED <<admins, sysJWT>>

\* The NATS server admits a user whose account it finds in its directory.
\* Of one that has none there yet only its own configuration may know.
Connect ==
    /\ At("connect")
    /\ \/ /\ sysJWT \in {"complete", "none"}
          /\ process' = [process EXCEPT !.pc = "push", !.connected = TRUE]
       \/ sysJWT # "complete" /\ Continue("up")
       \/ Fail("nats", "up")
    /\ UNCHANGED <<admins, sysJWT>>

Push ==
    /\ At("push")
    /\ \/ sysJWT' = "complete" /\ Continue("up")
       \/ sysJWT' \in {sysJWT, "complete"} /\ Fail("nats", "up")
    /\ UNCHANGED admins

\* A crash, or the end of a process that was told to stop.
Crash ==
    /\ ~At("down")
    /\ "crash" \in Faults \/ At("up")
    /\ process' = Down
    /\ UNCHANGED <<admins, sysJWT>>

Boot ==
    \/ CountAdmins
    \/ InsertAdmin
    \/ ReadFile
    \/ WriteFile
    \/ Connect
    \/ Push

-----------------------------------------------------------------------------
Ended == At("up") /\ ~process.failed

(***************************************************************************)
(* After a start none of whose calls failed somebody can log in, also when *)
(* an earlier start died between the two statements; and the bootstrap     *)
(* password opens one account: changing BOOTSTRAP_ADMIN_EMAIL of a         *)
(* deployment adds no further super administrator.                         *)
(***************************************************************************)
OneInitialAdmin ==
    /\ Ended => admins # {}
    /\ Cardinality(admins) <= 1

(***************************************************************************)
(* A start with RESOLVER_DIR none of whose calls failed has its system     *)
(* connection, and with it resolver and monitor, whatever an earlier one   *)
(* left half written, and the next one without it has, too; otherwise the  *)
(* backend stays degraded until it is restarted.                           *)
(***************************************************************************)
BootConnects ==
    /\ Ended /\ process.shared => process.connected
    /\ Ended /\ sysJWT = "complete" => process.connected
=============================================================================
