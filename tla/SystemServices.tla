--------------------------- MODULE SystemServices ---------------------------
(***************************************************************************)
(* The backend's use of the system account over the life of a process: the *)
(* start seeds and connects, the monitor lives on that connection, and     *)
(* ends, with all it has collected, with the process.                      *)
(***************************************************************************)
EXTENDS Startup, Monitor

vars == <<admins, sysJWT, process, servers, accounts, now, statsz, conns, call, listening>>

TypeOK ==
    /\ BootTypeOK
    /\ MonitorTypeOK
    /\ listening => At("up") /\ process.connected

Init == BootInit /\ MonitorInit

\* A monitor without a connection does nothing.
Booting ==
    /\ Start \/ Boot
    /\ IF process'.pc = "up" /\ process'.connected THEN Listen ELSE UNCHANGED monitorVars

Up(Action) ==
    /\ At("up")
    /\ process.connected
    /\ Action
    /\ UNCHANGED bootVars

Ending == Crash /\ Forget

Next == Booting \/ Up(Monitoring) \/ Ending

Spec == Init /\ [][Next]_vars

\* The client library calls the callbacks, and timeouts pass.  The NATS
\* servers need not do anything, and nobody needs to start a backend.
Fairness ==
    /\ WF_vars(Up(OnStatsz))
    /\ WF_vars(Up(OnConns))
    /\ \A h \in Handlers : WF_vars(Up(TakeReply(h))) /\ WF_vars(Up(GiveUp(h)))

FairSpec == Spec /\ Fairness

-----------------------------------------------------------------------------
(***************************************************************************)
(* As long as the process lives, rows keep their place in the dashboard's  *)
(* list and only get newer, however often the servers report and in        *)
(* whatever order the callbacks run.                                       *)
(***************************************************************************)
RowsStay ==
    [][At("up") /\ process'.pc = "up" =>
           \A i \in DOMAIN servers :
               /\ i \in DOMAIN servers'
               /\ servers'[i].id = servers[i].id
               /\ servers'[i].at >= servers[i].at]_servers

(***************************************************************************)
(* However calls for an account overlap with each other and with its       *)
(* events, its entry goes back to less recent numbers in two cases only: a *)
(* late reply, which is still newer than what its own caller found, and an *)
(* event that a reply overtook.  Events never undo each other.             *)
(***************************************************************************)
OnlyRepliesReorder ==
    [][At("up") /\ process'.pc = "up" =>
           \A a \in Accounts : accounts'[a].conns < accounts[a].conns =>
               \/ accounts[a].traffic > 0
               \/ \E h \in Handlers :
                      /\ Busy(h, a) /\ ~Busy(h, a)'
                      /\ accounts'[a] = call'[h].answer
                      /\ accounts'[a].conns > call[h].floor.conns]_accounts

(***************************************************************************)
(* Every request for an account is answered, by the timeout at the latest, *)
(* or ends with the process.                                               *)
(***************************************************************************)
StatsReturn == \A h \in Handlers : call[h].pc # "idle" ~> call[h].pc = "idle"
=============================================================================
