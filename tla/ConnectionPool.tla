--------------------------- MODULE ConnectionPool ---------------------------
(***************************************************************************)
(* jetstream.Manager: one NATS connection per tenant, dialled on demand by *)
(* the request handlers under a lock, and taken out of the map by a        *)
(* callback of the connection, which runs in a goroutine of its own and    *)
(* knows the tenant, not the map entry.                                    *)
(***************************************************************************)
EXTENDS Naturals, FiniteSets

CONSTANTS None,
          Tenants,
          Handlers,  \* goroutines that call GetConn
          Conns,     \* connections; one that is gone may stand for a later one
          MaxDrops   \* bound on the disconnections of a tenant's connections

ASSUME PoolAssumption ==
    /\ None \notin Tenants \union Handlers \union Conns
    /\ MaxDrops \in Nat

VARIABLES pool,     \* Manager.conns
          conn,     \* the connections themselves, as the client library sees them
          lock,     \* the handler that holds Manager.mu for writing
          call,     \* the call of GetConn each handler is in
          serving,  \* Manager.Close has not been called yet
          drops     \* history: disconnections per tenant

vars == <<pool, conn, lock, call, serving, drops>>

\* A closed connection has its ClosedHandler still to run.
Conn == [state : {"free", "up", "reconnecting", "closed"}, tenant : Tenants \union {None}]

Call == [pc : {"idle", "read", "probe", "lock", "dial"},
         tenant : Tenants \union {None}, found : Conns \union {None}]

NoCall == [pc |-> "idle", tenant |-> None, found |-> None]

TypeOK ==
    /\ pool \in [Tenants -> Conns \union {None}]
    /\ conn \in [Conns -> Conn]
    /\ lock \in Handlers \union {None}
    /\ call \in [Handlers -> Call]
    /\ \A h \in Handlers : lock = h <=> call[h].pc = "dial"
    /\ serving \in BOOLEAN
    /\ drops \in [Tenants -> Nat]

Init ==
    /\ pool = [t \in Tenants |-> None]
    /\ conn = [c \in Conns |-> [state |-> "free", tenant |-> None]]
    /\ lock = None
    /\ call = [h \in Handlers |-> NoCall]
    /\ serving = TRUE
    /\ drops = [t \in Tenants |-> 0]

-----------------------------------------------------------------------------
\* GetConn.

IsConnected(c) == c # None /\ conn[c].state = "up"

At(h, pc) == call[h].pc = pc

Return(h) == call' = [call EXCEPT ![h] = NoCall]

\* A JetStream request has its credentials minted and calls the manager.
Enter(h) ==
    /\ At(h, "idle")
    /\ serving
    /\ \E t \in Tenants :
           call' = [call EXCEPT ![h] = [pc |-> "read", tenant |-> t, found |-> None]]
    /\ UNCHANGED <<pool, conn, lock, serving, drops>>

\* The map is read under RLock, which waits for a writer.
Read(h) ==
    /\ At(h, "read")
    /\ lock = None
    /\ call' = [call EXCEPT ![h].pc = "probe", ![h].found = pool[call[h].tenant]]
    /\ UNCHANGED <<pool, conn, lock, serving, drops>>

\* The connection is looked at after RUnlock.
Probe(h) ==
    /\ At(h, "probe")
    /\ IF IsConnected(call[h].found)
           THEN Return(h)
           ELSE call' = [call EXCEPT ![h].pc = "lock", ![h].found = None]
    /\ UNCHANGED <<pool, conn, lock, serving, drops>>

\* Faulty variant: the map is not looked at again once the lock is held.
Acquire_Unchecked(h) ==
    /\ At(h, "lock")
    /\ lock = None
    /\ lock' = h
    /\ call' = [call EXCEPT ![h].pc = "dial"]
    /\ UNCHANGED <<pool, conn, serving, drops>>

\* Lock, and the second look; a caller that waited finds what another one dialled.
Acquire(h) ==
    /\ At(h, "lock")
    /\ lock = None
    /\ IF IsConnected(pool[call[h].tenant])
           THEN Return(h) /\ UNCHANGED lock
           ELSE /\ lock' = h
                /\ call' = [call EXCEPT ![h].pc = "dial"]
    /\ UNCHANGED <<pool, conn, serving, drops>>

Unused(c) ==
    /\ conn[c].state = "free"
    /\ \A t \in Tenants : pool[t] # c
    /\ \A h \in Handlers : call[h].found # c

\* nats.Connect under the lock; whatever entry the tenant has is replaced.
Dial(h) ==
    /\ At(h, "dial")
    /\ \E c \in Conns :
           /\ Unused(c)
           /\ conn' = [conn EXCEPT ![c] = [state |-> "up", tenant |-> call[h].tenant]]
           /\ pool' = [pool EXCEPT ![call[h].tenant] = c]
    /\ lock' = None
    /\ Return(h)
    /\ UNCHANGED <<serving, drops>>

\* Faulty variant: an error return without the deferred Unlock.
DialFails_Locked(h) ==
    /\ At(h, "dial")
    /\ Return(h)
    /\ UNCHANGED <<pool, conn, lock, serving, drops>>

\* The server is not there or refuses, or the dial timeout passes.
DialFails(h) ==
    /\ At(h, "dial")
    /\ lock' = None
    /\ Return(h)
    /\ UNCHANGED <<pool, conn, serving, drops>>

-----------------------------------------------------------------------------
\* The client library, and the callback.

Disconnect(c) ==
    /\ conn[c].state = "up"
    /\ drops[conn[c].tenant] < MaxDrops
    /\ conn' = [conn EXCEPT ![c].state = "reconnecting"]
    /\ drops' = [drops EXCEPT ![conn[c].tenant] = @ + 1]
    /\ UNCHANGED <<pool, lock, call, serving>>

\* It reconnects, or has tried often enough and closes itself.
Reconnect(c) ==
    /\ conn[c].state = "reconnecting"
    /\ \E s \in {"up", "closed"} : conn' = [conn EXCEPT ![c].state = s]
    /\ UNCHANGED <<pool, lock, call, serving, drops>>

\* Faulty variant: the callback only tells onClose.
ClosedHandler_KeepsEntry(c) ==
    /\ conn[c].state = "closed"
    /\ lock = None
    /\ conn' = [conn EXCEPT ![c] = [state |-> "free", tenant |-> None]]
    /\ UNCHANGED <<pool, lock, call, serving, drops>>

\* The entry of the tenant goes, whichever connection it names by now.
ClosedHandler(c) ==
    /\ conn[c].state = "closed"
    /\ lock = None
    /\ pool' = [pool EXCEPT ![conn[c].tenant] = None]
    /\ conn' = [conn EXCEPT ![c] = [state |-> "free", tenant |-> None]]
    /\ UNCHANGED <<lock, call, serving, drops>>

Pooled(c) == \E t \in Tenants : pool[t] = c

\* Close, deferred in runServer: requests may still be running.
Close ==
    /\ serving
    /\ lock = None
    /\ serving' = FALSE
    /\ conn' = [c \in Conns |-> IF Pooled(c) /\ conn[c].state # "free"
                                    THEN [conn[c] EXCEPT !.state = "closed"] ELSE conn[c]]
    /\ pool' = [t \in Tenants |-> None]
    /\ UNCHANGED <<lock, call, drops>>

GetConn(h) ==
    \/ Read(h)
    \/ Probe(h)
    \/ Acquire(h)
    \/ Dial(h)
    \/ DialFails(h)

Next ==
    \/ \E h \in Handlers : Enter(h) \/ GetConn(h)
    \/ \E c \in Conns : Disconnect(c) \/ Reconnect(c) \/ ClosedHandler(c)
    \/ Close

Spec == Init /\ [][Next]_vars

\* A goroutine that wants Manager.mu gets it in the end (Go hands a contended
\* mutex to the longest waiter); a dial ends, by its timeout at the latest.
\* The server need not come back; a library that cannot reconnect gives up.
Fairness ==
    /\ \A h \in Handlers : SF_vars(GetConn(h))
    /\ \A c \in Conns : WF_vars(Reconnect(c)) /\ SF_vars(ClosedHandler(c))

FairSpec == Spec /\ Fairness

-----------------------------------------------------------------------------
Live(c) == conn[c].state \in {"up", "reconnecting"}

(***************************************************************************)
(* As long as a tenant lost no connection, its live connection is the one  *)
(* the map names: however many requests find the tenant missing at once,   *)
(* one dials and the others use its connection, and Close finds it.        *)
(***************************************************************************)
OnePerTenant ==
    serving => \A c \in Conns :
        Live(c) /\ drops[conn[c].tenant] = 0 => pool[conn[c].tenant] = c

(***************************************************************************)
(* A disconnection makes GetConn replace an entry whose connection may     *)
(* come back, and its late ClosedHandler may remove the entry of the       *)
(* replacement: either way a connection lives on outside the map, and      *)
(* never more of them than the tenant had disconnections.                  *)
(***************************************************************************)
LeaksBounded ==
    serving => \A t \in Tenants :
        Cardinality({c \in Conns : Live(c) /\ conn[c].tenant = t /\ pool[t] # c}) <= drops[t]

(***************************************************************************)
(* No entry names a connection of another tenant, nor one whose callback   *)
(* has run: a request never gets a connection with another tenant's        *)
(* credentials.                                                            *)
(***************************************************************************)
EntriesOwn == \A t \in Tenants : pool[t] # None => conn[pool[t]].tenant = t

(***************************************************************************)
(* Every GetConn returns: the lock that is held while dialling, which      *)
(* keeps the requests of all tenants waiting, is released however the dial *)
(* ends.                                                                   *)
(***************************************************************************)
CallsReturn == \A h \in Handlers : call[h].pc # "idle" ~> call[h].pc = "idle"

(***************************************************************************)
(* A connection that has closed itself leaves the map, though the callback *)
(* has to wait for the lock of whoever is dialling.                        *)
(***************************************************************************)
ClosedLeave == \A t \in Tenants, c \in Conns :
    pool[t] = c /\ conn[c].state = "closed" ~> pool[t] # c
=============================================================================
