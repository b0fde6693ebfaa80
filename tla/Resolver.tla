------------------------------ MODULE Resolver ------------------------------
(***************************************************************************)
(* The client side of the NATS account resolver (tenant/resolver.go) and   *)
(* the resolver itself as the backend uses it.                             *)
(*                                                                         *)
(* Every Push and Delete is a request over the one system-account          *)
(* connection of the process, so the requests of a process reach the       *)
(* server in the order they were sent: wire is that connection.  A caller  *)
(* blocks for the reply for at most five seconds; a caller that gave up,   *)
(* or died, leaves its request on the wire, and the server still carries   *)
(* it out.  A process that is started again dials a connection of its own, *)
(* and nothing orders what it sends after what its predecessors left: old  *)
(* is what they left, to be read at any time.                              *)
(***************************************************************************)
EXTENDS AccountClaims, Sequences, FiniteSets

CONSTANTS Tenants,   \* tenants, each with the account generated for it
          Handlers,  \* goroutines that serve HTTP requests
          Main,      \* the goroutine that runs runServer
          Faults,    \* what may go wrong in the environment
          WireCap,   \* bound on the requests outstanding on the connection
          OldCap     \* bound on the requests of dead processes still unread

Procs == Handlers \union {Main}

FaultKinds == {"timeout", "reject", "full", "db", "crash", "cold", "wipe", "degraded"}

ASSUME ResolverAssumption ==
    /\ Main \notin Handlers
    /\ None \notin Procs /\ None \notin Tenants
    /\ Faults \subseteq FaultKinds
    /\ WireCap \in Nat \ {0} /\ OldCap \in Nat

VARIABLES store,   \* the resolver's entry for each account
          wire,    \* requests on the system connection, oldest first
          inbox,   \* the reply each process waits for
          old,     \* requests dead processes left on connections of their own
          late     \* history: tenants whose entry is the work of one of those

netVars == <<store, wire, inbox, old, late>>

Request == [kind : {"UPDATE", "DELETE"}, tenant : Tenants,
            jwt : Claims \union {None}, from : Procs \union {None}]

Replies == {"none", "waiting", "ok", "error"}

NetTypeOK ==
    /\ store \in [Tenants -> Claims \union {None}]
    /\ wire \in Seq(Request)
    /\ inbox \in [Procs -> Replies]
    /\ old \subseteq Request
    /\ late \subseteq Tenants

NetInit ==
    /\ store = [t \in Tenants |-> None]
    /\ wire = <<>>
    /\ inbox = [p \in Procs |-> "none"]
    /\ old = {}
    /\ late = {}

-----------------------------------------------------------------------------
\* A request is published and its sender starts to wait.  WireCap bounds the
\* requests outstanding; with the fault "full" it is the room of the client's
\* buffer while it reconnects, and a call that finds no room fails at once.
Send(p, kind, t, jwt) ==
    /\ \/ /\ Len(wire) < WireCap
          /\ wire' = Append(wire, [kind |-> kind, tenant |-> t, jwt |-> jwt, from |-> p])
          /\ inbox' = [inbox EXCEPT ![p] = "waiting"]
       \/ /\ "full" \in Faults
          /\ Len(wire) = WireCap
          /\ inbox' = [inbox EXCEPT ![p] = "error"]
          /\ UNCHANGED wire
    /\ UNCHANGED <<store, old, late>>

Push(p, t, jwt) == Send(p, "UPDATE", t, jwt)

Delete(p, t) == Send(p, "DELETE", t, None)

\* Requests whose sender has stopped listening.
Disowned(w, gone) ==
    [i \in DOMAIN w |-> IF w[i].from \in gone THEN [w[i] EXCEPT !.from = None] ELSE w[i]]

\* The call returned nil: the server answered without an error.
Accepted(p) ==
    /\ inbox[p] = "ok"
    /\ inbox' = [inbox EXCEPT ![p] = "none"]
    /\ UNCHANGED <<store, wire, old, late>>

\* Faulty variant: the request has no timeout.
Refused_NoTimeout(p) ==
    /\ inbox[p] = "error"
    /\ inbox' = [inbox EXCEPT ![p] = "none"]
    /\ UNCHANGED <<store, wire, old, late>>

\* The call returned an error: the server said so, or the five seconds ran
\* out, perhaps with the request carried out and its reply on the way.
Refused(p) ==
    /\ \/ inbox[p] = "error" /\ UNCHANGED wire
       \/ /\ "timeout" \in Faults
          /\ inbox[p] \in {"waiting", "ok"}
          /\ wire' = Disowned(wire, {p})
    /\ inbox' = [inbox EXCEPT ![p] = "none"]
    /\ UNCHANGED <<store, old, late>>

-----------------------------------------------------------------------------
\* The entry a request leaves in the resolver: UPDATE overwrites, DELETE removes.
Effect(m) == IF m.kind = "UPDATE" THEN m.jwt ELSE None

\* The server takes the oldest request and carries it out or rejects it.  A
\* request that is lost, or fails before it is sent, is one whose sender gave
\* up and that was then rejected.
ServeRequest ==
    /\ wire # <<>>
    /\ LET m == Head(wire)
           Answer(r) == IF m.from = None THEN inbox ELSE [inbox EXCEPT ![m.from] = r]
       IN \/ /\ store' = [store EXCEPT ![m.tenant] = Effect(m)]
             /\ inbox' = Answer("ok")
             /\ late' = late \ {m.tenant}
          \/ /\ "reject" \in Faults
             /\ inbox' = Answer("error")
             /\ UNCHANGED <<store, late>>
    /\ wire' = Tail(wire)
    /\ UNCHANGED old

\* The server gets to read a request of a dead process, after any of those
\* its successor has sent in the meantime.  The same request may be there
\* more than once, so having read it does not mean that it is gone.
ServeOld ==
    \E m \in old :
        /\ old' \in {old, old \ {m}}
        /\ \/ /\ store' = [store EXCEPT ![m.tenant] = Effect(m)]
              /\ late' = late \union {m.tenant}
           \/ /\ "reject" \in Faults
              /\ UNCHANGED <<store, late>>
        /\ UNCHANGED <<wire, inbox>>

\* The NATS server comes back with an empty resolver directory.
LoseStore ==
    /\ store' = [t \in Tenants |-> None]
    /\ late' = {}
    /\ UNCHANGED <<wire, inbox, old>>

\* The backend dies: what had left its buffers is a prefix of the wire.
CutWire ==
    /\ \E n \in 0 .. Len(wire) : wire' = Disowned(SubSeq(wire, 1, n), Procs)
    /\ inbox' = [p \in Procs |-> "none"]
    /\ UNCHANGED <<store, old, late>>

\* A process dials its own system connection: what the server has not read of
\* the one before is out of order with everything that is sent from now on.
Dial ==
    LET left == old \union {wire[i] : i \in DOMAIN wire}
    IN /\ Cardinality(left) <= OldCap
       /\ old' = left
       /\ wire' = <<>>
       /\ UNCHANGED <<store, inbox, late>>
=============================================================================
