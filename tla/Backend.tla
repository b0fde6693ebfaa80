------------------------------- MODULE Backend -------------------------------
(***************************************************************************)
(* The backend process: runServer (cmd/nats-admin/server.go) boots it,     *)
(* reconciles, and serves requests, each in a goroutine of its own, over   *)
(* the services; it may die at any time and be started again.  The         *)
(* environment also loses the resolver's directory.                        *)
(***************************************************************************)
EXTENDS CredentialService, JetStreamAdmin

vars == <<tenants, seeds, committed, creds, acked, frame, phase, sysConn, store, wire, inbox,
          old, late>>

TypeOK ==
    /\ NetTypeOK
    /\ TenantTypeOK
    /\ CredentialTypeOK

Init == NetInit /\ TenantInit /\ CredentialInit

-----------------------------------------------------------------------------
\* runServer, up to the reconciliation it starts with.  If the listing fails,
\* the failure is logged and the server goes on.
Boot ==
    /\ phase = "down"
    /\ phase' = "booting"
    /\ sysConn' = TRUE
    /\ Dial
    /\ \/ Enter(Main, ReconcileFrame(ActiveJWTs(tenants)))
       \/ DbReadFails /\ Enter(Main, [ReconcileFrame(Nothing) EXCEPT !.failed = TRUE])
    /\ UNCHANGED <<dbVars, credVars>>

BootReconcile == ReconcileLoop(Main) /\ UNCHANGED credVars

BootDone ==
    /\ phase = "booting"
    /\ ReconcileEnds(Main)
    /\ Return(Main)
    /\ phase' = "serving"
    /\ UNCHANGED <<dbVars, credVars, netVars, sysConn>>

\* The system account connection fails: the server starts without a resolver.
BootDegraded ==
    /\ "degraded" \in Faults
    /\ phase = "down"
    /\ phase' = "serving"
    /\ sysConn' = FALSE
    /\ UNCHANGED <<dbVars, credVars, netVars, frame>>

\* The process ends between any two calls: a crash, or a shutdown, which
\* does not wait for the handlers.
Crash ==
    /\ "crash" \in Faults
    /\ phase # "down"
    /\ phase' = "down"
    /\ sysConn' = FALSE
    /\ frame' = [p \in Procs |-> IdleFrame]
    /\ CutWire
    /\ UNCHANGED <<dbVars, credVars>>

\* The resolver comes back empty ("cold" while the backend is down, "wipe" under it).
Wipe ==
    /\ \/ "cold" \in Faults /\ phase = "down"
       \/ "wipe" \in Faults /\ phase # "down"
    /\ LoseStore
    /\ UNCHANGED <<dbVars, credVars, hostVars, frame>>

Serve == ServeRequest /\ UNCHANGED <<dbVars, credVars, hostVars, frame>>

ServeLate == ServeOld /\ UNCHANGED <<dbVars, credVars, hostVars, frame>>

Handle(h) ==
    \/ TenantStep(h) /\ UNCHANGED credVars
    \/ JetStreamStep(h) /\ UNCHANGED credVars
    \/ CredentialStep(h)

Next ==
    \/ Boot
    \/ BootReconcile
    \/ BootDone
    \/ BootDegraded
    \/ Crash
    \/ Wipe
    \/ Serve
    \/ ServeLate
    \/ \E h \in Handlers : Handle(h)

Spec == Init /\ [][Next]_vars

-----------------------------------------------------------------------------
\* Safety under every interleaving and every fault.

Recorded(t) == committed[t] \union {None}

(***************************************************************************)
(* Every JWT that is served, on its way to the resolver or about to be     *)
(* pushed is one that account_jwt has held: UpdateLimits, Revoke and       *)
(* Create store the JWT before they push it, so that a crash never leaves  *)
(* the resolver with claims the database does not know.                    *)
(***************************************************************************)
PublishedWasCommitted ==
    /\ \A t \in Tenants : store[t] \in Recorded(t)
    /\ \A i \in DOMAIN wire : wire[i].jwt \in Recorded(wire[i].tenant)
    /\ \A m \in old : m.jwt \in Recorded(m.tenant)
    /\ \A p \in Procs :
           /\ \A t \in Tenants : frame[p].todo[t] \in Recorded(t)
           /\ frame[p].pc = "push" /\ frame[p].op # "Reconcile"
                  => frame[p].jwt \in committed[frame[p].tenant]

(***************************************************************************)
(* The backend implements the abstract registry: claims evolve by limits   *)
(* and revocations of own credentials, a credential is marked revoked only *)
(* after its account's claims were stored with the revocation, and only    *)
(* stored claims are served.                                               *)
(***************************************************************************)
Registry == INSTANCE AccountRegistry WITH
    recorded <- committed,
    owner <- [u \in Users |-> IF creds[u] = None THEN None ELSE creds[u].tenant],
    revoked <- {u \in Users : creds[u] # None /\ creds[u].revoked},
    served <- store

RegistrySpec == Registry!Spec

\* A request that has passed its reading of the tenant, and may still write
\* its status or push one of its JWTs.
Engaged(p, t) ==
    \/ frame[p].todo[t] # None
    \/ frame[p].tenant = t /\ frame[p].pc \notin {"loadSeed", "insert", "getTenant", "connect", "reseed"}

Gone(t) ==
    /\ tenants[t] # None /\ tenants[t].status = "deleted"
    /\ store[t] = None
    /\ \A i \in DOMAIN wire : wire[i].tenant = t => wire[i].kind = "DELETE"
    /\ \A m \in old : m.tenant = t => m.kind = "DELETE"
    /\ \A p \in Procs : ~Engaged(p, t)

(***************************************************************************)
(* Once a deleted tenant is out of the resolver and no request that read   *)
(* it earlier is still running, nothing brings it back: every operation    *)
(* that can push or set a status first reads the row through the filter    *)
(* on 'deleted'.  SetStatus and UpdateAccountJWT have no such filter.      *)
(***************************************************************************)
DeletedStaysGone == [][\A t \in Tenants : Gone(t) => Gone(t)']_vars

-----------------------------------------------------------------------------
\* Safety of one request at a time, across crashes and cold starts.

Active(t) == tenants[t] # None /\ tenants[t].status = "active"

Idle == phase = "serving" /\ wire = <<>> /\ \A p \in Procs : frame[p].op = "none"

(***************************************************************************)
(* When no request runs, the resolver serves exactly the account_jwt of    *)
(* every active tenant, and nothing for a deleted one: the boot-time       *)
(* ReconcileAll repairs what a crash left half done.  The one thing it     *)
(* does not repair is a request of a dead process that the server reads    *)
(* only after the successor's own.                                         *)
(***************************************************************************)
Agreement ==
    Idle => \A t \in Tenants \ late : tenants[t] # None =>
        CASE tenants[t].status = "active" -> store[t] = tenants[t].jwt
          [] tenants[t].status = "deleted" -> store[t] = None
          [] OTHER -> TRUE

(***************************************************************************)
(* The resolver's entry of an active tenant only ever changes to the       *)
(* account_jwt of the moment, or to nothing, unless it is a request of a   *)
(* dead process that changes it: no operation publishes an outdated JWT,   *)
(* and what the process that died last sent last is still what the row     *)
(* says.                                                                   *)
(***************************************************************************)
FreshPublish ==
    [][\A t \in Tenants \ late' :
           Active(t) => store'[t] \in {store[t], None, tenants[t].jwt}]_vars

(***************************************************************************)
(* A user whose revocation was answered with success is revoked in what    *)
(* the resolver serves for an active tenant, also when the first attempt   *)
(* died between the database and the push and the retry did not push       *)
(* ("Revocation re-signs the Account JWT and pushes to the resolver        *)
(* immediately").  Only a late request of a dead process brings back an    *)
(* entry without it.                                                       *)
(***************************************************************************)
RevocationHolds ==
    phase = "serving" =>
        \A u \in acked :
            LET t == creds[u].tenant
            IN Active(t) /\ t \notin late /\ store[t] # None => u \in store[t].revoked

(***************************************************************************)
(* A credential marked as revoked is on the revocation list of its         *)
(* tenant's account_jwt, from which every later JWT is derived             *)
(* (docs/db-schema.md: account_jwt is the JWT in force, kept in step with  *)
(* the revocations).  With two requests at a time this is lost: each reads *)
(* the JWT, and the last to write wins.                                    *)
(***************************************************************************)
RevocationKept ==
    \A u \in Users :
        creds[u] # None /\ creds[u].revoked => u \in tenants[creds[u].tenant].jwt.revoked

(***************************************************************************)
(* The limit columns and the JWT of a row say the same, except where the   *)
(* request asked for zero or less.                                         *)
(***************************************************************************)
LimitsMatch ==
    \A t \in Tenants :
        tenants[t] # None /\ tenants[t].limit > 0 => tenants[t].jwt.limit = tenants[t].limit

-----------------------------------------------------------------------------
\* Boot.

(***************************************************************************)
(* If no push of the boot-time reconciliation failed, the backend starts   *)
(* to serve with every active tenant's account_jwt in the resolver, but    *)
(* for those whose entry a request of a dead process has overwritten since *)
(* it was pushed.                                                          *)
(***************************************************************************)
BootHeals ==
    [][phase = "booting" /\ phase' = "serving" /\ ~frame[Main].failed
           => \A t \in Tenants \ late : Active(t) => store[t] = tenants[t].jwt]_vars

\* Every process with work to do gets on with it; a blocked resolver call
\* ends by the answer or by its timeout.  Clients need not send requests,
\* nothing has to fail, and nobody has to restart the backend.
Busy(p) == frame[p].op # "none"

Progress(h) == Busy(h) /\ Handle(h)

Fairness ==
    /\ \A h \in Handlers : WF_vars(Progress(h))
    /\ WF_vars(BootReconcile)
    /\ WF_vars(BootDone)

FairSpec == Spec /\ Fairness

(***************************************************************************)
(* Every request ends, and every boot reaches the point where the backend  *)
(* listens, whatever the resolver does: the five-second timeout is what    *)
(* lets a handler and the boot go on.                                      *)
(***************************************************************************)
RequestsEnd == \A h \in Handlers : Busy(h) ~> ~Busy(h)

BootCompletes == phase = "booting" ~> phase # "booting"

-----------------------------------------------------------------------------
\* What the documentation says and the code does not do.

(***************************************************************************)
(* README.md: "Revocation re-signs the Account JWT and pushes to the       *)
(* resolver immediately."  So when a revocation was answered with success  *)
(* and no request is running, the resolver knows of it.                    *)
(***************************************************************************)
RevokedIsRefused ==
    Idle => \A u \in acked : LET t == creds[u].tenant
                             IN store[t] # None => u \in store[t].revoked

(***************************************************************************)
(* README.md: "Suspend tenant (removes Account JWT from resolver)".        *)
(***************************************************************************)
SuspendedIsDark ==
    Idle => \A t \in Tenants :
        tenants[t] # None /\ tenants[t].status = "suspended" => store[t] = None

(***************************************************************************)
(* README.md: "Soft-delete tenant (removes from resolver)".                *)
(***************************************************************************)
DeletedIsDark ==
    Idle => \A t \in Tenants :
        tenants[t] # None /\ tenants[t].status = "deleted" => store[t] = None
=============================================================================
