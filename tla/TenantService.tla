---------------------------- MODULE TenantService ----------------------------
(***************************************************************************)
(* tenant.Service over tenant.Repository and tenant.Resolver: every        *)
(* operation is a chain of single-statement database calls and at most one *)
(* resolver call per tenant, with no transaction and no lock around it.    *)
(* The frame of a process is the operation it is in, the call it makes     *)
(* next, and what it has read so far.  A request's first call is merged    *)
(* with its arrival, and requests that end there without an effect (an     *)
(* unknown id, an invalid slug, a name already taken) are left out.        *)
(***************************************************************************)
EXTENDS Resolver

CONSTANTS Ops   \* the operations clients request

OpNames == {"Create", "Update", "Suspend", "Activate", "Delete", "Reconcile",
            "Issue", "Revoke", "JetStream"}

ASSUME OpsAssumption == Ops \subseteq OpNames

VARIABLES tenants,    \* the tenants table
          seeds,      \* tenants with a row in tenant_keys
          committed,  \* history: every JWT account_jwt has held, by tenant
          frame,      \* what each process is doing
          phase,      \* the backend is down, reconciling before it listens, or serving
          sysConn     \* this backend has a resolver (a system connection)

dbVars == <<tenants, seeds, committed>>
hostVars == <<phase, sysConn>>

Row == [status : {"active", "suspended", "deleted"}, jwt : Claims, limit : Limits]

ASSUME RowAssumption == None \notin Row

PcNames == {"idle", "saveSeed", "write", "push", "delete", "answer", "mark", "undo",
            "loadSeed", "insert", "getTenant", "select", "connect", "reseed"}

Frame == [op : OpNames \union {"none"}, pc : PcNames,
          tenant : Tenants \union {None}, user : Users \union {None},
          jwt : Claims \union {None}, limit : Limits \union {None},
          todo : [Tenants -> Claims \union {None}], failed : BOOLEAN]

Nothing == [t \in Tenants |-> None]

IdleFrame == [op |-> "none", pc |-> "idle", tenant |-> None, user |-> None,
              jwt |-> None, limit |-> None, todo |-> Nothing, failed |-> FALSE]

TenantTypeOK ==
    /\ tenants \in [Tenants -> Row \union {None}]
    /\ seeds \subseteq Tenants
    /\ committed \in [Tenants -> SUBSET Claims]
    /\ frame \in [Procs -> Frame]
    /\ phase \in {"down", "booting", "serving"}
    /\ sysConn \in BOOLEAN

TenantInit ==
    /\ tenants = Nothing
    /\ seeds = {}
    /\ committed = [t \in Tenants |-> {}]
    /\ frame = [p \in Procs |-> IdleFrame]
    /\ phase = "down"
    /\ sysConn = FALSE

-----------------------------------------------------------------------------
\* Frames.

\* A free handler takes a request for the operation.
Accepting(h, op) ==
    /\ op \in Ops
    /\ phase = "serving"
    /\ frame[h].op = "none"

At(p, op, pc) == frame[p].op = op /\ frame[p].pc = pc

Opened(op, pc, t) == [IdleFrame EXCEPT !.op = op, !.pc = pc, !.tenant = t]

Enter(p, f) == frame' = [frame EXCEPT ![p] = f]

Goto(p, pc) == frame' = [frame EXCEPT ![p].pc = pc]

Return(p) == Enter(p, IdleFrame)

\* How a write can end.  A failed call (a lost connection, a request context
\* cancelled by its client) may have reached the database or not.
DbOutcomes ==
    {[applied |-> TRUE, err |-> FALSE]} \union
    (IF "db" \in Faults THEN [applied : BOOLEAN, err : {TRUE}] ELSE {})

DbReadFails == "db" \in Faults

\* The resolver call the frame is at; a service without a resolver skips it.
PushOrSkip(p, Skip) ==
    \/ /\ sysConn
       /\ Push(p, frame[p].tenant, frame[p].jwt)
       /\ Goto(p, "answer")
    \/ /\ ~sysConn
       /\ Skip
       /\ UNCHANGED netVars

DeleteOrSkip(p, Skip) ==
    \/ /\ sysConn
       /\ Delete(p, frame[p].tenant)
       /\ Goto(p, "answer")
    \/ /\ ~sysConn
       /\ Skip
       /\ UNCHANGED netVars

-----------------------------------------------------------------------------
\* The tenants table.

\* Faulty variant: the row is found whatever its status.
Visible_Deleted(t) == tenants[t] # None

\* repo.Get and repo.List see the rows that are not deleted.
Visible(t) == tenants[t] # None /\ tenants[t].status # "deleted"

\* One statement sets account_jwt, which is remembered in the history.
WriteJWT(t, row) ==
    /\ tenants' = [tenants EXCEPT ![t] = row]
    /\ committed' = [committed EXCEPT ![t] = @ \union {row.jwt}]
    /\ UNCHANGED seeds

\* SetStatus and SoftDelete match on the id alone.
WriteStatus(t, status) ==
    /\ tenants' = [tenants EXCEPT ![t].status = status]
    /\ UNCHANGED <<seeds, committed>>

\* A status write that ends the request, whatever comes of it.
LastStatusWrite(p, status) ==
    /\ \E r \in DbOutcomes :
           IF r.applied THEN WriteStatus(frame[p].tenant, status) ELSE UNCHANGED dbVars
    /\ Return(p)
    /\ UNCHANGED <<netVars, hostVars>>

-----------------------------------------------------------------------------
\* POST /tenants: insert the row, save the seed, push; undo by a soft delete.

CreateInsert(h) ==
    /\ Accepting(h, "Create")
    /\ \E t \in Tenants, n \in Limits, r \in DbOutcomes :
           LET jwt == NewAccountClaims(n)
           IN /\ tenants[t] = None
              /\ IF r.applied
                     THEN WriteJWT(t, [status |-> "active", jwt |-> jwt, limit |-> n])
                     ELSE UNCHANGED dbVars
              /\ IF r.err
                     THEN UNCHANGED frame
                     ELSE Enter(h, [Opened("Create", "saveSeed", t) EXCEPT !.jwt = jwt])
    /\ UNCHANGED <<netVars, hostVars>>

CreateSaveSeed(h) ==
    /\ At(h, "Create", "saveSeed")
    /\ \E r \in DbOutcomes :
           /\ seeds' = IF r.applied THEN seeds \union {frame[h].tenant} ELSE seeds
           /\ Goto(h, IF r.err THEN "undo" ELSE "push")
    /\ UNCHANGED <<tenants, committed, netVars, hostVars>>

CreatePush(h) ==
    /\ At(h, "Create", "push")
    /\ PushOrSkip(h, Return(h))
    /\ UNCHANGED <<dbVars, hostVars>>

CreateAnswer(h) ==
    /\ At(h, "Create", "answer")
    /\ \/ Accepted(h) /\ Return(h)
       \/ Refused(h) /\ Goto(h, "undo")
    /\ UNCHANGED <<dbVars, hostVars>>

CreateUndo(h) ==
    /\ At(h, "Create", "undo")
    /\ LastStatusWrite(h, "deleted")

CreateStep(h) ==
    \/ CreateInsert(h)
    \/ CreateSaveSeed(h)
    \/ CreatePush(h)
    \/ CreateAnswer(h)
    \/ CreateUndo(h)

-----------------------------------------------------------------------------
\* PUT /tenants/:id: edit the claims that were read, write, push.

UpdateGet(h) ==
    /\ Accepting(h, "Update")
    /\ \E t \in Tenants, n \in Limits :
           /\ Visible(t)
           /\ Enter(h, [Opened("Update", "write", t) EXCEPT
                           !.jwt = WithLimits(tenants[t].jwt, n), !.limit = n])
    /\ UNCHANGED <<dbVars, netVars, hostVars>>

\* Faulty variant: the new JWT is pushed before it is stored, the order of docs/nats-auth.md.
UpdateWrite_PushFirst(h) ==
    /\ At(h, "Update", "write")
    /\ sysConn
    /\ Push(h, frame[h].tenant, frame[h].jwt)
    /\ Goto(h, "answer")
    /\ UNCHANGED <<dbVars, hostVars>>

\* Faulty variant: a failed write does not end the request.
UpdateWrite_Unchecked(h) ==
    /\ At(h, "Update", "write")
    /\ LET f == frame[h]
           row == [tenants[f.tenant] EXCEPT !.jwt = f.jwt, !.limit = f.limit]
       IN \E r \in DbOutcomes :
              IF r.applied THEN WriteJWT(f.tenant, row) ELSE UNCHANGED dbVars
    /\ Goto(h, "push")
    /\ UNCHANGED <<netVars, hostVars>>

UpdateWrite(h) ==
    /\ At(h, "Update", "write")
    /\ LET f == frame[h]
           row == [tenants[f.tenant] EXCEPT !.jwt = f.jwt, !.limit = f.limit]
       IN \E r \in DbOutcomes :
              /\ IF r.applied THEN WriteJWT(f.tenant, row) ELSE UNCHANGED dbVars
              /\ IF r.err THEN Return(h) ELSE Goto(h, "push")
    /\ UNCHANGED <<netVars, hostVars>>

\* Faulty variant: the push is left to the next reconciliation.
UpdatePush_Deferred(h) ==
    /\ At(h, "Update", "push")
    /\ Return(h)
    /\ UNCHANGED <<dbVars, netVars, hostVars>>

UpdatePush(h) ==
    /\ At(h, "Update", "push")
    /\ PushOrSkip(h, Return(h))
    /\ UNCHANGED <<dbVars, hostVars>>

UpdateAnswer(h) ==
    /\ At(h, "Update", "answer")
    /\ Accepted(h) \/ Refused(h)
    /\ Return(h)
    /\ UNCHANGED <<dbVars, hostVars>>

UpdateStep(h) == UpdateGet(h) \/ UpdateWrite(h) \/ UpdatePush(h) \/ UpdateAnswer(h)

-----------------------------------------------------------------------------
\* POST /tenants/:id/suspend: delete at the resolver, then set the status.

SuspendGet(h) ==
    /\ Accepting(h, "Suspend")
    /\ \E t \in Tenants : Visible(t) /\ Enter(h, Opened("Suspend", "delete", t))
    /\ UNCHANGED <<dbVars, netVars, hostVars>>

SuspendDelete(h) ==
    /\ At(h, "Suspend", "delete")
    /\ DeleteOrSkip(h, Goto(h, "mark"))
    /\ UNCHANGED <<dbVars, hostVars>>

SuspendAnswer(h) ==
    /\ At(h, "Suspend", "answer")
    /\ \/ Accepted(h) /\ Goto(h, "mark")
       \/ Refused(h) /\ Return(h)
    /\ UNCHANGED <<dbVars, hostVars>>

SuspendMark(h) ==
    /\ At(h, "Suspend", "mark")
    /\ LastStatusWrite(h, "suspended")

SuspendStep(h) == SuspendGet(h) \/ SuspendDelete(h) \/ SuspendAnswer(h) \/ SuspendMark(h)

-----------------------------------------------------------------------------
\* POST /tenants/:id/activate: push the JWT that was read, then set the status.

ActivateGet(h) ==
    /\ Accepting(h, "Activate")
    /\ \E t \in Tenants :
           /\ Visible(t)
           /\ Enter(h, [Opened("Activate", "push", t) EXCEPT !.jwt = tenants[t].jwt])
    /\ UNCHANGED <<dbVars, netVars, hostVars>>

ActivatePush(h) ==
    /\ At(h, "Activate", "push")
    /\ PushOrSkip(h, Goto(h, "mark"))
    /\ UNCHANGED <<dbVars, hostVars>>

ActivateAnswer(h) ==
    /\ At(h, "Activate", "answer")
    /\ \/ Accepted(h) /\ Goto(h, "mark")
       \/ Refused(h) /\ Return(h)
    /\ UNCHANGED <<dbVars, hostVars>>

ActivateMark(h) ==
    /\ At(h, "Activate", "mark")
    /\ LastStatusWrite(h, "active")

ActivateStep(h) == ActivateGet(h) \/ ActivatePush(h) \/ ActivateAnswer(h) \/ ActivateMark(h)

-----------------------------------------------------------------------------
\* DELETE /tenants/:id: delete at the resolver, ignore the result, soft-delete.

DeleteGet(h) ==
    /\ Accepting(h, "Delete")
    /\ \E t \in Tenants : Visible(t) /\ Enter(h, Opened("Delete", "delete", t))
    /\ UNCHANGED <<dbVars, netVars, hostVars>>

DeleteRequest(h) ==
    /\ At(h, "Delete", "delete")
    /\ DeleteOrSkip(h, Goto(h, "mark"))
    /\ UNCHANGED <<dbVars, hostVars>>

DeleteAnswer(h) ==
    /\ At(h, "Delete", "answer")
    /\ Accepted(h) \/ Refused(h)
    /\ Goto(h, "mark")
    /\ UNCHANGED <<dbVars, hostVars>>

DeleteMark(h) ==
    /\ At(h, "Delete", "mark")
    /\ LastStatusWrite(h, "deleted")

DeleteStep(h) == DeleteGet(h) \/ DeleteRequest(h) \/ DeleteAnswer(h) \/ DeleteMark(h)

-----------------------------------------------------------------------------
\* ReconcileAll, by POST /admin/reconcile or by runServer before it listens:
\* push the JWTs of one listing of the active tenants, one after the other.

ActiveJWTs(ts) ==
    [t \in Tenants |-> IF ts[t] # None /\ ts[t].status = "active" THEN ts[t].jwt ELSE None]

ReconcileFrame(todo) == [Opened("Reconcile", "push", None) EXCEPT !.todo = todo]

ReconcileList(h) ==
    /\ Accepting(h, "Reconcile")
    /\ sysConn
    /\ Enter(h, ReconcileFrame(ActiveJWTs(tenants)))
    /\ UNCHANGED <<dbVars, netVars, hostVars>>

ReconcilePush(p) ==
    /\ At(p, "Reconcile", "push")
    /\ \E t \in Tenants :
           /\ frame[p].todo[t] # None
           /\ Push(p, t, frame[p].todo[t])
           /\ Enter(p, [frame[p] EXCEPT !.pc = "answer", !.tenant = t])
    /\ UNCHANGED <<dbVars, hostVars>>

\* The tenant just pushed leaves the list.
Pushed(f, failed) ==
    [f EXCEPT !.pc = "push", !.tenant = None, !.todo[f.tenant] = None, !.failed = @ \/ failed]

\* Faulty variant: a push that failed is counted as pushed.
ReconcileAnswer_Uncounted(p) ==
    /\ At(p, "Reconcile", "answer")
    /\ Accepted(p) \/ Refused(p)
    /\ Enter(p, Pushed(frame[p], FALSE))
    /\ UNCHANGED <<dbVars, hostVars>>

ReconcileAnswer(p) ==
    /\ At(p, "Reconcile", "answer")
    /\ \/ Accepted(p) /\ Enter(p, Pushed(frame[p], FALSE))
       \/ Refused(p) /\ Enter(p, Pushed(frame[p], TRUE))
    /\ UNCHANGED <<dbVars, hostVars>>

\* The list is exhausted.
ReconcileEnds(p) == At(p, "Reconcile", "push") /\ frame[p].todo = Nothing

ReconcileReturn(h) ==
    /\ ReconcileEnds(h)
    /\ Return(h)
    /\ UNCHANGED <<dbVars, netVars, hostVars>>

ReconcileLoop(p) == ReconcilePush(p) \/ ReconcileAnswer(p)

ReconcileStep(h) == ReconcileList(h) \/ ReconcileLoop(h) \/ ReconcileReturn(h)

-----------------------------------------------------------------------------
TenantStep(h) ==
    \/ CreateStep(h)
    \/ UpdateStep(h)
    \/ SuspendStep(h)
    \/ ActivateStep(h)
    \/ DeleteStep(h)
    \/ ReconcileStep(h)
=============================================================================
