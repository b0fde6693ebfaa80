--------------------------- MODULE AgreementProofs ---------------------------
(***************************************************************************)
(* What keeps rows, credentials and resolver in step, for any number of    *)
(* tenants, users and limits.                                              *)
(*                                                                         *)
(* The first part is about rows: what UpdateLimits and Revoke write stays  *)
(* true to what they have read as long as no two requests hold an          *)
(* account_jwt of the same tenant that they have read and not yet written. *)
(* The second is about the boot: ReconcileAll overtakes whatever dead      *)
(* processes left on the wire.  The third puts the two together: requests  *)
(* that are handled one at a time keep the resolver in step through        *)
(* crashes and cold starts.                                                *)
(***************************************************************************)
EXTENDS RegistryProofs

\* A request that is about to write claims it derived from an account_jwt it read.
Editing(p, t) ==
    frame[p].tenant = t /\ (At(p, "Update", "write") \/ At(p, "Revoke", "write"))

NoTwoEditors ==
    \A h, k \in Handlers, t \in Tenants : Editing(h, t) /\ Editing(k, t) => h = k

\* What a frame is about to write derives from the row as it is, and what it
\* is about to mark has been written.
Exact(f, ts) ==
    /\ f.op = "Update" /\ f.pc = "write" => f.jwt = WithLimits(ts[f.tenant].jwt, f.limit)
    /\ f.op = "Revoke" /\ f.pc = "write" => f.jwt = WithRevocation(ts[f.tenant].jwt, f.user)
    /\ f.op = "Revoke" /\ f.pc = "mark" => f.user \in ts[f.tenant].jwt.revoked

MainReconciles == frame[Main].op \in {"none", "Reconcile"}

\* The inductive invariant of the rows.
EInv ==
    /\ LimitsMatch
    /\ RevocationKept
    /\ \A p \in Procs : Exact(frame[p], tenants)
    /\ MainReconciles

\* A step after which every row still has its claims and its limit.
SameTerms ==
    \A t \in Tenants :
        /\ tenants[t] = None => tenants'[t] = None
        /\ tenants[t] # None => /\ tenants'[t] # None
                                /\ tenants'[t].jwt = tenants[t].jwt
                                /\ tenants'[t].limit = tenants[t].limit

-----------------------------------------------------------------------------
\* Steps that leave the terms of the rows alone.

\* Revoke works for the tenant of its credential.
LEMMA RevokeFrames ==
    ASSUME RInv, NEW p \in Procs, frame[p].op = "Revoke"
    PROVE  /\ frame[p].user \in Users /\ creds[frame[p].user] # None
           /\ frame[p].tenant \in Tenants /\ tenants[frame[p].tenant] # None
           /\ creds[frame[p].user].tenant = frame[p].tenant
BY FrameFacts DEF RInv, Derived, Sound

\* The tenant of a credential has a row.
LEMMA OwnerFacts ==
    ASSUME RInv, NEW u \in Users, creds[u] # None
    PROVE  creds[u].tenant \in Tenants /\ tenants[creds[u].tenant] # None
BY DEF RInv, IInv, DbOK, OwnersOK, CredentialTypeOK, Credential

\* The rows say the same, and so what was exact stays exact.
LEMMA TermsKeepExact ==
    ASSUME RInv, SameTerms, NEW q \in Procs, NEW f,
           f.op \in {"Update", "Revoke"} => f.tenant \in Tenants /\ tenants[f.tenant] # None,
           Exact(f, tenants)
    PROVE  Exact(f, tenants')
BY DEF SameTerms, Exact

\* A step that leaves limits, revocations and credentials, and an exact frame.
LEMMA ExactStep ==
    ASSUME RInv, EInv, SameTerms, UNCHANGED creds, NEW p \in Procs, Elsewhere(p),
           Exact(frame'[p], tenants'), MainReconciles'
    PROVE  EInv'
<1>1. LimitsMatch'
  BY DEF EInv, LimitsMatch, SameTerms
<1>2. RevocationKept'
  BY OwnerFacts DEF EInv, RevocationKept, SameTerms
<1>3. ASSUME NEW q \in Procs, q # p PROVE Exact(frame'[q], tenants')
  <2>1. frame'[q] = frame[q] /\ Exact(frame[q], tenants)
    BY <1>3 DEF Elsewhere, EInv
  <2>2. frame[q].op \in {"Update", "Revoke"}
            => frame[q].tenant \in Tenants /\ tenants[frame[q].tenant] # None
    BY FrameFacts DEF RInv, Sound
  <2>3. QED
    BY <2>1, <2>2, TermsKeepExact
<1>4. QED
  BY <1>1, <1>2, <1>3 DEF EInv

\* The boot's own process is no handler.
LEMMA MainApart ==
    ASSUME EInv, NEW h \in Handlers, Elsewhere(h)
    PROVE  MainReconciles' /\ h # Main
BY ResolverAssumption, MainIsProc DEF EInv, MainReconciles, Elsewhere

\* A handler at an operation that edits nothing, or at a place where it is not editing.
LEMMA EasyStep ==
    ASSUME RInv, EInv, SameTerms, UNCHANGED creds, NEW h \in Handlers, Elsewhere(h),
           \/ frame'[h].op \notin {"Update", "Revoke"}
           \/ frame'[h].pc \notin {"write", "mark"}
    PROVE  EInv'
<1>1. Exact(frame'[h], tenants')
  BY DEF Exact
<1>2. QED
  BY <1>1, MainApart, ExactStep, HandlersAreProcs

\* Steps that write no row.
LEMMA RowsAlone == ASSUME UNCHANGED tenants PROVE SameTerms
BY DEF SameTerms

\* Steps that write only a status.
LEMMA StatusAlone ==
    ASSUME IInv, NEW t \in Tenants, tenants[t] # None,
           NEW status \in {"active", "suspended", "deleted"}, WriteStatus(t, status)
    PROVE  SameTerms
<1>1. tenants \in [Tenants -> Row \union {None}] /\ tenants[t] \in Row
  BY DEF IInv, DbOK
<1>2. tenants' = [tenants EXCEPT ![t] = [tenants[t] EXCEPT !.status = status]]
  BY <1>1 DEF WriteStatus
<1>3. [tenants[t] EXCEPT !.status = status] # None
  BY <1>1, RowAssumption DEF Row
<1>4. QED
  BY <1>1, <1>2, <1>3 DEF SameTerms, Row

\* An operation that edits nothing, wherever it is.
LEMMA PlainKeepsTerms ==
    ASSUME RInv, EInv, SameTerms, UNCHANGED creds, NEW h \in Handlers,
           \/ Return(h)
           \/ frame[h].op \in Plain /\ \E pc : Goto(h, pc)
           \/ \E f : Enter(h, f) /\ f.op \in Plain
           \/ UNCHANGED frame /\ frame[h].op \in Plain
    PROVE  EInv'
<1>1. Elsewhere(h) /\ frame'[h].op \in Plain
  BY HandlersAreProcs, ReturnMoves, GotoMoves, EnterMoves, NobodyMoves DEF RInv, Plain
<1>2. QED
  BY <1>1, EasyStep DEF Plain

\* SetStatus and SoftDelete touch neither the claims nor the limit.
LEMMA StatusWriteKeepsTerms ==
    ASSUME RInv, EInv, UNCHANGED creds, NEW h \in Handlers,
           frame[h].op \notin {"none", "Reconcile"},
           NEW status \in {"active", "suspended", "deleted"}, LastStatusWrite(h, status)
    PROVE  EInv'
<1>1. frame[h].tenant \in Tenants /\ tenants[frame[h].tenant] # None
  BY HandlersAreProcs, FrameFacts DEF RInv, Sound
<1>2. WriteStatus(frame[h].tenant, status) \/ UNCHANGED dbVars
  BY DEF LastStatusWrite
<1>3. SameTerms
  BY <1>1, <1>2, StatusAlone, RowsAlone DEF RInv, dbVars
<1>4. QED
  BY <1>3, PlainKeepsTerms DEF LastStatusWrite

-----------------------------------------------------------------------------
\* Writes of claims.

\* A row is inserted, or written by the only request that edits it.
LEMMA WriteStep ==
    ASSUME RInv, EInv, NoTwoEditors, UNCHANGED creds, NEW h \in Handlers, Elsewhere(h),
           NEW t \in Tenants, NEW row \in Row, WriteJWT(t, row),
           \/ tenants[t] = None
           \/ Editing(h, t) /\ tenants[t].jwt.revoked \subseteq row.jwt.revoked,
           row.limit > 0 => row.jwt.limit = row.limit,
           frame'[h].op \notin {"Update", "Revoke"} \/ frame'[h].pc # "write",
           Exact(frame'[h], tenants')
    PROVE  EInv'
<1>1. /\ tenants'[t] = row
      /\ \A s \in Tenants : s # t => tenants'[s] = tenants[s]
      /\ row # None
  BY RowAssumption DEF WriteJWT, RInv, IInv, DbOK
<1>2. LimitsMatch'
  BY <1>1 DEF LimitsMatch, EInv
<1>3. RevocationKept'
  <2> SUFFICES ASSUME NEW u \in Users, creds[u] # None, creds[u].revoked
               PROVE  u \in tenants'[creds[u].tenant].jwt.revoked
    BY DEF RevocationKept
  <2>1. u \in tenants[creds[u].tenant].jwt.revoked
    BY DEF EInv, RevocationKept
  <2>2. QED
    BY <1>1, <2>1, OwnerFacts
<1>4. ASSUME NEW q \in Procs, q # h PROVE Exact(frame'[q], tenants')
  <2>1. frame'[q] = frame[q] /\ Exact(frame[q], tenants)
    BY <1>4 DEF Elsewhere, EInv
  <2>2. SUFFICES ASSUME frame[q].op \in {"Update", "Revoke"}
                 PROVE  Exact(frame[q], tenants')
    BY <2>1 DEF Exact
  <2>3. frame[q].tenant \in Tenants /\ tenants[frame[q].tenant] # None
    BY <2>2, FrameFacts DEF RInv, Sound
  <2>4. CASE frame[q].tenant # t
    BY <1>1, <2>1, <2>3, <2>4 DEF Exact
  <2>5. CASE frame[q].tenant = t
    <3>1. Editing(h, t) /\ tenants[t].jwt.revoked \subseteq row.jwt.revoked
      BY <2>3, <2>5
    <3>2. q \in Handlers
      BY <2>2 DEF EInv, MainReconciles, Procs
    <3>3. ~Editing(q, t)
      BY <1>4, <3>1, <3>2 DEF NoTwoEditors
    <3>4. frame[q].pc # "write"
      BY <2>2, <2>5, <3>3 DEF Editing, At
    <3>5. QED
      BY <1>1, <2>1, <2>5, <3>1, <3>4 DEF Exact
  <2>6. QED
    BY <2>4, <2>5
<1>5. QED
  BY <1>2, <1>3, <1>4, MainApart DEF EInv

LEMMA InsertKeepsTerms ==
    ASSUME RInv, EInv, NoTwoEditors, NEW h \in Handlers, CreateInsert(h), UNCHANGED credVars
    PROVE  EInv'
<1>1. PICK t \in Tenants, n \in Limits, r \in DbOutcomes :
          LET jwt == NewAccountClaims(n)
          IN /\ tenants[t] = None
             /\ IF r.applied
                    THEN WriteJWT(t, [status |-> "active", jwt |-> jwt, limit |-> n])
                    ELSE UNCHANGED dbVars
             /\ IF r.err
                    THEN UNCHANGED frame
                    ELSE Enter(h, [Opened("Create", "saveSeed", t) EXCEPT !.jwt = jwt])
  BY DEF CreateInsert
<1> DEFINE jwt == NewAccountClaims(n)
           row == [status |-> "active", jwt |-> jwt, limit |-> n]
           f == [Opened("Create", "saveSeed", t) EXCEPT !.jwt = jwt]
<1>2. UNCHANGED creds /\ frame[h].op = "none"
  BY DEF credVars, CreateInsert, Accepting
<1>3. Elsewhere(h) /\ frame'[h].op \in Plain
  <2>1. f.op = "Create"
    BY OpenedFields
  <2>2. UNCHANGED frame \/ Enter(h, f)
    BY <1>1
  <2>3. QED
    BY <1>2, <2>1, <2>2, HandlersAreProcs, EnterMoves, NobodyMoves DEF RInv, Plain
<1>4. CASE UNCHANGED dbVars
  BY <1>2, <1>3, <1>4, RowsAlone, EasyStep DEF dbVars, Plain
<1>5. CASE WriteJWT(t, row)
  <2>1. row \in Row /\ (row.limit > 0 => row.jwt.limit = row.limit)
    BY ClaimsClosed, LimitsAssumption DEF Row, NewAccountClaims
  <2>2. Exact(frame'[h], tenants')
    BY <1>3 DEF Exact, Plain
  <2>3. frame'[h].op \notin {"Update", "Revoke"}
    BY <1>3 DEF Plain
  <2> HIDE DEF row
  <2>4. QED
    BY <1>1, <1>2, <1>3, <1>5, <2>1, <2>2, <2>3, WriteStep
<1>6. QED
  BY <1>1, <1>4, <1>5

\* UpdateLimits writes both the limit and the claims with it.
LEMMA RelimitKeepsTerms ==
    ASSUME RInv, EInv, NoTwoEditors, NEW h \in Handlers, UpdateWrite(h), UNCHANGED credVars
    PROVE  EInv'
<1> DEFINE g == frame[h]
           row == [tenants[g.tenant] EXCEPT !.jwt = g.jwt, !.limit = g.limit]
<1>1. /\ g.op = "Update" /\ g.pc = "write" /\ UNCHANGED creds
      /\ g.tenant \in Tenants /\ tenants[g.tenant] \in Row
      /\ g.jwt \in Claims /\ g.limit \in Limits
  BY HandlersAreProcs, FrameFacts DEF UpdateWrite, At, RInv, IInv, DbOK, Sound, credVars
<1>2. /\ WriteJWT(g.tenant, row) \/ UNCHANGED dbVars
      /\ Return(h) \/ Goto(h, "push")
  BY DEF UpdateWrite
<1>3. /\ Elsewhere(h)
      /\ frame'[h].op \notin {"Update", "Revoke"} \/ frame'[h].pc = "push"
  BY <1>2, HandlersAreProcs, ReturnMoves, GotoMoves DEF RInv
<1>4. CASE UNCHANGED dbVars
  BY <1>1, <1>3, <1>4, RowsAlone, EasyStep DEF dbVars
<1>5. CASE WriteJWT(g.tenant, row)
  <2>1. g.jwt = WithLimits(tenants[g.tenant].jwt, g.limit) /\ tenants[g.tenant].jwt \in Claims
    BY <1>1, HandlersAreProcs DEF EInv, Exact, Row
  <2>2. g.jwt.limit = g.limit /\ g.jwt.revoked = tenants[g.tenant].jwt.revoked
    BY <2>1 DEF WithLimits, Claims
  <2>3. row \in Row /\ row.jwt = g.jwt /\ row.limit = g.limit
    BY <1>1 DEF Row
  <2>4. Exact(frame'[h], tenants')
    BY <1>3 DEF Exact
  <2>5. Editing(h, g.tenant)
    BY <1>1 DEF Editing, At
  <2> HIDE DEF row, g
  <2>6. QED
    BY <1>1, <1>3, <1>5, <2>2, <2>3, <2>4, <2>5, WriteStep
<1>6. QED
  BY <1>2, <1>4, <1>5

\* Revoke writes the claims with one more user, and the limit they had.
LEMMA ExcludeKeepsTerms ==
    ASSUME RInv, EInv, NoTwoEditors, NEW h \in Handlers, RevokeWrite(h)
    PROVE  EInv'
<1> DEFINE g == frame[h]
           row == [tenants[g.tenant] EXCEPT !.jwt = g.jwt]
<1>1. /\ g.op = "Revoke" /\ g.pc = "write" /\ UNCHANGED creds
      /\ g.tenant \in Tenants /\ tenants[g.tenant] \in Row
      /\ g.jwt \in Claims /\ g.user \in Users
  BY HandlersAreProcs, FrameFacts DEF RevokeWrite, At, RInv, IInv, DbOK, Sound, credVars
<1>2. /\ WriteJWT(g.tenant, row) \/ UNCHANGED dbVars
      /\ \/ Return(h)
         \/ WriteJWT(g.tenant, row) /\ Goto(h, "mark")
  BY OutcomeFacts DEF RevokeWrite
<1>3. /\ Elsewhere(h)
      /\ \/ frame'[h].op = "none"
         \/ frame'[h].pc = "mark" /\ WriteJWT(g.tenant, row) /\ frame'[h].op = "Revoke"
            /\ frame'[h].user = g.user /\ frame'[h].tenant = g.tenant
  BY <1>1, <1>2, HandlersAreProcs, ReturnMoves, GotoMoves DEF RInv
<1>4. CASE UNCHANGED dbVars /\ frame'[h].op = "none"
  BY <1>1, <1>3, <1>4, RowsAlone, EasyStep DEF dbVars
<1>5. CASE WriteJWT(g.tenant, row)
  <2>1. g.jwt = WithRevocation(tenants[g.tenant].jwt, g.user) /\ tenants[g.tenant].jwt \in Claims
    BY <1>1, HandlersAreProcs DEF EInv, Exact, Row
  <2>2. /\ g.jwt.limit = tenants[g.tenant].jwt.limit
        /\ g.jwt.revoked = tenants[g.tenant].jwt.revoked \union {g.user}
    BY <2>1 DEF WithRevocation, Claims
  <2>3. row \in Row /\ row.jwt = g.jwt /\ row.limit = tenants[g.tenant].limit
    BY <1>1 DEF Row
  <2>4. tenants[g.tenant] # None
    BY <1>1, RowAssumption
  <2>5. row.limit > 0 => row.jwt.limit = row.limit
    BY <1>1, <2>2, <2>3, <2>4 DEF EInv, LimitsMatch
  <2>6. tenants'[g.tenant] = row
    BY <1>1, <1>5 DEF WriteJWT, RInv, IInv, DbOK
  <2>7. Editing(h, g.tenant)
    BY <1>1 DEF Editing, At
  <2>8. Exact(frame'[h], tenants')
    <3>1. CASE frame'[h].op = "none"
      BY <3>1 DEF Exact
    <3>2. CASE frame'[h].pc = "mark" /\ frame'[h].user = g.user /\ frame'[h].tenant = g.tenant
      <4> HIDE DEF row
      <4>1. QED
        BY <2>2, <2>3, <2>6, <3>2 DEF Exact
    <3>3. QED
      BY <1>3, <3>1, <3>2
  <2> HIDE DEF row, g
  <2>9. QED
    BY <1>1, <1>3, <1>5, <2>2, <2>3, <2>5, <2>7, <2>8, WriteStep
<1>6. QED
  BY <1>2, <1>3, <1>4, <1>5

\* A credential is marked after its account's claims hold the revocation.
LEMMA MarkKeepsTerms ==
    ASSUME RInv, EInv, NEW h \in Handlers, RevokeMark(h)
    PROVE  EInv'
<1>1. PICK u \in Users, t \in Tenants :
          /\ creds[u] # None /\ creds[u].tenant = t /\ u \in tenants[t].jwt.revoked
          /\ creds' = creds \/ creds' = [creds EXCEPT ![u].revoked = TRUE]
  <2>1. frame[h].op = "Revoke" /\ frame[h].pc = "mark"
    BY DEF RevokeMark, At
  <2>2. frame[h].user \in tenants[frame[h].tenant].jwt.revoked
    BY <2>1, HandlersAreProcs DEF EInv, Exact
  <2>3. creds' = creds \/ creds' = [creds EXCEPT ![frame[h].user].revoked = TRUE]
    BY DEF RevokeMark
  <2>4. QED
    BY <2>1, <2>2, <2>3, HandlersAreProcs, RevokeFrames
<1>2. UNCHANGED tenants /\ Elsewhere(h)
      /\ (frame'[h].op \notin {"Update", "Revoke"} \/ frame'[h].pc = "push")
  BY HandlersAreProcs, ReturnMoves, GotoMoves DEF RevokeMark, RInv, dbVars
<1>3. RevocationKept'
  <2>1. creds \in [Users -> Credential \union {None}] /\ creds[u] \in Credential
    BY <1>1 DEF RInv, IInv, DbOK, CredentialTypeOK
  <2>2. \A v \in Users : creds'[v] # None /\ creds'[v].revoked
            => (creds'[v].tenant = t /\ v = u) \/ creds'[v] = creds[v]
    BY <1>1, <2>1 DEF Credential
  <2>3. QED
    BY <1>1, <1>2, <2>2 DEF RevocationKept, EInv
<1>4. LimitsMatch' /\ MainReconciles'
  BY <1>2, MainApart DEF EInv, LimitsMatch
<1>5. \A q \in Procs : Exact(frame'[q], tenants')
  BY <1>2 DEF EInv, Exact, Elsewhere
<1>6. QED
  BY <1>3, <1>4, <1>5 DEF EInv

-----------------------------------------------------------------------------
\* The operations.

\* The operations, one by one.
LEMMA CreateKeepsTerms ==
    ASSUME RInv, EInv, NoTwoEditors, NEW h \in Handlers, CreateStep(h), UNCHANGED credVars
    PROVE  EInv'
<1>1. CASE CreateInsert(h)
  BY <1>1, InsertKeepsTerms
<1>2. CASE CreateUndo(h)
  BY <1>2, StatusWriteKeepsTerms DEF CreateUndo, At, credVars
<1>3. CASE CreateSaveSeed(h) \/ CreatePush(h) \/ CreateAnswer(h)
  <2>1. /\ Return(h) \/ \E pc : Goto(h, pc)
        /\ frame[h].op \in Plain
        /\ UNCHANGED <<tenants, creds>>
    BY <1>3 DEF CreateSaveSeed, CreatePush, CreateAnswer, PushOrSkip, At, Plain, dbVars, credVars
  <2>2. QED
    BY <2>1, RowsAlone, PlainKeepsTerms
<1>4. QED
  BY <1>1, <1>2, <1>3 DEF CreateStep

LEMMA UpdateKeepsTerms ==
    ASSUME RInv, EInv, NoTwoEditors, NEW h \in Handlers, UpdateStep(h), UNCHANGED credVars
    PROVE  EInv'
<1>1. CASE UpdateGet(h)
  <2>1. PICK t \in Tenants, n \in Limits :
            Enter(h, [Opened("Update", "write", t) EXCEPT
                          !.jwt = WithLimits(tenants[t].jwt, n), !.limit = n])
    BY <1>1 DEF UpdateGet
  <2> DEFINE jwt == WithLimits(tenants[t].jwt, n)
             f == [Opened("Update", "write", t) EXCEPT !.jwt = jwt, !.limit = n]
  <2>2. f.op = "Update" /\ f.pc = "write" /\ f.tenant = t /\ f.limit = n /\ f.jwt = jwt
    BY DEF Opened, IdleFrame
  <2>3. Elsewhere(h) /\ frame'[h] = f
    BY <2>1, HandlersAreProcs, EnterMoves DEF RInv
  <2>4. UNCHANGED <<tenants, creds>>
    BY <1>1 DEF UpdateGet, dbVars, credVars
  <2> HIDE DEF f
  <2>5. Exact(frame'[h], tenants')
    BY <2>2, <2>3, <2>4 DEF Exact
  <2>6. QED
    BY <2>3, <2>4, <2>5, RowsAlone, MainApart, ExactStep, HandlersAreProcs
<1>2. CASE UpdateWrite(h)
  BY <1>2, RelimitKeepsTerms
<1>3. CASE UpdatePush(h) \/ UpdateAnswer(h)
  <2>1. /\ Return(h) \/ Goto(h, "answer")
        /\ UNCHANGED <<tenants, creds>>
    BY <1>3 DEF UpdatePush, UpdateAnswer, PushOrSkip, dbVars, credVars
  <2>2. Elsewhere(h) /\ (frame'[h].op = "none" \/ frame'[h].pc = "answer")
    BY <2>1, HandlersAreProcs, ReturnMoves, GotoMoves DEF RInv
  <2>3. QED
    BY <2>1, <2>2, RowsAlone, EasyStep
<1>4. QED
  BY <1>1, <1>2, <1>3 DEF UpdateStep

\* Suspend, Activate and Delete write the status, after calls that write nothing.
LEMMA StatusStepsKeepTerms ==
    ASSUME RInv, EInv, NEW h \in Handlers, UNCHANGED credVars,
           SuspendStep(h) \/ ActivateStep(h) \/ DeleteStep(h)
    PROVE  EInv'
<1>1. CASE SuspendMark(h) \/ ActivateMark(h) \/ DeleteMark(h)
  BY <1>1, StatusWriteKeepsTerms DEF SuspendMark, ActivateMark, DeleteMark, At, credVars
<1>2. CASE SuspendGet(h) \/ ActivateGet(h) \/ DeleteGet(h)
  <2>1. UNCHANGED <<tenants, creds>>
    BY <1>2 DEF SuspendGet, ActivateGet, DeleteGet, dbVars, credVars
  <2>2. \/ \E op \in {"Suspend", "Delete"}, t \in Tenants : Enter(h, Opened(op, "delete", t))
        \/ \E t \in Tenants :
               Enter(h, [Opened("Activate", "push", t) EXCEPT !.jwt = tenants[t].jwt])
    BY <1>2 DEF SuspendGet, ActivateGet, DeleteGet
  <2>3. \E f : Enter(h, f) /\ f.op \in Plain
    <3>1. CASE \E op \in {"Suspend", "Delete"}, t \in Tenants : Enter(h, Opened(op, "delete", t))
      <4>1. PICK op \in {"Suspend", "Delete"}, t \in Tenants : Enter(h, Opened(op, "delete", t))
        BY <3>1
      <4>2. Opened(op, "delete", t).op = op
        BY OpenedFields
      <4>3. QED
        BY <4>1, <4>2 DEF Plain
    <3>2. CASE \E t \in Tenants :
                   Enter(h, [Opened("Activate", "push", t) EXCEPT !.jwt = tenants[t].jwt])
      <4>1. PICK t \in Tenants :
                Enter(h, [Opened("Activate", "push", t) EXCEPT !.jwt = tenants[t].jwt])
        BY <3>2
      <4>2. [Opened("Activate", "push", t) EXCEPT !.jwt = tenants[t].jwt].op = "Activate"
        BY OpenedFields
      <4>3. QED
        BY <4>1, <4>2 DEF Plain
    <3>3. QED
      BY <2>2, <3>1, <3>2
  <2>4. QED
    BY <2>1, <2>3, RowsAlone, PlainKeepsTerms
<1>3. CASE \/ SuspendDelete(h) \/ SuspendAnswer(h) \/ ActivatePush(h)
           \/ ActivateAnswer(h) \/ DeleteRequest(h) \/ DeleteAnswer(h)
  <2>1. /\ Return(h) \/ \E pc : Goto(h, pc)
        /\ frame[h].op \in Plain
        /\ UNCHANGED <<tenants, creds>>
    BY <1>3 DEF SuspendDelete, SuspendAnswer, ActivatePush, ActivateAnswer, DeleteRequest,
                DeleteAnswer, PushOrSkip, DeleteOrSkip, At, Plain, dbVars, credVars
  <2>2. QED
    BY <2>1, RowsAlone, PlainKeepsTerms
<1>4. QED
  BY <1>1, <1>2, <1>3 DEF SuspendStep, ActivateStep, DeleteStep

\* The listing and what is pushed from it, by a handler or by the boot.
LEMMA LoopIsPlain ==
    ASSUME IInv, NEW p \in Procs, ReconcileLoop(p)
    PROVE  /\ \E f : Enter(p, f) /\ f.op = "Reconcile"
           /\ UNCHANGED tenants
<1>1. frame[p] \in Frame /\ frame[p].op = "Reconcile" /\ UNCHANGED tenants
  BY FrameFacts DEF ReconcileLoop, ReconcilePush, ReconcileAnswer, At, dbVars
<1>2. \A t \in Tenants : [frame[p] EXCEPT !.pc = "answer", !.tenant = t].op = "Reconcile"
  BY <1>1 DEF Frame
<1>3. \A failed : Pushed(frame[p], failed).op = "Reconcile"
  BY <1>1 DEF Frame, Pushed
<1>4. QED
  BY <1>1, <1>2, <1>3 DEF ReconcileLoop, ReconcilePush, ReconcileAnswer

LEMMA ReconcileKeepsTerms ==
    ASSUME RInv, EInv, NEW h \in Handlers, ReconcileStep(h), UNCHANGED credVars
    PROVE  EInv'
<1>1. UNCHANGED <<tenants, creds>>
  BY DEF ReconcileStep, ReconcileList, ReconcileLoop, ReconcilePush, ReconcileAnswer,
         ReconcileReturn, dbVars, credVars
<1>2. CASE ReconcileLoop(h)
  BY <1>1, <1>2, HandlersAreProcs, LoopIsPlain, RowsAlone, PlainKeepsTerms DEF RInv, Plain
<1>3. CASE ReconcileList(h) \/ ReconcileReturn(h)
  <2>1. ReconcileFrame(ActiveJWTs(tenants)).op = "Reconcile"
    BY DEF ReconcileFrame, Opened, IdleFrame
  <2>2. QED
    BY <1>1, <1>3, <2>1, RowsAlone, PlainKeepsTerms DEF ReconcileList, ReconcileReturn, Plain
<1>4. QED
  BY <1>2, <1>3 DEF ReconcileStep

LEMMA JetStreamKeepsTerms ==
    ASSUME RInv, EInv, NEW h \in Handlers, JetStreamStep(h), UNCHANGED credVars
    PROVE  EInv'
<1>1. UNCHANGED <<tenants, creds>> /\ frame[h] \in Frame
  BY HandlersAreProcs, FrameFacts
     DEF JetStreamStep, JetStreamGet, JetStreamConnect, JetStreamReseed, JetStreamPush,
         JetStreamAnswer, dbVars, credVars, RInv
<1>2. CASE JetStreamGet(h)
  BY <1>1, <1>2, OpenedFields, RowsAlone, PlainKeepsTerms DEF JetStreamGet, Plain
<1>3. CASE JetStreamConnect(h) \/ JetStreamPush(h) \/ JetStreamAnswer(h)
  <2>1. /\ Return(h) \/ \E pc : Goto(h, pc)
        /\ frame[h].op \in Plain
    BY <1>3 DEF JetStreamConnect, JetStreamPush, JetStreamAnswer, PushOrSkip, At, Plain
  <2>2. QED
    BY <1>1, <2>1, RowsAlone, PlainKeepsTerms
<1>4. CASE JetStreamReseed(h)
  <2>1. [frame[h] EXCEPT !.pc = "push", !.jwt = tenants[frame[h].tenant].jwt].op = "JetStream"
    BY <1>1, <1>4 DEF JetStreamReseed, At, Frame
  <2>2. QED
    BY <1>1, <1>4, <2>1, RowsAlone, PlainKeepsTerms DEF JetStreamReseed, Plain
<1>5. QED
  BY <1>2, <1>3, <1>4 DEF JetStreamStep

LEMMA IssueKeepsTerms ==
    ASSUME RInv, EInv, NEW h \in Handlers, IssueStep(h)
    PROVE  EInv'
<1>1. UNCHANGED tenants
  BY DEF IssueStep, IssueGet, IssueLoadSeed, IssueInsert, dbVars
<1>2. Elsewhere(h) /\ frame'[h].op \in {"none", "Issue"}
  <2>1. \A t, u : [Opened("Issue", "loadSeed", t) EXCEPT !.user = u].op = "Issue"
    BY DEF Opened, IdleFrame
  <2>2. \/ Return(h)
        \/ \E f : Enter(h, f) /\ f.op = "Issue"
        \/ frame[h].op = "Issue" /\ Goto(h, "insert")
    BY <2>1 DEF IssueStep, IssueGet, IssueLoadSeed, IssueInsert, At
  <2>3. QED
    BY <2>2, HandlersAreProcs, ReturnMoves, GotoMoves, EnterMoves DEF RInv
<1>3. CASE UNCHANGED creds
  BY <1>1, <1>2, <1>3, RowsAlone, EasyStep
<1>4. CASE IssueInsert(h) /\ ~UNCHANGED creds
  <2>1. PICK u \in Users : \E t : creds' = [creds EXCEPT ![u] = [tenant |-> t, revoked |-> FALSE]]
    <3>1. frame[h].user \in Users
      BY <1>4, HandlersAreProcs, FrameFacts DEF IssueInsert, At, RInv, Sound
    <3>2. creds' = [creds EXCEPT ![frame[h].user] = [tenant |-> frame[h].tenant, revoked |-> FALSE]]
      BY <1>4 DEF IssueInsert
    <3>3. QED
      BY <3>1, <3>2
  <2>2. \A v \in Users : v # u => creds'[v] = creds[v]
    BY <2>1 DEF RInv, IInv, DbOK, CredentialTypeOK
  <2>3. ~creds'[u].revoked
    BY <2>1 DEF RInv, IInv, DbOK, CredentialTypeOK
  <2>4. RevocationKept'
    BY <1>1, <2>2, <2>3 DEF RevocationKept, EInv
  <2>5. LimitsMatch' /\ MainReconciles'
    BY <1>1, <1>2, MainApart DEF LimitsMatch, EInv
  <2>6. \A q \in Procs : Exact(frame'[q], tenants')
    BY <1>1, <1>2 DEF EInv, Exact, Elsewhere
  <2>7. QED
    BY <2>4, <2>5, <2>6 DEF EInv
<1>5. QED
  BY <1>3, <1>4 DEF IssueStep, IssueGet, IssueLoadSeed, credVars

LEMMA RevokeKeepsTerms ==
    ASSUME RInv, EInv, NoTwoEditors, NEW h \in Handlers, RevokeStep(h)
    PROVE  EInv'
<1>1. CASE RevokeGet(h)
  <2>1. UNCHANGED <<tenants, creds>> /\ frame[h].op = "none"
    BY <1>1 DEF RevokeGet, Accepting, dbVars
  <2>2. \A t, u : [Opened("Revoke", "getTenant", t) EXCEPT !.user = u].pc = "getTenant"
    BY DEF Opened, IdleFrame
  <2>3. UNCHANGED frame \/ \E f : Enter(h, f) /\ f.pc = "getTenant"
    BY <1>1, <2>2 DEF RevokeGet
  <2>4. Elsewhere(h) /\ (frame'[h].op = "none" \/ frame'[h].pc = "getTenant")
    BY <2>1, <2>3, HandlersAreProcs, NobodyMoves, EnterMoves DEF RInv
  <2>5. QED
    BY <2>1, <2>4, RowsAlone, EasyStep
<1>2. CASE RevokeSelect(h)
  <2>1. UNCHANGED <<tenants, creds>> /\ frame[h].op = "Revoke" /\ frame[h] \in Frame
    BY <1>2, HandlersAreProcs, FrameFacts DEF RevokeSelect, At, dbVars, credVars, RInv
  <2>2. CASE Return(h)
    BY <2>1, <2>2, RowsAlone, PlainKeepsTerms
  <2> DEFINE jwt == WithRevocation(tenants[frame[h].tenant].jwt, frame[h].user)
             f == [frame[h] EXCEPT !.pc = "write", !.jwt = jwt]
  <2>3. CASE Enter(h, f)
    <3>1. /\ f.op = "Revoke" /\ f.pc = "write" /\ f.jwt = jwt
          /\ f.user = frame[h].user /\ f.tenant = frame[h].tenant
      BY <2>1 DEF Frame
    <3>2. Elsewhere(h) /\ frame'[h] = f
      BY <2>3, HandlersAreProcs, EnterMoves DEF RInv
    <3> HIDE DEF f
    <3>3. Exact(frame'[h], tenants')
      BY <2>1, <3>1, <3>2 DEF Exact
    <3>4. QED
      BY <2>1, <3>2, <3>3, RowsAlone, MainApart, ExactStep, HandlersAreProcs
  <2>4. QED
    BY <1>2, <2>2, <2>3 DEF RevokeSelect
<1>3. CASE RevokeGetTenant(h) \/ RevokePush(h) \/ RevokeAnswer(h)
  <2>1. /\ UNCHANGED <<tenants, creds>>
        /\ Return(h) \/ \E pc \in {"select", "answer"} : Goto(h, pc)
    BY <1>3 DEF RevokeGetTenant, RevokePush, RevokeAnswer, PushOrSkip, dbVars, credVars
  <2>2. Elsewhere(h) /\ (frame'[h].op = "none" \/ frame'[h].pc \in {"select", "answer"})
    BY <2>1, HandlersAreProcs, ReturnMoves, GotoMoves DEF RInv
  <2>3. QED
    BY <2>1, <2>2, RowsAlone, EasyStep
<1>4. QED
  BY <1>1, <1>2, <1>3, ExcludeKeepsTerms, MarkKeepsTerms DEF RevokeStep

LEMMA HandleKeepsTerms ==
    ASSUME RInv, EInv, NoTwoEditors, NEW h \in Handlers, Handle(h)
    PROVE  EInv'
BY CreateKeepsTerms, UpdateKeepsTerms, StatusStepsKeepTerms, ReconcileKeepsTerms,
   JetStreamKeepsTerms, IssueKeepsTerms, RevokeKeepsTerms
   DEF Handle, TenantStep, CredentialStep

\* The boot reads; a crash leaves only idle frames; the environment has no part in the rows.
LEMMA HostKeepsTerms ==
    ASSUME RInv, EInv, BootReconcile \/ Boot \/ BootDone \/ BootDegraded \/ Crash \/ Wipe
           \/ Serve \/ ServeLate
    PROVE  EInv'
<1>1. UNCHANGED <<tenants, creds>>
  BY DEF BootReconcile, ReconcileLoop, ReconcilePush, ReconcileAnswer, Boot, BootDone,
         BootDegraded, Crash, Wipe, Serve, ServeLate, dbVars, credVars
<1>2. CASE BootReconcile \/ Boot \/ BootDone
  <2>1. /\ ReconcileFrame(ActiveJWTs(tenants)).op = "Reconcile"
        /\ [ReconcileFrame(Nothing) EXCEPT !.failed = TRUE].op = "Reconcile"
        /\ IdleFrame.op = "none"
    BY DEF ReconcileFrame, Opened, IdleFrame
  <2>2. \E f : Enter(Main, f) /\ f.op \in {"none", "Reconcile"}
    BY <1>2, <2>1, MainIsProc, LoopIsPlain DEF BootReconcile, Boot, BootDone, Return, RInv
  <2>3. Elsewhere(Main) /\ frame'[Main].op \in {"none", "Reconcile"}
    BY <2>2, MainIsProc, EnterMoves DEF RInv
  <2>4. QED
    BY <1>1, <2>3, RowsAlone, MainIsProc, ExactStep DEF Exact, MainReconciles
<1>3. CASE UNCHANGED frame
  BY <1>1, <1>3 DEF EInv, LimitsMatch, RevocationKept, MainReconciles
<1>4. CASE Crash
  <2>1. \A p \in Procs : frame'[p].op = "none"
    BY <1>4 DEF Crash, IdleFrame
  <2>2. QED
    BY <1>1, <2>1, MainIsProc
       DEF EInv, LimitsMatch, RevocationKept, MainReconciles, Exact
<1>5. QED
  BY <1>2, <1>3, <1>4 DEF BootDegraded, Wipe, Serve, ServeLate

LEMMA InitTerms == Init => EInv
<1> SUFFICES ASSUME Init PROVE EInv
  OBVIOUS
<1>1. \A p \in Procs : frame[p].op = "none"
  BY DEF Init, TenantInit, IdleFrame
<1>2. QED
  BY <1>1, MainIsProc
     DEF Init, TenantInit, CredentialInit, EInv, LimitsMatch, RevocationKept, Exact,
         MainReconciles, Nothing

LEMMA NextKeepsTerms == RInv /\ EInv /\ NoTwoEditors /\ [Next]_vars => EInv'
<1> SUFFICES ASSUME RInv, EInv, NoTwoEditors, [Next]_vars PROVE EInv'
  OBVIOUS
<1>1. CASE UNCHANGED vars
  BY <1>1 DEF vars, EInv, LimitsMatch, RevocationKept, MainReconciles
<1>2. QED
  BY <1>1, HandleKeepsTerms, HostKeepsTerms DEF Next

LEMMA RegistryInvariance == Spec => []RInv
<1>1. QED
  BY InitRefines, NextRefines, PTL DEF Spec

(***************************************************************************)
(* UpdateLimits and Revoke read account_jwt, edit it and write it back in  *)
(* statements of their own.  As long as no two requests are between their  *)
(* reading and their writing for the same tenant, the limit column and the *)
(* JWT say the same, with any number of requests otherwise and whatever    *)
(* fails or crashes.                                                       *)
(***************************************************************************)
THEOREM LimitsStayInStep == Spec /\ []NoTwoEditors => []LimitsMatch
<1>1. EInv => LimitsMatch
  BY DEF EInv
<1>2. QED
  BY <1>1, InitTerms, NextKeepsTerms, RegistryInvariance, PTL DEF Spec

(***************************************************************************)
(* Under the same condition no revocation is lost: a credential that is    *)
(* marked as revoked is on the list of its account's JWT, from which every *)
(* later JWT is made, also when the write of another request failed or its *)
(* process died half-way.                                                  *)
(***************************************************************************)
THEOREM RevocationsAreKept == Spec /\ []NoTwoEditors => []RevocationKept
<1>1. EInv => RevocationKept
  BY DEF EInv
<1>2. QED
  BY <1>1, InitTerms, NextKeepsTerms, RegistryInvariance, PTL DEF Spec

-----------------------------------------------------------------------------
\* The wire.

NoneFrom(p) == \A i \in DOMAIN wire : wire[i].from # p

Unsent(p) == inbox[p] = "none" /\ NoneFrom(p)

Quiet(t) == \A i \in DOMAIN wire : wire[i].tenant # t

\* What a process that waits has asked the resolver for.
Payload(f) ==
    CASE f.op \in {"Suspend", "Delete"} -> None
      [] f.op = "Reconcile" -> f.todo[f.tenant]
      [] OTHER -> f.jwt

Asked(p) ==
    [kind |-> IF frame[p].op \in {"Suspend", "Delete"} THEN "DELETE" ELSE "UPDATE",
     tenant |-> frame[p].tenant, jwt |-> Payload(frame[p]), from |-> p]

Disclaimed == \A i \in DOMAIN wire : wire[i].from = None

\* A call under way: its request is the youngest on the wire and the only one
\* anybody waits for; once it is answered the wire is empty and the entry is
\* the one asked for, if no request of a dead process was read since.
Awaits(p) ==
    \/ /\ inbox[p] = "waiting"
       /\ wire # <<>>
       /\ wire[Len(wire)] = Asked(p)
       /\ \A i \in DOMAIN wire : i # Len(wire) => wire[i].from = None
    \/ /\ inbox[p] = "ok"
       /\ wire = <<>>
       /\ frame[p].tenant \in late \/ store[frame[p].tenant] = Payload(frame[p])
    \/ /\ Faults \intersect {"reject", "full"} # {}
       /\ inbox[p] = "error"
       /\ Disclaimed

\* The calls a process makes.
NetMove(p) ==
    \/ UNCHANGED netVars
    \/ Accepted(p)
    \/ Refused(p)
    \/ \E kind \in {"UPDATE", "DELETE"}, t \in Tenants, jwt \in Claims \union {None} :
           Send(p, kind, t, jwt)

\* The wire without its oldest request.
LEMMA TailFacts ==
    ASSUME IInv, wire # <<>>
    PROVE  /\ 1 \in DOMAIN wire /\ Head(wire) = wire[1]
           /\ Tail(wire) \in Seq(Request) /\ Len(Tail(wire)) = Len(wire) - 1
           /\ \A i \in DOMAIN Tail(wire) : i + 1 \in DOMAIN wire /\ Tail(wire)[i] = wire[i + 1]
BY WireFacts

\* A dead process leaves a part of its requests, without anyone to answer.
LEMMA CutFacts ==
    ASSUME IInv, CutWire
    PROVE  /\ wire' \in Seq(Request)
           /\ \A i \in DOMAIN wire' : /\ i \in DOMAIN wire
                                     /\ wire'[i].kind = wire[i].kind
                                     /\ wire'[i].tenant = wire[i].tenant
                                     /\ wire'[i].jwt = wire[i].jwt
                                     /\ wire'[i].from = None
           /\ \A p \in Procs : inbox'[p] = "none"
           /\ store' = store /\ late' = late
<1>1. PICK n \in 0 .. Len(wire) : wire' = Disowned(SubSeq(wire, 1, n), Procs)
  BY DEF CutWire
<1> DEFINE w == SubSeq(wire, 1, n)
<1>2. /\ w \in Seq(Request)
      /\ \A i \in DOMAIN w : i \in DOMAIN wire /\ w[i] = wire[i] /\ wire[i] \in Request
  BY WireFacts
<1>3. wire' = Disowned(w, Procs)
  BY <1>1
<1> HIDE DEF w
<1>4. /\ wire' \in Seq(Request) /\ DOMAIN wire' = DOMAIN w
      /\ \A i \in DOMAIN w : /\ wire'[i].kind = w[i].kind
                             /\ wire'[i].tenant = w[i].tenant
                             /\ wire'[i].jwt = w[i].jwt
  BY <1>2, <1>3, DisownedWire
<1>5. \A i \in DOMAIN w : wire'[i].from = None
  BY <1>2, <1>3 DEF Disowned, Request
<1>6. QED
  BY <1>2, <1>4, <1>5 DEF CutWire

\* A request that is sent is the youngest on the wire; the fault "full" apart.
LEMMA SendFacts ==
    ASSUME IInv, NEW p \in Procs, NEW kind \in {"UPDATE", "DELETE"}, NEW t \in Tenants,
           NEW jwt \in Claims \union {None}, Send(p, kind, t, jwt)
    PROVE  /\ store' = store /\ late' = late
           /\ \A q \in Procs : q # p => inbox'[q] = inbox[q]
           /\ \/ /\ inbox'[p] = "waiting"
                 /\ wire' # <<>> /\ Len(wire') = Len(wire) + 1
                 /\ wire'[Len(wire')] = [kind |-> kind, tenant |-> t, jwt |-> jwt, from |-> p]
                 /\ \A i \in DOMAIN wire' : i # Len(wire') => i \in DOMAIN wire /\ wire'[i] = wire[i]
              \/ inbox'[p] = "error" /\ wire' = wire /\ "full" \in Faults
<1> DEFINE m == [kind |-> kind, tenant |-> t, jwt |-> jwt, from |-> p]
<1>1. wire \in Seq(Request) /\ inbox \in [Procs -> Replies] /\ m \in Request
  BY DEF IInv, NetOK, NetTypeOK, Request
<1>2. CASE wire' = Append(wire, m) /\ inbox' = [inbox EXCEPT ![p] = "waiting"]
  <2> HIDE DEF m
  <2>1. wire' # <<>> /\ Len(wire') = Len(wire) + 1 /\ wire'[Len(wire')] = m
    BY <1>1, <1>2, AppendProperties
  <2>2. \A i \in DOMAIN wire' : i # Len(wire') => i \in DOMAIN wire /\ wire'[i] = wire[i]
    BY <1>1, <1>2, <2>1
  <2>3. QED
    BY <1>1, <1>2, <2>1, <2>2 DEF Send, m
<1>3. CASE "full" \in Faults /\ inbox' = [inbox EXCEPT ![p] = "error"] /\ wire' = wire
  BY <1>1, <1>3 DEF Send
<1>4. QED
  BY <1>2, <1>3 DEF Send

\* What a dead process leaves on the wire is nobody's.
LEMMA DisownedFrom ==
    ASSUME NEW w \in Seq(Request), NEW p \in Procs, NEW i \in DOMAIN w
    PROVE  /\ Disowned(w, {p})[i].from # p
           /\ Disowned(w, {p})[i].from \in {w[i].from, None}
<1>1. w[i] \in Request
  BY LenProperties, ElementOfSeq
<1>2. QED
  BY <1>1, ResolverAssumption DEF Disowned, Request

\* A process neither answers for another one nor sends in its name.
LEMMA OthersNet ==
    ASSUME IInv, NEW p \in Procs, NetMove(p), NEW q \in Procs, q # p
    PROVE  /\ store' = store /\ late' = late
           /\ inbox'[q] = inbox[q]
           /\ NoneFrom(q) => NoneFrom(q)'
<1>1. inbox \in [Procs -> Replies] /\ wire \in Seq(Request)
  BY DEF IInv, NetOK, NetTypeOK
<1>2. CASE UNCHANGED netVars \/ Accepted(p)
  BY <1>1, <1>2 DEF netVars, Accepted, NoneFrom
<1>3. CASE Refused(p)
  <2>1. store' = store /\ late' = late /\ inbox'[q] = inbox[q] /\ wire' \in {wire, Disowned(wire, {p})}
    BY <1>1, <1>3 DEF Refused
  <2>2. NoneFrom(q) => \A i \in DOMAIN Disowned(wire, {p}) : Disowned(wire, {p})[i].from # q
    BY <1>1, DisownedWire, DisownedFrom, ResolverAssumption DEF NoneFrom
  <2>3. QED
    BY <2>1, <2>2 DEF NoneFrom
<1>4. ASSUME NEW kind \in {"UPDATE", "DELETE"}, NEW t \in Tenants,
             NEW jwt \in Claims \union {None}, Send(p, kind, t, jwt)
      PROVE  /\ store' = store /\ late' = late
             /\ inbox'[q] = inbox[q]
             /\ NoneFrom(q) => NoneFrom(q)'
  <2>1. /\ store' = store /\ late' = late /\ inbox'[q] = inbox[q]
        /\ \/ wire' = wire
           \/ /\ wire'[Len(wire')].from = p
              /\ \A i \in DOMAIN wire' : i # Len(wire') => i \in DOMAIN wire /\ wire'[i] = wire[i]
    <3>1. /\ store' = store /\ late' = late /\ inbox'[q] = inbox[q]
          /\ \/ wire' = wire
             \/ /\ wire'[Len(wire')] = [kind |-> kind, tenant |-> t, jwt |-> jwt, from |-> p]
                /\ \A i \in DOMAIN wire' : i # Len(wire') => i \in DOMAIN wire /\ wire'[i] = wire[i]
      BY <1>4, SendFacts
    <3>2. QED
      BY <3>1
  <2>2. QED
    BY <2>1 DEF NoneFrom
<1>5. QED
  BY <1>2, <1>3, <1>4 DEF NetMove

\* Serving the wire brings a call to its answer and leaves the others alone.
LEMMA ServeAwaits ==
    ASSUME IInv, ServeRequest, UNCHANGED frame, NEW p \in Procs, Awaits(p)
    PROVE  Awaits(p)'
<1> DEFINE m == wire[1]
<1>1. /\ wire # <<>> /\ 1 \in DOMAIN wire /\ Head(wire) = m
      /\ Tail(wire) \in Seq(Request) /\ Len(Tail(wire)) = Len(wire) - 1
      /\ \A i \in DOMAIN Tail(wire) : i + 1 \in DOMAIN wire /\ Tail(wire)[i] = wire[i + 1]
      /\ wire' = Tail(wire)
  BY TailFacts DEF ServeRequest
<1>2. /\ Len(wire) \in Nat /\ DOMAIN wire = 1 .. Len(wire) /\ m \in Request
      /\ inbox \in [Procs -> Replies] /\ store \in [Tenants -> Claims \union {None}]
  BY <1>1, WireFacts DEF IInv, NetOK, NetTypeOK
<1>3. \/ /\ store' = [store EXCEPT ![m.tenant] = Effect(m)]
         /\ inbox' = IF m.from = None THEN inbox ELSE [inbox EXCEPT ![m.from] = "ok"]
      \/ /\ "reject" \in Faults
         /\ inbox' = IF m.from = None THEN inbox ELSE [inbox EXCEPT ![m.from] = "error"]
         /\ store' = store
  BY <1>1 DEF ServeRequest
<1> HIDE DEF m
<1>4. CASE Disclaimed /\ inbox[p] = "error" /\ Faults \intersect {"reject", "full"} # {}
  BY <1>1, <1>2, <1>3, <1>4 DEF Awaits, Disclaimed, m
<1>5. CASE /\ inbox[p] = "waiting"
           /\ wire[Len(wire)] = Asked(p)
           /\ \A i \in DOMAIN wire : i # Len(wire) => wire[i].from = None
  <2>1. CASE Len(wire) = 1
    <3>1. m = Asked(p) /\ Len(wire') = 0
      BY <1>1, <1>5, <2>1 DEF m
    <3>2. wire' = <<>>
      BY <1>1, <3>1, EmptySeq
    <3>3. m.from = p /\ p # None /\ m.tenant = frame[p].tenant /\ m.tenant \in Tenants
      BY <1>2, <3>1, ResolverAssumption DEF Asked, Request
    <3>4. Effect(m) = Payload(frame[p])
      BY <3>1 DEF Effect, Asked, Payload
    <3>5. CASE store' = [store EXCEPT ![m.tenant] = Effect(m)] /\ inbox' = [inbox EXCEPT ![p] = "ok"]
      BY <1>2, <3>2, <3>3, <3>4, <3>5 DEF Awaits
    <3>6. CASE "reject" \in Faults /\ inbox' = [inbox EXCEPT ![p] = "error"]
      BY <1>2, <3>2, <3>6 DEF Awaits, Disclaimed
    <3>7. QED
      BY <1>3, <3>3, <3>5, <3>6
  <2>2. CASE Len(wire) # 1
    <3>1. m.from = None
      BY <1>1, <1>5, <2>2 DEF m
    <3>2. inbox' = inbox
      BY <1>3, <3>1
    <3>3. Len(wire') \in DOMAIN wire' /\ Len(wire') + 1 = Len(wire) /\ wire' # <<>>
      <4>1. Len(wire) >= 1
        BY <1>1, <1>2
      <4>2. Len(wire') = Len(wire) - 1 /\ Len(wire') >= 1
        BY <1>1, <1>2, <2>2, <4>1
      <4>3. DOMAIN wire' = 1 .. Len(wire') /\ Len(wire') \in Nat
        BY <1>1, LenProperties
      <4>4. wire' # <<>>
        <5>1. wire' \in Seq(Request) /\ Len(wire') # 0
          BY <1>1, <4>2
        <5>2. QED
          BY <5>1, EmptySeq
      <4>5. QED
        BY <1>2, <4>2, <4>3, <4>4
    <3>4. wire'[Len(wire')] = Asked(p)
      BY <1>1, <1>5, <3>3
    <3>5. \A i \in DOMAIN wire' : i # Len(wire') => wire'[i].from = None
      BY <1>1, <1>2, <1>5, <3>3
    <3>6. Asked(p)' = Asked(p)
      BY DEF Asked, Payload
    <3>7. QED
      BY <1>5, <3>2, <3>3, <3>4, <3>5, <3>6 DEF Awaits
  <2>3. QED
    BY <2>1, <2>2
<1>6. QED
  BY <1>1, <1>4, <1>5 DEF Awaits

\* Answering a request changes nothing for a process that sent none, nor for a
\* tenant that none concerns.
LEMMA ServeUnsent ==
    ASSUME IInv, ServeRequest, NEW p \in Procs
    PROVE  /\ NoneFrom(p) => NoneFrom(p)' /\ inbox'[p] = inbox[p]
           /\ Disclaimed => Disclaimed'
           /\ \A t \in Tenants : Quiet(t) =>
                  Quiet(t)' /\ store'[t] = store[t] /\ (t \in late' <=> t \in late)
<1>1. /\ 1 \in DOMAIN wire /\ Head(wire) = wire[1]
      /\ \A i \in DOMAIN wire' : i + 1 \in DOMAIN wire /\ wire'[i] = wire[i + 1]
  BY TailFacts DEF ServeRequest
<1>2. wire[1] \in Request /\ inbox \in [Procs -> Replies] /\ store \in [Tenants -> Claims \union {None}]
  BY <1>1, WireFacts DEF IInv, NetOK, NetTypeOK
<1>3. \/ inbox' = inbox
      \/ \E r : inbox' = [inbox EXCEPT ![wire[1].from] = r]
  BY <1>1 DEF ServeRequest
<1>4. \/ store' = store /\ late' = late
      \/ /\ store' = [store EXCEPT ![wire[1].tenant] = Effect(wire[1])]
         /\ late' = late \ {wire[1].tenant}
  BY <1>1 DEF ServeRequest
<1>5. NoneFrom(p) => NoneFrom(p)' /\ inbox'[p] = inbox[p]
  BY <1>1, <1>2, <1>3 DEF NoneFrom
<1>6. Disclaimed => Disclaimed'
  BY <1>1 DEF Disclaimed
<1>7. \A t \in Tenants : Quiet(t) =>
          Quiet(t)' /\ store'[t] = store[t] /\ (t \in late' <=> t \in late)
  BY <1>1, <1>2, <1>4 DEF Quiet
<1>8. QED
  BY <1>5, <1>6, <1>7

\* A request of a dead process touches no call and no entry but its own.
LEMMA ServeOldFacts ==
    ASSUME IInv, ServeOld
    PROVE  /\ UNCHANGED <<wire, inbox>>
           /\ \A t \in Tenants : t \in late' \/ (t \notin late /\ store'[t] = store[t])
<1>1. PICK m \in old :
          /\ \/ /\ store' = [store EXCEPT ![m.tenant] = Effect(m)]
                /\ late' = late \union {m.tenant}
             \/ UNCHANGED <<store, late>>
          /\ UNCHANGED <<wire, inbox>>
  BY DEF ServeOld
<1>2. store \in [Tenants -> Claims \union {None}]
  BY DEF IInv, NetOK, NetTypeOK
<1>3. QED
  BY <1>1, <1>2

LEMMA ServeOldAwaits ==
    ASSUME IInv, ServeOld, UNCHANGED frame, NEW p \in Procs
    PROVE  /\ Unsent(p) => Unsent(p)'
           /\ Awaits(p) /\ frame[p].tenant \in Tenants => Awaits(p)'
<1>1. UNCHANGED <<wire, inbox, frame>>
  BY ServeOldFacts
<1>2. Unsent(p) => Unsent(p)'
  BY <1>1 DEF Unsent, NoneFrom
<1>3. Asked(p)' = Asked(p) /\ (Disclaimed => Disclaimed')
  BY <1>1 DEF Asked, Payload, Disclaimed
<1>4. frame[p].tenant \in Tenants /\ store[frame[p].tenant] = Payload(frame[p])
          => frame[p].tenant \in late' \/ store'[frame[p].tenant] = Payload(frame[p])
  BY ServeOldFacts
<1>5. frame[p].tenant \in Tenants /\ frame[p].tenant \in late => frame[p].tenant \in late'
  BY ServeOldFacts
<1>6. QED
  BY <1>1, <1>2, <1>3, <1>4, <1>5 DEF Awaits, Payload

-----------------------------------------------------------------------------
\* What any step of a handler does to the rest.

\* A handler works only while the backend serves, or at a request it has
\* already taken; it changes its own frame and makes its own calls.
Within(h) ==
    /\ Elsewhere(h)
    /\ NetMove(h)
    /\ UNCHANGED hostVars
    /\ phase = "serving" \/ frame[h].op # "none"

\* Each way to move is a move of one's own frame.
LEMMA OwnFrame ==
    ASSUME IInv, NEW p \in Procs,
           \/ UNCHANGED frame
           \/ Return(p)
           \/ \E f : Enter(p, f)
           \/ \E pc : Goto(p, pc)
    PROVE  Elsewhere(p)
BY NobodyMoves, ReturnMoves, EnterMoves, GotoMoves

\* Each way to call is a call of one's own.
LEMMA OwnCall ==
    ASSUME IInv, NEW p \in Procs,
           \/ UNCHANGED netVars
           \/ Accepted(p)
           \/ Refused(p)
           \/ frame[p].op \notin {"none", "Reconcile"} /\ Push(p, frame[p].tenant, frame[p].jwt)
           \/ frame[p].op \notin {"none", "Reconcile"} /\ Delete(p, frame[p].tenant)
           \/ \E t \in Tenants : Push(p, t, frame[p].todo[t])
    PROVE  NetMove(p)
<1>1. frame[p] \in Frame /\ (frame[p].op \notin {"none", "Reconcile"} => frame[p].tenant \in Tenants)
  BY FrameFacts DEF Sound
<1>2. frame[p].jwt \in Claims \union {None} /\ \A t \in Tenants : frame[p].todo[t] \in Claims \union {None}
  BY <1>1 DEF Frame
<1>3. QED
  BY <1>1, <1>2 DEF NetMove, Push, Delete

LEMMA TenantStepWithin ==
    ASSUME IInv, NEW h \in Procs, TenantStep(h)
    PROVE  Within(h)
<1>1. CASE CreateStep(h)
  BY <1>1, OwnFrame, OwnCall
     DEF CreateStep, CreateInsert, CreateSaveSeed, CreatePush, CreateAnswer, CreateUndo,
         LastStatusWrite, PushOrSkip, Accepting, At, Within
<1>2. CASE UpdateStep(h)
  BY <1>2, OwnFrame, OwnCall
     DEF UpdateStep, UpdateGet, UpdateWrite, UpdatePush, UpdateAnswer, PushOrSkip,
         Accepting, At, Within
<1>3. CASE SuspendStep(h)
  BY <1>3, OwnFrame, OwnCall
     DEF SuspendStep, SuspendGet, SuspendDelete, SuspendAnswer, SuspendMark, LastStatusWrite,
         DeleteOrSkip, Accepting, At, Within
<1>4. CASE ActivateStep(h)
  BY <1>4, OwnFrame, OwnCall
     DEF ActivateStep, ActivateGet, ActivatePush, ActivateAnswer, ActivateMark,
         LastStatusWrite, PushOrSkip, Accepting, At, Within
<1>5. CASE DeleteStep(h)
  BY <1>5, OwnFrame, OwnCall
     DEF DeleteStep, DeleteGet, DeleteRequest, DeleteAnswer, DeleteMark, LastStatusWrite,
         DeleteOrSkip, Accepting, At, Within
<1>6. CASE ReconcileStep(h)
  BY <1>6, OwnFrame, OwnCall
     DEF ReconcileStep, ReconcileList, ReconcileLoop, ReconcilePush, ReconcileAnswer,
         ReconcileReturn, ReconcileEnds, Accepting, At, Within
<1>7. QED
  BY <1>1, <1>2, <1>3, <1>4, <1>5, <1>6 DEF TenantStep

LEMMA OtherStepWithin ==
    ASSUME IInv, NEW h \in Procs, JetStreamStep(h) \/ CredentialStep(h)
    PROVE  Within(h)
<1>1. CASE JetStreamStep(h)
  BY <1>1, OwnFrame, OwnCall
     DEF JetStreamStep, JetStreamGet, JetStreamConnect, JetStreamReseed, JetStreamPush,
         JetStreamAnswer, PushOrSkip, Accepting, At, Within
<1>2. CASE IssueStep(h)
  BY <1>2, OwnFrame, OwnCall
     DEF IssueStep, IssueGet, IssueLoadSeed, IssueInsert, Accepting, At, Within
<1>3. CASE RevokeStep(h)
  BY <1>3, OwnFrame, OwnCall
     DEF RevokeStep, RevokeGet, RevokeGetTenant, RevokeSelect, RevokeWrite, RevokeMark,
         RevokePush, RevokeAnswer, PushOrSkip, Accepting, At, Within
<1>4. QED
  BY <1>1, <1>2, <1>3 DEF CredentialStep

LEMMA HandleWithin ==
    ASSUME IInv, NEW h \in Handlers, Handle(h)
    PROVE  Within(h)
BY HandlersAreProcs, TenantStepWithin, OtherStepWithin DEF Handle

-----------------------------------------------------------------------------
\* The boot.

\* A tenant is still to be pushed with the JWT it has, or is served with it and
\* nothing on the wire concerns it; what dead processes left may interfere.
Healed(t) ==
    \/ frame[Main].todo[t] = tenants[t].jwt
    \/ /\ frame[Main].todo[t] = None
       /\ t \in late \/ store[t] = tenants[t].jwt
       /\ Quiet(t)

Reconciling ==
    /\ frame[Main].op = "Reconcile"
    /\ \/ frame[Main].pc = "push" /\ Unsent(Main)
       \/ /\ frame[Main].pc = "answer"
          /\ Awaits(Main)
          /\ frame[Main].todo[frame[Main].tenant] # None
    /\ ~frame[Main].failed => \A t \in Tenants : Active(t) => Healed(t)

\* The inductive invariant of the boot.
BInv ==
    /\ phase # "serving" => \A h \in Handlers : frame[h] = IdleFrame /\ NoneFrom(h)
    /\ phase # "booting" => frame[Main] = IdleFrame /\ Unsent(Main)
    /\ phase = "booting" => Reconciling

\* Nobody but the boot works before the backend serves.
LEMMA HandleKeepsBoot ==
    ASSUME IInv, BInv, NEW h \in Handlers, Handle(h)
    PROVE  BInv' /\ phase' = phase
<1>1. Within(h) /\ h \in Procs /\ h # Main
  BY HandleWithin, HandlersAreProcs, ResolverAssumption
<1>2. phase = "serving" /\ phase' = "serving"
  BY <1>1 DEF Within, BInv, IdleFrame, hostVars
<1>3. frame'[Main] = IdleFrame /\ Unsent(Main)'
  BY <1>1, <1>2, MainIsProc, OthersNet DEF Within, Elsewhere, BInv, Unsent
<1>4. QED
  BY <1>2, <1>3 DEF BInv

\* The steps of the boot, and those that end or disturb it.
LEMMA BootKeepsBoot ==
    ASSUME IInv, BInv, Boot
    PROVE  BInv'
<1>1. PICK f \in {ReconcileFrame(ActiveJWTs(tenants)),
                  [ReconcileFrame(Nothing) EXCEPT !.failed = TRUE]} : Enter(Main, f)
  BY DEF Boot
<1>2. /\ UNCHANGED <<tenants, store, inbox>> /\ wire' = <<>>
      /\ phase = "down" /\ phase' = "booting"
  BY DEF Boot, Dial, dbVars
<1>3. Elsewhere(Main) /\ frame'[Main] = f
  BY <1>1, MainIsProc, EnterMoves
<1>4. \A h \in Handlers : frame'[h] = IdleFrame /\ NoneFrom(h)'
  BY <1>2, <1>3, HandlersAreProcs, ResolverAssumption DEF BInv, Elsewhere, NoneFrom
<1>5. f.op = "Reconcile" /\ f.pc = "push" /\ Unsent(Main)'
  <2>1. f.op = "Reconcile" /\ f.pc = "push"
    BY DEF ReconcileFrame, Opened, IdleFrame
  <2>2. inbox'[Main] = "none" /\ DOMAIN wire' = {}
    BY <1>2 DEF BInv, Unsent
  <2>3. QED
    BY <2>1, <2>2 DEF Unsent, NoneFrom
<1>6. ~f.failed => \A t \in Tenants : Active(t) => f.todo[t] = tenants[t].jwt
  <2>1. CASE f = ReconcileFrame(ActiveJWTs(tenants))
    <3>1. f.todo = ActiveJWTs(tenants)
      BY <2>1 DEF ReconcileFrame, Opened, IdleFrame
    <3>2. QED
      BY <3>1 DEF ActiveJWTs, Active
  <2>2. CASE f = [ReconcileFrame(Nothing) EXCEPT !.failed = TRUE]
    BY <2>2 DEF ReconcileFrame, Opened, IdleFrame
  <2>3. QED
    BY <2>1, <2>2
<1>7. ~f.failed => \A t \in Tenants : Active(t)' => Healed(t)'
  BY <1>2, <1>3, <1>6 DEF Active, Healed
<1>8. QED
  BY <1>2, <1>3, <1>4, <1>5, <1>7 DEF BInv, Reconciling

\* Before a request is served only the boot waits for an answer.
LEMMA BootOwnsWire ==
    ASSUME IInv, BInv, phase = "booting", NoneFrom(Main)
    PROVE  Disclaimed
<1>1. \A p \in Procs : NoneFrom(p)
  BY DEF Procs, BInv
<1>2. \A i \in DOMAIN wire : wire[i].from \in Procs \union {None}
  BY WireFacts DEF Request
<1>3. QED
  BY <1>1, <1>2 DEF NoneFrom, Disclaimed

LEMMA ReconcilePushKeepsBoot ==
    ASSUME IInv, BInv, ReconcilePush(Main), UNCHANGED credVars
    PROVE  BInv'
<1> DEFINE f == frame[Main]
<1>1. PICK t \in Tenants : /\ f.todo[t] # None
                          /\ Push(Main, t, f.todo[t])
                          /\ Enter(Main, [f EXCEPT !.pc = "answer", !.tenant = t])
  BY DEF ReconcilePush
<1>2. /\ f.op = "Reconcile" /\ f.pc = "push"
      /\ UNCHANGED <<tenants, phase>>
  BY DEF ReconcilePush, At, dbVars, hostVars
<1>3. f \in Frame /\ f.todo[t] \in Claims \union {None}
  BY FrameFacts, MainIsProc DEF Frame
<1>4. phase = "booting" /\ Unsent(Main) /\ (~f.failed => \A s \in Tenants : Active(s) => Healed(s))
  BY <1>2 DEF BInv, IdleFrame, Reconciling
<1>5. Disclaimed
  BY <1>4, BootOwnsWire DEF Unsent
<1>6. Elsewhere(Main) /\ frame'[Main] = [f EXCEPT !.pc = "answer", !.tenant = t]
  BY <1>1, MainIsProc, EnterMoves
<1>7. /\ frame'[Main].op = "Reconcile" /\ frame'[Main].pc = "answer" /\ frame'[Main].tenant = t
      /\ frame'[Main].todo = f.todo /\ frame'[Main].failed = f.failed
  BY <1>2, <1>3, <1>6 DEF Frame
<1>8. Send(Main, "UPDATE", t, f.todo[t])
  BY <1>1 DEF Push
<1>9. /\ store' = store /\ late' = late
      /\ \/ /\ inbox'[Main] = "waiting"
            /\ wire' # <<>>
            /\ wire'[Len(wire')] =
                   [kind |-> "UPDATE", tenant |-> t, jwt |-> f.todo[t], from |-> Main]
            /\ \A i \in DOMAIN wire' : i # Len(wire') => i \in DOMAIN wire /\ wire'[i] = wire[i]
         \/ inbox'[Main] = "error" /\ wire' = wire /\ "full" \in Faults
  BY <1>3, <1>8, MainIsProc, SendFacts
<1>10. Asked(Main)' = [kind |-> "UPDATE", tenant |-> t, jwt |-> f.todo[t], from |-> Main]
  BY <1>7 DEF Asked, Payload
<1>11. Awaits(Main)'
  BY <1>5, <1>9, <1>10 DEF Awaits, Disclaimed
<1>12. \A s \in Tenants : s # t /\ Quiet(s) => Quiet(s)'
  BY <1>9 DEF Quiet
<1>13. ~f.failed => \A s \in Tenants : Active(s)' => Healed(s)'
  BY <1>1, <1>2, <1>4, <1>7, <1>9, <1>12 DEF Active, Healed
<1>14. \A h \in Handlers : frame'[h] = IdleFrame /\ NoneFrom(h)'
  <2>1. NetMove(Main)
    BY <1>3, <1>8 DEF NetMove
  <2>2. QED
    BY <1>4, <1>6, <2>1, OthersNet, MainIsProc, HandlersAreProcs, ResolverAssumption DEF BInv, Elsewhere
<1>15. QED
  BY <1>1, <1>2, <1>4, <1>7, <1>11, <1>13, <1>14 DEF BInv, Reconciling

\* An answer takes its tenant off the list; without an error the entry is the
\* one that was asked for and the wire is empty.
LEMMA ReconcileAnswerKeepsBoot ==
    ASSUME IInv, BInv, ReconcileAnswer(Main), UNCHANGED credVars
    PROVE  BInv'
<1> DEFINE f == frame[Main]
<1>1. /\ f.op = "Reconcile" /\ f.pc = "answer"
      /\ UNCHANGED <<tenants, phase>>
  BY DEF ReconcileAnswer, At, dbVars, hostVars
<1>2. f \in Frame /\ f.tenant \in Tenants
  BY <1>1, FrameFacts, MainIsProc DEF Sound
<1>3. /\ phase = "booting" /\ Awaits(Main) /\ f.todo[f.tenant] # None
      /\ ~f.failed => \A s \in Tenants : Active(s) => Healed(s)
  BY <1>1 DEF BInv, IdleFrame, Reconciling
<1>4. PICK failed \in BOOLEAN : /\ Enter(Main, Pushed(f, failed))
                               /\ \/ Accepted(Main) /\ ~failed
                                  \/ Refused(Main) /\ failed
  BY DEF ReconcileAnswer
<1>5. Elsewhere(Main) /\ frame'[Main] = Pushed(f, failed)
  BY <1>4, MainIsProc, EnterMoves
<1>6. /\ frame'[Main].op = "Reconcile" /\ frame'[Main].pc = "push"
      /\ frame'[Main].failed = (f.failed \/ failed)
      /\ \A s \in Tenants : frame'[Main].todo[s] = IF s = f.tenant THEN None ELSE f.todo[s]
  BY <1>1, <1>2, <1>5 DEF Pushed, Frame
<1>7. inbox \in [Procs -> Replies] /\ wire \in Seq(Request)
  BY DEF IInv, NetOK, NetTypeOK
<1>8. Unsent(Main)'
  <2>1. inbox'[Main] = "none"
    BY <1>4, <1>7, MainIsProc DEF Accepted, Refused
  <2>2. CASE Accepted(Main)
    <3>1. wire' = <<>>
      BY <1>3, <2>2 DEF Accepted, Awaits
    <3>2. QED
      BY <2>1, <3>1, EmptySeq DEF Unsent, NoneFrom
  <2>3. CASE Refused(Main) /\ wire' = wire /\ inbox[Main] = "error"
    BY <1>3, <2>1, <2>3, ResolverAssumption, MainIsProc DEF Awaits, Disclaimed, Unsent, NoneFrom
  <2>4. CASE wire' = Disowned(wire, {Main})
    BY <1>7, <2>1, <2>4, DisownedWire, DisownedFrom, MainIsProc DEF Unsent, NoneFrom
  <2>5. QED
    BY <1>4, <2>2, <2>3, <2>4 DEF Refused
<1>9. ASSUME ~f.failed, ~failed, NEW s \in Tenants, Active(s)'
      PROVE  Healed(s)'
  <2>1. Active(s) /\ Healed(s)
    BY <1>1, <1>3, <1>9 DEF Active
  <2>2. /\ wire = <<>> /\ wire' = wire /\ store' = store /\ late' = late
        /\ f.tenant \in late \/ store[f.tenant] = f.todo[f.tenant]
    BY <1>1, <1>3, <1>4, <1>9 DEF Accepted, Awaits, Payload
  <2>3. Quiet(s)'
    BY <2>2, EmptySeq DEF Quiet
  <2>4. CASE s = f.tenant
    BY <1>1, <1>3, <1>6, <2>1, <2>2, <2>3, <2>4 DEF Healed
  <2>5. CASE s # f.tenant
    BY <1>1, <1>6, <2>1, <2>2, <2>3, <2>5 DEF Healed
  <2>6. QED
    BY <2>4, <2>5
<1>10. \A h \in Handlers : frame'[h] = IdleFrame /\ NoneFrom(h)'
  <2>1. NetMove(Main)
    BY <1>4 DEF NetMove
  <2>2. QED
    BY <1>3, <1>5, <2>1, OthersNet, MainIsProc, HandlersAreProcs, ResolverAssumption DEF BInv, Elsewhere
<1>11. QED
  BY <1>1, <1>3, <1>6, <1>8, <1>9, <1>10 DEF BInv, Reconciling

LEMMA BootDoneKeepsBoot ==
    ASSUME IInv, BInv, BootDone
    PROVE  BInv'
<1>1. /\ frame[Main].pc = "push" /\ phase = "booting" /\ phase' = "serving"
      /\ Return(Main) /\ UNCHANGED netVars
  BY DEF BootDone, ReconcileEnds, At
<1>2. Unsent(Main)
  BY <1>1 DEF BInv, Reconciling
<1>3. frame'[Main] = IdleFrame
  BY <1>1, MainIsProc, EnterMoves DEF Return
<1>4. QED
  BY <1>1, <1>2, <1>3 DEF BInv, Unsent, NoneFrom, netVars

LEMMA CrashKeepsBoot ==
    ASSUME IInv, BInv, Crash
    PROVE  BInv'
<1>1. CutWire /\ phase' = "down" /\ frame' = [p \in Procs |-> IdleFrame]
  BY DEF Crash
<1>2. \A p \in Procs : frame'[p] = IdleFrame /\ Unsent(p)'
  BY <1>1, CutFacts, ResolverAssumption DEF Unsent, NoneFrom
<1>3. QED
  BY <1>1, <1>2, MainIsProc, HandlersAreProcs DEF BInv, Unsent

LEMMA ServeKeepsBoot ==
    ASSUME IInv, BInv, Serve
    PROVE  BInv'
<1>1. ServeRequest /\ UNCHANGED <<frame, tenants, phase>>
  BY DEF Serve, dbVars, hostVars
<1>2. \A p \in Procs : NoneFrom(p) => NoneFrom(p)' /\ inbox'[p] = inbox[p]
  BY <1>1, ServeUnsent
<1>3. \A t \in Tenants : Quiet(t) =>
          Quiet(t)' /\ store'[t] = store[t] /\ (t \in late' <=> t \in late)
  BY <1>1, MainIsProc, ServeUnsent
<1>4. \A p \in Procs : Unsent(p) => Unsent(p)'
  BY <1>2 DEF Unsent
<1>5. Awaits(Main) => Awaits(Main)'
  BY <1>1, MainIsProc, ServeAwaits
<1>6. \A t \in Tenants : Active(t)' = Active(t) /\ (Healed(t) => Healed(t)')
  BY <1>1, <1>3 DEF Active, Healed
<1>7. Reconciling => Reconciling'
  BY <1>1, <1>4, <1>5, <1>6, MainIsProc DEF Reconciling
<1>8. QED
  BY <1>1, <1>2, <1>4, <1>7, MainIsProc, HandlersAreProcs DEF BInv

LEMMA ServeLateKeepsBoot ==
    ASSUME IInv, BInv, ServeLate
    PROVE  BInv'
<1>1. ServeOld /\ UNCHANGED <<frame, tenants, phase>>
  BY DEF ServeLate, dbVars, hostVars
<1>2. UNCHANGED <<wire, inbox>>
  BY <1>1, ServeOldFacts
<1>3. \A p \in Procs : (NoneFrom(p) => NoneFrom(p)') /\ (Unsent(p) => Unsent(p)')
  BY <1>2 DEF Unsent, NoneFrom
<1>4. \A t \in Tenants : Active(t)' = Active(t) /\ (Healed(t) => Healed(t)')
  BY <1>1, <1>2, ServeOldFacts DEF Active, Healed, Quiet
<1>5. Reconciling => Reconciling'
  <2>1. frame[Main].op = "Reconcile" /\ frame[Main].pc = "answer" => frame[Main].tenant \in Tenants
    BY FrameFacts, MainIsProc DEF Sound
  <2>2. QED
    BY <1>1, <1>3, <1>4, <2>1, MainIsProc, ServeOldAwaits DEF Reconciling
<1>6. QED
  BY <1>1, <1>3, <1>5, MainIsProc, HandlersAreProcs DEF BInv

LEMMA InitBoot == Init => BInv
<1> SUFFICES ASSUME Init PROVE BInv
  OBVIOUS
<1>1. wire = <<>> /\ phase = "down" /\ \A p \in Procs : frame[p] = IdleFrame /\ inbox[p] = "none"
  BY DEF Init, NetInit, TenantInit
<1>2. \A p \in Procs : NoneFrom(p)
  BY <1>1, EmptySeq DEF NoneFrom
<1>3. QED
  BY <1>1, <1>2, MainIsProc, HandlersAreProcs DEF BInv, Unsent

LEMMA NextKeepsBoot == "wipe" \notin Faults => (IInv /\ BInv /\ [Next]_vars => BInv')
<1> SUFFICES ASSUME "wipe" \notin Faults, IInv, BInv, [Next]_vars PROVE BInv'
  OBVIOUS
<1>1. CASE BootReconcile
  BY <1>1, ReconcilePushKeepsBoot, ReconcileAnswerKeepsBoot DEF BootReconcile, ReconcileLoop
<1>2. CASE BootDegraded
  BY <1>2 DEF BootDegraded, BInv, netVars, Unsent, NoneFrom
<1>3. CASE Wipe
  BY <1>3 DEF Wipe, LoseStore, hostVars, BInv, Unsent, NoneFrom
<1>4. CASE UNCHANGED vars
  BY <1>4 DEF vars, BInv, Reconciling, Healed, Active, Quiet, Awaits, Asked, Payload,
             Disclaimed, Unsent, NoneFrom
<1>5. ASSUME NEW h \in Handlers, Handle(h) PROVE BInv'
  BY <1>5, HandleKeepsBoot
<1>6. QED
  BY <1>1, <1>2, <1>3, <1>4, <1>5, BootKeepsBoot, BootDoneKeepsBoot, CrashKeepsBoot,
     ServeKeepsBoot, ServeLateKeepsBoot
  DEF Next

(***************************************************************************)
(* Unless the resolver loses its directory under the running backend, a    *)
(* boot whose pushes all succeeded starts to serve with every active       *)
(* tenant's account_jwt in the resolver: for any number of tenants, in     *)
(* whatever order the listing has them, and whatever else fails, but for   *)
(* the entries a request of a dead process has overwritten since.          *)
(***************************************************************************)
THEOREM BootHealsTenants ==
    ASSUME "wipe" \notin Faults
    PROVE  Spec => BootHeals
<1> DEFINE Step == phase = "booting" /\ phase' = "serving" /\ ~frame[Main].failed
                       => \A t \in Tenants \ late : Active(t) => store[t] = tenants[t].jwt
<1>1. IInv /\ BInv /\ [Next]_vars => Step
  <2> SUFFICES ASSUME IInv, BInv, [Next]_vars, phase = "booting", phase' = "serving",
                      ~frame[Main].failed, NEW t \in Tenants \ late, Active(t)
               PROVE  store[t] = tenants[t].jwt
    OBVIOUS
  <2>1. CASE BootDone
    <3>1. Healed(t) /\ frame[Main].todo[t] = None
      BY <2>1 DEF BootDone, ReconcileEnds, Nothing, BInv, Reconciling
    <3>2. tenants[t].jwt # None
      BY NoneIsNoClaims DEF Active, IInv, DbOK, Row
    <3>3. QED
      BY <3>1, <3>2 DEF Healed
  <2>2. ASSUME NEW h \in Handlers, Handle(h) PROVE FALSE
    BY <2>2, HandleKeepsBoot
  <2>3. CASE BootReconcile
    BY <2>3 DEF BootReconcile, ReconcileLoop, ReconcilePush, ReconcileAnswer, hostVars
  <2>4. QED
    BY <2>1, <2>2, <2>3
       DEF Next, vars, Boot, BootDegraded, Crash, Wipe, Serve, ServeLate, hostVars
<1>2. IInv /\ BInv /\ [Next]_vars => BInv'
  BY NextKeepsBoot
<1>3. Spec => [][Step]_vars
  BY <1>1, <1>2, InitBoot, Invariance, PTL DEF Spec
<1>4. QED
  BY <1>3 DEF BootHeals

-----------------------------------------------------------------------------
\* Requests one at a time.

\* A request is taken, and goes on, only while no other one is under way.
Turn == \A h, k \in Handlers : Handle(h) /\ frame[k].op # "none" => h = k

OneAtATime == [][Turn]_vars

\* What may happen then: the backend dies, and the resolver comes back empty
\* while the backend is down.
OnlyRestarts == Faults \subseteq {"crash", "cold"}

Alone == \A h, k \in Handlers : frame[h].op # "none" /\ frame[k].op # "none" => h = k

\* A request that has written what it has not yet published, or the reverse.
Changing(f) ==
    \/ f.op = "Create"
    \/ f.op \in {"Update", "Revoke", "JetStream"} /\ f.pc \in {"mark", "push", "answer"}
    \/ f.op \in {"Suspend", "Delete", "Activate"} /\ f.pc \in {"answer", "mark"}

\* What a frame may rely on: its row, its JWT and its list are those of the
\* database, and a status is written when the resolver has done its part.
Handled(f) ==
    /\ f.op = "Create" => f.pc # "undo"
    /\ f.op # "Reconcile"
           /\ f.pc \in {"saveSeed", "write", "push", "delete", "answer", "mark", "select"}
       => Visible(f.tenant)
    /\ f.op \in {"Create", "Update", "Activate", "Revoke", "JetStream"}
           /\ f.pc \in {"saveSeed", "push", "answer", "mark"}
       => f.jwt = tenants[f.tenant].jwt
    /\ f.op \in {"Suspend", "Delete", "Activate"} /\ f.pc = "mark" =>
           /\ wire = <<>>
           /\ \/ f.tenant \in late
              \/ store[f.tenant] = IF f.op = "Activate" THEN f.jwt ELSE None
    /\ f.op = "Reconcile" =>
           \A t \in Tenants : f.todo[t] # None => Active(t) /\ f.todo[t] = tenants[t].jwt
    /\ f.op = "Reconcile" /\ f.pc = "answer" => f.todo[f.tenant] # None
    /\ f.op = "Revoke" /\ f.pc \in {"push", "answer"} => creds[f.user].revoked

Absent(t) == tenants[t] = None \/ tenants[t].status = "deleted"

OneCall == \A h \in Handlers : IF frame[h].pc = "answer" THEN Awaits(h) ELSE Unsent(h)

\* What is on its way for an active tenant is what it has, and once the backend
\* serves it is not what a dead process left.
WireFresh ==
    \A i \in DOMAIN wire : Active(wire[i].tenant) =>
        /\ wire[i].kind = "UPDATE" => wire[i].jwt = tenants[wire[i].tenant].jwt
        /\ phase = "serving" => wire[i].from # None

AbsentDark == \A t \in Tenants : Absent(t) => (t \in late \/ store[t] = None) /\ Quiet(t)

ServedFresh ==
    phase = "serving" => \A t \in Tenants : Active(t) =>
        \/ t \in late
        \/ store[t] = tenants[t].jwt
        \/ \E h \in Handlers : frame[h].tenant = t /\ Changing(frame[h])

AckedRevoked == \A u \in acked : creds[u] # None /\ creds[u].revoked

\* The inductive invariant, next to those of the rows and of the boot.
SInv ==
    /\ Alone
    /\ phase # "down" => sysConn
    /\ ~frame[Main].failed
    /\ OneCall
    /\ \A p \in Procs : Handled(frame[p])
    /\ WireFresh
    /\ AbsentDark
    /\ ServedFresh
    /\ RevocationHolds
    /\ AckedRevoked

Settled == RInv /\ EInv /\ BInv /\ SInv

Solo(h) == \A k \in Handlers : k # h => frame[k].op = "none"

\* A handler takes a step, with no other request under way.
Steps(h) ==
    /\ Settled
    /\ IInv' /\ EInv' /\ BInv'
    /\ Solo(h)
    /\ Within(h)
    /\ phase = "serving"

\* Under OnlyRestarts neither a statement nor a push fails.
LEMMA NothingElseFails ==
    ASSUME OnlyRestarts
    PROVE  /\ "timeout" \notin Faults /\ "reject" \notin Faults /\ "full" \notin Faults
           /\ "db" \notin Faults /\ "wipe" \notin Faults /\ "degraded" \notin Faults
           /\ Faults \intersect {"reject", "full"} = {}
           /\ ~DbReadFails
           /\ \A r \in DbOutcomes : r.applied /\ ~r.err
<1>1. "db" \notin Faults
  BY DEF OnlyRestarts
<1>2. DbOutcomes = {[applied |-> TRUE, err |-> FALSE]}
  BY <1>1 DEF DbOutcomes
<1>3. \A r \in DbOutcomes : r.applied /\ ~r.err
  BY <1>2
<1>4. QED
  BY <1>1, <1>3 DEF OnlyRestarts, DbReadFails

\* A process that does nothing relies on nothing.
LEMMA IdleFacts ==
    ASSUME IInv, NEW p \in Procs, frame[p].op = "none"
    PROVE  frame[p].pc = "idle" /\ ~Changing(frame[p]) /\ Handled(frame[p])
<1>1. frame[p].pc = "idle"
  BY FrameFacts DEF Sound
<1>2. QED
  BY <1>1 DEF Changing, Handled

\* Without a call under way everything on the wire is a dead process's.
LEMMA NobodyWaits ==
    ASSUME Settled, NEW h \in Handlers, Solo(h), phase = "serving", frame[h].pc # "answer"
    PROVE  Disclaimed
<1>1. IInv /\ Unsent(Main) /\ Unsent(h)
  BY DEF Settled, RInv, BInv, SInv, OneCall
<1>2. ASSUME NEW k \in Handlers, k # h PROVE Unsent(k)
  BY <1>1, <1>2, IdleFacts, HandlersAreProcs DEF Solo, Settled, SInv, OneCall
<1>3. \A p \in Procs : NoneFrom(p)
  BY <1>1, <1>2 DEF Procs, Unsent
<1>4. \A i \in DOMAIN wire : wire[i].from \in Procs \union {None}
  BY <1>1, WireFacts DEF Request
<1>5. QED
  BY <1>3, <1>4 DEF NoneFrom, Disclaimed

\* ... and none of it concerns an active tenant.
LEMMA NoOldRequests ==
    ASSUME Settled, phase = "serving", Disclaimed, NEW t \in Tenants, Active(t)
    PROVE  Quiet(t)
BY DEF Settled, SInv, WireFresh, Disclaimed, Quiet

\* A step of one handler: what is left to show concerns that handler's frame
\* and the tables.
LEMMA SerialStep ==
    ASSUME NEW h \in Handlers, Steps(h),
           IF frame'[h].pc = "answer" THEN Awaits(h)' ELSE Unsent(h)',
           Handled(frame[h])',
           WireFresh', AbsentDark', ServedFresh', RevocationHolds', AckedRevoked'
    PROVE  SInv'
<1>1. /\ IInv /\ h \in Procs /\ h # Main /\ Main \in Procs
      /\ phase' = "serving" /\ sysConn' = sysConn
      /\ Elsewhere(h) /\ NetMove(h)
  BY HandlersAreProcs, MainIsProc, ResolverAssumption
     DEF Steps, Settled, RInv, Within, hostVars
<1>2. \A k \in Handlers : k # h => frame'[k] = frame[k] /\ frame[k].op = "none" /\ k \in Procs
  BY <1>1, HandlersAreProcs DEF Steps, Solo, Elsewhere
<1>3. Alone'
  BY <1>2 DEF Alone
<1>4. frame'[Main] = IdleFrame
  BY <1>1 DEF Steps, BInv
<1>5. ASSUME NEW k \in Handlers, k # h PROVE Unsent(k)' /\ frame'[k].pc = "idle" /\ frame'[k].op = "none"
  <2>1. frame[k].pc = "idle" /\ Unsent(k)
    BY <1>1, <1>2, <1>5, IdleFacts DEF Steps, Settled, SInv, OneCall
  <2>2. QED
    BY <1>1, <1>2, <1>5, <2>1, OthersNet DEF Unsent
<1>6. OneCall'
  BY <1>5 DEF OneCall
<1>7. ASSUME NEW p \in Procs PROVE Handled(frame[p])'
  <2>1. CASE p = h
    BY <2>1
  <2>2. CASE p # h
    <3>1. frame'[p].op = "none" /\ frame'[p].pc = "idle"
      BY <1>4, <1>5, <2>2 DEF Procs, IdleFrame
    <3>2. QED
      BY <3>1 DEF Handled
  <2>3. QED
    BY <2>1, <2>2
<1>8. sysConn' /\ ~frame'[Main].failed
  BY <1>1, <1>4 DEF Steps, Settled, SInv, IdleFrame
<1>9. QED
  BY <1>3, <1>6, <1>7, <1>8 DEF SInv

\* A revoked user is refused when the resolver serves the JWT of the row.
LEMMA FreshRefuses ==
    ASSUME IInv', EInv', NEW u \in Users, creds'[u] # None, creds'[u].revoked,
           NEW t \in Tenants, creds'[u].tenant = t, store'[t] = tenants'[t].jwt
    PROVE  u \in store'[t].revoked
BY DEF EInv, RevocationKept

\* The steps of a handler by what they touch: nothing the resolver sees, ...
CredsStay ==
    \A u \in Users : creds[u] # None =>
        /\ creds'[u] # None /\ creds'[u].tenant = creds[u].tenant
        /\ creds[u].revoked => creds'[u].revoked

\* The request goes on changing what it was changing.
Onward(h) ==
    Changing(frame[h]) => Changing(frame'[h]) /\ frame'[h].tenant = frame[h].tenant

\* An acknowledged revocation is that of a user.
LEMMA AckedUsers ==
    ASSUME Settled, NEW u \in acked
    PROVE  u \in Users /\ creds[u] # None /\ creds[u].tenant \in Tenants
<1>1. u \in Users /\ creds[u] # None
  BY DEF Settled, RInv, IInv, DbOK, CredentialTypeOK, SInv, AckedRevoked
<1>2. QED
  BY <1>1, OwnerFacts DEF Settled

\* A step that changes neither the database nor what is on its way.
LEMMA QuietStep ==
    ASSUME NEW h \in Handlers, Steps(h), UNCHANGED <<tenants, netVars, acked>>, CredsStay,
           frame[h].pc # "answer", frame'[h].pc # "answer", Handled(frame[h])', Onward(h)
    PROVE  SInv'
<1>1. /\ SInv /\ phase = "serving" /\ phase' = "serving" /\ Elsewhere(h)
      /\ UNCHANGED <<tenants, store, late, wire, inbox, acked>>
  BY DEF Steps, Settled, Within, hostVars, netVars
<1>2. Unsent(h)'
  BY <1>1 DEF SInv, OneCall, Unsent, NoneFrom
<1>3. WireFresh' /\ AbsentDark'
  BY <1>1 DEF SInv, WireFresh, AbsentDark, Active, Absent, Quiet
<1>4. ServedFresh'
  <2> SUFFICES ASSUME NEW t \in Tenants \ late, Active(t), store[t] # tenants[t].jwt
               PROVE  \E k \in Handlers : frame'[k].tenant = t /\ Changing(frame'[k])
    BY <1>1 DEF ServedFresh, Active
  <2>1. PICK k \in Handlers : frame[k].tenant = t /\ Changing(frame[k])
    BY <1>1 DEF SInv, ServedFresh
  <2>2. QED
    BY <1>1, <2>1, HandlersAreProcs DEF Elsewhere, Onward
<1>5. RevocationHolds' /\ AckedRevoked'
  BY <1>1, AckedUsers DEF SInv, RevocationHolds, AckedRevoked, CredsStay, Active, Steps
<1>6. QED
  BY <1>2, <1>3, <1>4, <1>5, SerialStep

\* ... the row of one tenant, ...
LEMMA RowStep ==
    ASSUME NEW h \in Handlers, Steps(h), UNCHANGED <<credVars, netVars>>,
           NEW t \in Tenants, \A s \in Tenants : s # t => tenants'[s] = tenants[s],
           frame[h].pc # "answer", frame'[h].pc # "answer", Handled(frame[h])',
           Changing(frame[h]) => frame[h].tenant = t,
           Absent(t)' => (t \in late \/ store[t] = None) /\ Quiet(t),
           Active(t)' => /\ Quiet(t)
                         /\ \/ t \in late \/ store[t] = tenants'[t].jwt
                            \/ frame'[h].tenant = t /\ Changing(frame'[h])
                         /\ \/ t \in late \/ store[t] \in {None, tenants'[t].jwt}
                            \/ Active(t)
    PROVE  SInv'
<1>1. /\ SInv /\ phase = "serving" /\ phase' = "serving" /\ Elsewhere(h) /\ IInv'
      /\ UNCHANGED <<store, late, wire, inbox, acked, creds>>
  BY DEF Steps, Settled, Within, hostVars, netVars, credVars
<1>2. Unsent(h)'
  BY <1>1 DEF SInv, OneCall, Unsent, NoneFrom
<1>3. WireFresh'
  <2> SUFFICES ASSUME NEW i \in DOMAIN wire, Active(wire[i].tenant)'
               PROVE  /\ wire[i].kind = "UPDATE" => wire[i].jwt = tenants'[wire[i].tenant].jwt
                      /\ wire[i].from # None
    BY <1>1 DEF WireFresh
  <2>1. wire[i].tenant \in Tenants
    BY WireFacts DEF Steps, Settled, RInv
  <2>2. wire[i].tenant # t
    BY <1>1 DEF Quiet
  <2>3. QED
    BY <1>1, <2>1, <2>2 DEF SInv, WireFresh, Active
<1>4. AbsentDark'
  <2>1. ASSUME NEW s \in Tenants, s # t, Absent(s)' PROVE ((s \in late \/ store[s] = None) /\ Quiet(s))'
    BY <1>1, <2>1 DEF SInv, AbsentDark, Absent, Quiet
  <2>2. Absent(t)' => ((t \in late \/ store[t] = None) /\ Quiet(t))'
    BY <1>1 DEF Quiet
  <2>3. QED
    BY <2>1, <2>2 DEF AbsentDark
<1>5. ServedFresh'
  <2> SUFFICES ASSUME NEW s \in Tenants \ late, Active(s)', store[s] # tenants'[s].jwt
               PROVE  \E k \in Handlers : frame'[k].tenant = s /\ Changing(frame'[k])
    BY <1>1 DEF ServedFresh
  <2>1. CASE s = t
    BY <2>1
  <2>2. CASE s # t
    <3>1. PICK k \in Handlers : frame[k].tenant = s /\ Changing(frame[k])
      BY <1>1, <2>2 DEF SInv, ServedFresh, Active
    <3>2. QED
      BY <1>1, <2>2, <3>1, HandlersAreProcs DEF Elsewhere
  <2>3. QED
    BY <2>1, <2>2
<1>6. AckedRevoked'
  BY <1>1 DEF SInv, AckedRevoked
<1>7. RevocationHolds'
  <2> SUFFICES ASSUME NEW u \in acked, NEW s \in Tenants \ late, s = creds[u].tenant, Active(s)',
                      store[s] # None
               PROVE  u \in store[s].revoked
    <3>1. \A u \in acked : creds[u].tenant \in Tenants
      BY AckedUsers DEF Steps
    <3>2. QED
      BY <1>1, <3>1 DEF RevocationHolds
  <2>1. CASE Active(s)
    BY <1>1, <2>1 DEF SInv, RevocationHolds
  <2>2. CASE ~Active(s)
    <3>1. s = t /\ store'[s] = tenants'[s].jwt
      BY <1>1, <2>2 DEF Active
    <3>2. u \in Users /\ creds'[u] # None /\ creds'[u].revoked /\ EInv'
      BY <1>1, AckedUsers DEF SInv, AckedRevoked, Steps
    <3>3. QED
      BY <1>1, <3>1, <3>2, FreshRefuses
  <2>3. QED
    BY <2>1, <2>2
<1>8. QED
  BY <1>2, <1>3, <1>4, <1>5, <1>6, <1>7, SerialStep

\* ... a request to the resolver, ...
LEMMA AskStep ==
    ASSUME OnlyRestarts, NEW h \in Handlers, Steps(h), UNCHANGED <<tenants, credVars>>,
           NEW kind \in {"UPDATE", "DELETE"}, NEW t \in Tenants,
           NEW jwt \in Claims \union {None}, Send(h, kind, t, jwt),
           frame[h].pc # "answer", frame'[h].pc = "answer",
           Asked(h)' = [kind |-> kind, tenant |-> t, jwt |-> jwt, from |-> h],
           ~Absent(t), kind = "UPDATE" /\ Active(t) => jwt = tenants[t].jwt,
           Handled(frame[h])', Onward(h)
    PROVE  SInv'
<1>1. /\ SInv /\ phase = "serving" /\ phase' = "serving" /\ Elsewhere(h) /\ IInv
      /\ UNCHANGED <<acked, creds>> /\ h \in Procs
  BY HandlersAreProcs DEF Steps, Settled, RInv, Within, hostVars, credVars
<1>2. Disclaimed
  BY NobodyWaits DEF Steps
<1> DEFINE m == [kind |-> kind, tenant |-> t, jwt |-> jwt, from |-> h]
<1>3. /\ store' = store /\ late' = late
      /\ inbox'[h] = "waiting"
      /\ wire' # <<>>
      /\ wire'[Len(wire')] = m
      /\ \A i \in DOMAIN wire' : i # Len(wire') => i \in DOMAIN wire /\ wire'[i] = wire[i]
  BY <1>1, SendFacts, NothingElseFails
<1>4. m.kind = kind /\ m.tenant = t /\ m.jwt = jwt /\ m.from = h /\ h # None
  BY <1>1, ResolverAssumption
<1>5. Asked(h)' = m
  OBVIOUS
<1> HIDE DEF m
<1>6. Awaits(h)'
  BY <1>2, <1>3, <1>5 DEF Awaits, Disclaimed
<1>7. WireFresh'
  <2> SUFFICES ASSUME NEW i \in DOMAIN wire', Active(wire'[i].tenant)
               PROVE  /\ wire'[i].kind = "UPDATE" => wire'[i].jwt = tenants[wire'[i].tenant].jwt
                      /\ wire'[i].from # None
    BY <1>1 DEF WireFresh, Active
  <2>1. CASE i = Len(wire')
    BY <1>3, <1>4, <2>1
  <2>2. CASE i # Len(wire')
    BY <1>1, <1>3, <2>2 DEF SInv, WireFresh
  <2>3. QED
    BY <2>1, <2>2
<1>8. AbsentDark'
  <2> SUFFICES ASSUME NEW s \in Tenants, Absent(s)
               PROVE  /\ s \in late' \/ store'[s] = None
                      /\ \A i \in DOMAIN wire' : wire'[i].tenant # s
    BY DEF AbsentDark, Absent, Quiet
  <2>1. (s \in late \/ store[s] = None) /\ Quiet(s) /\ s # t
    BY <1>1 DEF SInv, AbsentDark
  <2>2. QED
    BY <1>3, <1>4, <2>1 DEF Quiet
<1>9. ServedFresh'
  <2> SUFFICES ASSUME NEW s \in Tenants \ late, Active(s), store[s] # tenants[s].jwt
               PROVE  \E k \in Handlers : frame'[k].tenant = s /\ Changing(frame'[k])
    BY <1>1, <1>3 DEF ServedFresh, Active
  <2>1. PICK k \in Handlers : frame[k].tenant = s /\ Changing(frame[k])
    BY <1>1 DEF SInv, ServedFresh
  <2>2. QED
    BY <1>1, <2>1, HandlersAreProcs DEF Elsewhere, Onward
<1>10. RevocationHolds' /\ AckedRevoked'
  BY <1>1, <1>3 DEF SInv, RevocationHolds, AckedRevoked, Active
<1>11. QED
  BY <1>6, <1>7, <1>8, <1>9, <1>10, SerialStep

\* ... or its answer: the wire is then empty and the entry is the one asked for,
\* or that of a dead process's request.
LEMMA Answered ==
    ASSUME OnlyRestarts, IInv, NEW p \in Procs, Awaits(p), Accepted(p) \/ Refused(p)
    PROVE  /\ Accepted(p)
           /\ wire = <<>> /\ wire' = <<>> /\ store' = store /\ late' = late
           /\ frame[p].tenant \in late \/ store[frame[p].tenant] = Payload(frame[p])
           /\ Unsent(p)'
<1>1. inbox[p] # "error"
  BY NothingElseFails DEF Awaits
<1>2. Accepted(p)
  BY <1>1, NothingElseFails DEF Refused
<1>3. /\ wire = <<>> /\ wire' = <<>> /\ store' = store /\ late' = late
      /\ frame[p].tenant \in late \/ store[frame[p].tenant] = Payload(frame[p])
  BY <1>2 DEF Awaits, Accepted
<1>4. inbox'[p] = "none"
  BY <1>2 DEF Accepted, IInv, NetOK, NetTypeOK
<1>5. QED
  BY <1>2, <1>3, <1>4, EmptySeq DEF Unsent, NoneFrom

\* The answer to the one request under way is in.
LEMMA AnswerStep ==
    ASSUME OnlyRestarts, NEW h \in Handlers, Steps(h), UNCHANGED <<tenants, creds>>,
           frame[h].pc = "answer", frame'[h].pc # "answer", Accepted(h) \/ Refused(h),
           \/ acked' = acked
           \/ acked' = acked \union {frame[h].user} /\ frame[h].op = "Revoke",
           Handled(frame[h])',
           Active(frame[h].tenant) /\ Changing(frame[h]) =>
               \/ frame[h].tenant \in late
               \/ store[frame[h].tenant] = tenants[frame[h].tenant].jwt
               \/ Changing(frame'[h]) /\ frame'[h].tenant = frame[h].tenant
    PROVE  SInv'
<1>1. /\ SInv /\ phase = "serving" /\ phase' = "serving" /\ Elsewhere(h) /\ IInv /\ RInv
      /\ h \in Procs
  BY HandlersAreProcs DEF Steps, Settled, RInv, Within, hostVars
<1>2. /\ wire = <<>> /\ wire' = <<>> /\ store' = store /\ late' = late /\ Unsent(h)'
      /\ frame[h].tenant \in late \/ store[frame[h].tenant] = Payload(frame[h])
  BY <1>1, Answered DEF SInv, OneCall
<1>3. WireFresh'
  BY <1>2, EmptySeq DEF WireFresh
<1>4. AbsentDark'
  BY <1>1, <1>2 DEF SInv, AbsentDark, Absent, Quiet
<1>5. ServedFresh'
  <2> SUFFICES ASSUME NEW t \in Tenants \ late, Active(t), store[t] # tenants[t].jwt
               PROVE  \E k \in Handlers : frame'[k].tenant = t /\ Changing(frame'[k])
    BY <1>1, <1>2 DEF ServedFresh, Active
  <2>1. PICK k \in Handlers : frame[k].tenant = t /\ Changing(frame[k])
    BY <1>1 DEF SInv, ServedFresh
  <2>2. QED
    BY <1>1, <2>1, HandlersAreProcs DEF Elsewhere
<1>6. ASSUME acked' = acked \union {frame[h].user}, frame[h].op = "Revoke"
      PROVE  LET u == frame[h].user
             IN /\ creds[u] # None /\ creds[u].revoked
                /\ Active(creds[u].tenant) /\ creds[u].tenant \notin late => u \in store[creds[u].tenant].revoked
  <2> DEFINE u == frame[h].user
  <2>1. /\ u \in Users /\ creds[u] # None /\ creds[u].tenant = frame[h].tenant
        /\ frame[h].tenant \in Tenants
    BY <1>1, <1>6, RevokeFrames
  <2>2. creds[u].revoked /\ frame[h].jwt = tenants[frame[h].tenant].jwt
    BY <1>1, <1>6 DEF SInv, Handled
  <2>3. frame[h].tenant \in late \/ store[frame[h].tenant] = frame[h].jwt
    BY <1>2, <1>6 DEF Payload
  <2>4. u \in tenants[frame[h].tenant].jwt.revoked
    BY <2>1, <2>2 DEF Steps, Settled, EInv, RevocationKept
  <2>5. QED
    BY <2>1, <2>2, <2>3, <2>4
<1>7. RevocationHolds' /\ AckedRevoked'
  BY <1>1, <1>2, <1>6 DEF SInv, RevocationHolds, AckedRevoked, Active
<1>8. QED
  BY <1>2, <1>3, <1>4, <1>5, <1>7, SerialStep

-----------------------------------------------------------------------------
\* The steps that several operations share.

\* What Steps says, unfolded once.
LEMMA StepFacts ==
    ASSUME NEW h \in Handlers, Steps(h)
    PROVE  /\ IInv /\ h \in Procs /\ sysConn /\ SInv /\ Handled(frame[h])
           /\ frame[h] \in Frame
           /\ frame[h].op \notin {"none", "Reconcile"}
                  => frame[h].tenant \in Tenants /\ tenants[frame[h].tenant] # None
<1>1. IInv /\ h \in Procs /\ sysConn /\ SInv /\ Handled(frame[h])
  BY HandlersAreProcs DEF Steps, Settled, RInv, SInv
<1>2. QED
  BY <1>1, FrameFacts DEF Sound

\* Steps that do not touch the credentials.
LEMMA CredsAlone == ASSUME UNCHANGED creds PROVE CredsStay
BY DEF CredsStay

\* An idle frame relies on nothing.
LEMMA NothingHeld ==
    ASSUME NEW h \in Handlers, frame'[h].op = "none", frame'[h].pc = "idle"
    PROVE  Handled(frame[h])'
BY DEF Handled

\* A request is taken.
LEMMA OpeningStep ==
    ASSUME NEW h \in Handlers, Steps(h), UNCHANGED <<tenants, netVars, credVars>>,
           frame[h].op = "none", frame'[h].pc # "answer", Handled(frame[h])'
    PROVE  SInv'
<1>1. frame[h].pc # "answer" /\ Onward(h)
  BY StepFacts, IdleFacts DEF Onward
<1>2. CredsStay /\ UNCHANGED <<tenants, netVars, acked>>
  BY CredsAlone DEF credVars
<1>3. QED
  BY <1>1, <1>2, QuietStep

\* A request that changed nothing ends.
LEMMA LeavingStep ==
    ASSUME NEW h \in Handlers, Steps(h), UNCHANGED <<tenants, netVars, acked>>, CredsStay,
           frame[h].pc # "answer", ~Changing(frame[h]), Return(h)
    PROVE  SInv'
<1>1. Handled(frame[h])' /\ frame'[h].pc # "answer"
  BY StepFacts, ReturnMoves, NothingHeld
<1>2. QED
  BY <1>1, QuietStep DEF Onward

\* The handler pushes the JWT of its row.
LEMMA OwnPushStep ==
    ASSUME OnlyRestarts, NEW h \in Handlers, Steps(h), UNCHANGED <<tenants, credVars>>,
           frame[h].op \in {"Create", "Update", "Activate", "Revoke", "JetStream"},
           frame[h].pc = "push",
           Push(h, frame[h].tenant, frame[h].jwt), Goto(h, "answer")
    PROVE  SInv'
<1> DEFINE t == frame[h].tenant
<1>1. /\ t \in Tenants /\ Visible(t) /\ frame[h].jwt = tenants[t].jwt
      /\ frame[h].jwt \in Claims \union {None}
  BY StepFacts DEF Handled, Frame
<1>2. /\ frame'[h].op = frame[h].op /\ frame'[h].pc = "answer" /\ frame'[h].tenant = t
      /\ frame'[h].jwt = frame[h].jwt /\ frame'[h].user = frame[h].user
  BY StepFacts, GotoMoves
<1>3. Send(h, "UPDATE", t, frame[h].jwt)
  BY DEF Push
<1>4. Asked(h)' = [kind |-> "UPDATE", tenant |-> t, jwt |-> frame[h].jwt, from |-> h]
  BY <1>2 DEF Asked, Payload
<1>5. Handled(frame[h])'
  BY <1>1, <1>2, StepFacts DEF Handled, Visible, credVars
<1>6. Onward(h) /\ ~Absent(t)
  BY <1>1, <1>2 DEF Onward, Changing, Visible, Absent
<1>7. QED
  BY <1>1, <1>2, <1>3, <1>4, <1>5, <1>6, AskStep

\* The handler asks for the entry of its tenant to be removed.
LEMMA OwnDeleteStep ==
    ASSUME OnlyRestarts, NEW h \in Handlers, Steps(h), UNCHANGED <<tenants, credVars>>,
           frame[h].op \in {"Suspend", "Delete"}, frame[h].pc = "delete",
           Delete(h, frame[h].tenant), Goto(h, "answer")
    PROVE  SInv'
<1> DEFINE t == frame[h].tenant
<1>1. t \in Tenants /\ Visible(t)
  BY StepFacts DEF Handled
<1>2. frame'[h].op = frame[h].op /\ frame'[h].pc = "answer" /\ frame'[h].tenant = t
  BY StepFacts, GotoMoves
<1>3. Send(h, "DELETE", t, None)
  BY DEF Delete
<1>4. Asked(h)' = [kind |-> "DELETE", tenant |-> t, jwt |-> None, from |-> h]
  BY <1>2 DEF Asked, Payload
<1>5. Handled(frame[h])'
  BY <1>1, <1>2 DEF Handled, Visible
<1>6. Onward(h) /\ ~Absent(t)
  BY <1>1, <1>2 DEF Onward, Changing, Visible, Absent
<1>7. QED
  BY <1>1, <1>2, <1>3, <1>4, <1>5, <1>6, AskStep

\* The handler takes its answer and ends.
LEMMA OwnAnswerStep ==
    ASSUME OnlyRestarts, NEW h \in Handlers, Steps(h), UNCHANGED <<tenants, creds>>,
           frame[h].op \in {"Create", "Update", "Revoke", "JetStream"},
           frame[h].pc = "answer", Accepted(h) \/ Refused(h), Return(h),
           \/ acked' = acked
           \/ acked' = acked \union {frame[h].user} /\ frame[h].op = "Revoke"
    PROVE  SInv'
<1>1. Awaits(h)
  BY StepFacts DEF SInv, OneCall
<1>2. frame[h].tenant \in late \/ store[frame[h].tenant] = Payload(frame[h])
  BY <1>1, StepFacts, Answered
<1>3. frame[h].tenant \in late \/ store[frame[h].tenant] = tenants[frame[h].tenant].jwt
  BY <1>2, StepFacts DEF Payload, Handled
<1>4. Handled(frame[h])' /\ frame'[h].pc # "answer"
  BY StepFacts, ReturnMoves, NothingHeld
<1>5. QED
  BY <1>3, <1>4, AnswerStep

\* The handler takes its answer and goes on to write the status.
LEMMA ToMarkStep ==
    ASSUME OnlyRestarts, NEW h \in Handlers, Steps(h), UNCHANGED <<tenants, credVars>>,
           frame[h].op \in {"Suspend", "Activate", "Delete"},
           frame[h].pc = "answer", Accepted(h) \/ Refused(h), Goto(h, "mark")
    PROVE  SInv'
<1>1. Awaits(h)
  BY StepFacts DEF SInv, OneCall
<1>2. /\ wire' = <<>> /\ store' = store /\ late' = late
      /\ frame[h].tenant \in late \/ store[frame[h].tenant] = Payload(frame[h])
  BY <1>1, StepFacts, Answered
<1>3. /\ frame'[h].op = frame[h].op /\ frame'[h].pc = "mark"
      /\ frame'[h].tenant = frame[h].tenant /\ frame'[h].jwt = frame[h].jwt
  BY StepFacts, GotoMoves
<1>4. Handled(frame[h])'
  BY <1>2, <1>3, StepFacts DEF Handled, Payload, Visible
<1>5. Changing(frame'[h]) /\ UNCHANGED <<creds, acked>>
  BY <1>3 DEF Changing, credVars
<1>6. QED
  BY <1>3, <1>4, <1>5, AnswerStep

\* The handler writes the status that the resolver has been told.
LEMMA OwnMarkStep ==
    ASSUME OnlyRestarts, NEW h \in Handlers, Steps(h), UNCHANGED credVars,
           frame[h].pc = "mark",
           NEW status \in {"active", "suspended", "deleted"}, LastStatusWrite(h, status),
           \/ frame[h].op = "Suspend" /\ status = "suspended"
           \/ frame[h].op = "Activate" /\ status = "active"
           \/ frame[h].op = "Delete" /\ status = "deleted"
    PROVE  SInv'
<1>0. PICK t \in Tenants : t = frame[h].tenant
  BY StepFacts
<1>1. /\ tenants[t] # None /\ wire = <<>>
      /\ t \in late \/ store[t] = IF frame[h].op = "Activate" THEN frame[h].jwt ELSE None
      /\ frame[h].op = "Activate" => frame[h].jwt = tenants[t].jwt
      /\ tenants \in [Tenants -> Row \union {None}]
  BY <1>0, StepFacts DEF Handled, IInv, DbOK
<1>2. WriteStatus(t, status) /\ Return(h) /\ UNCHANGED netVars
  BY <1>0, NothingElseFails DEF LastStatusWrite
<1>3. /\ \A s \in Tenants : s # t => tenants'[s] = tenants[s]
      /\ tenants'[t] = [tenants[t] EXCEPT !.status = status]
      /\ tenants[t] \in Row
  BY <1>1, <1>2 DEF WriteStatus
<1>4. tenants'[t].status = status /\ tenants'[t].jwt = tenants[t].jwt /\ tenants'[t] # None
  <2>1. [tenants[t] EXCEPT !.status = status] \in Row
    BY <1>3 DEF Row
  <2>2. QED
    BY <1>3, <2>1, RowAssumption DEF Row
<1>5. Handled(frame[h])' /\ frame'[h].pc # "answer"
  BY <1>2, StepFacts, ReturnMoves, NothingHeld
<1>6. Quiet(t)
  BY <1>1, EmptySeq DEF Quiet
<1>7. Absent(t)' => t \in late \/ store[t] = None
  BY <1>1, <1>4 DEF Absent
<1>8. Active(t)' => t \in late \/ store[t] = tenants'[t].jwt
  BY <1>1, <1>4 DEF Active
<1>9. QED
  BY <1>0, <1>1, <1>2, <1>3, <1>5, <1>6, <1>7, <1>8, RowStep DEF Changing

\* A request that edits a row goes on to publish it.
LEMMA OwnWriteStep ==
    ASSUME NEW h \in Handlers, Steps(h), UNCHANGED <<credVars, netVars>>,
           frame[h].op \in {"Update", "Revoke"}, frame[h].pc = "write",
           NEW row \in Row, WriteJWT(frame[h].tenant, row),
           row.status = tenants[frame[h].tenant].status, row.jwt = frame[h].jwt,
           \/ frame[h].op = "Update" /\ Goto(h, "push")
           \/ frame[h].op = "Revoke" /\ Goto(h, "mark")
    PROVE  SInv'
<1>0. PICK t \in Tenants : t = frame[h].tenant
  BY StepFacts
<1>1. /\ Visible(t) /\ tenants \in [Tenants -> Row \union {None}]
  BY <1>0, StepFacts DEF Handled, IInv, DbOK
<1>2. /\ \A s \in Tenants : s # t => tenants'[s] = tenants[s]
      /\ tenants'[t] = row /\ row # None
  BY <1>0, <1>1, RowAssumption DEF WriteJWT
<1>3. /\ frame'[h].op = frame[h].op /\ frame'[h].pc \in {"push", "mark"}
      /\ (frame[h].op = "Revoke" => frame'[h].pc = "mark")
      /\ frame'[h].tenant = t /\ frame'[h].jwt = frame[h].jwt
  BY <1>0, StepFacts, GotoMoves
<1>4. Handled(frame[h])'
  BY <1>0, <1>1, <1>2, <1>3 DEF Handled, Visible
<1>5. Changing(frame'[h]) /\ ~Changing(frame[h])
  BY <1>3 DEF Changing
<1>6. Active(t)' => Active(t)
  BY <1>0, <1>1, <1>2 DEF Active, Visible
<1>7. Active(t)' => Quiet(t)
  BY <1>1, <1>6, NobodyWaits, NoOldRequests DEF Steps
<1>8. ~Absent(t)'
  BY <1>0, <1>1, <1>2 DEF Absent, Visible
<1>9. frame'[h].pc # "answer"
  BY <1>3
<1>10. QED
  BY <1>0, <1>1, <1>2, <1>3, <1>4, <1>5, <1>6, <1>7, <1>8, <1>9, RowStep

-----------------------------------------------------------------------------
\* The operations, one at a time.

\* The fields of a frame that has just been opened.
LEMMA OpenedParts ==
    ASSUME NEW op, NEW pc, NEW t
    PROVE  /\ Opened(op, pc, t).op = op
           /\ Opened(op, pc, t).pc = pc
           /\ Opened(op, pc, t).tenant = t
BY DEF Opened, IdleFrame

\* The operations, one by one.
LEMMA CreateSerial ==
    ASSUME OnlyRestarts, NEW h \in Handlers, Steps(h), CreateStep(h), UNCHANGED credVars
    PROVE  SInv'
<1>1. CASE CreateInsert(h)
  <2>1. PICK t \in Tenants, n \in Limits, r \in DbOutcomes :
            LET jwt == NewAccountClaims(n)
            IN /\ tenants[t] = None
               /\ IF r.applied
                      THEN WriteJWT(t, [status |-> "active", jwt |-> jwt, limit |-> n])
                      ELSE UNCHANGED dbVars
               /\ IF r.err
                      THEN UNCHANGED frame
                      ELSE Enter(h, [Opened("Create", "saveSeed", t) EXCEPT !.jwt = jwt])
    BY <1>1 DEF CreateInsert
  <2> DEFINE jwt == NewAccountClaims(n)
  <2> DEFINE row == [status |-> "active", jwt |-> jwt, limit |-> n]
  <2>2. row \in Row /\ row # None
    BY ClaimsClosed, RowAssumption DEF Row
  <2>3. WriteJWT(t, row) /\ Enter(h, [Opened("Create", "saveSeed", t) EXCEPT !.jwt = jwt])
    BY <2>1, NothingElseFails
  <2>4. /\ \A s \in Tenants : s # t => tenants'[s] = tenants[s]
        /\ tenants'[t] = row
    BY <2>3, StepFacts DEF WriteJWT, IInv, DbOK
  <2>5. /\ frame'[h].op = "Create" /\ frame'[h].pc = "saveSeed"
        /\ frame'[h].tenant = t /\ frame'[h].jwt = jwt
    <3> DEFINE f == [Opened("Create", "saveSeed", t) EXCEPT !.jwt = jwt]
    <3>1. f.op = "Create" /\ f.pc = "saveSeed" /\ f.tenant = t /\ f.jwt = jwt
      BY DEF Opened, IdleFrame
    <3>2. Enter(h, f)
      BY <2>3
    <3> HIDE DEF f
    <3>3. QED
      BY <3>1, <3>2, StepFacts, EnterMoves
  <2>6. frame[h].op = "none" /\ frame[h].pc = "idle" /\ ~Changing(frame[h]) /\ UNCHANGED netVars
    BY <1>1, StepFacts, IdleFacts DEF CreateInsert, Accepting
  <2>7. (t \in late \/ store[t] = None) /\ Quiet(t)
    BY <2>1, StepFacts DEF SInv, AbsentDark, Absent
  <2>8. Handled(frame[h])'
    BY <2>2, <2>4, <2>5 DEF Handled, Visible
  <2>9. Changing(frame'[h])
    BY <2>5 DEF Changing
  <2>10. QED
    BY <2>4, <2>5, <2>6, <2>7, <2>8, <2>9, RowStep
<1>2. CASE CreateSaveSeed(h)
  <2>1. /\ frame[h].op = "Create" /\ frame[h].pc = "saveSeed"
        /\ Goto(h, "push") /\ UNCHANGED <<tenants, netVars>>
    BY <1>2, NothingElseFails DEF CreateSaveSeed, At
  <2>2. /\ frame'[h].op = "Create" /\ frame'[h].pc = "push"
        /\ frame'[h].tenant = frame[h].tenant /\ frame'[h].jwt = frame[h].jwt
    BY <2>1, StepFacts, GotoMoves
  <2>3. Handled(frame[h])'
    BY <2>1, <2>2, StepFacts DEF Handled, Visible
  <2>4. Onward(h) /\ CredsStay /\ UNCHANGED acked
    BY <2>2, CredsAlone DEF Onward, Changing, credVars
  <2>5. QED
    BY <2>1, <2>2, <2>3, <2>4, QuietStep
<1>3. CASE CreatePush(h)
  BY <1>3, StepFacts, OwnPushStep DEF CreatePush, At, PushOrSkip, dbVars
<1>4. CASE CreateAnswer(h)
  <2>1. frame[h].op = "Create" /\ frame[h].pc = "answer" /\ UNCHANGED <<tenants, creds, acked>>
    BY <1>4 DEF CreateAnswer, At, dbVars, credVars
  <2>2. Accepted(h) /\ inbox[h] # "error"
    BY <1>4, <2>1, StepFacts, Answered DEF CreateAnswer, SInv, OneCall, Accepted
  <2>3. ~Refused(h)
    BY <2>2, NothingElseFails DEF Refused
  <2>4. Return(h)
    BY <1>4, <2>3 DEF CreateAnswer
  <2>5. QED
    BY <2>1, <2>2, <2>4, OwnAnswerStep
<1>5. CASE CreateUndo(h)
  BY <1>5, StepFacts DEF CreateUndo, At, Handled
<1>6. QED
  BY <1>1, <1>2, <1>3, <1>4, <1>5 DEF CreateStep

LEMMA UpdateSerial ==
    ASSUME OnlyRestarts, NEW h \in Handlers, Steps(h), UpdateStep(h), UNCHANGED credVars
    PROVE  SInv'
<1>1. CASE UpdateGet(h)
  <2>1. PICK t \in Tenants, n \in Limits :
            /\ Visible(t)
            /\ Enter(h, [Opened("Update", "write", t) EXCEPT
                            !.jwt = WithLimits(tenants[t].jwt, n), !.limit = n])
    BY <1>1 DEF UpdateGet
  <2>2. frame'[h].op = "Update" /\ frame'[h].pc = "write" /\ frame'[h].tenant = t
    <3> DEFINE f == [Opened("Update", "write", t) EXCEPT
                        !.jwt = WithLimits(tenants[t].jwt, n), !.limit = n]
    <3>1. f.op = "Update" /\ f.pc = "write" /\ f.tenant = t
      BY DEF Opened, IdleFrame
    <3>2. Enter(h, f)
      BY <2>1
    <3> HIDE DEF f
    <3>3. QED
      BY <3>1, <3>2, StepFacts, EnterMoves
  <2>3. frame[h].op = "none" /\ UNCHANGED <<tenants, netVars>>
    BY <1>1 DEF UpdateGet, Accepting, dbVars
  <2>4. Handled(frame[h])'
    BY <2>1, <2>2, <2>3 DEF Handled, Visible
  <2>5. QED
    BY <2>2, <2>3, <2>4, OpeningStep
<1>2. CASE UpdateWrite(h)
  <2> DEFINE f == frame[h]
  <2> DEFINE row == [tenants[f.tenant] EXCEPT !.jwt = f.jwt, !.limit = f.limit]
  <2>1. f.op = "Update" /\ f.pc = "write" /\ UNCHANGED netVars
    BY <1>2 DEF UpdateWrite, At
  <2>2. WriteJWT(f.tenant, row) /\ Goto(h, "push")
    BY <1>2, NothingElseFails DEF UpdateWrite
  <2>3. f.jwt \in Claims /\ f.limit \in Limits /\ tenants[f.tenant] \in Row
    BY <2>1, StepFacts, FrameFacts DEF Sound, IInv, DbOK
  <2>4. row \in Row /\ row.status = tenants[f.tenant].status /\ row.jwt = f.jwt
    BY <2>3 DEF Row
  <2> HIDE DEF row
  <2>5. QED
    BY <2>1, <2>2, <2>4, OwnWriteStep
<1>3. CASE UpdatePush(h)
  BY <1>3, StepFacts, OwnPushStep DEF UpdatePush, At, PushOrSkip, dbVars
<1>4. CASE UpdateAnswer(h)
  BY <1>4, OwnAnswerStep DEF UpdateAnswer, At, dbVars, credVars
<1>5. QED
  BY <1>1, <1>2, <1>3, <1>4 DEF UpdateStep

LEMMA StatusSerial ==
    ASSUME OnlyRestarts, NEW h \in Handlers, Steps(h), UNCHANGED credVars,
           SuspendStep(h) \/ ActivateStep(h) \/ DeleteStep(h)
    PROVE  SInv'
<1>1. CASE SuspendGet(h) \/ ActivateGet(h) \/ DeleteGet(h)
  <2>1. PICK t \in Tenants :
            /\ Visible(t)
            /\ \/ Enter(h, Opened("Suspend", "delete", t))
               \/ Enter(h, Opened("Delete", "delete", t))
               \/ Enter(h, [Opened("Activate", "push", t) EXCEPT !.jwt = tenants[t].jwt])
    BY <1>1 DEF SuspendGet, ActivateGet, DeleteGet
  <2>2. /\ frame'[h].tenant = t
        /\ \/ frame'[h].op \in {"Suspend", "Delete"} /\ frame'[h].pc = "delete"
           \/ frame'[h].op = "Activate" /\ frame'[h].pc = "push" /\ frame'[h].jwt = tenants[t].jwt
    <3> DEFINE f == [Opened("Activate", "push", t) EXCEPT !.jwt = tenants[t].jwt]
    <3>1. f.op = "Activate" /\ f.pc = "push" /\ f.tenant = t /\ f.jwt = tenants[t].jwt
      BY DEF Opened, IdleFrame
    <3>2. \/ Enter(h, Opened("Suspend", "delete", t))
          \/ Enter(h, Opened("Delete", "delete", t))
          \/ Enter(h, f)
      BY <2>1
    <3> HIDE DEF f
    <3>3. QED
      BY <3>1, <3>2, StepFacts, EnterMoves, OpenedParts
  <2>3. frame[h].op = "none" /\ UNCHANGED <<tenants, netVars>>
    BY <1>1 DEF SuspendGet, ActivateGet, DeleteGet, Accepting, dbVars
  <2>4. Handled(frame[h])'
    BY <2>1, <2>2, <2>3 DEF Handled, Visible
  <2>5. QED
    BY <2>2, <2>3, <2>4, OpeningStep
<1>2. CASE SuspendDelete(h) \/ DeleteRequest(h)
  BY <1>2, StepFacts, OwnDeleteStep DEF SuspendDelete, DeleteRequest, At, DeleteOrSkip, dbVars
<1>3. CASE ActivatePush(h)
  BY <1>3, StepFacts, OwnPushStep DEF ActivatePush, At, PushOrSkip, dbVars
<1>4. CASE SuspendAnswer(h) \/ ActivateAnswer(h) \/ DeleteAnswer(h)
  <2>1. /\ frame[h].op \in {"Suspend", "Activate", "Delete"} /\ frame[h].pc = "answer"
        /\ UNCHANGED tenants
        /\ Accepted(h) \/ Refused(h)
    BY <1>4 DEF SuspendAnswer, ActivateAnswer, DeleteAnswer, At, dbVars
  <2>2. inbox[h] = "ok"
    BY <2>1, StepFacts, Answered DEF SInv, OneCall, Accepted
  <2>3. ~Refused(h)
    BY <2>2, NothingElseFails DEF Refused
  <2>4. Goto(h, "mark")
    BY <1>4, <2>3 DEF SuspendAnswer, ActivateAnswer, DeleteAnswer
  <2>5. QED
    BY <2>1, <2>4, ToMarkStep
<1>5. CASE SuspendMark(h)
  BY <1>5, OwnMarkStep DEF SuspendMark, At
<1>6. CASE ActivateMark(h)
  BY <1>6, OwnMarkStep DEF ActivateMark, At
<1>7. CASE DeleteMark(h)
  BY <1>7, OwnMarkStep DEF DeleteMark, At
<1>8. QED
  BY <1>1, <1>2, <1>3, <1>4, <1>5, <1>6, <1>7 DEF SuspendStep, ActivateStep, DeleteStep

\* A push of the reconciliation, by a handler or by the boot.
LEMMA ReconcileAsks ==
    ASSUME IInv, NEW p \in Procs, Handled(frame[p]), ReconcilePush(p)
    PROVE  \E t \in Tenants :
               /\ Active(t) /\ frame[p].todo[t] = tenants[t].jwt
               /\ frame[p].todo[t] \in Claims
               /\ Send(p, "UPDATE", t, frame[p].todo[t])
               /\ Elsewhere(p)
               /\ frame'[p].op = "Reconcile" /\ frame'[p].pc = "answer"
               /\ frame'[p].tenant = t /\ frame'[p].todo = frame[p].todo
               /\ frame'[p].failed = frame[p].failed
               /\ Asked(p)' = [kind |-> "UPDATE", tenant |-> t,
                               jwt |-> frame[p].todo[t], from |-> p]
               /\ Handled(frame[p])'
<1> DEFINE f == frame[p]
<1>1. PICK t \in Tenants : /\ f.todo[t] # None
                          /\ Push(p, t, f.todo[t])
                          /\ Enter(p, [f EXCEPT !.pc = "answer", !.tenant = t])
  BY DEF ReconcilePush
<1>2. f.op = "Reconcile" /\ UNCHANGED tenants /\ f \in Frame
  BY FrameFacts DEF ReconcilePush, At, dbVars
<1>3. Elsewhere(p) /\ frame'[p] = [f EXCEPT !.pc = "answer", !.tenant = t]
  BY <1>1, EnterMoves
<1>4. /\ frame'[p].op = "Reconcile" /\ frame'[p].pc = "answer" /\ frame'[p].tenant = t
      /\ frame'[p].todo = f.todo /\ frame'[p].failed = f.failed
  BY <1>2, <1>3 DEF Frame
<1>5. Active(t) /\ f.todo[t] = tenants[t].jwt /\ f.todo[t] \in Claims
  BY <1>1, <1>2 DEF Handled, Frame
<1>6. Asked(p)' = [kind |-> "UPDATE", tenant |-> t, jwt |-> f.todo[t], from |-> p]
  BY <1>4 DEF Asked, Payload
<1>7. Handled(frame[p])'
  BY <1>1, <1>2, <1>4 DEF Handled, Active
<1>8. QED
  BY <1>1, <1>3, <1>4, <1>5, <1>6, <1>7 DEF Push

\* The answer takes the tenant off the list.
LEMMA ReconcileTakes ==
    ASSUME OnlyRestarts, IInv, NEW p \in Procs, Handled(frame[p]), Awaits(p), ReconcileAnswer(p)
    PROVE  /\ Elsewhere(p)
           /\ frame[p].op = "Reconcile" /\ frame[p].pc = "answer"
           /\ frame'[p].op = "Reconcile" /\ frame'[p].pc = "push"
           /\ frame'[p].failed = frame[p].failed
           /\ Handled(frame[p])'
<1> DEFINE f == frame[p]
<1>1. /\ f.op = "Reconcile" /\ f.pc = "answer" /\ UNCHANGED tenants
      /\ f \in Frame /\ f.tenant \in Tenants
      /\ Accepted(p) \/ Refused(p)
  BY FrameFacts DEF ReconcileAnswer, At, dbVars, Sound
<1>2. Accepted(p) /\ inbox[p] = "ok"
  BY <1>1, Answered DEF Accepted
<1>3. ~Refused(p)
  BY <1>2, NothingElseFails DEF Refused
<1>4. Elsewhere(p) /\ frame'[p] = Pushed(f, FALSE)
  BY <1>3, EnterMoves DEF ReconcileAnswer
<1>5. /\ frame'[p].op = "Reconcile" /\ frame'[p].pc = "push" /\ frame'[p].failed = f.failed
      /\ \A t \in Tenants : frame'[p].todo[t] \in {None, f.todo[t]}
  BY <1>1, <1>4 DEF Pushed, Frame
<1>6. Handled(frame[p])'
  BY <1>1, <1>5 DEF Handled, Active
<1>7. QED
  BY <1>1, <1>4, <1>5, <1>6

LEMMA ReconcileSerial ==
    ASSUME OnlyRestarts, NEW h \in Handlers, Steps(h), ReconcileStep(h), UNCHANGED credVars
    PROVE  SInv'
<1>1. CASE ReconcileList(h)
  <2>1. /\ frame'[h] = ReconcileFrame(ActiveJWTs(tenants)) /\ frame[h].op = "none"
        /\ UNCHANGED <<tenants, netVars>>
    BY <1>1, StepFacts, EnterMoves DEF ReconcileList, Accepting, dbVars
  <2>2. /\ frame'[h].op = "Reconcile" /\ frame'[h].pc = "push"
        /\ frame'[h].todo = ActiveJWTs(tenants)
    BY <2>1 DEF ReconcileFrame, Opened, IdleFrame
  <2>3. Handled(frame[h])'
    BY <2>1, <2>2 DEF Handled, Active, ActiveJWTs
  <2>4. QED
    BY <2>1, <2>2, <2>3, OpeningStep
<1>2. CASE ReconcilePush(h)
  <2>1. PICK t \in Tenants :
            /\ Active(t) /\ frame[h].todo[t] = tenants[t].jwt
            /\ frame[h].todo[t] \in Claims
            /\ Send(h, "UPDATE", t, frame[h].todo[t])
            /\ frame'[h].pc = "answer"
            /\ Asked(h)' = [kind |-> "UPDATE", tenant |-> t,
                            jwt |-> frame[h].todo[t], from |-> h]
            /\ Handled(frame[h])'
    BY <1>2, StepFacts, ReconcileAsks
  <2>2. /\ frame[h].op = "Reconcile" /\ frame[h].pc = "push" /\ UNCHANGED tenants
    BY <1>2 DEF ReconcilePush, At, dbVars
  <2>3. Onward(h) /\ ~Absent(t)
    BY <2>1, <2>2 DEF Onward, Changing, Active, Absent
  <2>4. QED
    BY <2>1, <2>2, <2>3, AskStep
<1>3. CASE ReconcileAnswer(h)
  <2>1. frame[h].pc = "answer" /\ UNCHANGED <<tenants, creds, acked>> /\ (Accepted(h) \/ Refused(h))
    BY <1>3 DEF ReconcileAnswer, At, dbVars, credVars
  <2>2. Awaits(h)
    BY <2>1, StepFacts DEF SInv, OneCall
  <2>3. frame[h].op = "Reconcile" /\ frame'[h].pc = "push" /\ Handled(frame[h])'
    BY <1>3, <2>2, StepFacts, ReconcileTakes
  <2>4. ~Changing(frame[h])
    BY <2>3 DEF Changing
  <2>5. QED
    BY <2>1, <2>3, <2>4, AnswerStep
<1>4. CASE ReconcileReturn(h)
  <2>1. /\ frame[h].op = "Reconcile" /\ frame[h].pc = "push" /\ Return(h)
        /\ UNCHANGED <<tenants, netVars, creds, acked>>
    BY <1>4 DEF ReconcileReturn, ReconcileEnds, At, dbVars, credVars
  <2>2. QED
    BY <2>1, CredsAlone, LeavingStep DEF Changing
<1>5. QED
  BY <1>1, <1>2, <1>3, <1>4 DEF ReconcileStep, ReconcileLoop

LEMMA JetStreamSerial ==
    ASSUME OnlyRestarts, NEW h \in Handlers, Steps(h), JetStreamStep(h), UNCHANGED credVars
    PROVE  SInv'
<1>1. CASE JetStreamGet(h)
  <2>1. PICK t \in seeds : Enter(h, Opened("JetStream", "connect", t))
    BY <1>1 DEF JetStreamGet
  <2>2. frame'[h].op = "JetStream" /\ frame'[h].pc = "connect"
    BY <2>1, StepFacts, EnterMoves, OpenedParts
  <2>3. frame[h].op = "none" /\ UNCHANGED <<tenants, netVars>> /\ Handled(frame[h])'
    BY <1>1, <2>2 DEF JetStreamGet, Accepting, dbVars, Handled
  <2>4. QED
    BY <2>2, <2>3, OpeningStep
<1>2. ASSUME frame[h].op = "JetStream", frame[h].pc \in {"connect", "reseed"}, Return(h),
             UNCHANGED <<dbVars, netVars>>
      PROVE  SInv'
  BY <1>2, CredsAlone, LeavingStep DEF Changing, dbVars, credVars
<1>3. CASE JetStreamConnect(h)
  <2>1. CASE Goto(h, "reseed")
    <3>1. /\ frame[h].op = "JetStream" /\ frame[h].pc = "connect"
          /\ UNCHANGED <<tenants, netVars, creds, acked>>
      BY <1>3 DEF JetStreamConnect, At, dbVars, credVars
    <3>2. frame'[h].op = "JetStream" /\ frame'[h].pc = "reseed"
      BY <2>1, <3>1, StepFacts, GotoMoves
    <3>3. Handled(frame[h])' /\ Onward(h)
      BY <3>1, <3>2 DEF Handled, Onward, Changing
    <3>4. QED
      BY <3>1, <3>2, <3>3, CredsAlone, QuietStep
  <2>2. QED
    BY <1>2, <1>3, <2>1 DEF JetStreamConnect, At
<1>4. CASE JetStreamReseed(h)
  <2> DEFINE g == frame[h]
  <2> DEFINE f == [g EXCEPT !.pc = "push", !.jwt = tenants[g.tenant].jwt]
  <2>1. /\ g.op = "JetStream" /\ g.pc = "reseed" /\ g \in Frame
        /\ UNCHANGED <<tenants, netVars, creds, acked>>
    BY <1>4, StepFacts DEF JetStreamReseed, At, dbVars, credVars
  <2>2. CASE Visible(g.tenant) /\ Enter(h, f)
    <3>1. /\ f.op = "JetStream" /\ f.pc = "push" /\ f.tenant = g.tenant
          /\ f.jwt = tenants[g.tenant].jwt
      BY <2>1 DEF Frame
    <3> HIDE DEF f
    <3>2. frame'[h] = f
      BY <2>2, StepFacts, EnterMoves
    <3>3. Handled(frame[h])' /\ Onward(h)
      BY <2>1, <2>2, <3>1, <3>2 DEF Handled, Visible, Onward, Changing
    <3>4. QED
      BY <2>1, <3>1, <3>2, <3>3, CredsAlone, QuietStep
  <2>3. QED
    BY <1>2, <1>4, <2>1, <2>2 DEF JetStreamReseed
<1>5. CASE JetStreamPush(h)
  BY <1>5, StepFacts, OwnPushStep DEF JetStreamPush, At, PushOrSkip, dbVars
<1>6. CASE JetStreamAnswer(h)
  BY <1>6, OwnAnswerStep DEF JetStreamAnswer, At, dbVars, credVars
<1>7. QED
  BY <1>1, <1>3, <1>4, <1>5, <1>6 DEF JetStreamStep

LEMMA IssueSerial ==
    ASSUME NEW h \in Handlers, Steps(h), IssueStep(h)
    PROVE  SInv'
<1>1. CASE IssueGet(h)
  <2>1. PICK t \in Tenants, u \in Users :
            Enter(h, [Opened("Issue", "loadSeed", t) EXCEPT !.user = u])
    BY <1>1 DEF IssueGet
  <2>2. frame'[h].op = "Issue" /\ frame'[h].pc = "loadSeed"
    <3> DEFINE f == [Opened("Issue", "loadSeed", t) EXCEPT !.user = u]
    <3>1. f.op = "Issue" /\ f.pc = "loadSeed"
      BY DEF Opened, IdleFrame
    <3>2. Enter(h, f)
      BY <2>1
    <3> HIDE DEF f
    <3>3. QED
      BY <3>1, <3>2, StepFacts, EnterMoves
  <2>3. frame[h].op = "none" /\ UNCHANGED <<tenants, netVars, credVars>> /\ Handled(frame[h])'
    BY <1>1, <2>2 DEF IssueGet, Accepting, dbVars, Handled
  <2>4. QED
    BY <2>2, <2>3, OpeningStep
<1>2. CASE IssueLoadSeed(h)
  <2>1. /\ frame[h].op = "Issue" /\ frame[h].pc = "loadSeed" /\ ~Changing(frame[h])
        /\ UNCHANGED <<tenants, netVars, creds, acked>> /\ CredsStay
    BY <1>2, CredsAlone DEF IssueLoadSeed, At, dbVars, credVars, Changing
  <2>2. CASE Goto(h, "insert")
    <3>1. frame'[h].op = "Issue" /\ frame'[h].pc = "insert"
      BY <2>1, <2>2, StepFacts, GotoMoves
    <3>2. Handled(frame[h])' /\ Onward(h)
      BY <2>1, <3>1 DEF Handled, Onward
    <3>3. QED
      BY <2>1, <3>1, <3>2, QuietStep
  <2>3. CASE Return(h)
    BY <2>1, <2>3, LeavingStep
  <2>4. QED
    BY <1>2, <2>2, <2>3 DEF IssueLoadSeed
<1>3. CASE IssueInsert(h)
  <2>1. /\ frame[h].op = "Issue" /\ frame[h].pc = "insert" /\ ~Changing(frame[h])
        /\ UNCHANGED <<tenants, netVars, acked>> /\ Return(h)
    BY <1>3 DEF IssueInsert, At, dbVars, Changing
  <2>2. creds[frame[h].user] = None
    BY <2>1, StepFacts DEF Steps, Settled, RInv, Derived
  <2>3. CredsStay
    BY <1>3, <2>2, StepFacts DEF IssueInsert, CredsStay, IInv, DbOK, CredentialTypeOK
  <2>4. QED
    BY <2>1, <2>3, LeavingStep
<1>4. QED
  BY <1>1, <1>2, <1>3 DEF IssueStep

\* A credential already marked is answered with success at once; as nobody is
\* changing anything, the resolver knows of it.
LEMMA RevokeAgainSerial ==
    ASSUME NEW h \in Handlers, Steps(h), frame[h].op = "none", UNCHANGED frame,
           UNCHANGED <<dbVars, creds, netVars, hostVars>>,
           NEW u \in Users, creds[u] # None, creds[u].revoked, acked' = acked \union {u}
    PROVE  SInv'
<1>1. /\ SInv /\ IInv /\ phase = "serving" /\ phase' = "serving"
      /\ UNCHANGED <<tenants, store, late, wire, inbox>>
      /\ frame'[h] = frame[h] /\ frame[h].pc = "idle" /\ Handled(frame[h])
  BY StepFacts, IdleFacts DEF Steps, dbVars, netVars, hostVars
<1>2. \A k \in Handlers : ~Changing(frame[k])
  BY StepFacts, IdleFacts, HandlersAreProcs DEF Steps, Solo
<1>3. \A t \in Tenants \ late : Active(t) => store[t] = tenants[t].jwt
  BY <1>1, <1>2 DEF SInv, ServedFresh
<1>4. Unsent(h)'
  BY <1>1 DEF SInv, OneCall, Unsent, NoneFrom
<1>5. Handled(frame[h])'
  BY <1>1 DEF Handled
<1>6. WireFresh' /\ AbsentDark' /\ ServedFresh'
  BY <1>1, <1>3 DEF SInv, WireFresh, AbsentDark, ServedFresh, Active, Absent, Quiet
<1>7. creds[u].tenant \in Tenants /\ u \in tenants[creds[u].tenant].jwt.revoked
  BY OwnerFacts DEF Steps, Settled, EInv, RevocationKept
<1>8. RevocationHolds'
  BY <1>1, <1>3, <1>7 DEF SInv, RevocationHolds, Active
<1>9. AckedRevoked'
  BY <1>1 DEF SInv, AckedRevoked
<1>10. QED
  BY <1>1, <1>4, <1>5, <1>6, <1>8, <1>9, SerialStep

LEMMA RevokeSerial ==
    ASSUME OnlyRestarts, NEW h \in Handlers, Steps(h), RevokeStep(h)
    PROVE  SInv'
<1>1. CASE RevokeGet(h)
  <2>1. PICK u \in Users :
            /\ creds[u] # None
            /\ \/ /\ creds[u].revoked
                  /\ acked' = acked \union {u}
                  /\ UNCHANGED frame
               \/ /\ Enter(h, [Opened("Revoke", "getTenant", creds[u].tenant) EXCEPT !.user = u])
                  /\ UNCHANGED acked
    BY <1>1 DEF RevokeGet
  <2>2. frame[h].op = "none" /\ UNCHANGED <<dbVars, creds, netVars, hostVars>>
    BY <1>1 DEF RevokeGet, Accepting
  <2>3. CASE creds[u].revoked /\ acked' = acked \union {u} /\ UNCHANGED frame
    BY <2>1, <2>2, <2>3, RevokeAgainSerial
  <2>4. CASE /\ Enter(h, [Opened("Revoke", "getTenant", creds[u].tenant) EXCEPT !.user = u])
             /\ UNCHANGED acked
    <3> DEFINE f == [Opened("Revoke", "getTenant", creds[u].tenant) EXCEPT !.user = u]
    <3>1. f.op = "Revoke" /\ f.pc = "getTenant"
      BY DEF Opened, IdleFrame
    <3>2. Enter(h, f)
      BY <2>4
    <3> HIDE DEF f
    <3>3. frame'[h].op = "Revoke" /\ frame'[h].pc = "getTenant"
      BY <3>1, <3>2, StepFacts, EnterMoves
    <3>4. Handled(frame[h])' /\ UNCHANGED <<tenants, credVars>>
      BY <2>2, <2>4, <3>3 DEF Handled, dbVars, credVars
    <3>5. QED
      BY <2>2, <3>3, <3>4, OpeningStep
  <2>5. QED
    BY <2>1, <2>3, <2>4
<1>2. CASE RevokeGetTenant(h)
  <2>1. /\ frame[h].op = "Revoke" /\ frame[h].pc = "getTenant" /\ ~Changing(frame[h])
        /\ UNCHANGED <<tenants, netVars, creds, acked>> /\ CredsStay
    BY <1>2, CredsAlone DEF RevokeGetTenant, At, dbVars, credVars, Changing
  <2>2. CASE Visible(frame[h].tenant) /\ Goto(h, "select")
    <3>1. /\ frame'[h].op = "Revoke" /\ frame'[h].pc = "select"
          /\ frame'[h].tenant = frame[h].tenant
      BY <2>1, <2>2, StepFacts, GotoMoves
    <3>2. Handled(frame[h])' /\ Onward(h)
      BY <2>1, <2>2, <3>1 DEF Handled, Visible, Onward
    <3>3. QED
      BY <2>1, <3>1, <3>2, QuietStep
  <2>3. CASE Return(h)
    BY <2>1, <2>3, LeavingStep
  <2>4. QED
    BY <1>2, <2>2, <2>3 DEF RevokeGetTenant
<1>3. CASE RevokeSelect(h)
  <2> DEFINE g == frame[h]
  <2> DEFINE f == [g EXCEPT !.pc = "write", !.jwt = WithRevocation(tenants[g.tenant].jwt, g.user)]
  <2>1. /\ g.op = "Revoke" /\ g.pc = "select" /\ ~Changing(g) /\ g \in Frame
        /\ UNCHANGED <<tenants, netVars, creds, acked>> /\ CredsStay
    BY <1>3, StepFacts, CredsAlone DEF RevokeSelect, At, dbVars, credVars, Changing
  <2>2. f.op = "Revoke" /\ f.pc = "write" /\ f.tenant = g.tenant
    BY <2>1 DEF Frame
  <2>3. Enter(h, f)
    BY <1>3, NothingElseFails DEF RevokeSelect
  <2> HIDE DEF f
  <2>4. frame'[h] = f
    BY <2>3, StepFacts, EnterMoves
  <2>5. Handled(frame[h])' /\ Onward(h)
    BY <2>1, <2>2, <2>4, StepFacts DEF Handled, Visible, Onward
  <2>6. QED
    BY <2>1, <2>2, <2>4, <2>5, QuietStep
<1>4. CASE RevokeWrite(h)
  <2> DEFINE f == frame[h]
  <2> DEFINE row == [tenants[f.tenant] EXCEPT !.jwt = f.jwt]
  <2>1. f.op = "Revoke" /\ f.pc = "write" /\ UNCHANGED <<netVars, credVars>>
    BY <1>4 DEF RevokeWrite, At
  <2>2. WriteJWT(f.tenant, row) /\ Goto(h, "mark")
    BY <1>4, NothingElseFails DEF RevokeWrite
  <2>3. f.jwt \in Claims /\ tenants[f.tenant] \in Row
    BY <2>1, StepFacts, FrameFacts DEF Sound, IInv, DbOK
  <2>4. row \in Row /\ row.status = tenants[f.tenant].status /\ row.jwt = f.jwt
    BY <2>3 DEF Row
  <2> HIDE DEF row
  <2>5. QED
    BY <2>1, <2>2, <2>4, OwnWriteStep
<1>5. CASE RevokeMark(h)
  <2>1. /\ frame[h].op = "Revoke" /\ frame[h].pc = "mark"
        /\ UNCHANGED <<tenants, netVars, acked>>
        /\ Goto(h, "push")
        /\ creds' = [creds EXCEPT ![frame[h].user].revoked = TRUE]
    BY <1>5, NothingElseFails DEF RevokeMark, At, dbVars
  <2>2. frame[h].user \in Users /\ creds[frame[h].user] # None
    BY <2>1, RevokeFrames, StepFacts DEF Steps, Settled
  <2>3. /\ creds \in [Users -> Credential \union {None}]
        /\ creds[frame[h].user] \in Credential
    BY <2>2, StepFacts DEF IInv, DbOK, CredentialTypeOK
  <2>4. /\ creds'[frame[h].user] = [creds[frame[h].user] EXCEPT !.revoked = TRUE]
        /\ \A u \in Users : u # frame[h].user => creds'[u] = creds[u]
    BY <2>1, <2>2, <2>3
  <2>5. /\ creds'[frame[h].user] \in Credential
        /\ creds'[frame[h].user].tenant = creds[frame[h].user].tenant
        /\ creds'[frame[h].user].revoked
    BY <2>3, <2>4 DEF Credential
  <2>6. CredsStay
    BY <2>4, <2>5, CredentialAssumption DEF CredsStay
  <2>7. /\ frame'[h].op = "Revoke" /\ frame'[h].pc = "push" /\ frame'[h].user = frame[h].user
        /\ frame'[h].tenant = frame[h].tenant /\ frame'[h].jwt = frame[h].jwt
    BY <2>1, StepFacts, GotoMoves
  <2>8. Handled(frame[h])' /\ Onward(h)
    BY <2>1, <2>5, <2>7, StepFacts DEF Handled, Visible, Onward, Changing
  <2>9. QED
    BY <2>1, <2>6, <2>7, <2>8, QuietStep
<1>6. CASE RevokePush(h)
  BY <1>6, StepFacts, OwnPushStep DEF RevokePush, At, PushOrSkip, dbVars
<1>7. CASE RevokeAnswer(h)
  BY <1>7, OwnAnswerStep DEF RevokeAnswer, At, dbVars
<1>8. QED
  BY <1>1, <1>2, <1>3, <1>4, <1>5, <1>6, <1>7 DEF RevokeStep

LEMMA HandleSerial ==
    ASSUME OnlyRestarts, NEW h \in Handlers, Steps(h), Handle(h)
    PROVE  SInv'
<1>1. CASE TenantStep(h) /\ UNCHANGED credVars
  BY <1>1, CreateSerial, UpdateSerial, StatusSerial, ReconcileSerial DEF TenantStep
<1>2. CASE JetStreamStep(h) /\ UNCHANGED credVars
  BY <1>2, JetStreamSerial
<1>3. CASE CredentialStep(h)
  BY <1>3, IssueSerial, RevokeSerial DEF CredentialStep
<1>4. QED
  BY <1>1, <1>2, <1>3 DEF Handle

-----------------------------------------------------------------------------
\* The process and its environment.

\* Before the backend serves only the boot's own process moves.
LEMMA HandlersRest ==
    ASSUME Settled, phase # "serving", Elsewhere(Main), NetMove(Main) \/ Dial
    PROVE  /\ Alone' /\ OneCall'
           /\ \A h \in Handlers : Handled(frame[h])'
<1>1. ASSUME NEW h \in Handlers
      PROVE  frame'[h] = IdleFrame /\ Unsent(h)'
  <2>1. h \in Procs /\ h # Main /\ IInv
    BY HandlersAreProcs, ResolverAssumption DEF Settled, RInv
  <2>2. frame[h] = IdleFrame
    BY DEF Settled, BInv
  <2>3. Unsent(h)
    BY <2>2 DEF Settled, SInv, OneCall, IdleFrame
  <2>4. frame'[h] = IdleFrame
    BY <2>1, <2>2 DEF Elsewhere
  <2>5. CASE NetMove(Main)
    BY <2>1, <2>3, <2>4, <2>5, MainIsProc, OthersNet DEF Unsent
  <2>6. CASE Dial
    BY <2>3, <2>4, <2>6, EmptySeq DEF Dial, Unsent, NoneFrom
  <2>7. QED
    BY <2>5, <2>6
<1>2. Alone' /\ OneCall'
  BY <1>1 DEF Alone, OneCall, IdleFrame
<1>3. ASSUME NEW h \in Handlers PROVE Handled(frame[h])'
  <2>1. frame'[h].op = "none" /\ frame'[h].pc = "idle"
    BY <1>1 DEF IdleFrame
  <2>2. QED
    BY <2>1, NothingHeld
<1>4. QED
  BY <1>2, <1>3

\* A step before the backend serves.
LEMMA UnservedStep ==
    ASSUME Settled, phase # "serving", phase' # "serving", Elsewhere(Main), NetMove(Main) \/ Dial,
           UNCHANGED <<tenants, credVars>>, sysConn',
           Handled(frame[Main])', ~frame'[Main].failed, WireFresh', AbsentDark'
    PROVE  SInv'
<1>1. Alone' /\ OneCall' /\ \A p \in Procs : Handled(frame[p])'
  BY HandlersRest DEF Procs
<1>2. ServedFresh' /\ RevocationHolds'
  BY DEF ServedFresh, RevocationHolds
<1>3. AckedRevoked'
  BY DEF Settled, SInv, AckedRevoked, credVars
<1>4. QED
  BY <1>1, <1>2, <1>3 DEF SInv

\* The steps of the boot, and those of the environment.
LEMMA BootSerial ==
    ASSUME OnlyRestarts, Settled, Boot
    PROVE  SInv'
<1>1. /\ phase = "down" /\ phase' = "booting" /\ sysConn' = TRUE
      /\ UNCHANGED <<tenants, credVars, store, late>> /\ wire' = <<>> /\ Dial
      /\ Enter(Main, ReconcileFrame(ActiveJWTs(tenants)))
  BY NothingElseFails DEF Boot, Dial, dbVars
<1>2. Elsewhere(Main) /\ frame'[Main] = ReconcileFrame(ActiveJWTs(tenants))
  BY <1>1, MainIsProc, EnterMoves DEF Settled, RInv
<1>3. /\ frame'[Main].op = "Reconcile" /\ frame'[Main].pc = "push"
      /\ frame'[Main].todo = ActiveJWTs(tenants) /\ ~frame'[Main].failed
  BY <1>2 DEF ReconcileFrame, Opened, IdleFrame
<1>4. Handled(frame[Main])'
  BY <1>1, <1>3 DEF Handled, Active, ActiveJWTs
<1>5. WireFresh' /\ AbsentDark'
  BY <1>1, EmptySeq DEF Settled, SInv, WireFresh, AbsentDark, Active, Absent, Quiet
<1>6. QED
  BY <1>1, <1>2, <1>3, <1>4, <1>5, UnservedStep

LEMMA BootReconcileSerial ==
    ASSUME OnlyRestarts, Settled, BootReconcile
    PROVE  SInv'
<1>1. /\ phase = "booting" /\ UNCHANGED <<tenants, credVars, phase, sysConn>> /\ sysConn
      /\ SInv /\ IInv /\ Handled(frame[Main]) /\ ~frame[Main].failed /\ Main \in Procs
      /\ Reconciling
  <2>1. frame[Main].op = "Reconcile" /\ UNCHANGED <<tenants, credVars, phase, sysConn>>
    BY DEF BootReconcile, ReconcileLoop, ReconcilePush, ReconcileAnswer, At, dbVars, hostVars
  <2>2. phase = "booting"
    BY <2>1 DEF Settled, BInv, IdleFrame
  <2>3. QED
    BY <2>1, <2>2, MainIsProc DEF Settled, SInv, BInv, RInv
<1>2. CASE ReconcilePush(Main)
  <2>1. PICK t \in Tenants :
            /\ Active(t) /\ frame[Main].todo[t] = tenants[t].jwt
            /\ frame[Main].todo[t] \in Claims
            /\ Send(Main, "UPDATE", t, frame[Main].todo[t])
            /\ Elsewhere(Main)
            /\ frame'[Main].failed = frame[Main].failed
            /\ Handled(frame[Main])'
    BY <1>1, <1>2, ReconcileAsks
  <2> DEFINE m == [kind |-> "UPDATE", tenant |-> t, jwt |-> frame[Main].todo[t], from |-> Main]
  <2>2. /\ store' = store /\ late' = late
        /\ wire'[Len(wire')] = m
        /\ \A i \in DOMAIN wire' : i # Len(wire') => i \in DOMAIN wire /\ wire'[i] = wire[i]
    BY <1>1, <2>1, SendFacts, NothingElseFails
  <2>3. m.tenant = t /\ m.jwt = tenants[t].jwt
    BY <2>1
  <2> HIDE DEF m
  <2>4. WireFresh'
    BY <1>1, <2>2, <2>3 DEF SInv, WireFresh, Active
  <2>5. AbsentDark'
    <3> SUFFICES ASSUME NEW s \in Tenants, Absent(s)
                 PROVE  /\ s \in late' \/ store'[s] = None
                        /\ \A i \in DOMAIN wire' : wire'[i].tenant # s
      BY <1>1 DEF AbsentDark, Absent, Quiet
    <3>1. (s \in late \/ store[s] = None) /\ Quiet(s) /\ s # t
      BY <1>1, <2>1 DEF SInv, AbsentDark, Absent, Active
    <3>2. QED
      BY <2>2, <2>3, <3>1 DEF Quiet
  <2>6. NetMove(Main)
    BY <2>1 DEF NetMove
  <2>7. QED
    BY <1>1, <2>1, <2>4, <2>5, <2>6, UnservedStep
<1>3. CASE ReconcileAnswer(Main)
  <2>1. Accepted(Main) \/ Refused(Main)
    BY <1>3 DEF ReconcileAnswer
  <2>2. Awaits(Main)
    BY <1>1, <1>3 DEF Reconciling, ReconcileAnswer, At
  <2>3. wire = <<>> /\ wire' = <<>> /\ store' = store /\ late' = late
    BY <1>1, <2>1, <2>2, Answered
  <2>4. Elsewhere(Main) /\ Handled(frame[Main])' /\ ~frame'[Main].failed
    BY <1>1, <1>3, <2>2, ReconcileTakes
  <2>5. WireFresh' /\ AbsentDark'
    BY <1>1, <2>3, EmptySeq DEF SInv, WireFresh, AbsentDark, Absent, Quiet
  <2>6. NetMove(Main)
    BY <2>1 DEF NetMove
  <2>7. QED
    BY <1>1, <2>4, <2>5, <2>6, UnservedStep
<1>4. QED
  BY <1>2, <1>3 DEF BootReconcile, ReconcileLoop

\* The list is exhausted, and so every active tenant is served its JWT with
\* nothing of a dead process left on the way.
LEMMA BootDoneSerial ==
    ASSUME OnlyRestarts, Settled, IInv', EInv', BootDone
    PROVE  SInv'
<1>1. /\ phase = "booting" /\ phase' = "serving" /\ sysConn' = sysConn /\ sysConn
      /\ UNCHANGED <<tenants, netVars, store, late, wire, creds, acked>>
      /\ SInv /\ IInv /\ Reconciling /\ Return(Main) /\ frame[Main].todo = Nothing
  BY DEF BootDone, ReconcileEnds, dbVars, credVars, netVars, Settled, SInv, BInv, RInv
<1>2. Elsewhere(Main) /\ frame'[Main] = IdleFrame /\ NetMove(Main)
  BY <1>1, MainIsProc, EnterMoves DEF Return, NetMove
<1>3. Alone' /\ OneCall' /\ \A h \in Handlers : Handled(frame[h])'
  BY <1>1, <1>2, HandlersRest
<1>4. Handled(frame[Main])' /\ ~frame'[Main].failed
  BY <1>2 DEF Handled, IdleFrame
<1>5. ASSUME NEW t \in Tenants, Active(t)
      PROVE  (t \in late \/ store[t] = tenants[t].jwt) /\ Quiet(t)
  <2>1. Healed(t) /\ frame[Main].todo[t] = None
    BY <1>1, <1>5 DEF Reconciling, SInv, Nothing
  <2>2. tenants[t].jwt # None
    BY <1>1, <1>5, NoneIsNoClaims DEF Active, IInv, DbOK, Row
  <2>3. QED
    BY <2>1, <2>2 DEF Healed
<1>6. WireFresh'
  <2>1. \A i \in DOMAIN wire : wire[i].tenant \in Tenants
    BY <1>1, WireFacts
  <2>2. QED
    BY <1>1, <1>5, <2>1 DEF WireFresh, Active, Quiet
<1>7. AbsentDark' /\ ServedFresh' /\ AckedRevoked'
  BY <1>1, <1>5 DEF SInv, AbsentDark, ServedFresh, AckedRevoked, Active, Absent, Quiet
<1>8. RevocationHolds'
  <2> SUFFICES ASSUME NEW u \in acked, Active(creds[u].tenant), creds[u].tenant \notin late
               PROVE  u \in store[creds[u].tenant].revoked
    BY <1>1 DEF RevocationHolds, Active
  <2>1. u \in Users /\ creds[u] # None /\ creds[u].tenant \in Tenants /\ creds[u].revoked
    BY <1>1, AckedUsers DEF SInv, AckedRevoked
  <2>2. u \in tenants[creds[u].tenant].jwt.revoked
    BY <2>1 DEF Settled, EInv, RevocationKept
  <2>3. QED
    BY <1>5, <2>1, <2>2
<1>9. QED
  BY <1>1, <1>3, <1>4, <1>6, <1>7, <1>8 DEF SInv, Procs

LEMMA CrashSerial ==
    ASSUME Settled, Crash
    PROVE  SInv'
<1>1. /\ phase' = "down" /\ frame' = [p \in Procs |-> IdleFrame] /\ CutWire
      /\ UNCHANGED <<tenants, creds, acked>> /\ SInv /\ IInv
  BY DEF Crash, dbVars, credVars, Settled, RInv
<1>2. /\ \A i \in DOMAIN wire' : /\ i \in DOMAIN wire
                                /\ wire'[i].kind = wire[i].kind
                                /\ wire'[i].tenant = wire[i].tenant
                                /\ wire'[i].jwt = wire[i].jwt
                                /\ wire'[i].from = None
      /\ \A p \in Procs : inbox'[p] = "none"
      /\ store' = store /\ late' = late
  BY <1>1, CutFacts
<1>3. \A p \in Procs : frame'[p] = IdleFrame /\ Unsent(p)'
  BY <1>1, <1>2, ResolverAssumption DEF Unsent, NoneFrom
<1>4. Alone' /\ OneCall' /\ ~frame'[Main].failed
  BY <1>3, HandlersAreProcs, MainIsProc DEF Alone, OneCall, IdleFrame
<1>5. \A p \in Procs : Handled(frame[p])'
  BY <1>3 DEF Handled, IdleFrame
<1>6. WireFresh'
  BY <1>1, <1>2 DEF SInv, WireFresh, Active
<1>7. AbsentDark'
  BY <1>1, <1>2 DEF SInv, AbsentDark, Absent, Quiet
<1>8. ServedFresh' /\ RevocationHolds' /\ AckedRevoked'
  BY <1>1 DEF SInv, ServedFresh, RevocationHolds, AckedRevoked
<1>9. QED
  BY <1>1, <1>4, <1>5, <1>6, <1>7, <1>8 DEF SInv

LEMMA WipeSerial ==
    ASSUME OnlyRestarts, Settled, Wipe
    PROVE  SInv'
<1>1. /\ phase = "down" /\ phase' = "down" /\ store' = [t \in Tenants |-> None] /\ late' = {}
      /\ UNCHANGED <<tenants, creds, acked, wire, inbox, frame>> /\ SInv /\ BInv
  BY NothingElseFails DEF Wipe, LoseStore, dbVars, credVars, hostVars, Settled
<1>2. \A p \in Procs : frame[p] = IdleFrame
  BY <1>1 DEF BInv, Procs
<1>3. \A p \in Procs : Handled(frame[p])'
  BY <1>1, <1>2 DEF Handled, IdleFrame
<1>4. Alone' /\ OneCall' /\ ~frame'[Main].failed
  BY <1>1, <1>2, HandlersAreProcs DEF SInv, Alone, OneCall, IdleFrame, Unsent, NoneFrom
<1>5. WireFresh' /\ AbsentDark'
  BY <1>1 DEF SInv, WireFresh, AbsentDark, Active, Absent, Quiet
<1>6. ServedFresh' /\ RevocationHolds' /\ AckedRevoked'
  BY <1>1 DEF SInv, ServedFresh, RevocationHolds, AckedRevoked
<1>7. QED
  BY <1>1, <1>3, <1>4, <1>5, <1>6 DEF SInv

\* What the server carries out for an active tenant is its JWT or a removal,
\* and the removal is one that a request of this backend has asked for.
LEMMA ServedIsFresh ==
    ASSUME OnlyRestarts, Settled, ServeRequest, NEW t \in Tenants, Active(t)
    PROVE  /\ store'[t] \in {store[t], None, tenants[t].jwt}
           /\ phase = "serving" =>
                  \/ store'[t] = tenants[t].jwt
                  \/ store'[t] = store[t] /\ (t \in late' <=> t \in late)
                  \/ store'[t] = None /\ \E h \in Handlers : frame[h].tenant = t /\ Changing(frame[h])
<1> DEFINE m == wire[1]
<1>1. /\ IInv /\ SInv /\ wire # <<>> /\ 1 \in DOMAIN wire /\ Head(wire) = m
      /\ m \in Request /\ store \in [Tenants -> Claims \union {None}]
  BY TailFacts, WireFacts DEF Settled, RInv, ServeRequest, IInv, NetOK, NetTypeOK
<1>2. store' = [store EXCEPT ![m.tenant] = Effect(m)] /\ late' = late \ {m.tenant}
  BY <1>1, NothingElseFails DEF ServeRequest
<1> HIDE DEF m
<1>3. CASE m.tenant # t
  BY <1>1, <1>2, <1>3
<1>4. CASE m.tenant = t /\ m.kind = "UPDATE"
  BY <1>1, <1>2, <1>4 DEF SInv, WireFresh, Effect, m
<1>5. CASE m.tenant = t /\ m.kind = "DELETE"
  <2>1. store'[t] = None
    BY <1>1, <1>2, <1>5 DEF Effect
  <2>2. ASSUME phase = "serving"
        PROVE  \E h \in Handlers : frame[h].tenant = t /\ Changing(frame[h])
    <3>1. m.from # None /\ m.from \in Procs
      BY <1>1, <1>5, <2>2 DEF SInv, WireFresh, Request, m
    <3>2. NoneFrom(Main)
      BY <2>2 DEF Settled, BInv, Unsent
    <3>3. PICK h \in Handlers : m.from = h
      BY <1>1, <3>1, <3>2 DEF NoneFrom, Procs, m
    <3>4. ~NoneFrom(h)
      BY <1>1, <3>3 DEF NoneFrom, m
    <3>5. frame[h].pc = "answer" /\ Awaits(h)
      BY <1>1, <3>4 DEF SInv, OneCall, Unsent
    <3>6. m = Asked(h)
      BY <1>1, <3>1, <3>5, NothingElseFails DEF Awaits, m
    <3>7. m.kind = (IF frame[h].op \in {"Suspend", "Delete"} THEN "DELETE" ELSE "UPDATE")
          /\ m.tenant = frame[h].tenant
      BY <3>6 DEF Asked
    <3>8. QED
      BY <1>5, <3>5, <3>7 DEF Changing
  <2>3. QED
    BY <2>1, <2>2
<1>6. QED
  BY <1>1, <1>3, <1>4, <1>5 DEF Request

LEMMA ServeSerial ==
    ASSUME OnlyRestarts, Settled, Serve
    PROVE  SInv'
<1>1. /\ ServeRequest /\ SInv /\ IInv
      /\ UNCHANGED <<tenants, creds, acked, phase, sysConn, frame>>
  BY DEF Serve, dbVars, credVars, hostVars, Settled, RInv
<1>2. /\ 1 \in DOMAIN wire /\ wire # <<>>
      /\ \A i \in DOMAIN wire' : i + 1 \in DOMAIN wire /\ wire'[i] = wire[i + 1]
  BY <1>1, TailFacts DEF ServeRequest
<1>3. OneCall'
  <2> SUFFICES ASSUME NEW h \in Handlers
               PROVE  IF frame[h].pc = "answer" THEN Awaits(h)' ELSE Unsent(h)'
    BY <1>1 DEF OneCall
  <2>1. h \in Procs
    BY HandlersAreProcs
  <2>2. Unsent(h) => Unsent(h)'
    BY <1>1, <2>1, ServeUnsent DEF Unsent
  <2>3. Awaits(h) => Awaits(h)'
    BY <1>1, <2>1, ServeAwaits
  <2>4. QED
    BY <1>1, <2>2, <2>3 DEF SInv, OneCall
<1>4. ASSUME NEW p \in Procs PROVE Handled(frame[p])'
  BY <1>1, <1>2, <1>4 DEF SInv, Handled, Visible, Active
<1>5. WireFresh'
  BY <1>1, <1>2 DEF SInv, WireFresh, Active
<1>6. AbsentDark'
  BY <1>1, MainIsProc, ServeUnsent DEF SInv, AbsentDark, Absent
<1>7. ServedFresh'
  <2> SUFFICES ASSUME phase = "serving", NEW t \in Tenants \ late', Active(t),
                      store'[t] # tenants[t].jwt
               PROVE  \E h \in Handlers : frame[h].tenant = t /\ Changing(frame[h])
    BY <1>1 DEF ServedFresh, Active
  <2>1. CASE store'[t] = store[t] /\ t \notin late
    BY <1>1, <2>1 DEF SInv, ServedFresh
  <2>2. CASE ~(store'[t] = store[t] /\ t \notin late)
    BY <1>1, <2>2, ServedIsFresh
  <2>3. QED
    BY <2>1, <2>2
<1>8. RevocationHolds'
  <2> SUFFICES ASSUME phase = "serving", NEW u \in acked, NEW t \in Tenants \ late', t = creds[u].tenant,
                      Active(t), store'[t] # None
               PROVE  u \in store'[t].revoked
    BY <1>1, AckedUsers DEF RevocationHolds, Active
  <2>1. u \in Users /\ creds[u] # None /\ creds[u].revoked
    BY <1>1, AckedUsers DEF SInv, AckedRevoked
  <2>2. u \in tenants[t].jwt.revoked
    BY <2>1 DEF Settled, EInv, RevocationKept
  <2>3. store'[t] = tenants[t].jwt \/ (store'[t] = store[t] /\ t \notin late)
    BY <1>1, ServedIsFresh
  <2>4. store'[t] = store[t] /\ t \notin late => u \in store[t].revoked
    BY <1>1 DEF SInv, RevocationHolds
  <2>5. QED
    BY <2>2, <2>3, <2>4
<1>9. AckedRevoked'
  BY <1>1 DEF SInv, AckedRevoked
<1>10. Alone' /\ (phase' # "down" => sysConn') /\ ~frame'[Main].failed
  BY <1>1 DEF SInv, Alone
<1>11. QED
  BY <1>3, <1>4, <1>5, <1>6, <1>7, <1>8, <1>9, <1>10 DEF SInv

\* What the server reads late counts for the entry it overwrites alone.
LEMMA ServeLateSerial ==
    ASSUME Settled, ServeLate
    PROVE  SInv'
<1>1. /\ ServeOld /\ SInv /\ IInv
      /\ UNCHANGED <<tenants, creds, acked, phase, sysConn, frame>>
  BY DEF ServeLate, dbVars, credVars, hostVars, Settled, RInv
<1>2. /\ UNCHANGED <<wire, inbox>>
      /\ \A t \in Tenants : t \in late' \/ (t \notin late /\ store'[t] = store[t])
  BY <1>1, ServeOldFacts
<1>3. OneCall'
  <2> SUFFICES ASSUME NEW h \in Handlers
               PROVE  IF frame[h].pc = "answer" THEN Awaits(h)' ELSE Unsent(h)'
    BY <1>1 DEF OneCall
  <2>1. h \in Procs
    BY HandlersAreProcs
  <2>2. frame[h].pc = "answer" => frame[h].tenant \in Tenants
    BY <1>1, <2>1, FrameFacts DEF Sound
  <2>3. QED
    BY <1>1, <2>1, <2>2, ServeOldAwaits DEF SInv, OneCall
<1>4. ASSUME NEW p \in Procs PROVE Handled(frame[p])'
  <2>1. frame[p].op \in {"Suspend", "Delete", "Activate"} => frame[p].tenant \in Tenants
    BY <1>1, FrameFacts DEF Sound
  <2>2. QED
    BY <1>1, <1>2, <2>1 DEF SInv, Handled, Visible, Active
<1>5. WireFresh'
  BY <1>1, <1>2 DEF SInv, WireFresh, Active
<1>6. AbsentDark' /\ ServedFresh'
  BY <1>1, <1>2 DEF SInv, AbsentDark, ServedFresh, Active, Absent, Quiet
<1>7. RevocationHolds'
  BY <1>1, <1>2, AckedUsers DEF SInv, RevocationHolds, Active
<1>8. AckedRevoked'
  BY <1>1 DEF SInv, AckedRevoked
<1>9. Alone' /\ (phase' # "down" => sysConn') /\ ~frame'[Main].failed
  BY <1>1 DEF SInv, Alone
<1>10. QED
  BY <1>3, <1>4, <1>5, <1>6, <1>7, <1>8, <1>9 DEF SInv

\* The invariant from the start, and over every step.
LEMMA InitSettled == Init => Settled
<1> SUFFICES ASSUME Init PROVE Settled
  OBVIOUS
<1>1. /\ wire = <<>> /\ phase = "down" /\ acked = {} /\ tenants = Nothing
      /\ store = [t \in Tenants |-> None]
      /\ \A p \in Procs : frame[p] = IdleFrame /\ inbox[p] = "none"
  BY DEF Init, NetInit, TenantInit, CredentialInit
<1>2. \A i \in DOMAIN wire : FALSE
  BY <1>1, EmptySeq
<1>3. Alone /\ OneCall /\ ~frame[Main].failed
  BY <1>1, <1>2, MainIsProc, HandlersAreProcs DEF Alone, OneCall, IdleFrame, Unsent, NoneFrom
<1>4. \A p \in Procs : Handled(frame[p])
  BY <1>1 DEF Handled, IdleFrame
<1>5. WireFresh /\ AbsentDark /\ ServedFresh /\ RevocationHolds /\ AckedRevoked
  BY <1>1, <1>2 DEF WireFresh, AbsentDark, Quiet, ServedFresh, RevocationHolds, AckedRevoked
<1>6. RInv /\ EInv /\ BInv
  BY InitRefines, InitTerms, InitBoot
<1>7. QED
  BY <1>1, <1>3, <1>4, <1>5, <1>6 DEF Settled, SInv

LEMMA NextSettled == OnlyRestarts => (Settled /\ [Next]_vars /\ [Turn]_vars => Settled')
<1> SUFFICES ASSUME OnlyRestarts, Settled, [Next]_vars, [Turn]_vars
             PROVE  Settled'
  OBVIOUS
<1>1. RInv' /\ IInv'
  BY NextRefines DEF Settled, RInv
<1>2. EInv'
  <2>1. NoTwoEditors
    BY DEF Settled, SInv, Alone, NoTwoEditors, Editing, At
  <2>2. QED
    BY <2>1, NextKeepsTerms DEF Settled
<1>3. BInv'
  BY NothingElseFails, NextKeepsBoot DEF Settled, RInv
<1>4. ASSUME UNCHANGED vars PROVE SInv'
  BY <1>4 DEF vars, Settled, SInv, Alone, OneCall, Awaits, Asked, Payload, Disclaimed, Unsent, NoneFrom,
             Handled, Visible, WireFresh, AbsentDark, Absent, Quiet, ServedFresh, Active,
             RevocationHolds, AckedRevoked
<1>5. ASSUME NEW h \in Handlers, Handle(h), Turn
      PROVE  SInv'
  <2>1. Solo(h)
    BY <1>5 DEF Turn, Solo
  <2>2. Within(h)
    BY <1>5, HandleWithin DEF Settled, RInv
  <2>3. phase = "serving"
    BY <2>2 DEF Within, Settled, BInv, IdleFrame
  <2>4. Steps(h)
    BY <1>1, <1>2, <1>3, <2>1, <2>2, <2>3 DEF Steps
  <2>5. QED
    BY <1>5, <2>4, HandleSerial
<1>6. ~BootDegraded
  BY NothingElseFails DEF BootDegraded
<1>7. SInv'
  <2>1. CASE UNCHANGED vars
    BY <1>4, <2>1
  <2>2. CASE ~UNCHANGED vars
    <3>1. Next /\ Turn
      BY <2>2
    <3>2. ASSUME NEW h \in Handlers, Handle(h) PROVE SInv'
      BY <1>5, <3>1, <3>2
    <3>3. Boot => SInv'
      BY <3>1, BootSerial
    <3>4. BootReconcile => SInv'
      BY <1>1, <1>2, <1>3, <3>1, BootReconcileSerial
    <3>5. BootDone => SInv'
      BY <1>1, <1>2, <1>3, <3>1, BootDoneSerial
    <3>6. Crash => SInv'
      BY <1>1, <3>1, CrashSerial
    <3>7. Wipe => SInv'
      BY <1>1, <3>1, WipeSerial
    <3>8. Serve => SInv'
      BY <1>1, <1>2, <1>3, <3>1, ServeSerial
    <3>9. ServeLate => SInv'
      BY ServeLateSerial
    <3>10. QED
      BY <1>6, <3>1, <3>2, <3>3, <3>4, <3>5, <3>6, <3>7, <3>8, <3>9 DEF Next
  <2>3. QED
    BY <2>1, <2>2
<1>8. QED
  BY <1>1, <1>2, <1>3, <1>7 DEF Settled

\* Only the resolver changes what it serves.
LEMMA CallsKeepStore ==
    ASSUME NEW p \in Procs, NetMove(p)
    PROVE  store' = store
<1>1. CASE UNCHANGED netVars \/ Accepted(p) \/ Refused(p)
  BY <1>1 DEF netVars, Accepted, Refused
<1>2. ASSUME NEW kind, NEW t, NEW jwt, Send(p, kind, t, jwt)
      PROVE  store' = store
  BY <1>2 DEF Send
<1>3. QED
  BY <1>1, <1>2 DEF NetMove

LEMMA SettledAlways ==
    ASSUME OnlyRestarts
    PROVE  Spec /\ OneAtATime => []Settled
BY InitSettled, NextSettled, PTL DEF Spec, OneAtATime

(***************************************************************************)
(* With requests one at a time, whenever none is under way the resolver    *)
(* serves exactly the account_jwt of every active tenant and nothing for a *)
(* deleted one: for any number of tenants, any sequence of requests, and   *)
(* any crash, also when the resolver comes back empty.  Only an entry that *)
(* a request of a dead process has overwritten since may differ.           *)
(***************************************************************************)
THEOREM ResolverAgrees ==
    ASSUME OnlyRestarts
    PROVE  Spec /\ OneAtATime => []Agreement
<1>1. Settled => Agreement
  <2> SUFFICES ASSUME Settled, Idle, NEW t \in Tenants, tenants[t] # None
               PROVE  t \in late \/
                          /\ tenants[t].status = "active" => store[t] = tenants[t].jwt
                          /\ tenants[t].status = "deleted" => store[t] = None
    BY DEF Agreement
  <2>1. \A h \in Handlers : ~Changing(frame[h])
    BY HandlersAreProcs DEF Idle, Changing
  <2>2. CASE tenants[t].status = "active"
    BY <2>1, <2>2 DEF Idle, Active, Settled, SInv, ServedFresh
  <2>3. CASE tenants[t].status = "deleted"
    BY <2>3 DEF Settled, SInv, AbsentDark, Absent
  <2>4. QED
    BY <2>2, <2>3
<1>2. QED
  BY <1>1, SettledAlways, PTL

(***************************************************************************)
(* Under the same conditions, a user whose revocation was answered with    *)
(* success is on the revocation list of what the resolver serves for an    *)
(* active tenant, from the answer on: the boot publishes whatever a crash  *)
(* has kept from the resolver, and only a late request of a dead process   *)
(* puts back an entry without it.                                          *)
(***************************************************************************)
THEOREM RevocationReachesResolver ==
    ASSUME OnlyRestarts
    PROVE  Spec /\ OneAtATime => []RevocationHolds
<1>1. Settled => RevocationHolds
  BY DEF Settled, SInv
<1>2. QED
  BY <1>1, SettledAlways, PTL

(***************************************************************************)
(* Under the same conditions, the resolver's entry of an active tenant     *)
(* only ever changes to the account_jwt of the moment, or to nothing, but  *)
(* by a request of a dead process that is read after its successor's       *)
(* connection: not even what it left on the wire while nobody had          *)
(* succeeded it publishes an outdated JWT.                                 *)
(***************************************************************************)
THEOREM OnlyFreshPublished ==
    ASSUME OnlyRestarts
    PROVE  Spec /\ OneAtATime => FreshPublish
<1> DEFINE Step == \A t \in Tenants \ late' :
                       Active(t) => store'[t] \in {store[t], None, tenants[t].jwt}
<1>1. Settled /\ [Next]_vars => [Step]_vars
  <2> SUFFICES ASSUME Settled, Next, NEW t \in Tenants \ late', Active(t)
               PROVE  store'[t] \in {store[t], None, tenants[t].jwt}
    OBVIOUS
  <2>1. CASE Serve
    BY <2>1, ServedIsFresh DEF Serve
  <2>2. CASE Wipe
    BY <2>2 DEF Wipe, LoseStore
  <2>3. CASE Crash
    BY <2>3 DEF Crash, CutWire
  <2>4. CASE Boot \/ BootDone \/ BootDegraded
    BY <2>4 DEF Boot, BootDone, BootDegraded, Dial, netVars
  <2>5. CASE BootReconcile
    <3>1. TenantStep(Main)
      BY <2>5 DEF BootReconcile, TenantStep, ReconcileStep
    <3>2. QED
      BY <3>1, MainIsProc, TenantStepWithin, CallsKeepStore DEF Settled, RInv, Within
  <2>6. ASSUME NEW h \in Handlers, Handle(h) PROVE store' = store
    <3>1. IInv
      BY DEF Settled, RInv
    <3>2. QED
      BY <2>6, <3>1, HandleWithin, HandlersAreProcs, CallsKeepStore DEF Within
  <2>7. CASE ServeLate
    BY <2>7, ServeOldFacts DEF ServeLate, Settled, RInv
  <2>8. QED
    BY <2>1, <2>2, <2>3, <2>4, <2>5, <2>6, <2>7 DEF Next
<1>2. QED
  BY <1>1, SettledAlways, PTL DEF Spec, FreshPublish

(***************************************************************************)
(* Requests are one at a time when only one is served at a time.           *)
(***************************************************************************)
THEOREM OneHandlerOneAtATime ==
    ASSUME \A h, k \in Handlers : h = k
    PROVE  Spec => OneAtATime
<1>1. [Next]_vars => [Turn]_vars
  BY DEF Turn
<1>2. QED
  BY <1>1, PTL DEF Spec, OneAtATime
=============================================================================
