---------------------------- MODULE DeletionProofs ----------------------------
(***************************************************************************)
(* A deleted tenant stays gone, for any number of handlers and any faults. *)
(* A step can bring a tenant back only by writing its status, by serving   *)
(* an UPDATE for it, or by a request that comes to hold its JWT.  The      *)
(* proof shows, operation by operation, that a step of a process does none *)
(* of the three: what a request holds was read through the filter on       *)
(* 'deleted', and a request that has read nothing has no filter to fail.   *)
(***************************************************************************)
EXTENDS RegistryProofs

\* Where a request has not yet read the tenant's row.
Reading == {"loadSeed", "insert", "getTenant", "connect", "reseed"}

Aloof(f, t) == f.todo[t] = None /\ (f.tenant = t => f.pc \in Reading)

\* The moves of a process that leave it aloof.
AloofMove(p, t) ==
    \/ Return(p)
    \/ UNCHANGED frame
    \/ \E pc : Goto(p, pc) /\ (frame[p].tenant = t => pc \in Reading)
    \/ \E f : Enter(p, f) /\ Aloof(f, t)

\* The calls of a process that push nothing for the tenant.
AloofCall(p, t) ==
    \/ UNCHANGED netVars
    \/ Accepted(p)
    \/ Refused(p)
    \/ \E s \in Tenants : Delete(p, s)
    \/ \E s \in Tenants, jwt \in Claims \union {None} : s # t /\ Push(p, s, jwt)

RowStays(t) == tenants'[t] # None /\ tenants'[t].status = "deleted"

NoUpdates(w, t) == \A i \in DOMAIN w : w[i].tenant = t => w[i].kind = "DELETE"

NoOldUpdates(s, t) == \A m \in s : m.tenant = t => m.kind = "DELETE"

LEMMA GoneFacts ==
    ASSUME NEW t \in Tenants, Gone(t)
    PROVE  /\ tenants[t] # None /\ tenants[t].status = "deleted" /\ ~Visible(t)
           /\ store[t] = None
           /\ NoUpdates(wire, t)
           /\ NoOldUpdates(old, t)
           /\ \A p \in Procs : Aloof(frame[p], t)
BY DEF Gone, Engaged, Visible, NoUpdates, NoOldUpdates, Aloof, Reading

LEMMA FactsGone ==
    ASSUME NEW t \in Tenants, RowStays(t), store'[t] = None, NoUpdates(wire', t),
           NoOldUpdates(old', t), \A p \in Procs : Aloof(frame'[p], t)
    PROVE  Gone(t)'
BY DEF Gone, Engaged, RowStays, NoUpdates, NoOldUpdates, Aloof, Reading

\* A request that is past its reading is not at work for a tenant that is gone.
LEMMA EngagedForOthers ==
    ASSUME NEW t \in Tenants, Gone(t), NEW p \in Procs, frame[p].pc \notin Reading
    PROVE  frame[p].tenant # t
BY GoneFacts DEF Aloof

-----------------------------------------------------------------------------
\* Moves and calls.

LEMMA IdleIsAloof == ASSUME NEW t \in Tenants PROVE Aloof(IdleFrame, t)
BY ResolverAssumption DEF Aloof, IdleFrame, Nothing

LEMMA MovesStayAloof ==
    ASSUME IInv, NEW t \in Tenants, Gone(t), NEW p \in Procs, AloofMove(p, t)
    PROVE  \A q \in Procs : Aloof(frame'[q], t)
<1>1. \A q \in Procs : Aloof(frame[q], t)
  BY GoneFacts
<1>2. Elsewhere(p) /\ Aloof(frame'[p], t)
  <2>1. CASE Return(p)
    BY <2>1, EnterMoves, IdleIsAloof DEF Return
  <2>2. CASE UNCHANGED frame
    BY <1>1, <2>2 DEF Elsewhere
  <2>3. ASSUME NEW pc, Goto(p, pc), frame[p].tenant = t => pc \in Reading
        PROVE  Elsewhere(p) /\ Aloof(frame'[p], t)
    BY <1>1, <2>3, GotoMoves DEF Aloof
  <2>4. ASSUME NEW f, Enter(p, f), Aloof(f, t)
        PROVE  Elsewhere(p) /\ Aloof(frame'[p], t)
    BY <2>4, EnterMoves
  <2>5. QED
    BY <2>1, <2>2, <2>3, <2>4 DEF AloofMove
<1>3. QED
  BY <1>1, <1>2 DEF Elsewhere

LEMMA SendsStayAloof ==
    ASSUME IInv, NEW t \in Tenants, Gone(t), NEW p \in Procs, NEW s \in Tenants,
           NEW kind \in {"UPDATE", "DELETE"}, NEW jwt \in Claims \union {None},
           kind = "DELETE" \/ s # t, Send(p, kind, s, jwt)
    PROVE  NoUpdates(wire', t)
<1> DEFINE m == [kind |-> kind, tenant |-> s, jwt |-> jwt, from |-> p]
<1>1. m \in Request /\ m.kind = kind /\ m.tenant = s
  BY DEF Request
<1>2. NoUpdates(wire, t) /\ wire \in Seq(Request)
  BY GoneFacts, WireFacts
<1>3. wire' = Append(wire, m) \/ wire' = wire
  BY DEF Send
<1> HIDE DEF m
<1>4. CASE wire' = Append(wire, m)
  BY <1>1, <1>2, <1>4, AppendProperties DEF NoUpdates
<1>5. QED
  BY <1>2, <1>3, <1>4

LEMMA CallsStayAloof ==
    ASSUME IInv, NEW t \in Tenants, Gone(t), NEW p \in Procs, AloofCall(p, t)
    PROVE  store'[t] = None /\ NoUpdates(wire', t)
<1>1. store[t] = None /\ NoUpdates(wire, t) /\ wire \in Seq(Request)
  BY GoneFacts, WireFacts
<1>2. CASE UNCHANGED netVars \/ Accepted(p)
  BY <1>1, <1>2 DEF netVars, Accepted
<1>3. CASE Refused(p)
  <2>1. wire' = wire \/ wire' = Disowned(wire, {p})
    BY <1>3 DEF Refused
  <2>2. NoUpdates(Disowned(wire, {p}), t)
    BY <1>1, DisownedWire DEF NoUpdates
  <2>3. QED
    BY <1>1, <1>3, <2>1, <2>2 DEF Refused
<1>4. ASSUME NEW s \in Tenants, Delete(p, s) PROVE store'[t] = None /\ NoUpdates(wire', t)
  BY <1>1, <1>4, SendsStayAloof DEF Delete, Send
<1>5. ASSUME NEW s \in Tenants, NEW jwt \in Claims \union {None}, s # t, Push(p, s, jwt)
      PROVE  store'[t] = None /\ NoUpdates(wire', t)
  BY <1>1, <1>5, SendsStayAloof DEF Push, Send
<1>6. QED
  BY <1>2, <1>3, <1>4, <1>5 DEF AloofCall

\* A step of a process that neither writes the row nor comes near the tenant.
LEMMA AloofStep ==
    ASSUME IInv, NEW t \in Tenants, Gone(t), NEW p \in Procs,
           RowStays(t), AloofCall(p, t), AloofMove(p, t)
    PROVE  Gone(t)'
<1>1. old' = old
  BY DEF AloofCall, netVars, Accepted, Refused, Delete, Push, Send
<1>2. QED
  BY <1>1, GoneFacts, MovesStayAloof, CallsStayAloof, FactsGone

-----------------------------------------------------------------------------
\* Writes to the row of another tenant.

LEMMA OtherRow ==
    ASSUME IInv, NEW t \in Tenants, Gone(t), NEW s, s # t,
           \/ \E status : WriteStatus(s, status)
           \/ \E row : WriteJWT(s, row)
           \/ UNCHANGED dbVars
    PROVE  RowStays(t)
BY GoneFacts DEF RowStays, WriteStatus, WriteJWT, dbVars, IInv, DbOK

LEMMA SameRow ==
    ASSUME NEW t \in Tenants, Gone(t), UNCHANGED tenants
    PROVE  RowStays(t)
BY GoneFacts DEF RowStays

LEMMA StatusOfOthers ==
    ASSUME IInv, NEW t \in Tenants, Gone(t), NEW p \in Procs, frame[p].pc \notin Reading,
           NEW status, LastStatusWrite(p, status)
    PROVE  Gone(t)'
<1>1. RowStays(t)
  BY EngagedForOthers, OtherRow DEF LastStatusWrite
<1>2. QED
  BY <1>1, AloofStep DEF LastStatusWrite, AloofCall, AloofMove

-----------------------------------------------------------------------------
\* The calls of an operation that is past its reading.

LEMMA FrameOfOthers ==
    ASSUME IInv, NEW t \in Tenants, Gone(t), NEW p \in Procs, frame[p].pc \notin Reading,
           frame[p].op \notin {"none", "Reconcile"}
    PROVE  /\ frame[p].tenant \in Tenants
           /\ frame[p].tenant # t
           /\ frame[p].jwt \in Claims \union {None}
BY FrameFacts, EngagedForOthers DEF Sound, Frame

LEMMA RequestsOfOthers ==
    ASSUME IInv, NEW t \in Tenants, Gone(t), NEW p \in Procs, frame[p].pc \notin Reading,
           frame[p].op \notin {"none", "Reconcile"}, UNCHANGED dbVars,
           NEW Skip, Skip => Return(p) \/ \E pc : Goto(p, pc),
           PushOrSkip(p, Skip) \/ DeleteOrSkip(p, Skip)
    PROVE  Gone(t)'
<1>1. /\ frame[p].tenant \in Tenants
      /\ frame[p].tenant # t
      /\ frame[p].jwt \in Claims \union {None}
  BY FrameOfOthers
<1>2. AloofCall(p, t)
  BY <1>1 DEF AloofCall, PushOrSkip, DeleteOrSkip
<1>3. AloofMove(p, t)
  BY <1>1 DEF AloofMove, PushOrSkip, DeleteOrSkip
<1>4. RowStays(t)
  BY SameRow DEF dbVars
<1>5. QED
  BY <1>2, <1>3, <1>4, AloofStep

LEMMA AnswersOfOthers ==
    ASSUME IInv, NEW t \in Tenants, Gone(t), NEW p \in Procs, frame[p].pc \notin Reading,
           UNCHANGED dbVars, Accepted(p) \/ Refused(p) \/ UNCHANGED netVars,
           Return(p) \/ \E pc : Goto(p, pc)
    PROVE  Gone(t)'
<1>1. RowStays(t) /\ frame[p].tenant # t
  BY SameRow, EngagedForOthers DEF dbVars
<1>2. QED
  BY <1>1, AloofStep DEF AloofCall, AloofMove

\* A request that only reads.
LEMMA ReadsStayAloof ==
    ASSUME IInv, NEW t \in Tenants, Gone(t), NEW p \in Procs,
           UNCHANGED <<dbVars, netVars>>, AloofMove(p, t)
    PROVE  Gone(t)'
BY SameRow, AloofStep DEF dbVars, AloofCall

LEMMA OpenedAloof ==
    ASSUME NEW t \in Tenants, NEW op, NEW pc, NEW s, s # t \/ pc \in Reading,
           NEW jwt, NEW n, NEW u
    PROVE  /\ Aloof(Opened(op, pc, s), t)
           /\ Aloof([Opened(op, pc, s) EXCEPT !.jwt = jwt], t)
           /\ Aloof([Opened(op, pc, s) EXCEPT !.jwt = jwt, !.limit = n], t)
           /\ Aloof([Opened(op, pc, s) EXCEPT !.user = u], t)
BY DEF Aloof, Opened, IdleFrame, Nothing

-----------------------------------------------------------------------------
\* The operations.

LEMMA CreateStaysAloof ==
    ASSUME IInv, NEW t \in Tenants, Gone(t), NEW h \in Procs, CreateStep(h)
    PROVE  Gone(t)'
<1>1. CASE CreateInsert(h)
  <2>1. PICK s \in Tenants, n \in Limits :
            /\ tenants[s] = None
            /\ UNCHANGED dbVars \/ \E row : WriteJWT(s, row)
            /\ \/ UNCHANGED frame
               \/ Enter(h, [Opened("Create", "saveSeed", s) EXCEPT !.jwt = NewAccountClaims(n)])
    BY <1>1 DEF CreateInsert
  <2>2. s # t
    BY <2>1, GoneFacts
  <2>3. AloofMove(h, t)
    BY <2>1, <2>2, OpenedAloof DEF AloofMove
  <2>4. RowStays(t)
    BY <2>1, <2>2, OtherRow
  <2>5. QED
    BY <1>1, <2>3, <2>4, AloofStep DEF CreateInsert, AloofCall
<1>2. CASE CreateSaveSeed(h)
  <2>1. frame[h].tenant # t
    BY <1>2, EngagedForOthers DEF CreateSaveSeed, At, Reading
  <2>2. QED
    BY <1>2, <2>1, SameRow, AloofStep DEF CreateSaveSeed, AloofMove, AloofCall
<1>3. CASE CreatePush(h)
  BY <1>3, RequestsOfOthers DEF CreatePush, At, Reading
<1>4. CASE CreateAnswer(h)
  BY <1>4, AnswersOfOthers DEF CreateAnswer, At, Reading
<1>5. CASE CreateUndo(h)
  BY <1>5, StatusOfOthers DEF CreateUndo, At, Reading
<1>6. QED
  BY <1>1, <1>2, <1>3, <1>4, <1>5 DEF CreateStep

LEMMA UpdateStaysAloof ==
    ASSUME IInv, NEW t \in Tenants, Gone(t), NEW h \in Procs, UpdateStep(h)
    PROVE  Gone(t)'
<1>1. CASE UpdateGet(h)
  <2>1. PICK s \in Tenants, n \in Limits :
            /\ Visible(s)
            /\ Enter(h, [Opened("Update", "write", s) EXCEPT
                            !.jwt = WithLimits(tenants[s].jwt, n), !.limit = n])
    BY <1>1 DEF UpdateGet
  <2>2. AloofMove(h, t)
    BY <2>1, GoneFacts, OpenedAloof DEF AloofMove
  <2>3. QED
    BY <1>1, <2>2, ReadsStayAloof DEF UpdateGet
<1>2. CASE UpdateWrite(h)
  <2>1. frame[h].tenant # t
    BY <1>2, EngagedForOthers DEF UpdateWrite, At, Reading
  <2>2. RowStays(t)
    BY <1>2, <2>1, OtherRow DEF UpdateWrite
  <2>3. AloofMove(h, t)
    BY <1>2, <2>1 DEF UpdateWrite, AloofMove
  <2>4. QED
    BY <1>2, <2>2, <2>3, AloofStep DEF UpdateWrite, AloofCall
<1>3. CASE UpdatePush(h)
  BY <1>3, RequestsOfOthers DEF UpdatePush, At, Reading
<1>4. CASE UpdateAnswer(h)
  BY <1>4, AnswersOfOthers DEF UpdateAnswer, At, Reading
<1>5. QED
  BY <1>1, <1>2, <1>3, <1>4 DEF UpdateStep

LEMMA SuspendStaysAloof ==
    ASSUME IInv, NEW t \in Tenants, Gone(t), NEW h \in Procs, SuspendStep(h)
    PROVE  Gone(t)'
<1>1. CASE SuspendGet(h)
  <2>1. AloofMove(h, t)
    BY <1>1, GoneFacts, OpenedAloof DEF SuspendGet, AloofMove
  <2>2. QED
    BY <1>1, <2>1, ReadsStayAloof DEF SuspendGet
<1>2. CASE SuspendDelete(h)
  BY <1>2, RequestsOfOthers DEF SuspendDelete, At, Reading
<1>3. CASE SuspendAnswer(h)
  BY <1>3, AnswersOfOthers DEF SuspendAnswer, At, Reading
<1>4. CASE SuspendMark(h)
  BY <1>4, StatusOfOthers DEF SuspendMark, At, Reading
<1>5. QED
  BY <1>1, <1>2, <1>3, <1>4 DEF SuspendStep

LEMMA ActivateStaysAloof ==
    ASSUME IInv, NEW t \in Tenants, Gone(t), NEW h \in Procs, ActivateStep(h)
    PROVE  Gone(t)'
<1>1. CASE ActivateGet(h)
  <2>1. PICK s \in Tenants :
            /\ Visible(s)
            /\ Enter(h, [Opened("Activate", "push", s) EXCEPT !.jwt = tenants[s].jwt])
    BY <1>1 DEF ActivateGet
  <2>2. AloofMove(h, t)
    BY <2>1, GoneFacts, OpenedAloof DEF AloofMove
  <2>3. QED
    BY <1>1, <2>2, ReadsStayAloof DEF ActivateGet
<1>2. CASE ActivatePush(h)
  BY <1>2, RequestsOfOthers DEF ActivatePush, At, Reading
<1>3. CASE ActivateAnswer(h)
  BY <1>3, AnswersOfOthers DEF ActivateAnswer, At, Reading
<1>4. CASE ActivateMark(h)
  BY <1>4, StatusOfOthers DEF ActivateMark, At, Reading
<1>5. QED
  BY <1>1, <1>2, <1>3, <1>4 DEF ActivateStep

LEMMA DeleteStaysAloof ==
    ASSUME IInv, NEW t \in Tenants, Gone(t), NEW h \in Procs, DeleteStep(h)
    PROVE  Gone(t)'
<1>1. CASE DeleteGet(h)
  <2>1. AloofMove(h, t)
    BY <1>1, GoneFacts, OpenedAloof DEF DeleteGet, AloofMove
  <2>2. QED
    BY <1>1, <2>1, ReadsStayAloof DEF DeleteGet
<1>2. CASE DeleteRequest(h)
  BY <1>2, RequestsOfOthers DEF DeleteRequest, At, Reading
<1>3. CASE DeleteAnswer(h)
  BY <1>3, AnswersOfOthers DEF DeleteAnswer, At, Reading
<1>4. CASE DeleteMark(h)
  BY <1>4, StatusOfOthers DEF DeleteMark, At, Reading
<1>5. QED
  BY <1>1, <1>2, <1>3, <1>4 DEF DeleteStep

\* A listing leaves the deleted out, and only what is on it is pushed.
LEMMA ListingAloof ==
    ASSUME NEW t \in Tenants, Gone(t)
    PROVE  /\ Aloof(ReconcileFrame(ActiveJWTs(tenants)), t)
           /\ Aloof([ReconcileFrame(Nothing) EXCEPT !.failed = TRUE], t)
BY GoneFacts, ResolverAssumption
   DEF Aloof, ReconcileFrame, ActiveJWTs, Opened, IdleFrame, Nothing

LEMMA LoopStaysAloof ==
    ASSUME IInv, NEW t \in Tenants, Gone(t), NEW p \in Procs, ReconcileLoop(p)
    PROVE  Gone(t)'
<1>0. /\ Aloof(frame[p], t)
      /\ frame[p] \in Frame
      /\ RowStays(t)
  BY GoneFacts, FrameFacts, SameRow
     DEF ReconcileLoop, ReconcilePush, ReconcileAnswer, dbVars
<1>1. CASE ReconcilePush(p)
  <2>1. PICK s \in Tenants :
            /\ frame[p].todo[s] # None
            /\ Push(p, s, frame[p].todo[s])
            /\ Enter(p, [frame[p] EXCEPT !.pc = "answer", !.tenant = s])
    BY <1>1 DEF ReconcilePush
  <2>2. s # t /\ frame[p].todo[s] \in Claims \union {None}
    BY <1>0, <2>1 DEF Aloof, Frame
  <2>3. Aloof([frame[p] EXCEPT !.pc = "answer", !.tenant = s], t)
    BY <1>0, <2>2 DEF Aloof, Frame
  <2>4. AloofCall(p, t) /\ AloofMove(p, t)
    BY <2>1, <2>2, <2>3 DEF AloofCall, AloofMove
  <2>5. QED
    BY <1>0, <2>4, AloofStep
<1>2. CASE ReconcileAnswer(p)
  <2>1. PICK failed : Enter(p, Pushed(frame[p], failed))
    BY <1>2 DEF ReconcileAnswer
  <2>2. Aloof(Pushed(frame[p], failed), t)
    BY <1>0, ResolverAssumption DEF Aloof, Pushed, Frame
  <2>3. AloofCall(p, t) /\ AloofMove(p, t)
    BY <1>2, <2>1, <2>2 DEF ReconcileAnswer, AloofCall, AloofMove
  <2>4. QED
    BY <1>0, <2>3, AloofStep
<1>3. QED
  BY <1>1, <1>2 DEF ReconcileLoop

LEMMA ReconcileStaysAloof ==
    ASSUME IInv, NEW t \in Tenants, Gone(t), NEW h \in Procs, ReconcileStep(h)
    PROVE  Gone(t)'
<1>1. CASE ReconcileList(h) \/ ReconcileReturn(h)
  BY <1>1, ListingAloof, ReadsStayAloof DEF ReconcileList, ReconcileReturn, AloofMove
<1>2. QED
  BY <1>1, LoopStaysAloof DEF ReconcileStep

LEMMA JetStreamStaysAloof ==
    ASSUME IInv, NEW t \in Tenants, Gone(t), NEW h \in Procs, JetStreamStep(h)
    PROVE  Gone(t)'
<1>1. CASE JetStreamGet(h)
  <2>1. AloofMove(h, t)
    BY <1>1, OpenedAloof DEF JetStreamGet, AloofMove, Reading
  <2>2. QED
    BY <1>1, <2>1, ReadsStayAloof DEF JetStreamGet
<1>2. CASE JetStreamConnect(h)
  BY <1>2, ReadsStayAloof DEF JetStreamConnect, AloofMove, Reading
<1>3. CASE JetStreamReseed(h)
  <2>1. CASE Return(h)
    BY <1>3, <2>1, ReadsStayAloof DEF JetStreamReseed, AloofMove
  <2> DEFINE f == [frame[h] EXCEPT !.pc = "push", !.jwt = tenants[frame[h].tenant].jwt]
  <2>2. CASE Visible(frame[h].tenant) /\ Enter(h, f)
    <3>1. frame[h].tenant # t /\ frame[h].todo[t] = None /\ frame[h] \in Frame
      BY <2>2, GoneFacts, FrameFacts DEF Aloof
    <3>2. Aloof(f, t)
      BY <3>1 DEF Aloof, Frame
    <3> HIDE DEF f
    <3>3. QED
      BY <1>3, <2>2, <3>2, ReadsStayAloof DEF JetStreamReseed, AloofMove
  <2>3. QED
    BY <1>3, <2>1, <2>2 DEF JetStreamReseed
<1>4. CASE JetStreamPush(h)
  BY <1>4, RequestsOfOthers DEF JetStreamPush, At, Reading
<1>5. CASE JetStreamAnswer(h)
  BY <1>5, AnswersOfOthers DEF JetStreamAnswer, At, Reading
<1>6. QED
  BY <1>1, <1>2, <1>3, <1>4, <1>5 DEF JetStreamStep

LEMMA IssueStaysAloof ==
    ASSUME IInv, NEW t \in Tenants, Gone(t), NEW h \in Procs, IssueStep(h)
    PROVE  Gone(t)'
<1>1. AloofMove(h, t)
  <2>1. CASE IssueGet(h)
    BY <2>1, OpenedAloof DEF IssueGet, AloofMove, Reading
  <2>2. CASE IssueLoadSeed(h) \/ IssueInsert(h)
    BY <2>2 DEF IssueLoadSeed, IssueInsert, AloofMove, Reading
  <2>3. QED
    BY <2>1, <2>2 DEF IssueStep
<1>2. QED
  BY <1>1, ReadsStayAloof DEF IssueStep, IssueGet, IssueLoadSeed, IssueInsert

\* The revocation looks at the status before it reads the JWT it edits.
LEMMA RevokeStaysAloof ==
    ASSUME IInv, NEW t \in Tenants, Gone(t), NEW h \in Procs, RevokeStep(h)
    PROVE  Gone(t)'
<1>1. CASE RevokeGet(h)
  <2>1. AloofMove(h, t)
    BY <1>1, OpenedAloof DEF RevokeGet, AloofMove, Reading
  <2>2. QED
    BY <1>1, <2>1, ReadsStayAloof DEF RevokeGet
<1>2. CASE RevokeGetTenant(h)
  <2>1. \/ Goto(h, "select") /\ frame[h].tenant # t
        \/ Return(h)
    BY <1>2, GoneFacts DEF RevokeGetTenant
  <2>2. QED
    BY <1>2, <2>1, ReadsStayAloof DEF RevokeGetTenant, AloofMove
<1>3. CASE RevokeSelect(h)
  <2>1. CASE Return(h)
    BY <1>3, <2>1, ReadsStayAloof DEF RevokeSelect, AloofMove
  <2> DEFINE jwt == WithRevocation(tenants[frame[h].tenant].jwt, frame[h].user)
             f == [frame[h] EXCEPT !.pc = "write", !.jwt = jwt]
  <2>2. CASE Enter(h, f)
    <3>1. frame[h].tenant # t /\ frame[h].todo[t] = None /\ frame[h] \in Frame
      BY <1>3, GoneFacts, EngagedForOthers, FrameFacts DEF Aloof, RevokeSelect, At, Reading
    <3>2. Aloof(f, t)
      BY <3>1 DEF Aloof, Frame
    <3> HIDE DEF f
    <3>3. QED
      BY <1>3, <2>2, <3>2, ReadsStayAloof DEF RevokeSelect, AloofMove
  <2>3. QED
    BY <1>3, <2>1, <2>2 DEF RevokeSelect
<1>4. CASE RevokeWrite(h)
  <2>1. frame[h].tenant # t
    BY <1>4, EngagedForOthers DEF RevokeWrite, At, Reading
  <2>2. RowStays(t)
    BY <1>4, <2>1, OtherRow DEF RevokeWrite
  <2>3. AloofMove(h, t)
    BY <1>4, <2>1 DEF RevokeWrite, AloofMove
  <2>4. QED
    BY <1>4, <2>2, <2>3, AloofStep DEF RevokeWrite, AloofCall
<1>5. CASE RevokeMark(h) \/ RevokeAnswer(h)
  BY <1>5, AnswersOfOthers DEF RevokeMark, RevokeAnswer, At, Reading
<1>6. CASE RevokePush(h)
  BY <1>6, RequestsOfOthers DEF RevokePush, At, Reading
<1>7. QED
  BY <1>1, <1>2, <1>3, <1>4, <1>5, <1>6 DEF RevokeStep

-----------------------------------------------------------------------------
\* The process and its environment.

LEMMA HandleStaysAloof ==
    ASSUME IInv, NEW t \in Tenants, Gone(t), NEW h \in Handlers, Handle(h)
    PROVE  Gone(t)'
BY HandlersAreProcs, CreateStaysAloof, UpdateStaysAloof, SuspendStaysAloof,
   ActivateStaysAloof, DeleteStaysAloof, ReconcileStaysAloof, JetStreamStaysAloof,
   IssueStaysAloof, RevokeStaysAloof
   DEF Handle, TenantStep, CredentialStep

LEMMA BootStaysAloof ==
    ASSUME IInv, NEW t \in Tenants, Gone(t), Boot \/ BootDone \/ BootDegraded
    PROVE  Gone(t)'
<1>1. AloofMove(Main, t)
  BY ListingAloof DEF AloofMove, Boot, BootDone, BootDegraded
<1>2. CASE BootDone \/ BootDegraded
  BY <1>1, <1>2, MainIsProc, ReadsStayAloof DEF BootDone, BootDegraded
<1>3. CASE Boot
  <2>1. /\ UNCHANGED <<tenants, store>> /\ wire' = <<>>
        /\ old' = old \union {wire[i] : i \in DOMAIN wire}
    BY <1>3 DEF Boot, Dial, dbVars
  <2>2. NoUpdates(wire', t)
    BY <2>1 DEF NoUpdates
  <2>3. NoOldUpdates(old', t)
    BY <2>1, GoneFacts DEF NoUpdates, NoOldUpdates
  <2>4. \A q \in Procs : Aloof(frame'[q], t)
    BY <1>1, MainIsProc, MovesStayAloof
  <2>5. QED
    BY <2>1, <2>2, <2>3, <2>4, SameRow, GoneFacts, FactsGone
<1>4. QED
  BY <1>2, <1>3

LEMMA CrashStaysAloof ==
    ASSUME IInv, NEW t \in Tenants, Gone(t), Crash
    PROVE  Gone(t)'
<1>1. UNCHANGED <<tenants, store, old>> /\ \A p \in Procs : Aloof(frame'[p], t)
  BY IdleIsAloof DEF Crash, CutWire, dbVars
<1>2. PICK n \in 0 .. Len(wire) : wire' = Disowned(SubSeq(wire, 1, n), Procs)
  BY DEF Crash, CutWire
<1> DEFINE w == SubSeq(wire, 1, n)
<1>3. w \in Seq(Request) /\ \A i \in DOMAIN w : i \in DOMAIN wire /\ w[i] = wire[i]
  BY WireFacts
<1>4. wire' = Disowned(w, Procs)
  BY <1>2
<1> HIDE DEF w
<1>5. NoUpdates(wire', t)
  BY <1>3, <1>4, DisownedWire, GoneFacts DEF NoUpdates
<1>6. QED
  BY <1>1, <1>5, SameRow, GoneFacts, FactsGone

LEMMA WipeStaysAloof ==
    ASSUME IInv, NEW t \in Tenants, Gone(t), Wipe
    PROVE  Gone(t)'
<1>1. UNCHANGED <<tenants, frame, wire, old>> /\ store'[t] = None
  BY DEF Wipe, LoseStore, dbVars
<1>2. QED
  BY <1>1, SameRow, GoneFacts, FactsGone

LEMMA ServeStaysAloof ==
    ASSUME IInv, NEW t \in Tenants, Gone(t), Serve
    PROVE  Gone(t)'
<1>1. UNCHANGED <<tenants, frame, old>> /\ wire # <<>> /\ wire' = Tail(wire)
  BY DEF Serve, ServeRequest, dbVars
<1>2. NoUpdates(wire, t) /\ store[t] = None /\ wire \in Seq(Request)
  BY GoneFacts, WireFacts
<1>3. 1 \in DOMAIN wire /\ Head(wire) = wire[1]
  BY <1>1, <1>2
<1>4. \A i \in DOMAIN wire' : i + 1 \in DOMAIN wire /\ wire'[i] = wire[i + 1]
  BY <1>1, <1>2
<1>5. NoUpdates(wire', t)
  BY <1>2, <1>4 DEF NoUpdates
<1>6. store'[t] = None
  <2>1. Head(wire).tenant = t => Effect(Head(wire)) = None
    BY <1>2, <1>3 DEF NoUpdates, Effect
  <2>2. store \in [Tenants -> Claims \union {None}]
    BY DEF IInv, NetOK, NetTypeOK
  <2>3. store' = [store EXCEPT ![Head(wire).tenant] = Effect(Head(wire))] \/ store' = store
    BY DEF Serve, ServeRequest
  <2>4. QED
    BY <1>2, <2>1, <2>2, <2>3
<1>7. QED
  BY <1>1, <1>5, <1>6, SameRow, GoneFacts, FactsGone

\* What dead processes left for the tenant are deletions.
LEMMA ServeLateStaysAloof ==
    ASSUME IInv, NEW t \in Tenants, Gone(t), ServeLate
    PROVE  Gone(t)'
<1>1. PICK m \in old :
          /\ old' \in {old, old \ {m}}
          /\ store' = [store EXCEPT ![m.tenant] = Effect(m)] \/ UNCHANGED store
          /\ UNCHANGED <<wire, tenants, frame>>
  BY DEF ServeLate, ServeOld, dbVars
<1>2. NoOldUpdates(old', t)
  BY <1>1, GoneFacts DEF NoOldUpdates
<1>3. store'[t] = None
  <2>1. m.tenant = t => Effect(m) = None
    BY GoneFacts DEF NoOldUpdates, Effect
  <2>2. store \in [Tenants -> Claims \union {None}]
    BY DEF IInv, NetOK, NetTypeOK
  <2>3. QED
    BY <1>1, <2>1, <2>2, GoneFacts
<1>4. QED
  BY <1>1, <1>2, <1>3, SameRow, GoneFacts, FactsGone

LEMMA StepStaysAloof ==
    IInv /\ [Next]_vars => [\A t \in Tenants : Gone(t) => Gone(t)']_vars
<1> SUFFICES ASSUME IInv, Next, NEW t \in Tenants, Gone(t) PROVE Gone(t)'
  OBVIOUS
<1>1. CASE BootReconcile
  BY <1>1, MainIsProc, LoopStaysAloof DEF BootReconcile
<1>2. ASSUME NEW h \in Handlers, Handle(h) PROVE Gone(t)'
  BY <1>2, HandleStaysAloof
<1>3. QED
  BY <1>1, <1>2, BootStaysAloof, CrashStaysAloof, WipeStaysAloof, ServeStaysAloof,
     ServeLateStaysAloof DEF Next

(***************************************************************************)
(* Once a tenant is deleted, out of the resolver and no longer in the      *)
(* hands of a request that read it before, no request, retry, reseed,      *)
(* reconciliation or restart brings it back: the filter on 'deleted' in    *)
(* repo.Get and repo.List is enough, although SetStatus and                *)
(* UpdateAccountJWT match on the id alone.                                 *)
(***************************************************************************)
THEOREM DeletedTenantsStayGone == Spec => DeletedStaysGone
<1>1. QED
  BY Invariance, StepStaysAloof, PTL DEF Spec, DeletedStaysGone
=============================================================================
