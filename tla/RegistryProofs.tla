---------------------------- MODULE RegistryProofs ----------------------------
(***************************************************************************)
(* The backend implements AccountRegistry, for any number of handlers,     *)
(* tenants, users and limits and any set of faults.                        *)
(*                                                                         *)
(* To IInv the proof adds where the JWT that a request is about to store   *)
(* comes from: a recorded one, with a new limit or with one more user of   *)
(* the same tenant.  Most steps leave the tables the registry sees alone   *)
(* ("silent"); the others are the six that a registry step explains.       *)
(***************************************************************************)
EXTENDS BackendProofs

\* Where the values of a frame come from.
Derived(f, cm, cr) ==
    /\ f.op = "Update" => \E c \in cm[f.tenant] : f.jwt = WithLimits(c, f.limit)
    /\ f.op = "Revoke" => cr[f.user].tenant = f.tenant
    /\ f.op = "Revoke" /\ f.pc = "write" =>
           \E c \in cm[f.tenant] : f.jwt = WithRevocation(c, f.user)
    /\ f.op = "Revoke" /\ f.pc = "mark" => f.user \in f.jwt.revoked
    /\ f.op = "Issue" => cr[f.user] = None

\* A user key belongs to the one request that generated it.
SoleIssuer ==
    \A p, q \in Procs : frame[p].op = "Issue" /\ frame[p].user = frame[q].user => p = q

\* The history of a tenant begins with its row.
HistoryBegins == \A t \in Tenants : tenants[t] = None => committed[t] = {}

\* The inductive invariant of the refinement.
RInv ==
    /\ IInv
    /\ HistoryBegins
    /\ SoleIssuer
    /\ \A p \in Procs : Derived(frame[p], committed, creds)

\* A step the registry does not see.
Silent == UNCHANGED <<committed, creds, store>> /\ Grows

Elsewhere(p) == \A q \in Procs : q # p => frame'[q] = frame[q]

\* The user in the new frame of a process is not one that another issues.
OwnUser(p) ==
    LET f == frame'[p]
    IN \/ f.op # "Issue" /\ f.user = None
       \/ f.user = frame[p].user /\ (f.op = "Issue" => frame[p].op = "Issue")
       \/ \A q \in Procs : frame[q].user # f.user
       \/ f.op = "Revoke" /\ creds[f.user] # None

RegistryStep == [Registry!Next]_(Registry!vars)

\* The registry's limits are those of the claims.
LEMMA SameLimits == Registry!LimitValues = LimitValues
BY DEF Registry!LimitValues, Registry!NoLimit, LimitValues, NoLimit

-----------------------------------------------------------------------------
\* Moves of one frame.

LEMMA EnterMoves ==
    ASSUME IInv, NEW p \in Procs, NEW f, Enter(p, f)
    PROVE  Elsewhere(p) /\ frame'[p] = f
BY DEF IInv, FramesOK, Enter, Elsewhere

LEMMA ReturnMoves ==
    ASSUME IInv, NEW p \in Procs, Return(p)
    PROVE  /\ Elsewhere(p)
           /\ frame'[p].op = "none"
           /\ frame'[p].pc = "idle"
           /\ frame'[p].user = None
           /\ frame'[p].tenant = None
           /\ frame'[p].todo = Nothing
BY EnterMoves DEF Return, IdleFrame

LEMMA GotoMoves ==
    ASSUME IInv, NEW p \in Procs, NEW pc, Goto(p, pc)
    PROVE  /\ Elsewhere(p)
           /\ frame'[p].op = frame[p].op
           /\ frame'[p].pc = pc
           /\ frame'[p].user = frame[p].user
           /\ frame'[p].tenant = frame[p].tenant
           /\ frame'[p].jwt = frame[p].jwt
           /\ frame'[p].limit = frame[p].limit
           /\ frame'[p].todo = frame[p].todo
<1>1. frame[p] \in Frame
  BY FrameFacts
<1>2. Elsewhere(p) /\ frame'[p] = [frame[p] EXCEPT !.pc = pc]
  BY GotoIsEnter, EnterMoves
<1>3. QED
  BY <1>1, <1>2 DEF Frame

\* No process moves.
LEMMA NobodyMoves ==
    ASSUME UNCHANGED frame, NEW p \in Procs
    PROVE  Elsewhere(p) /\ frame'[p] = frame[p]
BY DEF Elsewhere

\* A handler's calls to the resolver do not touch its directory.
LEMMA CallsAreSilent ==
    ASSUME NEW p, \/ \E t, jwt : Push(p, t, jwt)
                  \/ \E t : Delete(p, t)
                  \/ Accepted(p)
                  \/ Refused(p)
                  \/ UNCHANGED netVars
    PROVE  UNCHANGED store
BY DEF Push, Delete, Send, Accepted, Refused, netVars

LEMMA SilentWithoutWrites ==
    ASSUME UNCHANGED <<dbVars, creds, store>>
    PROVE  Silent
BY NoGrowth DEF Silent, dbVars

-----------------------------------------------------------------------------
\* What the moves preserve.

LEMMA GrowthKeepsDerived ==
    ASSUME IInv, Grows, UNCHANGED creds, NEW q \in Procs, Derived(frame[q], committed, creds)
    PROVE  Derived(frame[q], committed', creds')
<1>1. frame[q].op \in {"Update", "Revoke"} => frame[q].tenant \in Tenants
  BY FrameFacts DEF Sound
<1>2. \A t \in Tenants : committed[t] \subseteq committed'[t]
  BY DEF Grows
<1>3. QED
  BY <1>1, <1>2 DEF Derived

LEMMA MoveKeepsSoleIssuer ==
    ASSUME RInv, NEW p \in Procs, Elsewhere(p), OwnUser(p), IInv'
    PROVE  SoleIssuer'
<1>1. SUFFICES ASSUME NEW q \in Procs, NEW r \in Procs,
                      frame'[q].op = "Issue", frame'[q].user = frame'[r].user, q # r
               PROVE  FALSE
  BY DEF SoleIssuer
<1>2. /\ \A s \in Procs : frame[s].op = "Issue" => frame[s].user \in Users /\ creds[frame[s].user] = None
      /\ \A s \in Procs : s # p => frame'[s] = frame[s]
      /\ None \notin Users
  BY FrameFacts, NoneAssumption DEF RInv, Derived, Sound, Elsewhere
<1>3. frame'[q].user \in Users
  <2>1. FramesOK'
    BY DEF IInv
  <2>2. QED
    BY <1>1, <2>1 DEF FramesOK, Sound
<1>4. CASE q # p /\ r # p
  BY <1>1, <1>2, <1>4 DEF RInv, SoleIssuer
<1>5. CASE q = p
  BY <1>1, <1>2, <1>3, <1>5 DEF OwnUser, RInv, SoleIssuer
<1>6. CASE r = p
  BY <1>1, <1>2, <1>3, <1>6 DEF OwnUser, RInv, SoleIssuer
<1>7. QED
  BY <1>4, <1>5, <1>6

\* A step that is silent, and whose process keeps to what it has derived.
LEMMA SilentStep ==
    ASSUME RInv, IInv', Silent, NEW p \in Procs, Elsewhere(p), OwnUser(p),
           Derived(frame'[p], committed, creds)
    PROVE  RInv' /\ RegistryStep
<1>1. SoleIssuer'
  BY MoveKeepsSoleIssuer
<1>2. HistoryBegins'
  BY DEF RInv, HistoryBegins, Silent, Grows
<1>3. \A q \in Procs : Derived(frame'[q], committed', creds')
  BY DEF RInv, Silent, Elsewhere
<1>4. RegistryStep
  BY DEF RegistryStep, Registry!vars, Silent
<1>5. QED
  BY <1>1, <1>2, <1>3, <1>4 DEF RInv

\* The operations that neither edit claims nor issue.
Plain == {"none", "Create", "Suspend", "Activate", "Delete", "Reconcile", "JetStream"}

LEMMA PlainStep ==
    ASSUME RInv, IInv', Silent, NEW p \in Procs, Elsewhere(p),
           frame'[p].op \in Plain,
           frame'[p].user \in {None, frame[p].user}
    PROVE  RInv' /\ RegistryStep
<1>1. OwnUser(p)
  BY DEF Plain, OwnUser
<1>2. Derived(frame'[p], committed, creds)
  BY DEF Plain, Derived
<1>3. QED
  BY <1>1, <1>2, SilentStep

\* The three ways in which a plain operation goes on.
LEMMA PlainMoves ==
    ASSUME RInv, IInv', Silent, NEW p \in Procs,
           \/ Return(p)
           \/ frame[p].op \in Plain /\ \E pc : Goto(p, pc)
           \/ \E f : Enter(p, f) /\ f.op \in Plain /\ f.user \in {None, frame[p].user}
           \/ UNCHANGED frame /\ frame[p].op \in Plain
    PROVE  RInv' /\ RegistryStep
<1>1. Elsewhere(p) /\ frame'[p].op \in Plain /\ frame'[p].user \in {None, frame[p].user}
  BY ReturnMoves, GotoMoves, EnterMoves, NobodyMoves DEF RInv, Plain
<1>2. QED
  BY <1>1, PlainStep

\* A plain operation replaces its frame.
LEMMA PlainEnter ==
    ASSUME RInv, IInv', Silent, NEW p \in Procs, NEW f, Enter(p, f),
           f.op \in Plain, f.user \in {None, frame[p].user}
    PROVE  RInv' /\ RegistryStep
BY PlainMoves

\* A plain operation is opened.
LEMMA OpenedFields ==
    ASSUME NEW op, NEW pc, NEW t, NEW jwt
    PROVE  /\ Opened(op, pc, t).op = op
           /\ Opened(op, pc, t).user = None
           /\ [Opened(op, pc, t) EXCEPT !.jwt = jwt].op = op
           /\ [Opened(op, pc, t) EXCEPT !.jwt = jwt].user = None
BY DEF Opened, IdleFrame

\* SetStatus and SoftDelete are silent.
LEMMA StatusWriteRefines ==
    ASSUME RInv, IInv', NEW p \in Procs, frame[p].op \notin {"none", "Reconcile"},
           NEW status \in {"active", "suspended", "deleted"}, LastStatusWrite(p, status),
           UNCHANGED credVars
    PROVE  RInv' /\ RegistryStep
<1>1. frame[p].tenant \in Tenants /\ tenants[frame[p].tenant] # None
  BY FrameFacts DEF RInv, Sound
<1>2. WriteStatus(frame[p].tenant, status) \/ UNCHANGED dbVars
  BY DEF LastStatusWrite
<1>3. Grows
  BY <1>1, <1>2, WriteStatusKeeps, DbKept DEF RInv
<1>4. Silent
  BY <1>2, <1>3 DEF Silent, WriteStatus, LastStatusWrite, netVars, dbVars, credVars
<1>5. QED
  BY <1>4, PlainMoves DEF LastStatusWrite

\* A row is inserted with claims that revoke nobody: the account is registered.
LEMMA InsertRefines ==
    ASSUME RInv, IInv', NEW h \in Procs, CreateInsert(h), UNCHANGED credVars
    PROVE  RInv' /\ RegistryStep
<1>0. UNCHANGED <<creds, store>>
  BY DEF CreateInsert, credVars, netVars
<1>1. PICK t \in Tenants, n \in Limits, r \in DbOutcomes :
          LET jwt == NewAccountClaims(n)
          IN /\ tenants[t] = None
             /\ IF r.applied
                    THEN WriteJWT(t, [status |-> "active", jwt |-> jwt, limit |-> n])
                    ELSE UNCHANGED dbVars
             /\ IF r.err
                    THEN UNCHANGED frame
                    ELSE Enter(h, [Opened("Create", "saveSeed", t) EXCEPT !.jwt = jwt])
  BY DEF CreateInsert
<1> DEFINE jwt == NewAccountClaims(n)
           row == [status |-> "active", jwt |-> jwt, limit |-> n]
           f == [Opened("Create", "saveSeed", t) EXCEPT !.jwt = jwt]
<1>2. /\ Elsewhere(h)
      /\ frame'[h].op \in Plain
      /\ frame'[h].user \in {None, frame[h].user}
  <2>1. f.op = "Create" /\ f.user = None
    BY DEF Opened, IdleFrame
  <2>2. frame[h].op = "none"
    BY DEF CreateInsert, Accepting
  <2>3. UNCHANGED frame \/ Enter(h, f)
    BY <1>1
  <2>4. QED
    BY <2>1, <2>2, <2>3, EnterMoves, NobodyMoves DEF RInv, Plain
<1>3. CASE UNCHANGED dbVars
  BY <1>0, <1>2, <1>3, SilentWithoutWrites, PlainStep
<1>4. CASE WriteJWT(t, row)
  <2>1. row \in Row
    BY ClaimsClosed DEF Row
  <2>2. Grows
    BY <1>4, <2>1, WriteJWTKeepsDb DEF RInv
  <2>3. committed[t] = {} /\ tenants[t] = None
    BY <1>1 DEF RInv, HistoryBegins
  <2>4. /\ committed' = [committed EXCEPT ![t] = @ \union {jwt}]
        /\ tenants' = [tenants EXCEPT ![t] = row]
    BY <1>4 DEF WriteJWT
  <2>5. jwt = [limit |-> jwt.limit, revoked |-> {}] /\ jwt.limit \in LimitValues
    BY ClaimsClosed DEF NewAccountClaims, Claims
  <2>6. Registry!Record(t, [limit |-> jwt.limit, revoked |-> {}])
    BY <1>0, <2>4, <2>5 DEF Registry!Record
  <2>7. Registry!Register(t)
    BY <2>3, <2>5, <2>6, SameLimits DEF Registry!Register
  <2>8. RegistryStep
    BY <2>7 DEF RegistryStep, Registry!Next
  <2>9. HistoryBegins'
    <3>1. tenants'[t] # None
      BY <1>4, <2>1, WriteJWTKeepsDb DEF RInv
    <3>2. \A s \in Tenants : s # t => tenants'[s] = tenants[s] /\ committed'[s] = committed[s]
      BY <2>4 DEF RInv, IInv, DbOK
    <3>3. QED
      BY <3>1, <3>2 DEF RInv, HistoryBegins
  <2>10. OwnUser(h) /\ Derived(frame'[h], committed', creds')
    BY <1>2 DEF OwnUser, Derived, Plain
  <2>11. \A q \in Procs : Derived(frame'[q], committed', creds')
    BY <1>0, <1>2, <2>2, <2>10, GrowthKeepsDerived DEF RInv, Elsewhere
  <2>12. QED
    BY <1>2, <2>8, <2>9, <2>10, <2>11, MoveKeepsSoleIssuer DEF RInv
<1>5. QED
  BY <1>1, <1>3, <1>4

LEMMA CreateRefines ==
    ASSUME RInv, IInv', NEW h \in Procs, CreateStep(h), UNCHANGED credVars
    PROVE  RInv' /\ RegistryStep
<1>1. CASE CreateInsert(h)
  BY <1>1, InsertRefines
<1>2. CASE CreateSaveSeed(h)
  <2>1. /\ frame[h].op \in Plain
        /\ \E pc : Goto(h, pc)
        /\ UNCHANGED <<tenants, committed, creds, store>>
    BY <1>2 DEF CreateSaveSeed, At, Plain, credVars, netVars
  <2>2. Silent
    BY <2>1 DEF Silent, Grows
  <2>3. QED
    BY <2>1, <2>2, PlainMoves
<1>3. CASE CreatePush(h) \/ CreateAnswer(h)
  <2>1. /\ frame[h].op \in Plain
        /\ Return(h) \/ \E pc : Goto(h, pc)
        /\ UNCHANGED <<dbVars, creds>>
    BY <1>3 DEF CreatePush, CreateAnswer, At, Plain, credVars, PushOrSkip
  <2>2. UNCHANGED store
    BY <1>3, CallsAreSilent DEF CreatePush, CreateAnswer, PushOrSkip
  <2>3. QED
    BY <2>1, <2>2, SilentWithoutWrites, PlainMoves
<1>4. CASE CreateUndo(h)
  BY <1>4, StatusWriteRefines DEF CreateUndo, At
<1>5. QED
  BY <1>1, <1>2, <1>3, <1>4 DEF CreateStep

LEMMA SuspendRefines ==
    ASSUME RInv, IInv', NEW h \in Procs, SuspendStep(h), UNCHANGED credVars
    PROVE  RInv' /\ RegistryStep
<1>1. CASE SuspendGet(h) \/ SuspendDelete(h) \/ SuspendAnswer(h)
  <2>1. /\ \/ Return(h)
           \/ frame[h].op \in Plain /\ \E pc : Goto(h, pc)
           \/ \E t : Enter(h, Opened("Suspend", "delete", t))
        /\ UNCHANGED <<dbVars, creds>>
    BY <1>1 DEF SuspendGet, SuspendDelete, SuspendAnswer, At, Plain, credVars, DeleteOrSkip
  <2>2. UNCHANGED store
    BY <1>1, CallsAreSilent DEF SuspendGet, SuspendDelete, SuspendAnswer, DeleteOrSkip, netVars
  <2>3. QED
    BY <2>1, <2>2, SilentWithoutWrites, PlainMoves, PlainEnter, OpenedFields DEF Plain
<1>2. CASE SuspendMark(h)
  BY <1>2, StatusWriteRefines DEF SuspendMark, At
<1>3. QED
  BY <1>1, <1>2 DEF SuspendStep

LEMMA ActivateRefines ==
    ASSUME RInv, IInv', NEW h \in Procs, ActivateStep(h), UNCHANGED credVars
    PROVE  RInv' /\ RegistryStep
<1>1. CASE ActivateGet(h) \/ ActivatePush(h) \/ ActivateAnswer(h)
  <2>1. /\ \/ Return(h)
           \/ frame[h].op \in Plain /\ \E pc : Goto(h, pc)
           \/ \E t, jwt : Enter(h, [Opened("Activate", "push", t) EXCEPT !.jwt = jwt])
        /\ UNCHANGED <<dbVars, creds>>
    BY <1>1 DEF ActivateGet, ActivatePush, ActivateAnswer, At, Plain, credVars, PushOrSkip
  <2>2. UNCHANGED store
    BY <1>1, CallsAreSilent DEF ActivateGet, ActivatePush, ActivateAnswer, PushOrSkip, netVars
  <2>3. ASSUME NEW t, NEW jwt, Enter(h, [Opened("Activate", "push", t) EXCEPT !.jwt = jwt])
        PROVE  RInv' /\ RegistryStep
    <3> DEFINE f == [Opened("Activate", "push", t) EXCEPT !.jwt = jwt]
    <3>1. Enter(h, f) /\ f.op = "Activate" /\ f.user = None
      BY <2>3, OpenedFields
    <3>2. Silent
      BY <2>1, <2>2, SilentWithoutWrites
    <3> HIDE DEF f
    <3>3. QED
      BY <3>1, <3>2, PlainEnter DEF Plain
  <2>4. QED
    BY <2>1, <2>2, <2>3, SilentWithoutWrites, PlainMoves
<1>2. CASE ActivateMark(h)
  BY <1>2, StatusWriteRefines DEF ActivateMark, At
<1>3. QED
  BY <1>1, <1>2 DEF ActivateStep

LEMMA DeleteRefines ==
    ASSUME RInv, IInv', NEW h \in Procs, DeleteStep(h), UNCHANGED credVars
    PROVE  RInv' /\ RegistryStep
<1>1. CASE DeleteGet(h) \/ DeleteRequest(h) \/ DeleteAnswer(h)
  <2>1. /\ \/ frame[h].op \in Plain /\ \E pc : Goto(h, pc)
           \/ \E t : Enter(h, Opened("Delete", "delete", t))
        /\ UNCHANGED <<dbVars, creds>>
    BY <1>1 DEF DeleteGet, DeleteRequest, DeleteAnswer, At, Plain, credVars, DeleteOrSkip
  <2>2. UNCHANGED store
    BY <1>1, CallsAreSilent DEF DeleteGet, DeleteRequest, DeleteAnswer, DeleteOrSkip, netVars
  <2>3. QED
    BY <2>1, <2>2, SilentWithoutWrites, PlainMoves, PlainEnter, OpenedFields DEF Plain
<1>2. CASE DeleteMark(h)
  BY <1>2, StatusWriteRefines DEF DeleteMark, At
<1>3. QED
  BY <1>1, <1>2 DEF DeleteStep

\* One round of the loop, by a handler or at boot.
LEMMA ReconcileLoopRefines ==
    ASSUME RInv, IInv', NEW p \in Procs, ReconcileLoop(p), UNCHANGED credVars
    PROVE  RInv' /\ RegistryStep
<1>0. frame[p] \in Frame /\ frame[p].op = "Reconcile" /\ UNCHANGED <<dbVars, creds>>
  BY FrameFacts DEF RInv, ReconcileLoop, ReconcilePush, ReconcileAnswer, At, credVars
<1>1. UNCHANGED store
  BY CallsAreSilent DEF ReconcileLoop, ReconcilePush, ReconcileAnswer
<1>2. PICK f : Enter(p, f) /\ f.op = "Reconcile" /\ f.user = frame[p].user
  <2>1. CASE ReconcilePush(p)
    <3>1. PICK t : Enter(p, [frame[p] EXCEPT !.pc = "answer", !.tenant = t])
      BY <2>1 DEF ReconcilePush
    <3>2. LET f == [frame[p] EXCEPT !.pc = "answer", !.tenant = t]
          IN  f.op = "Reconcile" /\ f.user = frame[p].user
      BY <1>0 DEF Frame
    <3>3. QED
      BY <3>1, <3>2
  <2>2. CASE ReconcileAnswer(p)
    <3>1. PICK b : Enter(p, Pushed(frame[p], b))
      BY <2>2 DEF ReconcileAnswer
    <3>2. Pushed(frame[p], b).op = "Reconcile" /\ Pushed(frame[p], b).user = frame[p].user
      BY <1>0 DEF Pushed, Frame
    <3>3. QED
      BY <3>1, <3>2
  <2>3. QED
    BY <2>1, <2>2 DEF ReconcileLoop
<1>3. QED
  BY <1>0, <1>1, <1>2, SilentWithoutWrites, PlainMoves DEF Plain

LEMMA ReconcileRefines ==
    ASSUME RInv, IInv', NEW h \in Procs, ReconcileStep(h), UNCHANGED credVars
    PROVE  RInv' /\ RegistryStep
<1>1. CASE ReconcileLoop(h)
  BY <1>1, ReconcileLoopRefines
<1>2. CASE ReconcileList(h) \/ ReconcileReturn(h)
  <2>1. /\ Return(h) \/ Enter(h, ReconcileFrame(ActiveJWTs(tenants)))
        /\ UNCHANGED <<dbVars, creds, store>>
    BY <1>2 DEF ReconcileList, ReconcileReturn, credVars, netVars
  <2>2. ReconcileFrame(ActiveJWTs(tenants)).op = "Reconcile"
    BY DEF ReconcileFrame, Opened, IdleFrame
  <2>3. ReconcileFrame(ActiveJWTs(tenants)).user = None
    BY DEF ReconcileFrame, Opened, IdleFrame
  <2>4. QED
    BY <2>1, <2>2, <2>3, SilentWithoutWrites, PlainMoves DEF Plain
<1>3. QED
  BY <1>1, <1>2 DEF ReconcileStep

LEMMA JetStreamRefines ==
    ASSUME RInv, IInv', NEW h \in Procs, JetStreamStep(h), UNCHANGED credVars
    PROVE  RInv' /\ RegistryStep
<1>0. frame[h] \in Frame
  BY FrameFacts DEF RInv
<1>1. UNCHANGED <<dbVars, creds>>
  BY DEF JetStreamStep, JetStreamGet, JetStreamConnect, JetStreamReseed, JetStreamPush,
         JetStreamAnswer, credVars
<1>2. UNCHANGED store
  BY CallsAreSilent
  DEF JetStreamStep, JetStreamGet, JetStreamConnect, JetStreamReseed, JetStreamPush,
      JetStreamAnswer, PushOrSkip, netVars
<1>3. CASE JetStreamGet(h)
  BY <1>1, <1>2, <1>3, SilentWithoutWrites, PlainEnter, OpenedFields DEF JetStreamGet, Plain
<1>4. CASE JetStreamConnect(h) \/ JetStreamPush(h) \/ JetStreamAnswer(h)
  <2>1. Return(h) \/ (frame[h].op \in Plain /\ \E pc : Goto(h, pc))
    BY <1>4 DEF JetStreamConnect, JetStreamPush, JetStreamAnswer, PushOrSkip, At, Plain
  <2>2. QED
    BY <1>1, <1>2, <2>1, SilentWithoutWrites, PlainMoves
<1>5. CASE JetStreamReseed(h)
  <2>1. \/ Return(h)
        \/ \E jwt : Enter(h, [frame[h] EXCEPT !.pc = "push", !.jwt = jwt])
    BY <1>5 DEF JetStreamReseed
  <2>2. frame[h].op = "JetStream"
    BY <1>5 DEF JetStreamReseed, At
  <2>3. \A jwt : LET f == [frame[h] EXCEPT !.pc = "push", !.jwt = jwt]
                 IN  f.op = "JetStream" /\ f.user = frame[h].user
    BY <1>0, <2>2 DEF Frame
  <2>4. CASE Return(h)
    BY <1>1, <1>2, <2>4, SilentWithoutWrites, PlainMoves
  <2>5. ASSUME NEW jwt, Enter(h, [frame[h] EXCEPT !.pc = "push", !.jwt = jwt])
        PROVE  RInv' /\ RegistryStep
    BY <1>1, <1>2, <2>3, <2>5, SilentWithoutWrites, PlainEnter DEF Plain
  <2>6. QED
    BY <2>1, <2>4, <2>5
<1>6. QED
  BY <1>3, <1>4, <1>5 DEF JetStreamStep

-----------------------------------------------------------------------------
\* UpdateLimits, Issue and Revoke.

\* The new JWT is stored: a recorded one with another limit.
LEMMA RelimitRefines ==
    ASSUME RInv, IInv', NEW h \in Procs, UpdateWrite(h), UNCHANGED credVars
    PROVE  RInv' /\ RegistryStep
<1> DEFINE g == frame[h]
           row == [tenants[g.tenant] EXCEPT !.jwt = g.jwt, !.limit = g.limit]
<1>1. /\ g.op = "Update" /\ g.tenant \in Tenants /\ tenants[g.tenant] # None
      /\ g.jwt \in Claims /\ g.limit \in Limits /\ g \in Frame
      /\ UNCHANGED <<creds, store>>
  BY FrameFacts DEF UpdateWrite, At, RInv, Sound, credVars, netVars
<1>2. PICK c \in committed[g.tenant] : g.jwt = WithLimits(c, g.limit)
  BY <1>1 DEF RInv, Derived
<1>3. tenants[g.tenant] \in Row
  BY <1>1 DEF RInv, IInv, DbOK
<1>4. row \in Row /\ row.jwt = g.jwt
  BY <1>1, <1>3 DEF Row
<1>5. WriteJWT(g.tenant, row) \/ UNCHANGED dbVars
  BY DEF UpdateWrite
<1>6. Grows /\ HistoryBegins'
  <2>1. CASE UNCHANGED dbVars
    BY <1>1, <2>1, NoGrowth DEF RInv, HistoryBegins, dbVars
  <2>2. CASE WriteJWT(g.tenant, row)
    <3>1. Grows /\ tenants'[g.tenant] # None
      BY <1>1, <1>4, <2>2, WriteJWTKeepsDb DEF RInv
    <3>2. \A s \in Tenants : s # g.tenant => tenants'[s] = tenants[s] /\ committed'[s] = committed[s]
      BY <2>2 DEF WriteJWT, RInv, IInv, DbOK
    <3>3. QED
      BY <3>1, <3>2 DEF RInv, HistoryBegins
  <2>3. QED
    BY <1>5, <2>1, <2>2
<1>7. Elsewhere(h) /\ OwnUser(h) /\ Derived(frame'[h], committed', creds')
  <2>1. CASE Return(h)
    BY <2>1, ReturnMoves DEF RInv, OwnUser, Derived
  <2>2. CASE Goto(h, "push")
    <3>1. /\ Elsewhere(h)
          /\ frame'[h].op = "Update"
          /\ frame'[h].user = g.user
          /\ frame'[h].tenant = g.tenant
          /\ frame'[h].jwt = g.jwt
          /\ frame'[h].limit = g.limit
      BY <1>1, <2>2, GotoMoves DEF RInv
    <3>2. c \in committed'[g.tenant]
      BY <1>1, <1>2, <1>6 DEF Grows
    <3>3. QED
      BY <1>1, <1>2, <3>1, <3>2 DEF OwnUser, Derived
  <2>3. QED
    BY <2>1, <2>2 DEF UpdateWrite
<1>8. RegistryStep
  <2>1. CASE UNCHANGED dbVars
    BY <1>1, <2>1 DEF RegistryStep, Registry!vars, dbVars
  <2>2. CASE WriteJWT(g.tenant, row)
    <3>1. committed' = [committed EXCEPT ![g.tenant] = @ \union {g.jwt}]
      BY <1>4, <2>2 DEF WriteJWT
    <3>2. g.jwt = [limit |-> g.limit, revoked |-> c.revoked] /\ g.limit \in LimitValues
      <4>1. c \in Claims
        BY <1>1, <1>2 DEF RInv, IInv, DbOK
      <4>2. QED
        BY <1>1, <1>2, <4>1 DEF WithLimits, Claims, LimitValues
    <3>3. Registry!Relimit(g.tenant)
      BY <1>1, <1>2, <3>1, <3>2, SameLimits DEF Registry!Relimit, Registry!Record
    <3>4. QED
      BY <1>1, <3>3 DEF RegistryStep, Registry!Next
  <2>3. QED
    BY <1>5, <2>1, <2>2
<1>9. \A q \in Procs : Derived(frame'[q], committed', creds')
  BY <1>1, <1>6, <1>7, GrowthKeepsDerived DEF RInv, Elsewhere
<1>10. QED
  BY <1>6, <1>7, <1>8, <1>9, MoveKeepsSoleIssuer DEF RInv

LEMMA UpdateRefines ==
    ASSUME RInv, IInv', NEW h \in Procs, UpdateStep(h), UNCHANGED credVars
    PROVE  RInv' /\ RegistryStep
<1>1. CASE UpdateGet(h)
  <2>1. PICK t \in Tenants, n \in Limits :
            /\ Visible(t)
            /\ Enter(h, [Opened("Update", "write", t) EXCEPT
                            !.jwt = WithLimits(tenants[t].jwt, n), !.limit = n])
    BY <1>1 DEF UpdateGet
  <2>2. Silent
    BY <1>1, SilentWithoutWrites DEF UpdateGet, credVars, netVars
  <2>3. /\ Elsewhere(h)
        /\ frame'[h].op = "Update"
        /\ frame'[h].user = None
        /\ frame'[h].tenant = t
        /\ frame'[h].jwt = WithLimits(tenants[t].jwt, n)
        /\ frame'[h].limit = n
    <3> DEFINE f == [Opened("Update", "write", t) EXCEPT
                         !.jwt = WithLimits(tenants[t].jwt, n), !.limit = n]
    <3>1. /\ f.op = "Update" /\ f.user = None /\ f.tenant = t
          /\ f.jwt = WithLimits(tenants[t].jwt, n) /\ f.limit = n
      BY DEF Opened, IdleFrame
    <3>2. Elsewhere(h) /\ frame'[h] = f
      BY <2>1, EnterMoves DEF RInv
    <3>3. QED
      BY <3>1, <3>2
  <2>4. tenants[t].jwt \in committed[t]
    BY <2>1 DEF Visible, RInv, IInv, DbOK
  <2>5. QED
    BY <2>2, <2>3, <2>4, SilentStep DEF OwnUser, Derived
<1>2. CASE UpdateWrite(h)
  BY <1>2, RelimitRefines
<1>3. CASE UpdatePush(h) \/ UpdateAnswer(h)
  <2>1. frame[h].op = "Update" /\ UNCHANGED <<dbVars, creds>>
    BY <1>3 DEF UpdatePush, UpdateAnswer, At, credVars
  <2>2. UNCHANGED store
    BY <1>3, CallsAreSilent DEF UpdatePush, UpdateAnswer, PushOrSkip
  <2>3. Silent
    BY <2>1, <2>2, SilentWithoutWrites
  <2>4. CASE Return(h)
    BY <2>3, <2>4, PlainMoves
  <2>5. CASE Goto(h, "answer")
    BY <2>1, <2>3, <2>5, GotoMoves, SilentStep DEF RInv, OwnUser, Derived
  <2>6. QED
    BY <1>3, <2>4, <2>5 DEF UpdatePush, UpdateAnswer, PushOrSkip
<1>4. QED
  BY <1>1, <1>2, <1>3 DEF UpdateStep

\* A step that writes to user_credentials only.
LEMMA CredentialStepKeeps ==
    ASSUME RInv, IInv', UNCHANGED dbVars, NEW p \in Procs, Elsewhere(p), OwnUser(p),
           Derived(frame'[p], committed, creds'),
           \A q \in Procs : q # p => Derived(frame[q], committed, creds')
    PROVE  RInv'
<1>1. SoleIssuer' /\ HistoryBegins'
  BY MoveKeepsSoleIssuer DEF RInv, HistoryBegins, dbVars
<1>2. \A q \in Procs : Derived(frame'[q], committed', creds')
  BY DEF Elsewhere, dbVars
<1>3. QED
  BY <1>1, <1>2 DEF RInv

\* The credential is inserted: nobody had its key.
LEMMA IssueInsertRefines ==
    ASSUME RInv, IInv', NEW h \in Procs, IssueInsert(h)
    PROVE  RInv' /\ RegistryStep
<1>1. PICK u \in Users, t \in Tenants :
          /\ frame[h].op = "Issue" /\ frame[h].user = u /\ frame[h].tenant = t
          /\ tenants[t] # None /\ creds[u] = None
  BY FrameFacts DEF IssueInsert, At, RInv, Sound, Derived
<1> DEFINE new == [tenant |-> t, revoked |-> FALSE]
           owners == [v \in Users |-> IF creds[v] = None THEN None ELSE creds[v].tenant]
<1>2. /\ UNCHANGED <<dbVars, store>> /\ Return(h)
      /\ creds' = [creds EXCEPT ![u] = new] \/ UNCHANGED creds
  BY <1>1 DEF IssueInsert, netVars
<1>3. CASE UNCHANGED creds
  BY <1>2, <1>3, SilentWithoutWrites, PlainMoves
<1>4. CASE creds' = [creds EXCEPT ![u] = new]
  <2>1. /\ creds \in [Users -> Credential \union {None}]
        /\ new # None
    <3>1. new \in Credential
      BY <1>1 DEF Credential
    <3>2. QED
      BY <3>1, CredentialAssumption DEF RInv, IInv, DbOK, CredentialTypeOK
  <2>2. creds'[u] = new /\ \A v \in Users : v # u => creds'[v] = creds[v]
    BY <1>1, <1>4, <2>1
  <2>3. ASSUME NEW q \in Procs, q # h
        PROVE  Derived(frame[q], committed, creds')
    <3>1. frame[q].op \in {"Issue", "Revoke"} => frame[q].user \in Users /\ frame[q].user # u
      BY <1>1, <2>3, FrameFacts DEF RInv, Sound, SoleIssuer
    <3>2. QED
      BY <2>2, <3>1 DEF RInv, Derived
  <2>4. Elsewhere(h) /\ OwnUser(h) /\ Derived(frame'[h], committed, creds')
    BY <1>2, ReturnMoves DEF RInv, OwnUser, Derived
  <2>5. RInv'
    BY <1>2, <2>3, <2>4, CredentialStepKeeps
  <2>6. committed[t] # {}
    BY <1>1 DEF RInv, IInv, DbOK
  <2>7. [v \in Users |-> IF creds'[v] = None THEN None ELSE creds'[v].tenant]
            = [owners EXCEPT ![u] = t]
    <3>1. creds'[u] # None /\ creds'[u].tenant = t
      BY <2>1, <2>2
    <3>2. \A v \in Users : v # u => creds'[v] = creds[v]
      BY <2>2
    <3>3. QED
      BY <1>1, <3>1, <3>2
  <2>8. {v \in Users : creds'[v] # None /\ creds'[v].revoked}
            = {v \in Users : creds[v] # None /\ creds[v].revoked}
    BY <1>1, <2>2
  <2>9. owners[u] = None
    BY <1>1
  <2>10. Registry!Issue(t, u)
    BY <1>2, <2>6, <2>7, <2>8, <2>9 DEF Registry!Issue, dbVars
  <2>11. Registry!Next
    BY <2>10 DEF Registry!Next
  <2>12. QED
    BY <2>5, <2>11 DEF RegistryStep
<1>5. QED
  BY <1>2, <1>3, <1>4

LEMMA IssueRefines ==
    ASSUME RInv, IInv', NEW h \in Procs, IssueStep(h)
    PROVE  RInv' /\ RegistryStep
<1>1. CASE IssueGet(h)
  <2>1. PICK t \in Tenants, u \in Users :
            /\ Fresh(u)
            /\ Enter(h, [Opened("Issue", "loadSeed", t) EXCEPT !.user = u])
    BY <1>1 DEF IssueGet
  <2>2. Silent
    BY <1>1, SilentWithoutWrites DEF IssueGet, credVars, netVars
  <2>3. Elsewhere(h) /\ frame'[h].op = "Issue" /\ frame'[h].user = u
    <3> DEFINE f == [Opened("Issue", "loadSeed", t) EXCEPT !.user = u]
    <3>1. f.op = "Issue" /\ f.user = u
      BY DEF Opened, IdleFrame
    <3>2. Elsewhere(h) /\ frame'[h] = f
      BY <2>1, EnterMoves DEF RInv
    <3>3. QED
      BY <3>1, <3>2
  <2>4. OwnUser(h) /\ Derived(frame'[h], committed, creds)
    BY <2>1, <2>3 DEF Fresh, OwnUser, Derived
  <2>5. QED
    BY <2>2, <2>3, <2>4, SilentStep
<1>2. CASE IssueLoadSeed(h)
  <2>1. Silent /\ frame[h].op = "Issue"
    BY <1>2, SilentWithoutWrites DEF IssueLoadSeed, At, credVars, netVars
  <2>2. CASE Return(h)
    BY <2>1, <2>2, PlainMoves
  <2>3. CASE Goto(h, "insert")
    BY <2>1, <2>3, GotoMoves, SilentStep DEF RInv, OwnUser, Derived
  <2>4. QED
    BY <1>2, <2>2, <2>3 DEF IssueLoadSeed
<1>3. CASE IssueInsert(h)
  BY <1>3, IssueInsertRefines
<1>4. QED
  BY <1>1, <1>2, <1>3 DEF IssueStep

\* The re-signed JWT is stored: a recorded one with one more user of the tenant.
LEMMA ExcludeRefines ==
    ASSUME RInv, IInv', NEW h \in Procs, RevokeWrite(h)
    PROVE  RInv' /\ RegistryStep
<1>1. PICK u \in Users, t \in Tenants, jwt \in Claims :
          /\ frame[h].op = "Revoke" /\ frame[h].pc = "write"
          /\ frame[h].user = u /\ frame[h].tenant = t /\ frame[h].jwt = jwt
          /\ tenants[t] # None /\ creds[u] # None /\ creds[u].tenant = t
  BY FrameFacts DEF RevokeWrite, At, RInv, Sound, Derived
<1>2. PICK c \in committed[t] : jwt = WithRevocation(c, u)
  BY <1>1 DEF RInv, Derived
<1> DEFINE row == [tenants[t] EXCEPT !.jwt = jwt]
<1>3. /\ UNCHANGED <<creds, acked, store>>
      /\ WriteJWT(t, row) \/ UNCHANGED dbVars
  BY <1>1 DEF RevokeWrite, credVars, netVars
<1>4. tenants[t] \in Row
  BY <1>1 DEF RInv, IInv, DbOK
<1>5. row \in Row /\ row.jwt = jwt
  BY <1>1, <1>4 DEF Row
<1>6. Grows /\ HistoryBegins'
  <2>1. CASE UNCHANGED dbVars
    BY <1>3, <2>1, NoGrowth DEF RInv, HistoryBegins, dbVars
  <2>2. CASE WriteJWT(t, row)
    <3>1. Grows /\ tenants'[t] # None
      BY <1>3, <1>5, <2>2, WriteJWTKeepsDb DEF RInv, credVars
    <3>2. \A s \in Tenants : s # t => tenants'[s] = tenants[s] /\ committed'[s] = committed[s]
      BY <2>2 DEF WriteJWT, RInv, IInv, DbOK
    <3>3. QED
      BY <3>1, <3>2 DEF RInv, HistoryBegins
  <2>3. QED
    BY <1>3, <2>1, <2>2
<1>7. Elsewhere(h) /\ OwnUser(h) /\ Derived(frame'[h], committed', creds')
  <2>1. CASE Return(h)
    BY <2>1, ReturnMoves DEF RInv, OwnUser, Derived
  <2>2. CASE Goto(h, "mark")
    <3>1. /\ Elsewhere(h)
          /\ frame'[h].op = "Revoke" /\ frame'[h].pc = "mark"
          /\ frame'[h].user = u /\ frame'[h].tenant = t /\ frame'[h].jwt = jwt
      BY <1>1, <2>2, GotoMoves DEF RInv
    <3>2. c \in Claims
      BY <1>1, <1>2 DEF RInv, IInv, DbOK
    <3>3. u \in jwt.revoked
      BY <1>2, <3>2 DEF WithRevocation, Claims
    <3>4. QED
      BY <1>1, <1>3, <3>1, <3>3 DEF OwnUser, Derived
  <2>3. QED
    BY <2>1, <2>2 DEF RevokeWrite
<1>8. RegistryStep
  <2>1. CASE UNCHANGED dbVars
    BY <1>3, <2>1 DEF RegistryStep, Registry!vars, dbVars
  <2>2. CASE WriteJWT(t, row)
    <3>1. committed' = [committed EXCEPT ![t] = @ \union {jwt}]
      BY <1>5, <2>2 DEF WriteJWT
    <3>2. jwt = [limit |-> c.limit, revoked |-> c.revoked \union {u}]
      <4>1. c \in Claims
        BY <1>1, <1>2 DEF RInv, IInv, DbOK
      <4>2. QED
        BY <1>2, <4>1 DEF WithRevocation, Claims
    <3>3. Registry!Record(t, [limit |-> c.limit, revoked |-> c.revoked \union {u}])
      BY <1>3, <3>1, <3>2 DEF Registry!Record
    <3>4. Registry!Exclude(t, u)
      BY <1>1, <1>2, <3>3 DEF Registry!Exclude
    <3>5. QED
      BY <3>4 DEF RegistryStep, Registry!Next
  <2>3. QED
    BY <1>3, <2>1, <2>2
<1>9. \A q \in Procs : Derived(frame'[q], committed', creds')
  BY <1>3, <1>6, <1>7, GrowthKeepsDerived DEF RInv, Elsewhere
<1>10. QED
  BY <1>6, <1>7, <1>8, <1>9, MoveKeepsSoleIssuer DEF RInv

\* The credential is marked: its account's history has claims that revoke it.
LEMMA MarkRefines ==
    ASSUME RInv, IInv', NEW h \in Procs, RevokeMark(h)
    PROVE  RInv' /\ RegistryStep
<1>1. PICK u \in Users, t \in Tenants :
          /\ frame[h].op = "Revoke" /\ frame[h].user = u /\ frame[h].tenant = t
          /\ creds[u] # None /\ creds[u].tenant = t
          /\ frame[h].jwt \in committed[t] /\ u \in frame[h].jwt.revoked
  BY FrameFacts DEF RevokeMark, At, RInv, Sound, Derived
<1> DEFINE marked == [creds EXCEPT ![u].revoked = TRUE]
<1>2. /\ UNCHANGED <<dbVars, acked, store>>
      /\ creds' = marked \/ UNCHANGED creds
      /\ Return(h) \/ Goto(h, "push")
  BY <1>1 DEF RevokeMark, netVars
<1>3. /\ creds \in [Users -> Credential \union {None}]
      /\ creds[u] \in Credential
  BY <1>1 DEF RInv, IInv, DbOK, CredentialTypeOK
<1>4. /\ creds'[u].tenant = t /\ creds'[u] # None
      /\ \A v \in Users : v # u => creds'[v] = creds[v]
      /\ creds' = marked => creds'[u].revoked
  <2>1. creds' = marked => /\ creds'[u] = [creds[u] EXCEPT !.revoked = TRUE]
                           /\ \A v \in Users : v # u => creds'[v] = creds[v]
    BY <1>3
  <2>2. [creds[u] EXCEPT !.revoked = TRUE] \in Credential
    BY <1>3 DEF Credential
  <2>3. [creds[u] EXCEPT !.revoked = TRUE].tenant = t /\ [creds[u] EXCEPT !.revoked = TRUE].revoked
    BY <1>1, <1>3 DEF Credential
  <2>4. QED
    BY <1>1, <1>2, <2>1, <2>2, <2>3, CredentialAssumption
<1>5. ASSUME NEW q \in Procs
      PROVE  /\ frame[q].op = "Revoke" => creds'[frame[q].user].tenant = frame[q].tenant
             /\ frame[q].op = "Issue" => creds'[frame[q].user] = None
  BY <1>1, <1>4, FrameFacts DEF RInv, Sound, Derived
<1>6. Elsewhere(h) /\ OwnUser(h) /\ Derived(frame'[h], committed, creds')
  <2>1. CASE Return(h)
    BY <2>1, ReturnMoves DEF RInv, OwnUser, Derived
  <2>2. CASE Goto(h, "push")
    BY <1>1, <1>5, <2>2, GotoMoves DEF RInv, OwnUser, Derived
  <2>3. QED
    BY <1>2, <2>1, <2>2
<1>7. RInv'
  <2>1. \A q \in Procs : q # h => Derived(frame[q], committed, creds')
    BY <1>5 DEF RInv, Derived
  <2>2. QED
    BY <1>2, <1>6, <2>1, CredentialStepKeeps
<1>8. RegistryStep
  <2>1. CASE UNCHANGED creds
    BY <1>2, <2>1 DEF RegistryStep, Registry!vars, dbVars
  <2>2. CASE creds' = marked
    <3>1. [v \in Users |-> IF creds'[v] = None THEN None ELSE creds'[v].tenant]
              = [v \in Users |-> IF creds[v] = None THEN None ELSE creds[v].tenant]
      BY <1>1, <1>4
    <3>2. {v \in Users : creds'[v] # None /\ creds'[v].revoked}
              = {v \in Users : creds[v] # None /\ creds[v].revoked} \union {u}
      BY <1>1, <1>4, <2>2
    <3>3. t # None
      BY ResolverAssumption
    <3>4. [v \in Users |-> IF creds[v] = None THEN None ELSE creds[v].tenant][u] = t
      BY <1>1
    <3>5. Registry!Revoke(u)
      BY <1>1, <1>2, <3>1, <3>2, <3>3, <3>4 DEF Registry!Revoke, dbVars
    <3>6. QED
      BY <3>5 DEF RegistryStep, Registry!Next
  <2>3. QED
    BY <1>2, <2>1, <2>2
<1>9. QED
  BY <1>7, <1>8

LEMMA RevokeRefines ==
    ASSUME RInv, IInv', NEW h \in Procs, RevokeStep(h)
    PROVE  RInv' /\ RegistryStep
<1>0. /\ frame[h] \in Frame
      /\ frame[h].op = "Revoke" => /\ frame[h].user \in Users
                                   /\ frame[h].tenant \in Tenants
                                   /\ tenants[frame[h].tenant] # None
  BY FrameFacts DEF RInv, Sound
<1>1. CASE RevokeGet(h)
  <2>1. Silent /\ frame[h].op = "none"
    BY <1>1, SilentWithoutWrites DEF RevokeGet, Accepting, credVars, netVars
  <2>2. PICK u \in Users :
            /\ creds[u] # None
            /\ \/ UNCHANGED frame
               \/ Enter(h, [Opened("Revoke", "getTenant", creds[u].tenant) EXCEPT !.user = u])
    BY <1>1 DEF RevokeGet
  <2>3. CASE UNCHANGED frame
    BY <2>1, <2>3, PlainMoves DEF Plain
  <2>4. CASE Enter(h, [Opened("Revoke", "getTenant", creds[u].tenant) EXCEPT !.user = u])
    <3> DEFINE f == [Opened("Revoke", "getTenant", creds[u].tenant) EXCEPT !.user = u]
    <3>1. f.op = "Revoke" /\ f.pc = "getTenant" /\ f.user = u /\ f.tenant = creds[u].tenant
      BY DEF Opened, IdleFrame
    <3>2. Elsewhere(h) /\ frame'[h] = f
      BY <2>4, EnterMoves DEF RInv
    <3> HIDE DEF f
    <3>3. OwnUser(h) /\ Derived(frame'[h], committed, creds)
      BY <2>2, <3>1, <3>2 DEF OwnUser, Derived
    <3>4. QED
      BY <2>1, <3>2, <3>3, SilentStep
  <2>5. QED
    BY <2>2, <2>3, <2>4
<1>2. CASE RevokeSelect(h)
  <2>1. Silent /\ frame[h].op = "Revoke"
    BY <1>2, SilentWithoutWrites DEF RevokeSelect, At, credVars, netVars
  <2>2. CASE Return(h)
    BY <2>1, <2>2, PlainMoves
  <2> DEFINE jwt == WithRevocation(tenants[frame[h].tenant].jwt, frame[h].user)
             f == [frame[h] EXCEPT !.pc = "write", !.jwt = jwt]
  <2>3. CASE Enter(h, f)
    <3>1. /\ f.op = "Revoke" /\ f.pc = "write" /\ f.jwt = jwt
          /\ f.user = frame[h].user /\ f.tenant = frame[h].tenant
      BY <1>0, <2>1 DEF Frame
    <3>2. Elsewhere(h) /\ frame'[h] = f
      BY <2>3, EnterMoves DEF RInv
    <3>3. tenants[frame[h].tenant].jwt \in committed[frame[h].tenant]
      BY <1>0, <2>1 DEF RInv, IInv, DbOK
    <3>4. frame[h].op = "Revoke" => creds[frame[h].user].tenant = frame[h].tenant
      BY DEF RInv, Derived
    <3> HIDE DEF f
    <3>5. OwnUser(h) /\ Derived(frame'[h], committed, creds)
      BY <2>1, <3>1, <3>2, <3>3, <3>4 DEF OwnUser, Derived
    <3>6. QED
      BY <2>1, <3>2, <3>5, SilentStep
  <2>4. QED
    BY <1>2, <2>2, <2>3 DEF RevokeSelect
<1>3. CASE RevokeGetTenant(h) \/ RevokePush(h) \/ RevokeAnswer(h)
  <2>1. frame[h].op = "Revoke" /\ UNCHANGED <<dbVars, creds>>
    BY <1>3 DEF RevokeGetTenant, RevokePush, RevokeAnswer, At, credVars
  <2>2. UNCHANGED store
    BY <1>3, CallsAreSilent DEF RevokeGetTenant, RevokePush, RevokeAnswer, PushOrSkip, netVars
  <2>3. Silent
    BY <2>1, <2>2, SilentWithoutWrites
  <2>4. CASE Return(h)
    BY <2>3, <2>4, PlainMoves
  <2>5. ASSUME NEW pc \in {"select", "answer"}, Goto(h, pc)
        PROVE  RInv' /\ RegistryStep
    BY <2>1, <2>3, <2>5, GotoMoves, SilentStep DEF RInv, OwnUser, Derived
  <2>6. QED
    BY <1>3, <2>4, <2>5 DEF RevokeGetTenant, RevokePush, RevokeAnswer, PushOrSkip
<1>4. QED
  BY <1>1, <1>2, <1>3, ExcludeRefines, MarkRefines DEF RevokeStep

-----------------------------------------------------------------------------
\* The process and its environment.

LEMMA HandleRefines ==
    ASSUME RInv, IInv', NEW h \in Handlers, Handle(h)
    PROVE  RInv' /\ RegistryStep
<1>1. CASE TenantStep(h) /\ UNCHANGED credVars
  BY <1>1, HandlersAreProcs, CreateRefines, UpdateRefines, SuspendRefines, ActivateRefines,
     DeleteRefines, ReconcileRefines DEF TenantStep
<1>2. CASE JetStreamStep(h) /\ UNCHANGED credVars
  BY <1>2, HandlersAreProcs, JetStreamRefines
<1>3. CASE CredentialStep(h)
  BY <1>3, HandlersAreProcs, IssueRefines, RevokeRefines DEF CredentialStep
<1>4. QED
  BY <1>1, <1>2, <1>3 DEF Handle

LEMMA BootRefines == ASSUME RInv, IInv', Boot PROVE RInv' /\ RegistryStep
<1>1. Silent
  BY SilentWithoutWrites DEF Boot, Dial, credVars
<1>2. PICK f \in {ReconcileFrame(ActiveJWTs(tenants)),
                  [ReconcileFrame(Nothing) EXCEPT !.failed = TRUE]} : Enter(Main, f)
  BY DEF Boot
<1>3. f.op = "Reconcile" /\ f.user = None
  BY <1>2 DEF ReconcileFrame, Opened, IdleFrame
<1>4. QED
  BY <1>1, <1>2, <1>3, MainIsProc, PlainEnter DEF Plain

LEMMA BootDoneRefines == ASSUME RInv, IInv', BootDone PROVE RInv' /\ RegistryStep
<1>1. Silent /\ Return(Main)
  BY SilentWithoutWrites DEF BootDone, credVars, netVars
<1>2. QED
  BY <1>1, MainIsProc, PlainMoves

\* What RInv adds to IInv is about the tables and the frames.
LEMMA SameTablesAndFrames ==
    ASSUME RInv, IInv', UNCHANGED <<dbVars, credVars, frame>>
    PROVE  RInv'
<1>1. UNCHANGED <<tenants, committed, creds, frame>>
  BY DEF dbVars, credVars
<1>2. HistoryBegins' /\ SoleIssuer'
  BY <1>1 DEF RInv, HistoryBegins, SoleIssuer
<1>3. \A p \in Procs : Derived(frame'[p], committed', creds')
  BY <1>1 DEF RInv
<1>4. QED
  BY <1>2, <1>3 DEF RInv

LEMMA SameStore ==
    ASSUME UNCHANGED <<dbVars, credVars, store>>
    PROVE  RegistryStep
BY DEF RegistryStep, Registry!vars, dbVars, credVars

\* After a crash there are only idle frames.
LEMMA CrashRefines == ASSUME RInv, IInv', Crash PROVE RInv' /\ RegistryStep
<1>1. UNCHANGED <<tenants, committed, creds>> /\ RegistryStep
  BY SameStore DEF Crash, CutWire, dbVars, credVars
<1>2. \A p \in Procs : frame'[p].op = "none"
  BY DEF Crash, IdleFrame
<1>3. HistoryBegins' /\ SoleIssuer' /\ \A p \in Procs : Derived(frame'[p], committed', creds')
  BY <1>1, <1>2 DEF RInv, HistoryBegins, SoleIssuer, Derived
<1>4. QED
  BY <1>1, <1>3 DEF RInv

\* The registry loses what the resolver loses.
LEMMA WithdrawnFrom ==
    ASSUME NEW gone \in {Tenants} \union {{t} : t \in Tenants},
           UNCHANGED <<dbVars, credVars>>,
           store' = [t \in Tenants |-> IF t \in gone THEN None ELSE store[t]]
    PROVE  RegistryStep
<1>1. Registry!Withdraw
  BY DEF Registry!Withdraw, dbVars, credVars
<1>2. QED
  BY <1>1 DEF RegistryStep, Registry!Next

LEMMA WipeRefines == ASSUME RInv, IInv', Wipe PROVE RInv' /\ RegistryStep
<1>1. UNCHANGED <<dbVars, credVars, frame>> /\ store' = [t \in Tenants |-> None]
  BY DEF Wipe, LoseStore
<1>2. store' = [t \in Tenants |-> IF t \in Tenants THEN None ELSE store[t]]
  BY <1>1
<1>3. QED
  BY <1>1, <1>2, SameTablesAndFrames, WithdrawnFrom

\* The registry serves what the resolver stores.
LEMMA CarriedOut ==
    ASSUME UNCHANGED <<dbVars, credVars>>, store \in [Tenants -> Claims \union {None}],
           NEW m, m.tenant \in Tenants, m.jwt \in Recorded(m.tenant),
           store' = [store EXCEPT ![m.tenant] = Effect(m)] \/ UNCHANGED store
    PROVE  RegistryStep
<1>1. CASE UNCHANGED store
  BY <1>1, SameStore
<1>2. CASE store' = [store EXCEPT ![m.tenant] = None]
  <2>1. store' = [x \in Tenants |-> IF x \in {m.tenant} THEN None ELSE store[x]]
    BY <1>2
  <2>2. QED
    BY <2>1, WithdrawnFrom
<1>3. CASE \E jwt \in committed[m.tenant] : store' = [store EXCEPT ![m.tenant] = jwt]
  <2>1. Registry!Serve(m.tenant)
    BY <1>3 DEF Registry!Serve, dbVars, credVars
  <2>2. QED
    BY <2>1 DEF RegistryStep, Registry!Next
<1>4. Effect(m) \in Recorded(m.tenant)
  BY DEF Effect, Recorded
<1>5. QED
  BY <1>1, <1>2, <1>3, <1>4 DEF Recorded

LEMMA ServeRefines == ASSUME RInv, IInv', Serve PROVE RInv' /\ RegistryStep
<1>1. UNCHANGED <<dbVars, credVars, frame>> /\ ServeRequest
  BY DEF Serve
<1>2. RInv'
  BY <1>1, SameTablesAndFrames
<1>3. /\ store \in [Tenants -> Claims \union {None}]
      /\ Head(wire) \in Request
      /\ Head(wire).jwt \in Recorded(Head(wire).tenant)
  <2>1. wire \in Seq(Request) /\ wire # <<>>
    BY <1>1 DEF ServeRequest, RInv, IInv, NetOK, NetTypeOK
  <2>2. 1 \in DOMAIN wire /\ Head(wire) = wire[1]
    BY <2>1
  <2>3. QED
    BY <2>1, <2>2 DEF RInv, IInv, NetOK, NetTypeOK
<1>4. Head(wire).tenant \in Tenants
  BY <1>3 DEF Request
<1>5. store' = [store EXCEPT ![Head(wire).tenant] = Effect(Head(wire))] \/ UNCHANGED store
  BY <1>1 DEF ServeRequest
<1>6. QED
  BY <1>1, <1>2, <1>3, <1>4, <1>5, CarriedOut

LEMMA ServeLateRefines == ASSUME RInv, IInv', ServeLate PROVE RInv' /\ RegistryStep
<1>1. UNCHANGED <<dbVars, credVars, frame>> /\ ServeOld
  BY DEF ServeLate
<1>2. RInv'
  BY <1>1, SameTablesAndFrames
<1>3. PICK m \in old : store' = [store EXCEPT ![m.tenant] = Effect(m)] \/ UNCHANGED store
  BY <1>1 DEF ServeOld
<1>4. m.tenant \in Tenants /\ m.jwt \in Recorded(m.tenant)
  BY OldFacts DEF RInv
<1>5. store \in [Tenants -> Claims \union {None}]
  BY DEF RInv, IInv, NetOK, NetTypeOK
<1>6. QED
  BY <1>1, <1>2, <1>3, <1>4, <1>5, CarriedOut

-----------------------------------------------------------------------------
\* The refinement.

LEMMA InitRefines == Init => RInv /\ Registry!Init
<1> SUFFICES ASSUME Init PROVE RInv /\ Registry!Init
  OBVIOUS
<1>1. /\ \A t \in Tenants : committed[t] = {}
      /\ \A p \in Procs : frame[p].op = "none"
  BY DEF Init, TenantInit, IdleFrame
<1>2. RInv
  BY <1>1, InitEstablishes DEF RInv, HistoryBegins, SoleIssuer, Derived
<1>3. Registry!Init
  BY DEF Registry!Init, Init, NetInit, TenantInit, CredentialInit
<1>4. QED
  BY <1>2, <1>3

LEMMA NextRefines == RInv /\ [Next]_vars => RInv' /\ RegistryStep
<1> SUFFICES ASSUME RInv, [Next]_vars PROVE RInv' /\ RegistryStep
  OBVIOUS
<1>1. IInv'
  BY NextKeeps DEF RInv
<1>2. CASE BootReconcile
  BY <1>1, <1>2, MainIsProc, ReconcileLoopRefines DEF BootReconcile
<1>3. CASE BootDegraded
  BY <1>1, <1>3, SameTablesAndFrames, SameStore DEF BootDegraded, netVars
<1>4. CASE UNCHANGED vars
  BY <1>1, <1>4, SameTablesAndFrames, SameStore DEF vars, dbVars, credVars
<1>5. ASSUME NEW h \in Handlers, Handle(h) PROVE RInv' /\ RegistryStep
  BY <1>1, <1>5, HandleRefines
<1>6. QED
  BY <1>1, <1>2, <1>3, <1>4, <1>5, BootRefines, BootDoneRefines, CrashRefines, WipeRefines,
     ServeRefines, ServeLateRefines
  DEF Next

(***************************************************************************)
(* The backend implements AccountRegistry: with any number of requests at  *)
(* a time and whatever fails, UpdateLimits only replaces a limit of claims *)
(* that were recorded, Revoke only adds a user of the same tenant and      *)
(* marks the credential after the claims that exclude it were stored, a    *)
(* user is issued once, and only recorded claims are served.               *)
(***************************************************************************)
THEOREM ImplementsRegistry == Spec => RegistrySpec
<1>1. QED
  BY InitRefines, NextRefines, PTL DEF Spec, RegistrySpec, Registry!Spec, RegistryStep
=============================================================================
