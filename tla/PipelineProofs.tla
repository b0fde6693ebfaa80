--------------------------- MODULE PipelineProofs ---------------------------
(***************************************************************************)
(* Proofs about HttpPipeline: for any number of requests, keys and         *)
(* administrators, and with a database that may fail at every statement,   *)
(* the API keys implement KeyRegistry.                                     *)
(***************************************************************************)
EXTENDS HttpPipeline, TLAPS

\* What a request brings, the identity it was let in with and what Get has found
\* out stay true: no statement changes the owner of a row.
Brought(r) ==
    /\ r.route # None
    /\ r.route = "createKey" => r.name \in Names
    /\ r.route = "revokeKey" => r.target \in Keys

Identified(r) == r.pc \in {"touch", "handler", "update"} /\ r.route # "login" => r.admin \in Admins

Found(r) ==
    /\ r.pc = "auth" => r.key = None
    /\ r.pc = "touch" => r.key # None
    /\ r.pc = "update" => /\ r.route = "revokeKey"
                         /\ keys[r.target] # None
                         /\ keys[r.target].admin = r.admin
    /\ r.key # None => keys[r.key] # None

Owned ==
    \A h \in Handlers :
        /\ Active(h) => Brought(req[h])
        /\ Identified(req[h])
        /\ Found(req[h])

Inv == TypeOK /\ Owned /\ ToldOnce

\* The initial states satisfy the invariant: nothing is recorded, nobody is served.
LEMMA InitInv == Init => Inv
  <1> USE KeysAssumption, KeyRowAssumption, PipelineAssumption, AuditRowAssumption
  <1> SUFFICES ASSUME Init PROVE Inv
    OBVIOUS
  <1>1. NoRequest \in Request
    BY DEF NoRequest, Request, Statuses
  <1>2. TypeOK
    BY <1>1 DEF Init, KeysInit, TypeOK, KeysTypeOK, Row, Key
  <1>3. Owned
    BY DEF Init, Owned, NoRequest, Active, Identified, Found
  <1>4. ToldOnce
    BY DEF Init, ToldOnce
  <1> QED
    BY <1>2, <1>3, <1>4 DEF Inv

-----------------------------------------------------------------------------
\* Rows are only added to the table, and keep their owner and name.
RowsKept ==
    \A k \in Keys : keys[k] # None =>
        /\ keys'[k] # None
        /\ keys'[k].admin = keys[k].admin
        /\ keys'[k].name = keys[k].name

\* The request of one handler changes; what is known of the others stays true.
LEMMA OneMoves ==
    ASSUME TypeOK, Owned, RowsKept, NEW h \in Handlers, NEW r \in Request,
           req' = [req EXCEPT ![h] = r],
           r.pc # "idle" => Brought(r), Identified(r), Found(r)'
    PROVE  /\ req' \in [Handlers -> Request]
           /\ Owned'
  <1> USE PipelineAssumption, KeysAssumption
  <1>1. req' \in [Handlers -> Request]
    BY DEF TypeOK
  <1>2. ASSUME NEW x \in Handlers
        PROVE (Active(x) => Brought(req[x]))' /\ Identified(req[x])' /\ Found(req[x])'
    <2>1. CASE x = h
      BY <2>1 DEF TypeOK, Active, Brought, Identified, Found
    <2>2. CASE x # h
      <3>1. req'[x] = req[x] /\ req[x] \in Request
        BY <2>2 DEF TypeOK
      <3>2. Brought(req[x])' = Brought(req[x]) /\ Active(x)' = Active(x)
        BY <3>1 DEF Brought, Active
      <3>3. Identified(req[x])'
        BY <3>1 DEF Owned, Identified
      <3>4. Found(req[x])'
        <4>1. req[x].target \in Keys \union {None} /\ req[x].key \in Keys \union {None}
          BY <3>1 DEF Request
        <4>2. Brought(req[x]) \/ req[x].pc = "idle"
          BY DEF Owned, Active
        <4> QED
          BY <3>1, <4>1, <4>2 DEF Owned, Found, Brought, RowsKept
      <3> QED
        BY <3>2, <3>3, <3>4 DEF Owned
    <2> QED
      BY <2>1, <2>2
  <1> QED
    BY <1>1, <1>2 DEF Owned

\* A request that only moves on or is answered keeps what it has found out.
LEMMA Advance ==
    ASSUME TypeOK, Owned, RowsKept, NEW h \in Handlers, NEW r \in Request, Active(h),
           r.pc \in {"handler", "update", "audit"}, r.route = req[h].route,
           r.target = req[h].target, r.name = req[h].name, r.key = req[h].key,
           Identified(r), r.pc = "update" => Found(r)',
           req' = [req EXCEPT ![h] = r]
    PROVE  req' \in [Handlers -> Request] /\ Owned'
  <1>1. Brought(r)
    BY DEF Owned, Brought
  <1>2. Found(r)'
    <2>1. r.key # None => r.key \in Keys
      BY DEF Request
    <2> QED
      BY <2>1 DEF Owned, Found, RowsKept
  <1> QED
    BY <1>1, <1>2, OneMoves

LEMMA Answering ==
    ASSUME TypeOK, Owned, RowsKept, NEW h \in Handlers, Active(h),
           NEW s \in Statuses, Answer(h, s)
    PROVE  req' \in [Handlers -> Request] /\ Owned'
  <1> DEFINE r == [req[h] EXCEPT !.pc = "audit", !.status = s]
  <1>1. req[h] \in Request
    BY DEF TypeOK
  <1>2. r \in Request /\ Identified(r) /\ r.pc = "audit" /\ r.route = req[h].route
        /\ r.target = req[h].target /\ r.name = req[h].name /\ r.key = req[h].key
    BY <1>1 DEF Request, Identified
  <1>3. req' = [req EXCEPT ![h] = r]
    BY <1>1 DEF Answer, Answered, TypeOK
  <1> QED
    BY <1>2, <1>3, Advance

\* Every step keeps the types, and what requests have found out.
LEMMA StepOwned ==
    ASSUME Inv, NEW h \in Handlers, Step(h)
    PROVE  TypeOK' /\ Owned'
  <1> USE KeysAssumption, KeyRowAssumption, PipelineAssumption, AuditRowAssumption
  <1> DEFINE r == req[h]
  <1>a. TypeOK /\ Owned /\ r \in Request /\ Identified(r) /\ Found(r) /\ (Active(h) => Brought(r))
    BY DEF Inv, TypeOK, Owned
  <1>b. keys' = keys => RowsKept
    BY DEF RowsKept
  <1>1. CASE Arrive(h)
    <2>1. PICK route \in Requested, l \in BOOLEAN, b \in Presentable,
               k \in Keys \union {None}, n \in Names \union {None} :
               /\ route = "revokeKey" <=> k # None
               /\ route = "createKey" <=> n # None
               /\ req' = [req EXCEPT ![h] = Incoming(route, l, b, k, n)]
      BY <1>1 DEF Arrive
    <2> DEFINE new == Incoming(route, l, b, k, n)
    <2>2. new \in Request
      <3>1. route \in Routes /\ b \in Admins \union Keys \union {None}
        BY <1>a DEF Presentable, TypeOK, KeysTypeOK
      <3> QED
        BY <3>1 DEF Request, Statuses, Incoming
    <2>3. Brought(new) /\ Identified(new) /\ Found(new)'
      BY <2>1 DEF Incoming, Brought, Identified, Found
    <2>4. req' \in [Handlers -> Request] /\ Owned'
      BY <1>a, <1>b, <1>1, <2>1, <2>2, <2>3, OneMoves DEF Arrive, keyVars
    <2> QED
      BY <1>a, <1>1, <2>4 DEF Arrive, keyVars, TypeOK, KeysTypeOK
  <1>2. CASE AuthenticateToken(h)
    <2>1. req' \in [Handlers -> Request] /\ Owned'
      <3> DEFINE f == [r EXCEPT !.pc = "handler", !.admin = r.bearer]
      <3>1. CASE req' = [req EXCEPT ![h].pc = "handler", ![h].admin = req[h].bearer]
        <4>1. f \in Request /\ Identified(f) /\ f.pc = "handler" /\ f.route = r.route
              /\ f.target = r.target /\ f.name = r.name /\ f.key = r.key
          BY <1>2, <1>a DEF AuthenticateToken, Request, Identified
        <4>2. req' = [req EXCEPT ![h] = f]
          BY <3>1, <1>a DEF TypeOK
        <4> QED
          BY <1>a, <1>b, <1>2, <4>1, <4>2, Advance DEF AuthenticateToken, At, Active, keyVars
      <3>2. CASE Answer(h, "sessionExpired")
        BY <1>a, <1>b, <1>2, <3>2, Answering DEF AuthenticateToken, At, Active, keyVars, Statuses
      <3> QED
        BY <1>2, <3>1, <3>2 DEF AuthenticateToken
    <2> QED
      BY <1>a, <1>2, <2>1 DEF AuthenticateToken, keyVars, TypeOK, KeysTypeOK
  <1>3. CASE AuthenticateKey(h)
    <2>1. req' \in [Handlers -> Request] /\ Owned'
      <3> DEFINE k == r.bearer
                 f == [r EXCEPT !.pc = "touch", !.key = k, !.admin = keys[k].admin]
      <3>1. CASE LookupByHash(k) /\ req' = [req EXCEPT ![h].pc = "touch", ![h].key = k,
                                                     ![h].admin = keys[k].admin]
        <4>1. k \in Keys /\ keys[k] \in Key
          BY <1>3, <1>a, <3>1 DEF AuthenticateKey, LookupByHash, TypeOK, KeysTypeOK
        <4>2. f \in Request
          BY <4>1, <1>a DEF Request, Key
        <4>3. f.pc = "touch" /\ f.key = k /\ f.admin \in Admins /\ f.route = r.route
              /\ f.target = r.target /\ f.name = r.name
          BY <4>1, <1>a DEF Request, Key
        <4>4. req' = [req EXCEPT ![h] = f]
          BY <3>1, <1>a DEF TypeOK
        <4>5. PICK g \in Request : g = f
          BY <4>2
        <4> HIDE DEF f
        <4>6. Brought(g) /\ Identified(g) /\ keys' = keys
          BY <1>3, <1>a, <4>3, <4>5 DEF AuthenticateKey, At, Active, Brought, Identified, keyVars
        <4>7. Found(g)'
          <5>1. keys'[g.key] # None /\ g.key # None
            BY <3>1, <4>1, <4>3, <4>5, <4>6 DEF LookupByHash
          <5> QED
            BY <4>3, <4>5, <5>1 DEF Found
        <4> QED
          BY <1>a, <1>b, <4>4, <4>5, <4>6, <4>7, OneMoves
      <3>2. CASE Answer(h, "unauthorized")
        BY <1>a, <1>b, <1>3, <3>2, Answering DEF AuthenticateKey, At, Active, keyVars, Statuses
      <3> QED
        BY <1>3, <3>1, <3>2 DEF AuthenticateKey
    <2> QED
      BY <1>a, <1>3, <2>1 DEF AuthenticateKey, keyVars, TypeOK, KeysTypeOK
  <1>4. CASE AuthenticateNothing(h)
    <2>1. req' \in [Handlers -> Request] /\ Owned'
      BY <1>a, <1>b, <1>4, Answering DEF AuthenticateNothing, At, Active, keyVars, Statuses
    <2> QED
      BY <1>a, <1>4, <2>1 DEF AuthenticateNothing, keyVars, TypeOK, KeysTypeOK
  <1>5. CASE Touch(h)
    <2> DEFINE f == [r EXCEPT !.pc = "handler"]
    <2>1. f \in Request /\ f.pc = "handler" /\ f.route = r.route /\ f.admin = r.admin
          /\ f.target = r.target /\ f.name = r.name /\ f.key = r.key
      BY <1>a DEF Request
    <2>2. req' = [req EXCEPT ![h] = f]
      BY <1>5, <1>a DEF Touch, Continue, TypeOK
    <2>3. Identified(f) /\ r.key \in Keys
      BY <1>5, <1>a, <2>1 DEF Touch, At, Identified, Found, Request
    <2>4. req' \in [Handlers -> Request] /\ Owned'
      BY <1>a, <1>b, <1>5, <2>1, <2>2, <2>3, Advance DEF Touch, At, Active
    <2> QED
      BY <1>a, <1>5, <2>3, <2>4 DEF Touch, TouchLastUsed, TypeOK, KeysTypeOK
  <1>6. CASE Login(h)
    <2>1. PICK s \in Statuses : Answer(h, s)
      BY <1>6 DEF Login, Statuses
    <2>2. req' \in [Handlers -> Request] /\ Owned'
      BY <1>a, <1>b, <1>6, <2>1, Answering DEF Login, Serving, At, Active, keyVars
    <2> QED
      BY <1>a, <1>6, <2>2 DEF Login, keyVars, TypeOK, KeysTypeOK
  <1>7. CASE Read(h)
    <2>1. PICK s \in Statuses : Answer(h, s)
      BY <1>7 DEF Read, Statuses
    <2>2. req' \in [Handlers -> Request] /\ Owned'
      BY <1>a, <1>b, <1>7, <2>1, Answering DEF Read, Serving, At, Active, keyVars
    <2> QED
      BY <1>a, <1>7, <2>2 DEF Read, keyVars, TypeOK, KeysTypeOK
  <1>8. CASE CreateKey(h)
    <2>1. r.admin \in Admins /\ r.name \in Names /\ Active(h)
      BY <1>8, <1>a DEF CreateKey, Serving, At, Active, Identified, Brought
    <2>2. PICK s \in Statuses : Answer(h, s)
      BY <1>8 DEF CreateKey, Statuses
    <2>3. \/ UNCHANGED keyVars
          \/ /\ used' = used
             /\ \E k \in Keys :
                    /\ keys[k] = None
                    /\ keys' = keys \/ Insert(k, r.admin, r.name)
                    /\ known' \in {known, known \union {k}}
      BY <1>8 DEF CreateKey
    <2>4. RowsKept /\ KeysTypeOK'
      <3>1. CASE UNCHANGED keyVars
        BY <1>a, <3>1 DEF RowsKept, TypeOK, KeysTypeOK, keyVars
      <3>2. CASE ~UNCHANGED keyVars
        <4>1. PICK k \in Keys :
                  /\ keys[k] = None /\ used' = used
                  /\ keys' = keys \/ Insert(k, r.admin, r.name)
                  /\ known' \in {known, known \union {k}}
          BY <2>3, <3>2
        <4> DEFINE new == [admin |-> r.admin, name |-> r.name, revoked |-> FALSE]
        <4>2. new \in Key
          BY <2>1 DEF Key
        <4>3. keys' \in [Keys -> Key \union {None}]
          BY <1>a, <4>1, <4>2 DEF Insert, TypeOK, KeysTypeOK
        <4>4. keys' = keys \/ keys' = [keys EXCEPT ![k] = new]
          BY <4>1 DEF Insert
        <4> HIDE DEF new
        <4>5. RowsKept
          BY <1>a, <4>1, <4>2, <4>4 DEF RowsKept, TypeOK, KeysTypeOK
        <4>6. used' \subseteq Keys /\ known' \subseteq Keys
          BY <1>a, <4>1 DEF TypeOK, KeysTypeOK
        <4> QED
          BY <4>3, <4>5, <4>6 DEF KeysTypeOK
      <3> QED
        BY <3>1, <3>2
    <2>5. req' \in [Handlers -> Request] /\ Owned'
      BY <1>a, <2>1, <2>2, <2>4, Answering
    <2> QED
      BY <1>a, <1>8, <2>4, <2>5 DEF CreateKey, TypeOK
  <1>9. CASE RevokeGet(h)
    <2>1. r.target \in Keys /\ Active(h) /\ RowsKept
      BY <1>9, <1>a, <1>b DEF RevokeGet, Serving, At, Active, Brought, keyVars
    <2>2. req' \in [Handlers -> Request] /\ Owned'
      <3>1. CASE Get(r.target, r.admin) /\ Continue(h, "update")
        <4> DEFINE f == [r EXCEPT !.pc = "update"]
        <4>1. PICK g \in Request : g = f
          BY <1>a DEF Request
        <4>2. g.pc = "update" /\ g.route = "revokeKey" /\ g.admin = r.admin /\ r.pc = "handler"
              /\ g.target = r.target /\ g.name = r.name /\ g.key = r.key /\ g.route = r.route
          BY <1>9, <1>a, <4>1 DEF Request, RevokeGet, Serving, At
        <4>3. req' = [req EXCEPT ![h] = g]
          BY <1>a, <3>1, <4>1 DEF TypeOK, Continue
        <4>4. Identified(g) /\ keys' = keys
          BY <1>9, <1>a, <4>2 DEF RevokeGet, Identified, keyVars
        <4>5. Found(g)'
          BY <1>a, <3>1, <4>2, <4>4 DEF Found, Get
        <4> QED
          BY <1>a, <2>1, <4>2, <4>3, <4>4, <4>5, Advance
      <3>2. CASE \E s \in Statuses : Answer(h, s)
        BY <1>a, <2>1, <3>2, Answering
      <3> QED
        BY <1>9, <3>1, <3>2 DEF RevokeGet, Statuses
    <2> QED
      BY <1>a, <1>9, <2>2 DEF RevokeGet, keyVars, TypeOK, KeysTypeOK
  <1>10. CASE RevokeUpdate(h)
    <2>1. r.target \in Keys /\ keys[r.target] \in Key /\ Active(h)
      BY <1>10, <1>a DEF RevokeUpdate, At, Active, Brought, Found, TypeOK, KeysTypeOK
    <2>2. PICK s \in Statuses : Answer(h, s)
      BY <1>10 DEF RevokeUpdate, Statuses
    <2>3. keys' = keys \/ SetRevoked(r.target)
      BY <1>10 DEF RevokeUpdate
    <2> DEFINE dead == [keys[r.target] EXCEPT !.revoked = TRUE]
    <2>a. dead \in Key /\ dead.admin = keys[r.target].admin /\ dead.name = keys[r.target].name
      BY <2>1 DEF Key
    <2>b. keys' = keys \/ keys' = [keys EXCEPT ![r.target] = dead]
      BY <1>a, <2>1, <2>3 DEF SetRevoked, TypeOK, KeysTypeOK
    <2> HIDE DEF dead
    <2>4. RowsKept
      BY <1>a, <2>1, <2>a, <2>b DEF RowsKept, TypeOK, KeysTypeOK
    <2>5. KeysTypeOK'
      <3>2. keys' \in [Keys -> Key \union {None}]
        BY <1>a, <2>a, <2>b DEF TypeOK, KeysTypeOK
      <3> QED
        BY <1>a, <1>10, <3>2 DEF RevokeUpdate, TypeOK, KeysTypeOK
    <2>6. req' \in [Handlers -> Request] /\ Owned'
      BY <1>a, <2>1, <2>2, <2>4, Answering
    <2>7. told' \in [Keys -> Nat]
      BY <1>a, <1>10, <2>1 DEF RevokeUpdate, TypeOK
    <2> QED
      BY <1>a, <1>10, <2>5, <2>6, <2>7 DEF RevokeUpdate, TypeOK
  <1>11. CASE Manage(h)
    <2>1. RowsKept /\ Active(h)
      BY <1>11, <1>b DEF Manage, Serving, At, Active, keyVars
    <2>2. req' \in [Handlers -> Request] /\ Owned'
      <3>1. CASE req' = AuditSet(Answered(req, h, "ok"), h)
        <4> DEFINE f == [r EXCEPT !.pc = "audit", !.status = "ok", !.detail = h]
        <4>1. f \in Request
          BY <1>a DEF Request, Statuses
        <4>2. f.pc = "audit" /\ f.route = r.route
              /\ f.target = r.target /\ f.name = r.name /\ f.key = r.key
          BY <1>a DEF Request
        <4>3. req' = [req EXCEPT ![h] = f]
          BY <1>a, <3>1 DEF AuditSet, Answered, TypeOK
        <4>4. Identified(f)
          BY <4>2 DEF Identified
        <4> QED
          BY <1>a, <2>1, <4>1, <4>2, <4>3, <4>4, Advance
      <3>2. CASE Answer(h, "failed")
        BY <1>a, <2>1, <3>2, Answering DEF Statuses
      <3> QED
        BY <1>11, <3>1, <3>2 DEF Manage
    <2> QED
      BY <1>a, <1>11, <2>2 DEF Manage, keyVars, TypeOK, KeysTypeOK
  <1>12. CASE Upgrade(h)
    <2>1. PICK s \in Statuses : Answer(h, s)
      BY <1>12 DEF Upgrade, Statuses
    <2>2. req' \in [Handlers -> Request] /\ Owned'
      BY <1>a, <1>b, <1>12, <2>1, Answering DEF Upgrade, Serving, At, Active, keyVars
    <2> QED
      BY <1>a, <1>12, <2>2 DEF Upgrade, keyVars, TypeOK, KeysTypeOK
  <1>13. CASE Audit(h)
    <2>1. NoRequest \in Request /\ NoRequest.pc = "idle"
      BY DEF NoRequest, Request, Statuses
    <2>2. req' = [req EXCEPT ![h] = NoRequest] /\ keys' = keys
      BY <1>13 DEF Audit, Leave, keyVars
    <2>4. Identified(NoRequest) /\ Found(NoRequest)'
      BY DEF NoRequest, Identified, Found
    <2>5. req' \in [Handlers -> Request] /\ Owned'
      BY <1>a, <1>b, <2>1, <2>2, <2>4, OneMoves
    <2>6. row' \in Row \union {None}
      <3>1. r.route \in Routes /\ r.detail \in Handlers \union {None}
        BY <1>13, <1>a DEF Audit, At, Active, Brought, Request
      <3> QED
        BY <1>13, <1>a, <3>1 DEF Audit, Row, OuterAdmin, OuterKey
    <2> QED
      BY <1>a, <1>13, <2>5, <2>6 DEF Audit, keyVars, TypeOK, KeysTypeOK
  <1> QED
    BY <1>1, <1>2, <1>3, <1>4, <1>5, <1>6, <1>7, <1>8, <1>9, <1>10, <1>11, <1>12, <1>13
    DEF Step, Handle

-----------------------------------------------------------------------------
\* What a step does to the table and to the answers.

Created(h, k) ==
    /\ keys[k] = None
    /\ req[h].admin \in Admins /\ req[h].name \in Names
    /\ ~NameTaken(req[h].admin, req[h].name)
    /\ Insert(k, req[h].admin, req[h].name)
    /\ told' = told

Revoked(h, k) ==
    /\ At(h, "update") /\ req[h].target = k /\ req[h].admin = keys[k].admin
    /\ Revocable(k)
    /\ SetRevoked(k)
    /\ told' \in {told, [told EXCEPT ![k] = @ + 1]}

LEMMA StepTable ==
    ASSUME Inv, NEW h \in Handlers, Step(h)
    PROVE  \/ UNCHANGED <<keys, told>>
           \/ \E k \in Keys : Created(h, k) \/ Revoked(h, k)
  <1>a. TypeOK /\ Identified(req[h]) /\ Found(req[h]) /\ (Active(h) => Brought(req[h]))
    BY DEF Inv, Owned
  <1>1. CASE CreateKey(h)
    <2>1. req[h].admin \in Admins /\ req[h].name \in Names
      BY <1>1, <1>a DEF CreateKey, Serving, At, Active, Identified, Brought
    <2> QED
      BY <1>1, <2>1 DEF CreateKey, keyVars, Created
  <1>2. CASE RevokeUpdate(h)
    <2>1. req[h].target \in Keys /\ req[h].admin = keys[req[h].target].admin
      BY <1>2, <1>a DEF RevokeUpdate, At, Active, Brought, Found
    <2>2. CASE UNCHANGED <<keys, told>>
      BY <2>2
    <2>3. CASE ~UNCHANGED <<keys, told>>
      <3>1. Revocable(req[h].target) /\ At(h, "update")
        BY <1>2, <2>3 DEF RevokeUpdate
      <3>2. PICK o \in DbOutcomes :
                /\ IF o.applied THEN SetRevoked(req[h].target) ELSE UNCHANGED keys
                /\ told' = IF o.err THEN told ELSE [told EXCEPT ![req[h].target] = @ + 1]
        BY <1>2, <3>1 DEF RevokeUpdate
      <3>3. o.applied = TRUE \/ o.err = TRUE
        <4>1. CASE o = [applied |-> TRUE, err |-> FALSE]
          BY <4>1
        <4>2. CASE o \in [applied : BOOLEAN, err : {TRUE}]
          BY <4>2
        <4> QED
          BY <4>1, <4>2 DEF DbOutcomes
      <3> QED
        BY <2>1, <2>3, <3>1, <3>2, <3>3 DEF Revoked
    <2> QED
      BY <2>2, <2>3
  <1>3. CASE ~CreateKey(h) /\ ~RevokeUpdate(h)
    BY <1>3 DEF Step, Handle, Arrive, AuthenticateToken, AuthenticateKey, AuthenticateNothing,
                Touch, Audit, Login, Read, RevokeGet, Manage, Upgrade, keyVars
  <1> QED
    BY <1>1, <1>2, <1>3

\* A key is marked at most once, and the answer that says so is given with it.
LEMMA StepTold ==
    ASSUME Inv, NEW h \in Handlers, Step(h)
    PROVE  ToldOnce'
  <1> USE KeysAssumption, KeyRowAssumption
  <1>a. TypeOK /\ ToldOnce
    BY DEF Inv
  <1>1. CASE UNCHANGED <<keys, told>>
    BY <1>a, <1>1 DEF ToldOnce
  <1>2. ASSUME NEW k \in Keys, Created(h, k) PROVE ToldOnce'
    <2>1. ~(told[k] > 0) /\ told' = told
      BY <1>a, <1>2 DEF Created, ToldOnce
    <2>2. \A x \in Keys : x # k => keys'[x] = keys[x]
      BY <1>a, <1>2 DEF Created, Insert, TypeOK, KeysTypeOK
    <2> QED
      BY <1>a, <2>1, <2>2 DEF ToldOnce
  <1>3. ASSUME NEW k \in Keys, Revoked(h, k) PROVE ToldOnce'
    <2>1. keys[k] \in Key /\ told[k] = 0
      BY <1>a, <1>3 DEF Revoked, Revocable, ToldOnce, TypeOK, KeysTypeOK
    <2>2. [keys[k] EXCEPT !.revoked = TRUE] \in Key /\ [keys[k] EXCEPT !.revoked = TRUE].revoked
      BY <2>1 DEF Key
    <2>3. /\ keys'[k] # None /\ keys'[k].revoked
          /\ \A x \in Keys : x # k => keys'[x] = keys[x] /\ told'[x] = told[x]
      BY <1>a, <1>3, <2>2 DEF Revoked, SetRevoked, TypeOK, KeysTypeOK
    <2>4. told'[k] \in {0, 1}
      BY <1>a, <1>3, <2>1 DEF Revoked, TypeOK
    <2> QED
      BY <1>a, <2>3, <2>4 DEF ToldOnce
  <1> QED
    BY <1>1, <1>2, <1>3, StepTable

\* The invariant holds in every reachable state.
THEOREM Invariance == Spec => []Inv
  <1>1. Inv /\ [Next]_vars => Inv'
    <2> SUFFICES ASSUME Inv, [Next]_vars PROVE Inv'
      OBVIOUS
    <2>1. ASSUME NEW h \in Handlers, Step(h) PROVE Inv'
      BY <2>1, StepOwned, StepTold DEF Inv
    <2>2. CASE UNCHANGED vars
      BY <2>2 DEF vars, Inv, TypeOK, KeysTypeOK, Owned, Active, Brought, Identified, Found, ToldOnce
    <2> QED
      BY <2>1, <2>2 DEF Next
  <1> QED
    BY InitInv, <1>1, PTL DEF Spec

\* Of the requests that revoke a key, at most one is answered 204, whatever
\* the database does to their statements (apikey.Service.Revoke).
THEOREM RevocationToldOnce == Spec => []ToldOnce
  <1>1. Inv => ToldOnce
    BY DEF Inv
  <1> QED
    BY Invariance, <1>1, PTL

\* A key is only ever marked by a request that acts for its creator, be there a
\* super or not, hence by its creator or a super.
THEOREM OnlyCreatorsRevoke == Spec => CreatorOrSuperRevokes
  <1> USE KeysAssumption, KeyRowAssumption
  <1>1. Inv /\ [Next]_vars =>
            [\A k \in Keys : keys[k] # None /\ ~keys[k].revoked /\ keys'[k].revoked
                => \E h \in Handlers : At(h, "update") /\ req[h].target = k
                                       /\ req[h].admin \in Supers \union {keys[k].admin}]_vars
    <2> SUFFICES ASSUME Inv, NEW h \in Handlers, Step(h), NEW k \in Keys,
                        keys[k] # None, ~keys[k].revoked, keys'[k].revoked
                 PROVE  At(h, "update") /\ req[h].target = k /\ req[h].admin = keys[k].admin
      BY DEF Next
    <2>1. keys' # keys /\ keys \in [Keys -> Key \union {None}]
      BY DEF Inv, TypeOK, KeysTypeOK
    <2>2. ASSUME NEW x \in Keys, Created(h, x) PROVE FALSE
      BY <2>1, <2>2 DEF Created, Insert
    <2>3. PICK x \in Keys : Revoked(h, x)
      BY <2>1, <2>2, StepTable
    <2>4. x = k
      BY <2>1, <2>3 DEF Revoked, SetRevoked
    <2> QED
      BY <2>3, <2>4 DEF Revoked
  <1> QED
    BY Invariance, <1>1, PTL DEF Spec, CreatorOrSuperRevokes

-----------------------------------------------------------------------------
\* What a step does to the keys that requests act with.

ActsWith(h, k) == Active(h) /\ req[h].key = k

\* A request that gets hold of a key finds it live.
LEMMA StepActs ==
    ASSUME Inv, NEW h \in Handlers, Step(h)
    PROVE  /\ \A x \in Handlers \ {h} : req'[x] = req[x]
           /\ \/ req'[h].key = req[h].key /\ Active(h) /\ Active(h)'
              \/ (~Active(h)' \/ req'[h].key = None) /\ UNCHANGED <<keys, told>>
              \/ LookupByHash(req'[h].key) /\ req[h].key = None /\ Active(h)' /\ Active(h)
                 /\ UNCHANGED <<keys, told>>
  <1>a. TypeOK /\ Found(req[h]) /\ req[h] \in Request
    BY DEF Inv, Owned, TypeOK
  <1> USE KeysAssumption, PipelineAssumption
  <1>1. CASE Arrive(h)
    BY <1>1, <1>a DEF Arrive, Incoming, keyVars, TypeOK
  <1>2. CASE AuthenticateToken(h)
    BY <1>2, <1>a DEF AuthenticateToken, Answer, Answered, Active, At, TypeOK, Request
  <1>3. CASE AuthenticateNothing(h)
    BY <1>3, <1>a DEF AuthenticateNothing, Answer, Answered, Active, At, TypeOK, Request
  <1>4. CASE Touch(h)
    BY <1>4, <1>a DEF Touch, Continue, Active, At, TypeOK, Request
  <1>5. CASE Audit(h)
    BY <1>5, <1>a DEF Audit, Leave, NoRequest, keyVars, Active, At, TypeOK, Request
  <1>6. CASE Login(h) \/ Read(h) \/ CreateKey(h) \/ Upgrade(h) \/ RevokeUpdate(h)
    <2>1. PICK s \in Statuses : Answer(h, s)
      BY <1>6 DEF Login, Read, CreateKey, Upgrade, RevokeUpdate, Statuses
    <2>2. Active(h)
      BY <1>6 DEF Login, Read, CreateKey, Upgrade, RevokeUpdate, Serving, At, Active
    <2> QED
      BY <1>a, <2>1, <2>2 DEF Answer, Answered, Active, TypeOK, Request
  <1>7. CASE RevokeGet(h)
    BY <1>7, <1>a DEF RevokeGet, Continue, Serving, Answer, Answered, Active, At, TypeOK, Request
  <1>8. CASE Manage(h)
    BY <1>8, <1>a DEF Manage, AuditSet, Serving, Answer, Answered, Active, At, TypeOK, Request
  <1>9. CASE AuthenticateKey(h)
    <2>1. req[h].key = None
      BY <1>9, <1>a DEF AuthenticateKey, At, Found
    <2> QED
      BY <1>9, <1>a, <2>1 DEF AuthenticateKey, Answer, Answered, Active, At, keyVars, TypeOK, Request
  <1> QED
    BY <1>1, <1>2, <1>3, <1>4, <1>5, <1>6, <1>7, <1>8, <1>9 DEF Step, Handle

\* A revoked key that no request acts with any more is out for good: no
\* statement clears revoked_at, and the lookup of RequireAdmin looks at it.
THEOREM RevokedKeysStayOut == Spec => SpentForGood
  <1> USE KeysAssumption, KeyRowAssumption
  <1>1. Inv /\ [Next]_vars => [\A k \in Keys : Spent(k) => Spent(k)']_vars
    <2> SUFFICES ASSUME Inv, NEW h \in Handlers, Step(h), NEW k \in Keys, Spent(k)
                 PROVE  Spent(k)'
      BY DEF Next
    <2>1. keys'[k] # None /\ keys'[k].revoked
      <3>1. TypeOK
        BY DEF Inv
      <3>2. ASSUME NEW x \in Keys, Created(h, x) PROVE keys'[k] = keys[k]
        BY <3>1, <3>2 DEF Created, Insert, Spent, TypeOK, KeysTypeOK
      <3>3. ASSUME NEW x \in Keys, Revoked(h, x) PROVE keys'[k] = keys[k]
        BY <3>1, <3>3 DEF Revoked, SetRevoked, Revocable, Spent, TypeOK, KeysTypeOK
      <3> QED
        BY <3>2, <3>3, StepTable DEF Spent
    <2>2. ASSUME NEW x \in Handlers, Active(x)' PROVE req'[x].key # k
      <3>1. CASE x # h
        BY <2>2, <3>1, StepActs DEF Spent, Active
      <3>2. CASE x = h
        BY <2>2, <3>2, StepActs DEF Spent, Active, LookupByHash
      <3> QED
        BY <3>1, <3>2
    <2> QED
      BY <2>1, <2>2 DEF Spent
  <1> QED
    BY Invariance, <1>1, PTL DEF Spec, SpentForGood

-----------------------------------------------------------------------------
\* What the audit log tells.

\* A request carries its own detail once its change has succeeded, and none before.
Detail(r, h) ==
    r.detail = IF r.pc = "audit" /\ r.route \in {"tenant", "revokeCredential"} /\ r.status = "ok"
                  THEN h ELSE None

Details == \A h \in Handlers : Detail(req[h], h)

\* An answer without a detail: a failure, or of a route that fills none.
LEMMA AnswersKeepDetails ==
    ASSUME Inv, Details, NEW h \in Handlers, ~At(h, "audit"), NEW s \in Statuses, Answer(h, s),
           s = "ok" => req[h].route \notin {"tenant", "revokeCredential"}
    PROVE  Details'
  <1>1. req \in [Handlers -> Request] /\ req[h].detail = None
    BY DEF Inv, TypeOK, Details, Detail, At
  <1>2. \A x \in Handlers \ {h} : req'[x] = req[x]
    BY <1>1 DEF Answer, Answered
  <1>3. req'[h].detail = None /\ req'[h].status = s /\ req'[h].route = req[h].route
    BY <1>1 DEF Answer, Answered, Request
  <1> QED
    BY <1>2, <1>3 DEF Details, Detail

\* No step fills or loses the detail of another request.
LEMMA StepDetails ==
    ASSUME Inv, Details, NEW h \in Handlers, Step(h)
    PROVE  Details'
  <1>a. req \in [Handlers -> Request] /\ (~At(h, "audit") => req[h].detail = None)
    BY DEF Inv, TypeOK, Details, Detail, At
  <1>b. ASSUME \A x \in Handlers \ {h} : req'[x] = req[x], Detail(req[h], h)'
        PROVE  Details'
    BY <1>b DEF Details, Detail
  <1>1. CASE Arrive(h)
    BY <1>1, <1>a, <1>b DEF Arrive, Incoming, Detail
  <1>2. CASE AuthenticateToken(h)
    <2>1. CASE Answer(h, "sessionExpired")
      BY <1>2, <2>1, AnswersKeepDetails DEF AuthenticateToken, At, Statuses
    <2>2. CASE req' = [req EXCEPT ![h].pc = "handler", ![h].admin = req[h].bearer]
      BY <1>2, <2>2, <1>a, <1>b DEF AuthenticateToken, At, Detail, Request
    <2> QED
      BY <1>2, <2>1, <2>2 DEF AuthenticateToken
  <1>3. CASE AuthenticateKey(h)
    <2>1. CASE Answer(h, "unauthorized")
      BY <1>3, <2>1, AnswersKeepDetails DEF AuthenticateKey, At, Statuses
    <2>2. CASE ~Answer(h, "unauthorized")
      BY <1>3, <2>2, <1>a, <1>b DEF AuthenticateKey, At, Detail, Request
    <2> QED
      BY <2>1, <2>2
  <1>4. CASE AuthenticateNothing(h)
    BY <1>4, AnswersKeepDetails DEF AuthenticateNothing, At, Statuses
  <1>5. CASE Touch(h)
    BY <1>5, <1>a, <1>b DEF Touch, Continue, At, Detail, Request
  <1>6. CASE Login(h) \/ Read(h) \/ CreateKey(h) \/ Upgrade(h) \/ RevokeUpdate(h)
    <2>1. PICK s \in Statuses : Answer(h, s)
      BY <1>6 DEF Login, Read, CreateKey, Upgrade, RevokeUpdate, Statuses
    <2>2. ~At(h, "audit") /\ req[h].route \notin {"tenant", "revokeCredential"}
      <3>1. CASE RevokeUpdate(h)
        BY <3>1 DEF RevokeUpdate, At, Inv, Owned, Found
      <3>2. CASE ~RevokeUpdate(h)
        BY <1>6, <3>2 DEF Login, Read, CreateKey, Upgrade, Serving, At
      <3> QED
        BY <3>1, <3>2
    <2> QED
      BY <2>1, <2>2, AnswersKeepDetails
  <1>7. CASE RevokeGet(h)
    <2>1. CASE Continue(h, "update")
      BY <1>7, <2>1, <1>a, <1>b DEF RevokeGet, Continue, Serving, At, Detail, Request
    <2>2. CASE \E s \in Statuses \ {"ok"} : Answer(h, s)
      BY <1>7, <2>2, AnswersKeepDetails DEF RevokeGet, Serving, At
    <2> QED
      BY <1>7, <2>1, <2>2 DEF RevokeGet, Statuses
  <1>8. CASE Manage(h)
    <2>1. CASE Answer(h, "failed")
      BY <1>8, <2>1, AnswersKeepDetails DEF Manage, Serving, At, Statuses
    <2>2. CASE req' = AuditSet(Answered(req, h, "ok"), h)
      <3>1. req[h].route \in {"tenant", "revokeCredential"}
        BY <1>8 DEF Manage, Serving
      <3> QED
        BY <2>2, <3>1, <1>a, <1>b DEF AuditSet, Answered, Detail, Request
    <2> QED
      BY <1>8, <2>1, <2>2 DEF Manage
  <1>9. CASE Audit(h)
    BY <1>9, <1>a, <1>b DEF Audit, Leave, NoRequest, Detail
  <1> QED
    BY <1>1, <1>2, <1>3, <1>4, <1>5, <1>6, <1>7, <1>8, <1>9 DEF Step, Handle

\* What AuditOwn says of the end of one request.
OwnRow(h) ==
    LET r == req[h]
    IN /\ row' = None => TooLong(r) \/ AuditFails
       /\ row' # None =>
              /\ ~TooLong(r)
              /\ row'.route = r.route
              /\ row'.detail = IF r.route = "tenant" /\ r.status = "ok" THEN h ELSE None

\* A request only ends in Audit, with the row it has a right to or none.
LEMMA StepAudits ==
    ASSUME Inv, Details, NEW h \in Handlers, Step(h), NEW x \in Handlers, Ends(x)
    PROVE  OwnRow(x)
  <1>0. Active(x) /\ ~Active(x)'
    BY DEF Ends
  <1>1. x = h
    BY <1>0, StepActs DEF Active
  <1>2. Audit(h)
    <2>1. ASSUME NEW s \in Statuses, Answer(h, s) PROVE Active(h)'
      BY <2>1 DEF Answer, Answered, Active, Inv, TypeOK, Request
    <2>2. ASSUME NEW pc \in {"update", "handler"}, Continue(h, pc) PROVE Active(h)'
      BY <2>2 DEF Continue, Active, Inv, TypeOK, Request
    <2>3. ~Arrive(h) /\ ~AuthenticateNothing(h) /\ ~Touch(h)
      BY <1>0, <1>1, <2>1, <2>2 DEF Arrive, AuthenticateNothing, Touch, Active, At, Statuses
    <2>4. ~AuthenticateToken(h) /\ ~AuthenticateKey(h)
      BY <1>0, <1>1, <2>1 DEF AuthenticateToken, AuthenticateKey, Active, Statuses, Inv, TypeOK, Request
    <2>5. ~Login(h) /\ ~Read(h) /\ ~CreateKey(h) /\ ~Upgrade(h) /\ ~RevokeUpdate(h)
      BY <1>0, <1>1, <2>1 DEF Login, Read, CreateKey, Upgrade, RevokeUpdate, Statuses
    <2>6. ~RevokeGet(h)
      BY <1>0, <1>1, <2>1, <2>2 DEF RevokeGet, Statuses
    <2>7. ~Manage(h)
      BY <1>0, <1>1, <2>1 DEF Manage, AuditSet, Answered, Active, Statuses, Inv, TypeOK, Request
    <2> QED
      BY <2>3, <2>4, <2>5, <2>6, <2>7 DEF Step, Handle
  <1>3. req[h] \in Request /\ req[h].route \in Routes /\ req[h].pc = "audit"
    BY <1>2 DEF Audit, At, Inv, TypeOK, Owned, Active, Brought, Request
  <1> DEFINE new == [route |-> req[h].route, admin |-> OuterAdmin(h), key |-> OuterKey(h),
                     detail |-> req[h].detail]
  <1>4. new \in Row /\ new # None
    BY <1>3, AuditRowAssumption DEF Row, OuterAdmin, OuterKey, Request
  <1>5. CASE row' = None
    <2>1. PICK inserted \in {TRUE, ~AuditFails} : ~(inserted /\ ~TooLong(req[h]))
      BY <1>2, <1>4, <1>5 DEF Audit
    <2>2. AuditFails \/ TooLong(req[h])
      BY <2>1, PipelineAssumption
    <2> QED
      BY <1>1, <1>5, <2>2 DEF OwnRow
  <1>6. CASE row' # None
    <2>1. row' = new /\ ~TooLong(req[h])
      BY <1>2, <1>6 DEF Audit
    <2>2. req[h].detail = IF req[h].route = "tenant" /\ req[h].status = "ok" THEN h ELSE None
      BY <1>3, <2>1 DEF Details, Detail, TooLong
    <2> QED
      BY <1>1, <1>6, <2>1, <2>2 DEF OwnRow
  <1> QED
    BY <1>5, <1>6

\* The audit row of a request is its own, with any number of requests at a time,
\* and is missing only for a failed insert or a method and path that are too long.
THEOREM AuditRowsAreOwn == Spec => AuditOwn
  <1>1. Init => Details
    BY DEF Init, NoRequest, Details, Detail
  <1>2. Inv /\ Details /\ [Next]_vars => Details'
    <2>1. UNCHANGED vars /\ Details => Details'
      BY DEF vars, Details, Detail
    <2> QED
      BY <2>1, StepDetails DEF Next
  <1>3. Inv /\ Details /\ [Next]_vars => [\A h \in Handlers : Ends(h) => OwnRow(h)]_vars
    <2> SUFFICES ASSUME Inv, Details, Next PROVE \A h \in Handlers : Ends(h) => OwnRow(h)
      OBVIOUS
    <2> QED
      BY StepAudits DEF Next
  <1> QED
    BY Invariance, <1>1, <1>2, <1>3, PTL DEF Spec, AuditOwn, OwnRow

-----------------------------------------------------------------------------
\* Refinement of KeyRegistry.

recordBar == [k \in Keys |-> IF keys[k] = None THEN None
                             ELSE [admin |-> keys[k].admin, name |-> keys[k].name]]
deadBar == {k \in Keys : keys[k] # None /\ keys[k].revoked}
toldBar == {k \in Keys : told[k] > 0}
actingBar == {k \in Keys : \E h \in Handlers : Active(h) /\ req[h].key = k}

\* The keys acted with change by one key at most, and a new one is live.
LEMMA ActingMoves ==
    ASSUME Inv, NEW h \in Handlers, Step(h)
    PROVE  \/ actingBar' = actingBar
           \/ \E k \in Keys : UNCHANGED <<keys, told>> /\ actingBar' = actingBar \ {k}
           \/ \E k \in Keys : /\ LookupByHash(k) /\ UNCHANGED <<keys, told>>
                             /\ actingBar' = actingBar \union {k}
  <1>a. TypeOK /\ req[h].key \in Keys \union {None}
    BY DEF Inv, TypeOK, Request
  <1>b. \A x \in Handlers \ {h} : req'[x] = req[x]
    BY StepActs
  <1> DEFINE Others == {k \in Keys : \E x \in Handlers \ {h} : Active(x) /\ req[x].key = k}
             Own == IF Active(h) THEN {req[h].key} \ {None} ELSE {}
             OwnNext == IF Active(h)' THEN {req'[h].key} \ {None} ELSE {}
  <1> USE KeysAssumption
  <1>1. actingBar = Others \union Own
    BY <1>a DEF actingBar
  <1>2. actingBar' = {k \in Keys : k \in Others \/ (Active(h)' /\ req'[h].key = k)}
    BY <1>b DEF actingBar, Active
  <1>3. CASE req'[h].key = req[h].key /\ Active(h) /\ Active(h)'
    BY <1>a, <1>1, <1>2, <1>3
  <1>4. CASE (~Active(h)' \/ req'[h].key = None) /\ UNCHANGED <<keys, told>>
    <2>1. actingBar' = Others
      BY <1>2, <1>4
    <2> QED
      BY <1>a, <1>1, <1>4, <2>1
  <1>5. CASE LookupByHash(req'[h].key) /\ req[h].key = None /\ Active(h)' /\ UNCHANGED <<keys, told>>
    <2>1. actingBar = Others
      BY <1>1, <1>5
    <2>2. CASE req'[h].key \in Keys
      BY <1>2, <1>5, <2>1, <2>2
    <2>3. CASE req'[h].key \notin Keys
      BY <1>2, <2>1, <2>3
    <2> QED
      BY <2>2, <2>3
  <1> QED
    BY <1>3, <1>4, <1>5, StepActs

\* The initial states and every step map to those of the registry.
LEMMA InitRefines == Init => Registry!Init
  BY KeysAssumption DEF Init, KeysInit, NoRequest, Active, Registry!Init

\* A key that is created or revoked is a change of the table.
LEMMA CreatedChanges ==
    ASSUME Inv, NEW h \in Handlers, NEW k \in Keys, Created(h, k)
    PROVE  keys' # keys
  <1> DEFINE new == [admin |-> req[h].admin, name |-> req[h].name, revoked |-> FALSE]
  <1>a. new \in Key
    BY DEF Created, Key
  <1>1. new # None
    BY <1>a, KeyRowAssumption
  <1>2. keys'[k] = new /\ keys[k] = None
    BY DEF Created, Insert, Inv, TypeOK, KeysTypeOK
  <1> HIDE DEF new
  <1> QED
    BY <1>1, <1>2

LEMMA RevokedChanges ==
    ASSUME Inv, NEW h \in Handlers, NEW k \in Keys, Revoked(h, k)
    PROVE  keys' # keys
  <1>1. keys[k] \in Key /\ ~keys[k].revoked
    BY KeyRowAssumption DEF Revoked, Revocable, Inv, TypeOK, KeysTypeOK
  <1>2. [keys[k] EXCEPT !.revoked = TRUE].revoked
    BY <1>1 DEF Key
  <1>3. keys'[k] = [keys[k] EXCEPT !.revoked = TRUE]
    BY DEF Revoked, SetRevoked, Inv, TypeOK, KeysTypeOK
  <1>4. keys'[k].revoked
    BY <1>2, <1>3
  <1> QED
    BY <1>1, <1>4

LEMMA CreatedRefines ==
    ASSUME Inv, NEW h \in Handlers, NEW k \in Keys, Created(h, k), actingBar' = actingBar
    PROVE  \E a \in Admins, n \in Names : Registry!Register(k, a, n)
  <1> USE KeysAssumption, KeyRowAssumption
  <1>0. PICK a \in Admins, n \in Names : a = req[h].admin /\ n = req[h].name
    BY DEF Created
  <1> DEFINE new == [admin |-> a, name |-> n, revoked |-> FALSE]
  <1>a. keys \in [Keys -> Key \union {None}] /\ ToldOnce
    BY DEF Inv, TypeOK, KeysTypeOK
  <1>b. new \in Key
    BY DEF Key
  <1>1. keys' = [keys EXCEPT ![k] = new] /\ keys[k] = None /\ told' = told
    BY <1>0 DEF Created, Insert
  <1>2. recordBar' = [recordBar EXCEPT ![k] = [admin |-> a, name |-> n]]
    BY <1>a, <1>b, <1>1 DEF recordBar
  <1>3. deadBar' = deadBar
    BY <1>a, <1>b, <1>1 DEF deadBar
  <1>4. toldBar' = toldBar
    BY <1>1 DEF toldBar
  <1>5. recordBar[k] = None
    BY <1>1 DEF recordBar
  <1>6. ASSUME NEW other \in Keys PROVE recordBar[other] # [admin |-> a, name |-> n]
    <2>1. ~NameTaken(a, n)
      BY <1>0 DEF Created
    <2>2. CASE keys[other] # None
      BY <2>1, <2>2 DEF recordBar, NameTaken
    <2>3. CASE keys[other] = None
      <3>1. [admin |-> a, name |-> n] # None
        OBVIOUS
      <3> QED
        BY <2>3, <3>1 DEF recordBar
    <2> QED
      BY <2>2, <2>3
  <1>7. Registry!Register(k, a, n)
    BY <1>2, <1>3, <1>4, <1>5, <1>6 DEF Registry!Register, recordBar, deadBar, toldBar, actingBar
  <1> QED
    BY <1>7

LEMMA RevokedRefines ==
    ASSUME Inv, NEW h \in Handlers, NEW k \in Keys, Revoked(h, k), actingBar' = actingBar
    PROVE  Registry!Revoke(k)
  <1> USE KeysAssumption, KeyRowAssumption
  <1>a. keys \in [Keys -> Key \union {None}] /\ told \in [Keys -> Nat]
    BY DEF Inv, TypeOK, KeysTypeOK
  <1> DEFINE dead == [keys[k] EXCEPT !.revoked = TRUE]
  <1>b. keys[k] # None /\ ~keys[k].revoked /\ keys[k] \in Key
    BY <1>a DEF Revoked, Revocable
  <1>c. dead \in Key /\ dead.admin = keys[k].admin /\ dead.name = keys[k].name /\ dead.revoked
    BY <1>b DEF Key
  <1>d. keys' = [keys EXCEPT ![k] = dead]
    BY <1>a DEF Revoked, SetRevoked
  <1> HIDE DEF dead
  <1>1. recordBar' = recordBar
    BY <1>a, <1>b, <1>c, <1>d DEF recordBar
  <1>2. deadBar' = deadBar \union {k} /\ k \notin deadBar
    BY <1>a, <1>b, <1>c, <1>d DEF deadBar
  <1>3. toldBar' \in {toldBar, toldBar \union {k}}
    <2>1. CASE told' = told
      BY <2>1 DEF toldBar
    <2>2. CASE told' = [told EXCEPT ![k] = @ + 1]
      <3>1. told'[k] > 0 /\ \A x \in Keys \ {k} : told'[x] = told[x]
        BY <1>a, <2>2
      <3> QED
        BY <3>1 DEF toldBar
    <2> QED
      BY <2>1, <2>2 DEF Revoked
  <1>4. recordBar[k] # None
    BY <1>b DEF recordBar, Key
  <1> QED
    BY <1>1, <1>2, <1>3, <1>4 DEF Registry!Revoke, recordBar, deadBar, toldBar, actingBar

LEMMA StepRefines ==
    ASSUME Inv, [Next]_vars
    PROVE  [Registry!Next]_(Registry!vars)
  <1> USE KeysAssumption, KeyRowAssumption
  <1>1. ASSUME UNCHANGED <<keys, told>>, actingBar' = actingBar
        PROVE  UNCHANGED Registry!vars
    BY <1>1 DEF Registry!vars, actingBar
  <1>2. ASSUME NEW h \in Handlers, Step(h)
        PROVE  Registry!Next \/ UNCHANGED Registry!vars
    <2>1. ASSUME NEW k \in Keys, Created(h, k) PROVE Registry!Next
      <3>1. actingBar' = actingBar
        BY <2>1, <1>2, ActingMoves, CreatedChanges
      <3> QED
        BY <2>1, <3>1, CreatedRefines DEF Registry!Next
    <2>2. ASSUME NEW k \in Keys, Revoked(h, k) PROVE Registry!Next
      <3>1. actingBar' = actingBar
        BY <2>2, <1>2, ActingMoves, RevokedChanges
      <3> QED
        BY <2>2, <3>1, RevokedRefines DEF Registry!Next
    <2>3. CASE UNCHANGED <<keys, told>>
      <3>1. CASE actingBar' = actingBar
        BY <1>1, <2>3, <3>1
      <3>2. ASSUME NEW k \in Keys, actingBar' = actingBar \ {k} PROVE Registry!Next
        <4>1. recordBar' = recordBar /\ deadBar' = deadBar /\ toldBar' = toldBar
          BY <2>3 DEF recordBar, deadBar, toldBar
        <4>2. Registry!End(k)
          BY <3>2, <4>1 DEF Registry!End, actingBar, recordBar, deadBar, toldBar
        <4> QED
          BY <4>2 DEF Registry!Next
      <3>3. ASSUME NEW k \in Keys, LookupByHash(k), actingBar' = actingBar \union {k}
            PROVE  Registry!Next
        <4>1. Registry!Begin(k)
          BY <2>3, <3>3 DEF Registry!Begin, actingBar, LookupByHash, Inv, TypeOK, KeysTypeOK, Key
        <4> QED
          BY <4>1 DEF Registry!Next
      <3> QED
        BY <1>2, <3>1, <3>2, <3>3, ActingMoves
    <2> QED
      BY <1>2, <2>1, <2>2, <2>3, StepTable
  <1>3. CASE UNCHANGED vars
    BY <1>1, <1>3 DEF vars, actingBar, Active
  <1> QED
    BY <1>2, <1>3 DEF Next

\* However many requests share the middlewares, what a request carries from one
\* to the next, the rows it leaves, and the count of answers are well formed.
THEOREM TypeCorrect == Spec => []TypeOK
  <1>1. Inv => TypeOK
    BY DEF Inv
  <1> QED
    BY <1>1, Invariance, PTL

\* The API keys implement the registry, for any number of concurrent requests.
THEOREM ImplementsKeyRegistry == Spec => RegistrySpec
  <1>1. Inv /\ [Next]_vars => [Registry!Next]_(Registry!vars)
    BY StepRefines
  <1> QED
    BY Invariance, InitRefines, <1>1, PTL DEF Spec, RegistrySpec, Registry!Spec
=============================================================================
