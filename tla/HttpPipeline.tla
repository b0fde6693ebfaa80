---------------------------- MODULE HttpPipeline ----------------------------
(***************************************************************************)
(* api.NewRouter: every request passes WithAudit, RequireAdmin (except the *)
(* login) and the handler of its route, and is logged on the way out.      *)
(* Requests run concurrently over the api_keys table.  The handlers of     *)
(* tenants and credentials are modules of their own; here they succeed or  *)
(* fail.                                                                   *)
(***************************************************************************)
EXTENDS ApiKeys

CONSTANTS Handlers,  \* goroutines that serve HTTP requests
          Supers,    \* administrators whose role is 'super'; no handler looks at it
          Requested, \* the routes clients request
          DbFails,   \* whether a statement on api_keys may fail
          AuditFails \* whether the insert of an audit row may fail

Routes == {"login", "refresh", "read", "createKey", "revokeKey",
           "tenant", "revokeCredential", "jetstream", "monitor"}

\* The routes with a parameter in their path.
Parametric == {"read", "revokeKey", "tenant", "revokeCredential", "jetstream"}

ASSUME PipelineAssumption ==
    /\ None \notin Handlers \union Routes
    /\ Admins \intersect Keys = {}
    /\ Supers \subseteq Admins
    /\ Requested \subseteq Routes
    /\ DbFails \in BOOLEAN
    /\ AuditFails \in BOOLEAN

VARIABLES req,       \* the request each handler serves
          row,       \* the audit row of the request served last, until another arrives
          sessions,  \* administrators a JWT was issued to
          told       \* history: how often a key's revocation was answered 204

vars == <<keys, used, known, req, row, sessions, told>>

Statuses == {"none", "ok", "unauthorized", "sessionExpired",
             "notFound", "conflict", "failed"}

\* The bearer is a JWT of an administrator, an API key, or nothing usable; "long"
\* says that method and path together have more than 100 characters.
Request == [route : Routes \union {None}, long : BOOLEAN, bearer : Admins \union Keys \union {None},
            pc : {"idle", "auth", "touch", "handler", "update", "audit"},
            admin : Admins \union {None}, key : Keys \union {None},
            target : Keys \union {None}, name : Names \union {None},
            status : Statuses, detail : Handlers \union {None}]

Row == [route : Routes, admin : Admins \union {None}, key : Keys \union {None},
        detail : Handlers \union {None}]

ASSUME AuditRowAssumption == None \notin Row

NoRequest == [route |-> None, long |-> FALSE, bearer |-> None, pc |-> "idle", admin |-> None, key |-> None,
              target |-> None, name |-> None, status |-> "none", detail |-> None]

TypeOK ==
    /\ KeysTypeOK
    /\ req \in [Handlers -> Request]
    /\ row \in Row \union {None}
    /\ sessions \subseteq Admins
    /\ told \in [Keys -> Nat]

Init ==
    /\ KeysInit
    /\ req = [h \in Handlers |-> NoRequest]
    /\ row = None
    /\ sessions = {}
    /\ told = [k \in Keys |-> 0]

-----------------------------------------------------------------------------
\* Frames.

At(h, pc) == req[h].pc = pc

Serving(h, route) == At(h, "handler") /\ req[h].route = route

Continue(h, pc) == req' = [req EXCEPT ![h].pc = pc]

\* The handler has written its status and returns through the middleware.
Answered(rq, h, status) == [rq EXCEPT ![h].pc = "audit", ![h].status = status]

Answer(h, status) == req' = Answered(req, h, status)

Leave(h) == req' = [req EXCEPT ![h] = NoRequest]

\* How a statement can end; one that fails may have been carried out or not.
DbOutcomes ==
    {[applied |-> TRUE, err |-> FALSE]} \union
    (IF DbFails THEN [applied : BOOLEAN, err : {TRUE}] ELSE {})

-----------------------------------------------------------------------------
\* The middleware.

\* A client sends what it has: a JWT, a key it was shown, or nothing usable.
Presentable == {None} \union sessions \union known

Incoming(r, l, b, k, n) ==
    [route |-> r, long |-> l, bearer |-> b, pc |-> IF r = "login" THEN "handler" ELSE "auth",
     admin |-> None, key |-> None, target |-> k, name |-> n, status |-> "none", detail |-> None]

Arrive(h) ==
    /\ At(h, "idle")
    /\ \E r \in Requested, l \in BOOLEAN, b \in Presentable,
          k \in Keys \union {None}, n \in Names \union {None} :
           /\ r = "revokeKey" <=> k # None
           /\ r = "createKey" <=> n # None
           /\ k # None => keys[k] # None
           /\ r = "login" => b = None
           /\ l => r \in Parametric
           /\ req' = [req EXCEPT ![h] = Incoming(r, l, b, k, n)]
    /\ row' = None
    /\ UNCHANGED <<keyVars, sessions, told>>

\* RequireAdmin with a JWT, which may have expired since it was issued.
AuthenticateToken(h) ==
    /\ At(h, "auth")
    /\ req[h].bearer \in Admins
    /\ \/ req' = [req EXCEPT ![h].pc = "handler", ![h].admin = req[h].bearer]
       \/ Answer(h, "sessionExpired")
    /\ UNCHANGED <<keyVars, row, sessions, told>>

\* RequireAdmin with an API key; a lookup that fails is answered 401, too.
AuthenticateKey(h) ==
    /\ At(h, "auth")
    /\ LET k == req[h].bearer
       IN /\ k \in Keys
          /\ \/ /\ LookupByHash(k)
                /\ req' = [req EXCEPT ![h].pc = "touch", ![h].key = k,
                                      ![h].admin = keys[k].admin]
             \/ /\ ~LookupByHash(k) \/ DbFails
                /\ Answer(h, "unauthorized")
    /\ UNCHANGED <<keyVars, row, sessions, told>>

AuthenticateNothing(h) ==
    /\ At(h, "auth")
    /\ req[h].bearer = None
    /\ Answer(h, "unauthorized")
    /\ UNCHANGED <<keyVars, row, sessions, told>>

\* The result of the UPDATE is ignored, and the key may be revoked by now.
Touch(h) ==
    /\ At(h, "touch")
    /\ \E r \in DbOutcomes : IF r.applied THEN TouchLastUsed(req[h].key) ELSE UNCHANGED used
    /\ Continue(h, "handler")
    /\ UNCHANGED <<keys, known, row, sessions, told>>

\* Faulty variant: one audit entry for the requests that run at the same time.
AuditSet_Shared(rq, h) == [x \in Handlers |-> [rq[x] EXCEPT !.detail = h]]

\* AuditSet fills the entry in the request's own context.
AuditSet(rq, h) == [rq EXCEPT ![h].detail = h]

\* What does not go into action VARCHAR(100).  The method and path of a revoked
\* credential have 108 characters with any ids; those with the name of a stream,
\* a bucket or a consumer can have any number.
TooLong(rq) == rq.route = "revokeCredential" \/ rq.long

\* Faulty variant: the credential the client presented is taken for the admin.
OuterAdmin_Bearer(h) == req[h].bearer

\* What RequireAdmin and InjectTenant put in the context is not in the outer
\* request WithAudit looks at.
OuterAdmin(h) == None
OuterKey(h) == None

\* WithAudit after next.ServeHTTP; an insert that fails is only logged.
Audit(h) ==
    /\ At(h, "audit")
    /\ LET r == req[h]
       IN \E inserted \in {TRUE, ~AuditFails} :
              row' = IF inserted /\ ~TooLong(r)
                         THEN [route |-> r.route, admin |-> OuterAdmin(h),
                               key |-> OuterKey(h), detail |-> r.detail]
                         ELSE None
    /\ Leave(h)
    /\ UNCHANGED <<keyVars, sessions, told>>

-----------------------------------------------------------------------------
\* The handlers.

\* Of the failures of a handler one stands for all where nothing depends on it.

\* AuthHandler.Login, also behind /auth/refresh, where it asks for the password again.
Login(h) ==
    /\ Serving(h, "login") \/ Serving(h, "refresh")
    /\ \/ \E a \in Admins : sessions' = sessions \union {a} /\ Answer(h, "ok")
       \/ Answer(h, "unauthorized") /\ UNCHANGED sessions
    /\ UNCHANGED <<keyVars, row, told>>

\* Routes that read tenants, keys, streams or snapshots, and those that change
\* streams and buckets, which fill no audit entry.
Read(h) ==
    /\ Serving(h, "read") \/ Serving(h, "jetstream")
    /\ \E s \in {"ok", "failed"} : Answer(h, s)
    /\ UNCHANGED <<keyVars, row, sessions, told>>

CreateKey(h) ==
    /\ Serving(h, "createKey")
    /\ LET f == req[h]
       IN \/ /\ NameTaken(f.admin, f.name)
             /\ Answer(h, "conflict")
             /\ UNCHANGED keyVars
          \/ /\ ~NameTaken(f.admin, f.name)
             /\ \E k \in Keys, o \in DbOutcomes :
                    /\ keys[k] = None
                    /\ IF o.applied THEN Insert(k, f.admin, f.name) ELSE UNCHANGED keys
                    /\ known' = IF o.err THEN known ELSE known \union {k}
                    /\ Answer(h, IF o.err THEN "failed" ELSE "ok")
             /\ UNCHANGED used
    /\ UNCHANGED <<row, sessions, told>>

\* An id that makes the path long is not a UUID.
BadId(h) == req[h].long

RevokeGet(h) ==
    /\ Serving(h, "revokeKey")
    /\ LET f == req[h]
       IN \/ ~BadId(h) /\ Get(f.target, f.admin) /\ Continue(h, "update")
          \/ ~BadId(h) /\ ~Get(f.target, f.admin) /\ Answer(h, "notFound")
          \/ (BadId(h) \/ DbFails) /\ Answer(h, "failed")
    /\ UNCHANGED <<keyVars, row, sessions, told>>

RevokeUpdate(h) ==
    /\ At(h, "update")
    /\ LET k == req[h].target
       IN \/ /\ ~Revocable(k)
             /\ Answer(h, "conflict")
             /\ UNCHANGED <<keys, told>>
          \/ /\ Revocable(k)
             /\ \E o \in DbOutcomes :
                    /\ IF o.applied THEN SetRevoked(k) ELSE UNCHANGED keys
                    /\ told' = IF o.err THEN told ELSE [told EXCEPT ![k] = @ + 1]
                    /\ Answer(h, IF o.err THEN "failed" ELSE "ok")
    /\ UNCHANGED <<used, known, row, sessions>>

\* TenantsHandler and CredentialsHandler fill the audit entry once they succeeded.
Manage(h) ==
    /\ Serving(h, "tenant") \/ Serving(h, "revokeCredential")
    /\ \/ ~BadId(h) /\ req' = AuditSet(Answered(req, h, "ok"), h)
       \/ Answer(h, "failed")
    /\ UNCHANGED <<keyVars, row, sessions, told>>

\* WithAudit passes a recordingWriter on, which has WriteHeader and nothing else
\* of its own: neither Hijack nor Unwrap.
Hijackable(h) == FALSE

\* Hub.HandleWS: without the connection there is no upgrade.
Upgrade(h) ==
    /\ Serving(h, "monitor")
    /\ Answer(h, IF Hijackable(h) THEN "ok" ELSE "failed")
    /\ UNCHANGED <<keyVars, row, sessions, told>>

Handle(h) ==
    \/ Login(h)
    \/ Read(h)
    \/ CreateKey(h)
    \/ RevokeGet(h)
    \/ RevokeUpdate(h)
    \/ Manage(h)
    \/ Upgrade(h)

Step(h) ==
    \/ Arrive(h)
    \/ AuthenticateToken(h)
    \/ AuthenticateKey(h)
    \/ AuthenticateNothing(h)
    \/ Touch(h)
    \/ Handle(h)
    \/ Audit(h)

Next == \E h \in Handlers : Step(h)

Spec == Init /\ [][Next]_vars

-----------------------------------------------------------------------------
\* Safety.

Active(h) == req[h].pc # "idle"

(***************************************************************************)
(* The keys implement the abstract registry: of several concurrent         *)
(* revocations of one key a single one is answered with success, names are *)
(* never used twice, and no request begins to act with a revoked key.      *)
(***************************************************************************)
Registry == INSTANCE KeyRegistry WITH
    record <- [k \in Keys |-> IF keys[k] = None THEN None
                              ELSE [admin |-> keys[k].admin, name |-> keys[k].name]],
    dead <- {k \in Keys : keys[k] # None /\ keys[k].revoked},
    told <- {k \in Keys : told[k] > 0},
    acting <- {k \in Keys : \E h \in Handlers : Active(h) /\ req[h].key = k}

RegistrySpec == Registry!Spec

(***************************************************************************)
(* However many requests revoke a key at the same time, one at most is     *)
(* told that it did; the others get a conflict.  Revoke checks and updates *)
(* in two statements, and only the WHERE of the second decides.            *)
(***************************************************************************)
ToldOnce == \A k \in Keys :
    /\ told[k] <= 1
    /\ told[k] > 0 => keys[k] # None /\ keys[k].revoked

Spent(k) ==
    /\ keys[k] # None /\ keys[k].revoked
    /\ \A h \in Handlers : Active(h) => req[h].key # k

(***************************************************************************)
(* Once a key is revoked and the requests it had let in have ended, it     *)
(* lets in nothing any more: "Admin revokes key -> revoked_at set ->       *)
(* middleware rejects -> 401".                                             *)
(***************************************************************************)
SpentForGood == [][\A k \in Keys : Spent(k) => Spent(k)']_vars

(***************************************************************************)
(* "Only creator or super can revoke": whoever revokes a key acts, as a    *)
(* JWT or another key of his let him in, for its creator or has the role   *)
(* super.  What Get found out one statement earlier still holds when the   *)
(* UPDATE, which does not look at admin_id, is carried out.                *)
(***************************************************************************)
CreatorOrSuperRevokes ==
    [][\A k \in Keys : keys[k] # None /\ ~keys[k].revoked /\ keys'[k].revoked
           => \E h \in Handlers : At(h, "update") /\ req[h].target = k
                                  /\ req[h].admin \in Supers \union {keys[k].admin}]_vars

Ends(h) == Active(h) /\ ~Active(h)'

(***************************************************************************)
(* The audit row of a request tells of that request, and carries the       *)
(* detail of exactly the successful changes to tenants, however the        *)
(* requests overlap; a request passes unlogged when its insert fails or    *)
(* its method and path do not go into the column, and for no other reason. *)
(***************************************************************************)
AuditOwn ==
    [][\A h \in Handlers : Ends(h) =>
           LET r == req[h]
           IN /\ row' = None => TooLong(r) \/ AuditFails
              /\ row' # None =>
                     /\ ~TooLong(r)
                     /\ row'.route = r.route
                     /\ row'.detail = IF r.route = "tenant" /\ r.status = "ok"
                                          THEN h ELSE None]_vars
=============================================================================
