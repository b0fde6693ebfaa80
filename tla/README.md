# A TLA+ development of nats-admin

nats-admin manages the accounts of a NATS cluster. PostgreSQL is its record of
tenants, account JWTs and user credentials; the NATS *account resolver* holds
the copy of each account JWT that the servers actually enforce. Most of what can
go wrong lives between the two: every operation is a chain of separate database
statements and one request to the resolver, without a transaction, a lock or a
version check, run by many HTTP handlers at once, in a process that may die
between any two calls. This development models that machinery, and around it
the API keys and the middleware every request passes, the pool of JetStream
connections, the monitor, the start of the process, and the frontend's shared
re-authentication. It checks the models with TLC and proves their safety
properties with TLAPS.

## 1. Inventory

Paths are relative to `backend/internal` unless they say otherwise.

| component | state | operations | interacts with | status |
|---|---|---|---|---|
| account claims, operator (`operator/`) | operator key | build, sign, decode account claims | used by the services | `AccountClaims` (part) |
| resolver client (`tenant/resolver.go`) | the system-account connection | Push, Delete, 5 s timeout | NATS server | `Resolver` |
| tenant service (`tenant/`) | `tenants`, `tenant_keys` | Create, UpdateLimits, Suspend, Activate, Delete, ReconcileAll | resolver, database | `TenantService` |
| credential service (`credential/`) | `user_credentials`, `tenants.account_jwt` | Issue, Revoke | tenant service, database | `CredentialService` |
| JetStream requests (`jetstream/admin.go`, `cmd/nats-admin/server.go:91-107`) | - | connect as the tenant, reseed on an authorization violation | tenant service, pool | `JetStreamAdmin` (part) |
| backend process (`cmd/nats-admin/server.go`) | phase, whether it has a resolver | boot, reconcile, listen, shutdown | all of them | `Backend` (part) |
| JetStream connection pool (`jetstream/manager.go`) | map tenant -> connection, a lock | GetConn, ClosedHandler, Close | NATS client callbacks | `ConnectionPool` |
| API keys (`apikey/`, `api/handler/apikeys.go`) | `api_keys` | Create, List, Revoke, Validate, touch | middleware | `ApiKeys` |
| HTTP pipeline (`api/router.go`, `api/middleware/`, `api/handler/auth.go`) | request context, `audit_logs` | audit, authenticate, login | API keys, handlers | `HttpPipeline` (part) |
| monitor and hub (`monitor/`) | server and account snapshots, websocket clients | events, stats requests, broadcast | system connection | `Monitor` (the snapshots), `SystemServices` |
| system account and admin seeding (`cmd/nats-admin/server.go:49-74`) | `admin_users`, the JWT of the system account | once, at every start | database, resolver directory, NATS server | `Startup`, `SystemServices` |
| re-authentication (`frontend/src/lib/auth-events.ts`, `components/auth/`, `api/client.ts`) | one in-flight promise, the modal, stored token | 401 -> modal -> retry | login | `Reauth` |
| stream and bucket administration (`jetstream/admin.go`) | - | calls of the JetStream library | pool | not modelled |
| seed encryption, frontend pages, static files, migrations, bootstrap command | - | - | - | not modelled |

Hard behaviours, each listed with its line under `hazards` in `PROJECT.json`:

* **lost updates**: `Revoke` and `UpdateLimits` read `account_jwt`, edit it and
  write it back in separate statements;
* **store order against push order**, and pushes of a JWT that was read earlier
  (Activate, ReconcileAll, the JetStream reseed);
* **late answers**: a request whose sender gave up after five seconds (or died)
  is still carried out, perhaps after the undo of the operation, and a dead
  process's perhaps after what its successor sent on another connection;
* **partial failure**: Delete ignores the resolver, a retried Revoke does not
  push, the undo of Create runs in a context that may be cancelled;
* **crashes** between any two calls (a normal shutdown does not wait for the
  handlers), healed by the reconciliation at boot;
* **status**: only `Get` and `List` look at it; writes go by the id alone, and
  several operations push the JWT of a suspended tenant;
* **degraded start**: without a system connection the backend works on the
  database alone, for good; and the connection needs what the start has to seed;
* **check, then act**: ownership and revocation of an API key, and COUNT and INSERT of
  the first administrator, are two statements each;
* **a decision outlives its reason**: a request goes on with the key that let it in;
* **a lock held over a dial**, and a callback that knows its tenant but not its
  map entry;
* **batched rendering**: several answers reach the frontend before React shows
  the effect of the first one.

What makes each modelled component correct: the claims of an account only gain
revocations of its own users and change limits; nothing is published that was
not stored; a credential counts as revoked only when its account's claims say
so; a deleted tenant stays out; database and resolver agree when nothing runs;
every request and every boot ends. A key is revoked by its creator, once and for
good, and one caller is told. A tenant has one connection, under its own name.
Whoever waits for a login has a modal that can be answered. Snapshots only go
back where a reply is late or overtakes an event.

## 2. Modules

```
AccountClaims            claims as values; the three edits of them
  Resolver               the wire, the reply inbox, the store of the resolver
    TenantService        tables tenants and tenant_keys; one frame per process
      CredentialService  table user_credentials; Issue and Revoke
      JetStreamAdmin     connect and reseed
        Backend          process life cycle, environment, Next, properties
          MCBackend      symmetry and view for TLC
          BackendProofs  types, and only recorded JWTs are published
            RegistryProofs   the refinement of AccountRegistry
              DeletionProofs a deleted tenant stays gone
              AgreementProofs  rows, credentials and resolver stay in step
AccountRegistry          abstract specification, refined by Backend

ApiKeys                  table api_keys and its statements
  HttpPipeline           the middleware and the key handlers; properties
    MCPipeline           symmetry and view for TLC
    PipelineProofs       invariant, and the refinement of KeyRegistry
KeyRegistry              abstract specification, refined by HttpPipeline

ConnectionPool           GetConn, the client library's callbacks, Close
  PoolProofs
Reauth                   interceptors, promise, modal, pages
  ReauthProofs

Startup                  what a start does before it reconciles
Monitor                  snapshots by events and by requests
  SystemServices         both in one process that ends and starts again
    ServicesProofs
```

The families meet at interfaces, and each keeps the other's side
nondeterministic: in `HttpPipeline` the handlers of tenants and credentials
succeed or fail, in `Backend` requests are already admitted; in `JetStreamAdmin`
a connection is pooled or not, `ConnectionPool` says which; `Startup` ends where
`Backend`'s boot begins and explains its fault `degraded`; `Reauth`'s server
answers 401 SessionExpired exactly to an expired JWT, as `AuthenticateToken` does.

### The backend family

**State.** `tenants`, `seeds` and `creds` are the tables. Rows are keyed by the
tenant and by the user's public key. `store` is the resolver's directory. `wire` is
the system connection of the process: requests reach the server in the order they
were sent, whoever sent them. A process that starts dials a connection of its own
(`Dial`), and what its predecessors left unread goes to `old`, to be read at any
later time (`ServeOld`). `inbox[p]` is the reply that process `p` waits for.
`frame[p]` is what a goroutine holds on its stack: the operation, the call it makes
next and the values it has read. `phase` and `sysConn` are the backend process.
`committed` (every JWT that `account_jwt` has held), `acked` (users whose revocation
was answered with success) and `late` (tenants whose entry in the resolver is the
work of a request in `old`) are history; no action reads them.

**Steps.** An action is the code between two calls that another process could
get in between of: `UpdateGet`, `UpdateWrite`, `UpdatePush` and `UpdateAnswer`
are the four of `Service.UpdateLimits`. The first database call is merged with
the arrival of the request. Requests that end at once without an effect (an
unknown id, an invalid slug, a name already taken) and pure reads are left out.

**Claims.** A JWT is the claims it carries; two JWTs with equal claims are
one value, so the time of signing is not part of it. `limit` stands for the
limits that Create and UpdateLimits write together; it keeps the difference
between the two (Create ignores a limit that is not positive).

**Environment.** `Faults` chooses what may go wrong:

| fault | what it allows |
|---|---|
| `timeout` | a resolver call ends without the answer; its request stays on the wire |
| `reject` | the server answers with an error |
| `full` | a call finds the client's buffer full and fails at once |
| `db` | a database call fails, with or without having reached the database (also: the client went away and cancelled the request's context) |
| `crash` | the process ends anywhere; a prefix of the wire survives it |
| `cold`, `wipe` | NATS comes back with an empty directory, with the backend down or up |
| `degraded` | a start without a system connection |

A request that is lost is one whose sender timed out and that was then rejected.

**External.** The server's side of `$SYS.REQ.CLAIMS.UPDATE` and `DELETE` is
modelled from `tenant/resolver.go` and `docs/nats-auth.md`: UPDATE overwrites the
entry, DELETE removes it. The two connections of a dead process and its
successor are not ordered. `old` is a set without a count, so a request in it
may be read more than once, which only adds behaviours. That the client library
reconnects within the life of a process, on a new TCP connection, is not
modelled: `wire` stays one queue then. Whether a JetStream connection is still
pooled is a nondeterministic choice.

### The other families

**`ApiKeys`, `HttpPipeline`.** `keys` is the table; a key stands for its raw
string, its hash and its id. `req[h]` is the request a goroutine serves: route,
bearer, where it is in the chain, the admin and key `RequireAdmin` put in its
context, and the detail of its audit entry. An action is again what happens
between two database calls: lookup, touch, ownership check, update, audit
insert. `row` is the audit row of the request served last, and forgotten when
another request arrives: rows never change, so an older one need not be kept.
`known` and `sessions` are what clients hold and can present; `told` is history.
With `DbFails` any statement on `api_keys` may fail, carried out or not, and with
`AuditFails` the insert of an audit row. The key handlers'
inputs are keys that exist; malformed bodies end without an effect. `long` says
that method and path have more than 100 characters, as the parameters of
`Parametric` routes can make them: the names of streams, buckets and consumers
on routes that then work, and ids, which are then none (`BadId`).

**`ConnectionPool`.** `pool` is the map, `lock` the holder of the write lock
(only a dial holds it over a call; readers and callbacks are single steps that
wait for it), `conn` what the client library does with the connections. A
closed connection still has its callback to run, in a goroutine of its own. `drops`
is history and bounded by `MaxDrops`. A connection that is gone frees its name
for a later one.

**`Reauth`.** One action is what the browser runs between two turns of its
event loop, so the three continuations of a settled promise are one step with
it. `modal.open` is what was set, `modal.shown` what is rendered; `Render` brings
the two together and runs the effect of the modal, which depends on `open`
having changed between two renderings. Answers come in at any time, also before
it. Tokens are numbered in the
order of issue, `MaxTokens` bounds them. One tab is modelled: promise and modal
are the tab's own, and only the stored token is shared.

**`Monitor`.** Of a snapshot the time is kept at which the NATS server took it. An
account's entry has two, one for the connections and one for messages and bytes,
which an event sets to zero, as its callback replaces the whole entry. Each
subscription's messages wait in a queue its goroutine takes in order; a reply
travels apart from them, and may overtake them. `floor` and `alone` are history.

**`Startup`.** Two things outlive a process: `admin_users`, by the UNIQUE email, and
the file of the system account's JWT, which is `torn` between the truncation and
the end of the write. Every failure is logged and passed over, as in the code. A
JWT that is signed again may differ from the one in the file, which is then
written once more. A NATS server that finds a torn file admits nobody; one that
has no JWT of its system account yet admits the backend or not, which its own
configuration decides. Each start has a `RESOLVER_DIR` or not, and an address for
the first administrator of its own.

**`SystemServices`** is the life of a process over these two: it boots, the
monitor subscribes if there is a connection, requests for statistics come in,
and a crash or the end of the process loses what the monitor has collected,
while the NATS servers go on taking snapshots.

## 3. Runs

| run | instance | properties | result |
|---|---|---|---|
| `concurrent` | 2 handlers, 1 tenant, 1 user; timeouts, crashes, directories lost | `TypeOK`, `PublishedWasCommitted`, `RegistrySpec`, `DeletedStaysGone` | hold |
| `faults` | 1 handler, 1 tenant, 1 user; every fault but `wipe`, 1 late request; fairness | `PublishedWasCommitted`, `RegistrySpec`, `DeletedStaysGone`, `RequestsEnd`, `BootCompletes`, `BootHeals` | hold |
| `serial` | 1 handler, 1 tenant, 2 users, 2 limits; crashes, cold starts, 2 late requests | `Agreement`, `FreshPublish`, `RevocationHolds`, `RevocationKept`, `LimitsMatch` | hold |
| `revocation_race` | 2 handlers, Update and Revoke, no fault | `RevocationKept` | violated |
| `revocation_retry` | 1 handler, rejected pushes | `RevokedIsRefused` | violated |
| `suspended_served` | 1 handler, no fault | `SuspendedIsDark` | violated |
| `deleted_served` | 1 handler, rejected requests | `DeletedIsDark` | violated |
| `keys` | 2 requests, every route but `read` and `refresh`, 2 keys, a super and another administrator, 1 name; failures of statements on `api_keys` | `TypeOK`, `ToldOnce`, `RegistrySpec`, `SpentForGood`, `CreatorOrSuperRevokes`, `AuditOwn` | hold |
| `pool` | 2 callers, 2 tenants, 2 connections at a time, 2 drops a tenant; fairness | `TypeOK`, `OnePerTenant`, `LeaksBounded`, `EntriesOwn`, `CallsReturn`, `ClosedLeave` | hold |
| `reauth` | 3 requests, 3 tokens, logout; fairness | `TypeOK`, `ModalServes`, `RetriesAreNewer`, `OnlyLateAnswersBlock`, `WaitersProceed` | hold |
| `modal_stuck` | 2 requests, 3 tokens; fairness | `Answerable` | violated |
| `services` | 1 backend, 2 addresses, every fault; 2 servers, 1 account, 2 callers, 3 snapshots; fairness | `TypeOK`, `OneInitialAdmin`, `BootConnects`, `OneRowPerServer`, `AnswersAdvance`, `RowsStay`, `OnlyRepliesReorder`, `StatsReturn` | hold |

What the passing runs show:

* `PublishedWasCommitted`: UpdateLimits, Revoke and Create store before they
  push (`docs/nats-auth.md` shows the opposite order), so that no crash and no
  interleaving leaves the resolver with claims the database never held.
* `RegistrySpec`: the backend implements `AccountRegistry`, with the refinement
  mapping *recorded* = `committed`, *owner* and *revoked* = the columns of
  `creds`, *served* = `store`. It is also what remains true under concurrency:
  what is served is recorded, not that it is the latest.
* `DeletedStaysGone`: SetStatus and UpdateAccountJWT would revive a deleted row,
  but only for a request that read the row before. Once those have ended and no
  UPDATE is left on the wire or on a dead process's connection, the tenant stays
  out for good.
* `Agreement`, `FreshPublish`, `RevocationHolds`, `RevocationKept`,
  `LimitsMatch`: what one request at a time achieves across crashes. They all
  fail with two requests at a time; the run `revocation_race` shows it for the
  one the documentation promises. And the ones about the resolver except the
  tenants in `late`: a request of a dead process that the server reads after the
  reconciliation takes their entry back, until their next push.
* `BootHeals`: if the reconciliation counted no failure, every active tenant's
  JWT is in the resolver when the backend starts to serve. A request of the dead
  process does no harm before the push of its tenant, and is the only thing that
  can do any after it.
* `RegistrySpec` of the keys: the pipeline implements `KeyRegistry`, with *dead* =
  the rows with `revoked_at`, *acting* = the keys of the requests that run. Only
  the WHERE of the UPDATE decides between concurrent revocations (`ToldOnce`), and
  what Get found out about the owner still holds by then
  (`CreatorOrSuperRevokes`).
* `SpentForGood`: the requests a key let in go on after its revocation; once they
  have ended, nothing starts with it.
* `OnePerTenant`, `LeaksBounded`: the second look under the lock keeps concurrent
  callers at one connection. After a disconnection a connection may live on
  outside the map, when GetConn replaced an entry whose connection comes back or a late
  callback removed the entry of its successor; at most one per disconnection.
* `AuditOwn`: however requests overlap, the row of one carries its own route, and its
  detail exactly when its change succeeded; where the insert does not fail there is
  one unless method and path do not fit the column.
* `ModalServes`, `OnlyLateAnswersBlock`, `WaitersProceed`: nobody waits without a
  modal to settle the promise, and its buttons work, but for the one interleaving
  that `modal_stuck` shows.
* `OnlyRepliesReorder`, `AnswersAdvance`: events never undo each other. A late reply
  does undo a newer event or another reply, though it is newer than what its
  own caller found, and an event that a reply overtook undoes the reply. A
  caller who is alone with an account gets numbers at least as recent as the
  map had, but perhaps without messages and bytes.
* `BootConnects`, `OneInitialAdmin`: whatever an earlier start left half done, a
  start without a failure ends with a system connection and somebody who can log
  in, and no start adds a second administrator.

The violations are disagreements of the code with its documents; `findings` in
`PROJECT.json` quotes both sides. In short: a limits update can undo a concurrent
revocation for good; a retried revocation is acknowledged without having been
pushed; updating the limits of a suspended tenant puts it back into the
resolver; a Delete that the resolver refuses leaves the account served; and a 401
that comes in between the end of a login and React's rendering keeps the modal up
with its buttons disabled.

Other disagreements and observations are part of the models as the code has them,
without a run of their own:

* a super administrator cannot revoke another one's key (`Get` asks for the caller's
  own), though the API-key design (`2026-06-10-api-key-auth-design.md:64`) says "Only
  creator or super can revoke": `CreatorOrSuperRevokes` states the *only*, which holds;
* audit rows name neither administrator nor key, because `WithAudit` looks at its own
  request and `RequireAdmin` puts them into a copy that only inner handlers see
  (`OuterAdmin`, `OuterKey`); the same design (line 76) has them in the row.
  `AuditOwn` says nothing of the two columns;
* the revocation of a credential has a path too long for `action VARCHAR(100)`, and so
  have requests for streams, buckets and consumers with long names (`TooLong`): they
  leave no row, although `README.md:13` speaks of a "log of all admin actions".
  `AuditOwn` shows that nothing else is missing;
* the writer `WithAudit` passes on cannot be hijacked, so that no websocket upgrade
  succeeds (`Hijackable`);
* a 401 to a request sent with the old token opens a second modal after the login
  (`DeliverExpired`); attempts are counted per opening of the modal, and every failed
  login counts, not only a 401 (`Render`, `LoginFails`);
* `RESOLVER_DIR` has no default in the code (README.md:105 gives one). Without it a
  new deployment has its system connection only if the NATS server admits a system
  account it has no JWT of; `BootConnects` therefore speaks of starts with it and of
  starts that find the JWT in place.

**Bounds.** Every unsafe interleaving we know of needs two requests on one tenant;
rows of different tenants share no state but the wire and the list of the
reconciliation, and the theorems are about any number of them. Two users are needed
to tell a revocation list that grows from one that is replaced, and two limits (0
and a positive one) for the difference between Create and UpdateLimits. `WireCap`
bounds the outstanding requests: one per process alive, and those whose senders gave
up; a sender waits for room, or, with the fault `full`, fails. `OldCap` bounds what
dead processes left unread (a process starts only when there is room for what its
predecessor left): one suffices to overwrite an entry after the reconciliation, two,
in `serial`, to do so in both orders. `concurrent` and the violation runs have none,
for what a late request of a dead process may publish is what one of a sender that
gave up may. A user's key is generated once (`Fresh`), so `Users` bounds the
credentials, and `Tenants` the accounts; deleted ones are not reused, as `UNIQUE` on
the name and slug covers deleted rows. `SYMMETRY` permutes the handlers and the
keys, only in runs without liveness. A `VIEW` drops what no action and no property
of the run reads: `WithoutHistory` drops `committed`, `WithoutLate` drops `late` but
for the tenants a boot under way has pushed, of which `BootHeals` speaks,
`WithoutAcked` drops `acked`, and `WithoutUsed` the keys' `last_used_at`; of the
last two `TypeOK` only says their kind. `wipe` is in `concurrent` alone: what a boot
has pushed may be lost again before it ends. `CHECK_DEADLOCK FALSE` is set in two
violation runs where all tenants and users may be used up, so that nothing is left
to request, and where the pool is closed or the tokens of `Reauth` are used up while
nobody is signed in.

In the runs of the pipeline there are as many keys as pairs of an administrator and
a name, so that `CreateKey` never lacks a fresh one; a third concurrent request
would meet the same rows. `keys` leaves out the routes `read`, which is as
`jetstream` but for its name, and `refresh`, a login behind `RequireAdmin`, and the
failing insert of an audit row, with which `AuditOwn` would say less. `pool` lets
one caller dial while the other waits or looks at an old connection, and two
disconnections per tenant let a successor break, too; a connection that is gone
frees its name, so two suffice. `reauth` needs three tokens: an expired one, its
successor, and one more after that expired. Three samples let two events and a
reply, or an event and the replies of two calls, cross in `services`; queues longer
than two only repeat what two show.

**Fairness** (`FairSpec`, run `faults`). A handler with a request, and the boot,
keep running: the Go scheduler runs them, database calls return, and a resolver
call is bounded by `context.WithTimeout`. The server need not answer, clients
need not send, and nobody needs to restart a backend. Without the timeout the
two liveness properties fail.

In `pool`, a goroutine that waits for the mutex gets it in the end (strong
fairness: Go hands a contended mutex to the longest waiter), a dial ends by its
timeout, and the client library reconnects or gives up. In `reauth` the server
answers, React renders, a login that was sent ends; the user need not do
anything. In `services` callbacks are called and timeouts pass; the NATS servers
need not send anything, and nobody needs to start a backend.

## 4. Proofs

Eight modules prove every safety and action property that a passing run checks,
for all values of the constants that satisfy the assumptions in the components'
modules (the sentinels are distinct from the values, `Main` is not a handler,
`WireCap` is positive, `Limits` are integers, there are finitely many NATS
servers). What a theorem assumes beyond that is part of its statement:

* `TypeCorrect`: `Spec => []TypeOK`, for the backend, the pipeline, the pool, the
  frontend and the services;
* `OnlyRecordedIsPublished`: `Spec => []PublishedWasCommitted`;
* `Invariance`: `Spec => []IInv`, from which both follow for the backend;
* `ImplementsRegistry`: `Spec => RegistrySpec` (`RegistryProofs`);
* `DeletedTenantsStayGone`: `Spec => DeletedStaysGone` (`DeletionProofs`);
* `RevocationToldOnce`, `OnlyCreatorsRevoke`, `RevokedKeysStayOut`, `AuditRowsAreOwn`,
  `ImplementsKeyRegistry`: `ToldOnce`, `CreatorOrSuperRevokes`, `SpentForGood`, `AuditOwn` and
  `RegistrySpec` of the HTTP pipeline (`PipelineProofs`);
* `LimitsStayInStep`, `RevocationsAreKept`: `LimitsMatch` and `RevocationKept`,
  given `[]NoTwoEditors` (`AgreementProofs`);
* `BootHealsTenants`: `BootHeals`, unless the fault `wipe` is possible;
* `ResolverAgrees`, `RevocationReachesResolver`, `OnlyFreshPublished`: `Agreement`,
  `RevocationHolds` and `FreshPublish`, given `OneAtATime` and `OnlyRestarts`;
* `OneConnectionPerTenant`, `EntriesStayOwn`, `LeaksStayBounded`: `OnePerTenant`,
  `EntriesOwn` and `LeaksBounded` of the pool (`PoolProofs`);
* `WaitersHaveTheirModal`, `RetriesFollowALogin`, `BlockedByLateAnswersOnly`:
  `ModalServes`, `RetriesAreNewer` and `OnlyLateAnswersBlock` (`ReauthProofs`);
* `AdminSeededOnce`, `StartConnects`, `OneRowEach`, `AnswersNeverRecede`,
  `RowsKeepTheirPlace`, `EntriesRecedeByReplies`: `OneInitialAdmin`, `BootConnects`,
  `OneRowPerServer`, `AnswersAdvance`, `RowsStay` and `OnlyRepliesReorder`
  (`ServicesProofs`).

### The backend

These are the properties of `concurrent` that no history of a single request
shows; the runs check small instances of them, and none of the proofs bounds the
handlers, the tenants, the users, the limits or the wire.

`PublishedWasCommitted` is not inductive by itself. That an `UPDATE` on the wire
carries a recorded JWT follows from the frame of the process that sends it, and what
a frame at `push` holds follows from the step that stored it. `IInv` adds to types
and `PublishedWasCommitted` what each program point knows: a frame with an operation
has a tenant of the right kind, its tenant's row exists, its current `account_jwt`
is among those recorded (so that a push of a JWT just read is a push of a recorded
one), and the fields it will use are set. The frame conditions are stated per
process over values that only grow (`committed`, the set of existing rows), so one
lemma says that the steps of other processes leave them intact; then there is one
lemma per action. `IInv` was checked with TLC as an invariant before it was proved.

The refinement needs `RInv`: `IInv`, and where the values of a frame come from. What
UpdateLimits is about to write is a recorded JWT of that tenant with a new limit
(`Relimit`); what Revoke is about to write is one with its user added, and that user was
issued by that tenant (`Exclude`); when it marks the credential, the JWT it has
stored has the user on its list (`Revoke`); a user being issued has no credential
yet and is nobody else's (`Issue`); a tenant without a row has no history
(`Register`). These facts hold at any number of concurrent requests because
`committed` only grows and a credential keeps its tenant, although the *latest*
JWT may be overwritten. Every other step is silent: it leaves what the registry
sees alone, and `SilentStep` disposes of it.

`DeletedStaysGone` needs no invariant beyond `IInv`: `Gone(t)` is strong enough.
A step preserves it if it writes no status of `t`, sends no `UPDATE` for `t`, and
leaves no frame holding anything of `t` read past the filter; `AloofStep` states
this once, and each operation is shown to take only such steps.

### Rows, credentials and resolver in step

The properties of `serial` are false of arbitrary interleavings (the violation runs
show it), and `BootHeals` of directories lost at any time, so their theorems say
under what they hold. `AgreementProofs` has three parts.

*Rows.* `NoTwoEditors` says that no two requests are, for the same tenant, between
reading `account_jwt` and writing it back; any number of other requests, of other
tenants or with other operations, run meanwhile, and any fault may happen. `EInv`
adds to `RInv` that the claims such a request is about to write are *exact*: the
row it has read is still the one in the table, with its edit. Every write is then
an edit of the present JWT, which keeps all revocations, and `Update` writes the
limit together with the claims. The condition cannot be dropped:
`revocation_race` is what two editors do.

*The boot.* `BInv` says that nobody else calls the resolver while the boot does,
and that each active tenant is *healed* (`Healed`) or still on the list of what
is to be pushed: the request of the boot is the youngest on the wire, so when it
is answered everything older has been carried out, and nothing on the wire
concerns that tenant any more. Only a request in `old` can come after it, and
puts its tenant into `late`. With the fault `wipe` the directory may be lost between
the last push and the start of the service, which no backend can notice; hence
the hypothesis.

*One at a time.* `OneAtATime` says that a request is taken, and goes on, only
while no other is under way (`OneHandlerOneAtATime`: so it is with one handler, as
in the run `serial`), and `OnlyRestarts` that only crashes happen, and the loss of
the directory while the backend is down. `SInv` is what a single request has in
flight: at most one call, the youngest on the wire (`OneCall`); a frame whose
tenant, claims and list are those of the database (`Handled`); nothing on the wire
for an active tenant but its present JWT, and no request without a sender once
the backend serves (`WireFresh`); nothing on the wire, and nothing served unless
it is in `late`, for an absent tenant (`AbsentDark`); and every active tenant served
with its present JWT unless it is in `late` or the request under way is about to see
to it (`ServedFresh`). A crash breaks the last one
only outside the serving phase, and `BInv` restores it. Two database writes of an
operation may be separated by a crash anywhere, and that an acknowledged revocation
is served then rests on the order of the code: the claims are stored before the
credential is marked, and the boot pushes what is stored. `SInv` was checked with
TLC on the instance of `serial` before it was proved.

### The other components

**Pipeline.** `Inv` is `TypeOK`, `ToldOnce` and `Owned`: an admitted request has an
administrator, its key has a row, and at the update its target belongs to the
administrator it acts for. These are facts about rows that other requests may revoke
but never hand over, so one lemma shows that keys only grow and keep their owner,
and each action's proof uses it. `ToldOnce` needs that the UPDATE looks at
`revoked_at` in the same step; the refinement maps Create to *Register*, the lookup
to *Begin*, the update to *Revoke*, and the end of a request to *End* unless another
request still acts with the same key. `AuditOwn` needs `Details`: a request has its
detail from the success of its change until the audit step, and no other.

**Pool.** `OnePerTenant` is not inductive: it needs that whoever dials is alone (the
lock) and has found no live connection, which is stable because only dials make
connections and reconnecting ones count as dropped (`DialsAlone`), that entries name
connections of their tenant (`EntriesOwn`), and that a tenant whose connection is
not up any more has lost one (`ConnsKnown`). `LeaksBounded` is a matter of accounts
(`Paid`): every connection of a tenant outside the map (`Stray`, closed ones whose
callback is still to run included) has had a disconnection of its own, and an entry
that is not up, or whose tenant is being dialled for (`Shaky`), has one left for the
connection the dial makes stray. A late callback takes one stray connection away and
may make another one so.

**Frontend.** `ModalServes` is inductive with the types. `RetriesAreNewer` needs
that all tokens around have been issued (`TokensIssued`), so that a new one is
greater. `OnlyLateAnswersBlock` follows from the types and `ModalServes`: every
step that ends a login closes the modal or enables it, rendering an opening resets
it, and what is left is the first report of an expired session.

**Services.** `Started` says what each statement of a start can rely on: the
insert finds an empty table, because nobody else inserts, and a start without an
error that has passed the file finds it complete. `MInv` has three parts: nothing
is newer than the last snapshot (`Timely`), so that a new message or reply is
newer than anything known; the messages of a subscription are in order, and no
row, and no entry an event wrote, is newer than a pending one (`InOrder`,
`EventsInOrder`), from which rows only get newer and events do not undo each
other; a reply is newer than what its call found (`RepliesNewer`); and whatever
may reach the entry of an account, or the caller, while one is alone with it is
as recent as what the call found (`Undisturbed`).

### Only model-checked

Liveness: `RequestsEnd`, `BootCompletes`, `CallsReturn`, `ClosedLeave`,
`WaitersProceed` and `StatsReturn` depend on fairness and ENABLED, which are outside
the provers' reach. The violation runs are counterexamples and need no proof.

## 5. Not modelled, and the plan

* **Streams and buckets**: each operation of `jetstream/admin.go` is one call of
  the JetStream library over the connection `js` returns, and the state it
  changes is the NATS server's; what `js` does is in `JetStreamAdmin` and
  `ConnectionPool`.
* **The hub's clients**: behind `WithAudit` no upgrade succeeds (`recordingWriter`
  has no Hijack), so
  that `Hub.clients` stays empty; registration, initial message and broadcast cannot
  be reached in this program.
* **Expiry** of account JWTs and credentials: nothing renews a JWT and no document
  says how long an account lives; the other limits, which are rewritten together with the one
  modelled; permissions in user JWTs, key generation, listing.
* **Several backends on one database**: the deployment of `docker-compose.yml` runs
  one. Two that start together both count no administrator, and both insert one if
  their addresses differ.
* **Seed encryption**, migrations, the bootstrap command, static files and frontend
  pages: no state of their own that outlives a call.

What could follow: conditions weaker than `OneAtATime` for `Agreement`, such as one
request per tenant, which the wire's first-in first-out order should make enough;
the composition of `HttpPipeline` with the tenant handlers, if one day an
operation depends on who asks for it.
