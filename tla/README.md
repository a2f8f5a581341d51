# A TLA+ verification of zeroapi-runtime

`zeroapi-runtime` turns a declarative spec (resources, fields, relations,
permissions) into a running HTTP API. Most of what it does is sequential: it
translates the spec into routes, schemas and documents. What is hard to test
is the part that keeps state across an `await` (the webhook queue and the
workers that share it, the transactions and the handlers that interleave with
them, sessions and tokens, counters in Redis, cascades, listings that change
under a client) and the places where several translations of one spec have to
agree (the plan of relations and the schema; the routes mounted and the routes
documented). This directory models both in TLA+, checks the models with TLC on
small instances, and proves with TLAPS, for instances of any size, most of the
safety properties the runs check: of the webhook queue with both its stores, of
the CRUD routes in memory, of sessions and logins, of limits and lockouts, of
records, scopes and cascades, and of the runtime's start and end.

Paths below are relative to the repository's root; `src/` is its source
directory.

## 1. Inventory of the system

| Component | State | Operations | What is hard | What makes it correct |
|---|---|---|---|---|
| Webhook emitter and worker (`src/webhooks/emit.ts`, `worker.ts`) | the tick in flight | `emitWebhook`, `start`, `stop`, `runOnce`, `deliver` | several workers, slow receivers, partial fan-out | every event is delivered or given up, "delivered" means accepted |
| Webhook stores (`store.ts`, `prisma-store.ts`) | endpoints, events with status, attempts, next retry and lock | `createEvent`, `claimReadyEvents`, `updateAfterAttempt`, `deleteEndpoint` | a claim of three database calls, stale locks, swallowed errors, cascades | two claims never hold one event, no lock is lost |
| Inbound webhooks (`inbound-routes.ts`) | a bounded log | `POST /webhooks/inbound/:source` | bounded memory, fire-and-forget handler, redelivery | newest events kept, one answer per event |
| CRUD routes (`src/generators/routes.ts`, `src/store/`) | the rows | list, read, create, update, delete | a row read before several awaits and written after them | a write does not undo another's, states move along declared transitions |
| Transactions (`src/transactions/`) | a lock per store and a snapshot; or a database transaction | `executeTransaction`, `executePrismaTransaction` | rollback beside concurrent writers | all or nothing, no counter below zero |
| State machines (`src/state/state-machine.ts`) | none | `checkTransition` | decided on a value that may be stale | only declared transitions, only permitted roles |
| JWT user system (`src/auth/jwt-routes.ts` and its stores) | users, refresh tokens, revocations | register, login, refresh, logout, `/auth/me`, user deletion | rotation and revocation in separate calls, seconds against milliseconds | a refresh token is exchanged once, a session ended stays ended |
| Auth flows (`src/auth/flows`) | users with lockout, verification and reset tokens | register, verify, login, forgot, reset, refresh, logout | long sequences of calls, timers | a locked account stays locked for its window, tokens work once |
| OAuth (`src/auth/oauth-*.ts`) | pending states, account links | authorisation redirect, callback | two first logins at once, addresses that change | a state is used once, an identity leads to one account |
| API keys (`src/auth/apikey-*.ts`) | hashed keys | bootstrap, create, revoke, authenticate | several instances booting | one bootstrap key, a revoked key stays revoked |
| Rate limiting (`src/security`, `src/ratelimit`) | a counter per client | `increment` | two Redis commands, window boundary | never more than `max` per window, every window ends |
| Relations (`src/relations`) | rows and join rows | includes, nested writes, cascade of a user's deletion | restrict checked before the cascade | no row left pointing at a deleted one |
| Querying (`src/query`, `src/aggregates`) | none | filter, search, sort, paginate, aggregate | rows deleted between pages, ties | pages cover the listing once |
| Permissions (`src/rbac`) | none | effective roles, rules, scopes | cyclic inheritance, first matching rule | a request sees what its rule allows |
| Runtime (`src/runtime/index.ts`) | the chosen stores | assemble, `deleteSystemResource`, `shutdown` | shutdown beside work in flight | shutdown runs once |
| Plan of relations (`src/relations/index.ts`, `src/generators/schema.ts`, `src/parser/index.ts`) | none | validate, fold top-level relations, plan links, render fields, resolve an include | shared foreign keys, self relations, join tables that are resources | every object field has one opposite, names are unique |
| Artefacts (`src/docs`, `src/sdk`, `src/generators/tests.ts`) | none | OpenAPI, client, Postman, README, tests | each works out again what the runtime mounted | what is offered is served |
| Environment, deployment files, storage adapters, header middleware | none | text in, text out | nothing concurrent | - |

How they interact: a CRUD handler calls the transaction executor, then writes
its own row through its resource store, then calls the emitter without
awaiting it. The emitter writes rows into the webhook store, which workers
poll on a timer. In memory mode everything shares the `DataStore`, a Map of
Maps, and an interleaving is possible at every `await`; in database mode
several instances of the service share the database, and an interleaving is
possible between any two calls to it.

## 2. The modules

| Module | What it is |
|---|---|
| `WebhookDelivery` | the queue's rows, `emitWebhook` and the worker's `deliver`: what does not depend on the store |
| `PrismaWebhookStore` | extends it with the database store: three-step claims, cascades, crashes and failing calls |
| `MemoryWebhookStore` | extends it with the Map store: one-step claims, overlapping runs of one worker; refines `WebhookOutbox` |
| `WebhookOutbox` | the abstract queue: what is promised of each event |
| `MemoryResourceRoutes` | POST, PUT and DELETE of the CRUD routes in memory mode, with transactions, soft delete and state machines |
| `JwtSessions` | the JWT user system: its routes, the deletion of a user and the bearer check, over the memory and the database stores |
| `RateLimits` | the fixed windows of the two limiters, over the memory and the Redis store |
| `AuthFlows` | the in-memory auth flows: lockout, verification, reset, rotation, logout |
| `OAuthLogins` | states, the callback and the account links, over both user stores |
| `ApiKeys` | the bootstrap by several instances, the admin routes, the middleware's order of credentials |
| `InboundWebhooks` | the signature gate, the bounded log, the callback after the answer |
| `RuntimeLifecycle` | the choice of stores, the refusals of production, the worker's timer and `shutdown()` |
| `DatabaseRoutes` | POST in database mode: the guarded transaction, the record, its join rows, their undoing |
| `Cascades` | `deleteSystemResource("User", id)` in memory and in one database transaction, beside other writers |
| `Querying` | a client that walks a listing page by page while rows are written |
| `Permissions` | inherited roles, the two guards, and what the handlers do with the scope of a rule |
| `RelationPlan` | from declared relations to the parser's verdict, the plan of foreign keys, the schema's fields and the names an include looks for |
| `ApiSurface` | the routes mounted for a spec, in order, and the routes five artefacts offer for it |
| `AccountParts` | `RateLimits`, `AuthFlows`, `OAuthLogins` and `ApiKeys` side by side |
| `RecordParts` | `DatabaseRoutes`, `Cascades`, `Querying` and `Permissions` side by side |
| `RuntimeParts` | `InboundWebhooks`, `RuntimeLifecycle`, `RelationPlan` and `ApiSurface` side by side |
| `ServerPart` | what these three groups share: which part a behaviour exercises |
| `ApiServer` | the three groups together, for one run |
| `PrismaWebhookStore_proofs`, `MemoryWebhookStore_proofs`, `MemoryResourceRoutes_proofs`, `JwtSessions_proofs` | the theorems about these modules |
| `AccountParts_proofs`, `RecordParts_proofs`, `RuntimeParts_proofs` | the theorems about the parts, as theorems of their group |
| `ApiServer_proofs` | the same theorems, of the server whose run checks the properties |
| `MC...` | instances for TLC |

### One module for the independent parts

The twelve parts from `RateLimits` to `ApiSurface` share no state in the code
(each has its own Map, table or nothing but the spec). Three groups instantiate
four of them each, and `ApiServer` extends the groups; `part` says which one a
behaviour exercises, and the variables of the others are `None`. The states
checked are the sum of the parts' states and not their product, which would show
nothing more. Where components do
interact the composition is inside a module: the transaction, the record and
the join rows in `DatabaseRoutes`; the guard and the handlers in `Permissions`;
the parser, the plan, the schema and the includes in `RelationPlan`; the parser,
the runtime and the artefacts in `ApiSurface`; the general limiter and the one
of the auth routes in `RateLimits`.

| Module | A state is | A step is | Abstracted |
|---|---|---|---|
| `RateLimits` | the counter and expiry of each key; per request the keys it still has to count under | one `increment` (in Redis `INCR` and `PEXPIRE` apart), the process that stops between them, a tick | headers; the JWT's subject is given |
| `AuthFlows` | the account records; who is waiting for a signature | one handler up to its `await`, the rest of it after | passwords are right or wrong; mails |
| `OAuthLogins` | pending states, accounts, the index by address, links; where each callback is | one store call, or a refusal before the state is looked up | the provider's answer, an id of its own and an address, is a choice |
| `ApiKeys` | the status of each key, who has seen it; boot steps per instance | one store call, an answer, a failed boot | hashes; `updateLastUsed` |
| `InboundWebhooks` | the log and the callbacks due | one delivery, one callback | the HMAC is a verdict |
| `RuntimeLifecycle` | what backs each store, known clients, timer, the tick in flight, per caller the clients still to disconnect | `createRuntime` (any options), a tick or its next call, a call of `shutdown()`, one `$disconnect` | what the stores do |
| `DatabaseRoutes` | stock rows and who holds them, records, join rows | one statement, commit, abort of a deadlock, a record the database refuses, a stop | fields; only `decrement` operations, the ones with a guard |
| `Cascades` | what the resources and the users are kept in; per row, the relations by which it refers to the user; what the transaction staged | one statement of the cascade, the deletion of a database user after a cascade in memory, a write by another request, a failure | all child rows are of one resource |
| `Querying` | the table in insertion order, sort keys, what is hidden, the cursor, how often each row was returned | one page, one write by another | a filter, a search, a scope and a tombstone are one set of hidden rows |
| `Permissions` | the scope column of each row; per request the scope it was granted and what it read | the guard, the read, the write | other fields |
| `RelationPlan` | the declarations, then the links, then the fields | one declaration, then parse, plan, render | a name is the sequence of names and endings it is glued from |
| `ApiSurface` | the settings of the spec, the layers of routes mounted, the routes each artefact offers | one setting, then parse (or not), mount, publish | a route is a method, a pattern and a handler; `search` stands for any reason to have a search section |


### The webhook queue

A row is its `status`, `attempts`, `retry` and lock. Time is reduced to the
two comparisons the code makes: `nextRetryAt <= now` (a `retry` is "waiting",
then "due") and `lockedAt < now - lockTtlMs` (a lock is fresh, then `stale`).
The lock's pair (`lockedBy`, `lockedAt`) identifies one claim, so `owner` holds
the worker whose running claim wrote it, or `Orphan` once that claim is over
without having released it (a crash, a lost write). Two runs with the same
`workerId` in the same millisecond would share the pair; the model keeps claims
apart.

`pc[w]` follows `runOnce`: "idle", "candidates" (step 1 of a database claim is
done), "locked" (step 2), "batch" (events claimed, none in hand), "posting",
and then "accepted", "rejected" or "missing" until the outcome is written. Each
action is the code between two awaits:

| Action | Code |
|---|---|
| `FindSubscribers`, `CreateEvent` / `CreateRow` | `emitWebhook`: read the endpoints, then create one row per endpoint |
| `ForeignKeyViolation`, `EmitFails` | `createEvent` throws out of the loop; the runtime swallows it |
| `FindCandidates`, `LockCandidates`, `ReadBack` | the three calls of `PrismaWebhookStore.claimReadyEvents` |
| `ClaimReadyEvents` | `MemoryWebhookStore.claimReadyEvents`, which has no await |
| `LookUpEndpoint`, `PostAccepted`, `PostRejected`, `WriteBack` | `deliver` and `updateAfterAttempt`; an answer that is lost counts as rejected |
| `LoseWriteBack` | `updateAfterAttempt` of the database store swallows a failed UPDATE |
| `AbandonClaim` | a crash and restart, or a call of `runOnce` that throws |
| `RegisterEndpoint`, `DeleteEndpoint` | the admin routes; database rows go with their endpoint, Map entries stay |
| `RetryBecomesDue`, `LockExpires` | the clock; `OutlivedIn` names the phases of a live claim that may outlast `lockTtlMs` |

`accepted` is a history variable: how many 2xx answers reached a worker for
each event (0, 1, or "many").

`WebhookOutbox` says what the queue is for: an event is tried at most
`MaxAttempts` times, accepted at most once, an acceptance is recorded, a record
is final, and every queued event is settled in the end. The memory store
implements it under the mapping `OutboxState`. The database store does not:
run `prisma_webhook_once` shows a second acceptance without any fault.

### The CRUD routes in memory mode

The rows of one resource live in a Map. The handlers captured that Map when the
routes were mounted (`mounted`); transactions look it up in the `DataStore`
each time (`live`). Both are the same object until a rollback puts a copy in
the `DataStore`; `split` records that. A handler is the sequence
read - body and checks - transaction - write, with an await between the parts,
and a transaction is one step per operation under the store's lock, a queue of
waiting requests (`txQueue`). Fields are reduced to a state (`phase`), a
counter (`stock`) and the tombstone of `softDelete`; request bodies are records
[kind, id, to, role, ops] from a small set. POST creates a record of another
resource, which nothing else touches (`orders`).

### The JWT user system

An account, an access token and a refresh token are named by the request that
made them; `First` is an account with a session that exist at the start.
`mode`, chosen once, says which stores are in use. They differ where the code
does: the database has a unique address, removes the refresh tokens of a
deleted user, refuses one for a user who is gone and refuses a second deletion;
the memory stores do none of that, keep an index by address (`index`) that the
last registration of an address wins, and prune revocations they come across.

`now` counts milliseconds, `PerSecond` of them to the second. An access token's
`iat` and `exp` are in seconds, taken from the moment it was minted (`stamp`),
and cutoffs are in milliseconds, as in the code. The steps of a request are its
store calls: `LookUpNew`, `CreateUser` for a registration; `LookUpLogin` for a
login; `FindRefreshToken`, `FindOwner`, `RevokeExchanged` for a refresh; `Mint`
and `StoreRefreshToken` for all three (`issueTokens`); `LogOut`, `RevokeJti`,
`RevokeLoggedOut` for a logout; `DeleteUser`, `RevokeUser` for a deletion;
`PresentToken`, then `CallApi` or `Me`, for a request with an access token.
Verifying a token is awaited, and a step of its own: the signature and `exp` are
checked when the token is presented, and the revocation store is asked later, by
a clock that has moved on (`stamp` is what it shows then). By that time both the
token and the entry that revokes it may have run out. The order is that of
Hono's `verify`, a library outside `src/`: it compares `exp` before it awaits the
signature. Users, sessions and revocations are in one kind of store here; users in
a database with the rest in memory occur in `Cascades` only. A request counts from
its first store call, and no fairness is assumed: it may stop after any call,
which is what a crash of its process looks like to the others. `before` is a
history variable, the requests already answered when a request began: the
properties speak of what one request may do after another was answered, which
is what a client can rely on.

## 3. The runs

| Run | Module, cfg | Instance | What it shows |
|---|---|---|---|
| `prisma_webhook_claims` | `MCPrismaWebhookStore`, `PrismaWebhookClaims` | 2 workers, 1 emission to 2 endpoints, 2 attempts, batches of 2, 1 fault, no claim outlives its lock; 50 000 states | `ClaimsDisjoint`, `LocksHaveLiveClaims`, `DeliveredWasAccepted` |
| `prisma_webhook_settles` | same, `PrismaWebhookSettles` | batches of 1, POSTs may outlast the lock, 1 fault | the same two safety properties and `EventuallyQuiet` |
| `prisma_webhook_once` | same, `PrismaWebhookOnce` | no fault, no expiry | violation of `AcceptedAtMostOnce` |
| `prisma_webhook_fan_out` | same, `PrismaWebhookFanOut` | 1 worker, no fault | violation of `FanOutComplete` |
| `memory_webhook_outbox` | `MCMemoryWebhookStore`, `MemoryWebhookOutbox` | 2 overlapping runs, 2 emissions, 2 endpoints; 80 000 states | `AcceptedAtMostOnce`, `FanOutComplete`, `ImplementsOutbox` |
| `memory_routes` | `MCMemoryResourceRoutes`, `MemoryRoutes` | 3 requests of 9 kinds, 2 rows, stock 3; 190 000 states | `TransactionsAtomic`, `RoleGated`, `EveryRequestAnswered` |
| `memory_rollback` | same, `MemoryRollback` | 2 requests | violation of `RollbackVisible` |
| `memory_transitions` | same, `MemoryTransitions` | 2 requests | violation of `TransitionsRespected` |
| `jwt_sessions` | `MCJwtSessions`, `JwtSessions` | 3 requests of any kind, both stores, 2 addresses, 2 ms to the second, access tokens of 1 s, 4 moments; 2.1 million states up to symmetry | `TokenExchangedOnce`, `LogoutEndsSession`, `DeletionEndsSessions`, `EmailRegisteredOnce`, `DatabaseConsistent` |
| `jwt_logout_me` | same, `JwtLogoutMe` | 2 requests | violation of `LogoutEndsMe` |
| `api_server` | `MCApiServer`, `ApiServer` | each part on the instance described below; 620 000 states | the type invariant of every part and the eighteen properties from `AdmittedBounded` to `ArtefactsServed` |
| `custom_endpoints` | `MCApiSurface`, `CustomEndpoints` | one resource, one custom endpoint | violation of `CustomEndpointsMounted` |

Every passing run also checks the type invariant of its module where that is
not already checked by another run of the module.

The properties in words:

* `ClaimsDisjoint` - two running claims never hold the same event.
* `LocksHaveLiveClaims` - a lock that names a worker belongs to a claim that is
  still running and still has the event: only the locks of crashed claims and
  lost outcomes have to expire.
* `DeliveredWasAccepted` - a row says "delivered" only if the receiver
  answered 2xx.
* `AcceptedAtMostOnce` - the receiver accepts an event at most once. Holds of
  the memory store, fails of the database store.
* `FanOutComplete` - when an emission is over, every endpoint it found
  subscribed, and that still exists, has its event. Holds of the memory store,
  fails of the database store.
* `EventuallyQuiet` - from some point on every event that was queued is
  settled: crashed claims are reclaimed, retries come to an end, and late
  results do not reopen events for ever.
* `TransactionsAtomic` - when no transaction runs, the stock the next one sees
  is the initial stock and the effect of exactly the committed transactions.
* `RoleGated` - a row is in a role-gated state only if a request of such a role
  (or a declared transaction) asked for it, whatever stale rows were written
  back.
* `EveryRequestAnswered` - a transaction that fails lets the next one start.
* `TokenExchangedOnce` - of two exchanges of one refresh token one fails, unless
  they overlapped.
* `LogoutEndsSession` - once a logout was answered, its refresh token is not
  exchanged and its access token does not open the API, but for one race: a
  token verified just before it expires may be looked up just after, when the
  revocation has run out with it.
* `DeletionEndsSessions` - once a deletion was answered, nobody logs in,
  refreshes or is shown as that user, and a token opens the API only if a
  request the deletion overtook minted it (memory), if it was minted in the
  very millisecond of the deletion, on a full second (both stores: the
  comparison of `iat` with the cutoff is strict), or if it ran out between its
  verification and its look-up, as above.
* `EmailRegisteredOnce` - two registrations of one address succeed only if they
  overlapped or an account was deleted.
* `DatabaseConsistent` - in the database, addresses are unique and refresh
  tokens belong to users who exist, at every point between two calls.
* `AdmittedBounded` - no `windowMs` consecutive milliseconds see more than twice
  `max` requests pass a key, in either store: the double burst at the boundary of
  two fixed windows is the worst case.
* `CountersExpire` - a counter without an expiry has its opener between `INCR`
  and `PEXPIRE`, or stopped there. The property states what the code allows: a
  process that stops at that point locks the client out for good.
* `GuessesBounded` - no `windowMs` of the lockout see more than `maxAttempts`
  wrong passwords for one account unless its owner logged in, across the lock's
  end, the reset of the counter and a password reset.
* `ExchangedOnce` - a refresh token of the flows is exchanged or logged out once,
  and an account never holds a revoked one, however signatures overlap.
* `StateSpent` - an OAuth state lets one callback through, and none once the store
  was asked for it, even by the wrong provider or too late. A callback that is
  turned away before (`?error=`, no code, a provider that is not configured)
  leaves its state good, as the code does.
* `SameAccount` - one identity, which is a provider and the id it knows somebody
  by, leads to one account as long as that exists, whatever addresses it reports
  from one login to the next, unless two of its callbacks overlapped. One address
  leads to one account that has it, through whatever providers; in memory, unless
  two callbacks with it overlapped. And whoever gets into an account of another
  address than the one reported got its link when the addresses agreed.
* `FirstKeyKnown` - every key shown is stored, and an instance that is ready
  leaves the operators without a key only if another is about to log one, or
  failed before it could.
* `InboundFaithful` - the inbound log is the last `maxEntries` acknowledged
  deliveries, latest first, and each acknowledged delivery reaches `onEvent`
  exactly once, also if it dropped out of the log.
* `AccountsDurable` - a production process never keeps keys, users or refresh
  tokens in its own memory, whatever is passed and detected.
* `ShutdownClean` - no tick begins after `shutdown()` was called, and every
  client it knows is disconnected exactly once, whoever calls it how often.
* `StockAccounted` - a stock row has lost one unit per committed transaction
  that decremented it, and is never negative, through aborts and stops.
* `RecordsPaid` - a request takes all the stock of its transaction or none, and a
  record exists only if it took all. Stock is gone without a record only for a
  request that is about to create it, stopped before it did, was refused the
  record by the database (a unique column, a foreign key: nothing catches that
  error, the client gets a 500), or was refused for its nested items; join rows
  have both ends. The exceptions are what the code allows: the record is created
  after the commit, and nothing gives the stock back.
* `CascadeAllOrNothing` - while the user is there, rows nobody else wrote are as
  they were; once it is gone, no database row refers to it, and in memory only
  rows written by others or related without a policy do. With resources in memory
  and users in a database the children go first and the user in a later call:
  between the two, and for good if that call fails, the user is there and its
  children are not.
* `WalkedOnce` - a row that was visible and unedited throughout a walk is
  returned exactly once. Excepted are walks whose cursor row was itself deleted,
  edited or hidden while the client held it: over a database they lose rows; in
  memory they start again at the first row (`apply.ts:102`), and what is checked of
  them is that they return every such row at least once, unless the cursor's row was
  created anew or got another sort key. A walk by page number is
  held to it only if nobody wrote. A cursor row that another created or
  uncovered earlier in the walk is no exception.
* `ScopeKept` - a requester with a scope writes only rows that were in that
  scope at some time and leaves them in it (or deleted), whatever the body and
  the URL say and others write between its read and its write.
* `RolesExact` - a role stands for exactly the roles its inheritance leads to,
  through any cycle, and to names that are not defined.
* `SchemaPaired` - for a spec the parser accepts, no model has two fields of one
  name (columns with any ending or none, object fields, array fields with any
  plural, and the fields the resource declares), every object field has exactly one opposite, and the include of a
  declared relation finds its field; but for the declarations named in
  `Odd` and `Unresolvable`, which are listed in section 4.
* `ArtefactsServed` - what the OpenAPI document, the client, the Postman
  collection, the README and the generated tests offer is served by the handler
  they describe, or by that of a resource with the same plural, under every
  combination of features; but for the routes named in the definitions before it,
  which are listed in section 4. The OpenAPI document leaves out no endpoint of a
  resource that has its plural for itself, of the JWT user system, of OAuth or of
  the API keys.
* `CustomEndpointsMounted` - a custom endpoint of a resource is mounted. Fails.
* `LogoutEndsMe` - a logout's access token is refused by `/auth/me`. Fails.
* `RollbackVisible` - clients see the rollback of a failed transaction. Fails.
* `TransitionsRespected` - a row moves only along declared transitions. Fails.

### Why the bounds are enough

Two workers and two events are what every race of the queue takes: one claim
that overtakes another, and one event that stays behind in a batch. Two
attempts exercise both the retry and the last attempt. One fault puts a crash
or a lost write at every point of every interleaving; a second one only
repeats it. The proofs (section 5) remove the bounds for the safety properties.
Three requests are two that conflict and one that observes or waits; the
stock of 3 lets some pairs of decrements fit and others not; the bodies cover
each of the five operations, transactions of one and two operations, failures
at the first and at the second, and transitions with and without roles.

For sessions, three requests are two that overlap and one that comes after
them. Two milliseconds to the second are the least that tell a token minted on
a full second from one that was not; four moments take a token minted at the
start, and a cutoff made in between, past their expiry.

For the parts of `api_server`: three clients or two requests are two that race,
with a third that finds what they left where one is needed (the limiter, whose
worst case at `Max = 1` takes two windows). The clocks run long enough to cross
a window, a lock or an expiry once and come back (`LimiterMaxNow`,
`FlowsMaxNow`, `OAuthMaxNow`). Two stock rows taken in both orders are what a
deadlock takes; two related rows let a body fail at its first and at its second
item. Two relations to the user with all 25 combinations of policies, and two
rows with any references, cover every order of a cascade's statements. Three
rows with two sort keys have ties and a proper order; pages have one row (a limit
above the maximum) or two (the default, which is above the maximum and is not
clamped), and two writes hit the cursor's row and another one. Two mailboxes and two
ids of somebody at a provider are what it takes for one identity to change its
address and for two identities to report one. The rules
cover no block, one rule without and with a scope, a public rule and two roles; the roles all
hierarchies of three roles with up to two parents, cycles and a name that is not
defined included. Eighteen
relations and three top-level ones, up to three at once, have every pair of
types between the same resources, to themselves and to the user, with no
column of their own, one that ends in `Id` or `_id`, or one without an ending, the
name of a resource or of a field included. Of the names of array fields
two coincide and one is the name itself, and four declared fields lie in the way of
columns, objects and arrays. Three resources, one in the way of stored files and
two namesakes in the way of inbound webhooks, one of them with a plural that is not
its name with an s, with up to three settings at once, combine every two features.

`MCSymmetry` permutes clients, requests, rows and signals, each set by itself:
no definition tells its members apart, and at most one part is in use.

### Fairness

Weak fairness of `Worker(w)`: the interval timer keeps ticking, and a database
call or a fetch that was started settles (a fetch fails at the latest when the
connection does; the code gives it no deadline of its own). Weak fairness of
`RetryBecomesDue` and `LockExpires`: time passes. Nothing is assumed of faults,
of emissions or of the admin routes. For the routes, weak fairness of each
handler: the event loop runs every continuation that is ready. `FairSpec` of
`WebhookOutbox` asks for weak fairness of the tries of each event, which the
refinement run derives from the fairness of the workers.

## 4. Findings

1. **A second delivery without any fault** (`prisma_webhook_once`). The UPDATE
   of a claim re-checks the lock but not the status. Worker 1 reads its
   candidates; worker 2 claims, delivers and unlocks them; worker 1's UPDATE
   finds them unlocked and takes them again.
   `src/webhooks/prisma-store.ts:107-109` and `README.md:99` say otherwise.
2. **One deleted endpoint costs the others their event**
   (`prisma_webhook_fan_out`). `createEvent` throws for the deleted endpoint
   (foreign key), the loop ends, the runtime swallows the error;
   `emit.ts:9-13` promises a fan-out to every endpoint and an emitter that
   never throws.
3. **Rolled-back changes stay visible** (`memory_rollback`). `store.set(key,
   snap)` replaces the Map in the `DataStore`, the handlers keep the old one
   with the changes; from then on transactions and handlers work on different
   rows. `executor.ts:44` and `resource-store.ts:134` say otherwise.
4. **Undeclared transitions** (`memory_transitions`). Two PUTs validated
   against the same row are written one after the other; the second moves the
   row from a state its transition does not start in. `README.md:568,590`.
5. **`/auth/me` after a logout** (`jwt_logout_me`). The route verifies the token
   and finds the user but does not ask the revocation store, and the middleware
   that does is not in front of it. `jwt-routes.ts:145` and `CHANGELOG.md:147`
   say the token is revoked.

6. **Custom endpoints do not survive the parser** (`custom_endpoints`). The zod
   schema of a resource (`src/parser/index.ts:116`) has no `customEndpoints`, and
   zod drops unknown keys; `registerResource` then has none to mount.
   `README.md:250` asks to parse every spec, `README.md:705` offers custom
   routes, and `examples/ecommerce-api/index.ts` does both.

Two smaller observations, which the properties state as they are: the comment
at `token-revocation-store.ts:8` says tokens "issued at/before" a cutoff are
revoked, the code revokes those before it; and two overlapping refreshes of one
token both succeed, because it is read in one call and revoked in a later one.

### Observations

Met while modelling, and stated by the properties as they are (as an exception
named in the property, or as part of what it allows), or left out of them.

Relations and schema (`RelationPlan`: `SharedKey`, `MisledKey`, `BareKey`,
`MisledJoin`, `SharedPlural`, `TakenName`, `Unresolvable`):

* Two relations that share a foreign key column, or a column named after another
  resource, give fields of one name or fields without an opposite; so do two
  relations to `User` with one column. So does a self relation without a column,
  whose parent is called `parent`, beside a model of that name, and a join table
  that is one of the two models it joins, or `User`.
* The parser checks no name of a field. A column named as the object beside it (a
  many-to-one to `Tag` with the field `tag`), two models that refer to a third and
  have one plural, a model that is its own plural and refers to one that refers to
  it, and a declared field with the name of an object or array field give a model
  two fields of one name.
* `?include=` of a self relation, of children with two foreign keys to the parent,
  or of a many-to-many through a resource with two foreign keys to one end, looks
  for a field the schema names differently (`prisma-include.ts:22-26` says they
  are found).
* `ownOnly` beside an explicit relation to `User` with its own column leaves no
  `userId` column (`schema.ts:92-94`). A self many-to-many through a resource
  gives `@@unique([x, x])`, and its nested create fills one column twice.
* The parser rejects two required relations in a circle, but accepts three.

Deletions and routes over a database:

* A record whose nested items are refused stays, with its join rows, if the
  join model's policy is Restrict (the default): the deletion that should undo it
  is refused, `delete` answers false, and the client got a 409
  (`routes.ts:704` says "atomically").
* The record is created after its transaction committed and outside of it
  (`routes.ts:702`): if the database refuses it, the stock is gone and the client gets a 500.
* `PrismaUserStore.delete` returns false for every error, though its comment speaks of
  a missing row (`prisma-user-store.ts:88-98`), and its caller does not look: with
  resources in memory the children are gone and the sessions revoked, and the user
  is still there.
* `CascadeResult.deleted` is overwritten when a resource has two cascading
  relations; rows inserted between `findMany` and `deleteMany` are deleted
  unreported.
* `deleteSystemResource` with a database for the resources never calls a provided
  or in-memory user store (`runtime/index.ts:558-572`).
* Clients loaded for keys, users or webhooks alone are unknown to `shutdown()`,
  and a tick in flight may use a client that was disconnected.

Listings:

* In memory the cursor of a deleted row starts the listing again; a database
  returns an empty page. A cursor row that was hidden meanwhile makes `skip: 1`
  drop the next visible row of a database.
* In memory an equality filter on a text field of digits never matches. A filter
  on the scope column is overridden by the scope in a database and intersected
  with it in memory. The two modes' aggregates differ on null and date fields.

Authentication:

* The limiter of the auth routes says "sliding window" (`auth-ratelimit.ts:7`); it
  is a fixed one. A password reset neither ends the refresh token nor lifts the
  lock. A logout with a token an overlapping refresh superseded answers success
  while the session lives on.
* A token is verified in one call and looked up among the revoked ones in a later one,
  which drops what has expired by then: a token that runs out in between opens the
  API although it was revoked.
* An OAuth callback that is turned away early (`oauth-routes.ts:121-144`) leaves its state
  good. A link is kept by the provider's id, so it leads to the account it was made for
  even when the provider reports another address later, also one that is another
  account's.

Artefacts (`ApiSurface`: `NestedWrites`, `UploadOfField`, `UserRoutes`,
`UnlistedRelations`, `UnlistedExample`, `UnservedDocs`, `Subscription`, `Misspelled`,
`Overridden`, `OfNamesake`):

* Two resources with one plural (`Post` and `Posts`) are not refused: the first mounted
  answers for both, the OpenAPI document keeps the path entry of the last, and the
  client gets two members of one name.
* The routes of `authFlows` are in no document (`docs/auth-openapi.ts:11-12` says that
  the document never omits a mounted route).
* The README links `/openapi.json` also if the documents are switched off, and its search
  section lists the first resource also if that has no list.

* The client offers update and delete on nested routes, which are not mounted
  (`sdk/generate.ts:87-91` says it mirrors the routes), and upload for a file
  field without a storage.
* Postman and README describe the auth routes for the strategies `jwt` and
  `bearer` though they are mounted only with `jwt.enabled`, OAuth without users
  for a spec that was not parsed, and a nested route for every top-level relation,
  though only those that fold into a list on the other side get one.
* The README's subscription route is `POST /webhooks/endpoints`, the real one
  `/admin/webhooks`; its examples list a resource that may have no list. The
  generated tests form the plural by appending an s.
* A custom endpoint `GET /:x` takes the place of read, one at the root never gets
  a request, and a resource named "upload" loses its read to the stored files. A custom
  endpoint `POST /inbound/...` of a resource "webhooks" goes to the inbound webhooks.

## 5. What is proved

`PrismaWebhookStore_proofs` proves, for any number of events, endpoints,
emissions, workers, attempts and faults:

* `TypeCorrect`: `Spec => [](TypeOK /\ CurrentInBatch)`. The outcome of a
  delivery is written to row `cur[w]`, so the types are inductive only
  together with `CurrentInBatch`: a worker that is delivering has an event of
  its own batch.
* `LiveLocks`: `Spec => []LocksHaveLiveClaims`, whatever outlives its lock.
  A worker whose row is gone skips the write that would release the lock, so
  the invariant needs `OnlyRowsLocked`: what is not a row is not locked.
* `DeliveredRowsAccepted`: `Spec => []DeliveredWasAccepted`. The answer is
  remembered by the worker between the POST and the write
  (`AcceptedIsCounted`), and no other step may come between.
* `DisjointClaims`: if `OutlivedIn = {}`, `Spec => []ClaimsDisjoint`. Disjoint
  batches are not inductive: the lock guard of step 2 protects an event only
  if its batch still owns the row (`BatchOwnsRows`) and the lock of a running
  claim is fresh (`OwnedLocksFresh`). The hypothesis is needed: TLC finds two
  overlapping claims as soon as a POST may outlast its lock.

Assumed: `DeliveryAssumption` (the types of the constants, and that `Free` and
`Orphan` are not workers), which TLC evaluates in every run of the queue. Each
invariant is proved inductive action by action in one lemma (`NextType`,
`NextLock`, `NextDelivery`, `NextDisjoint`).

`JwtSessions_proofs` proves, for any number of requests, addresses and moments
and for both kinds of stores:

* `TypeCorrect`: the types, and that a client presents only sessions it was
  given. The types need the second part, and both need that what a request asks
  fits the step it is at (`KindFits`) and that a session handed out has an
  account (`KnownOwned`).
* `DatabaseStaysConsistent`: `Spec => []DatabaseConsistent`. Unique addresses
  follow from the index (`Indexed`); a token that has its user needs that only
  requests that are done have stored one (`TokensSettled`), so that no later
  lookup changes whose it is.
* `ExchangedOnce`: `Spec => []TokenExchangedOnce`. A token that was used up is
  and stays revoked or gone (`UsedUpSpent`): only the request that made a session
  stores its token, and it did so before anybody else knew the session. Whoever
  comes later is refused at once (`LaterRefused`).
* `LogoutEnds`: `Spec => []LogoutEndsSession`. A revocation is pruned no sooner
  than its token expires (`Closed`), although one is in seconds and the other in
  milliseconds (`Seconds`).
* `RegisteredOnce`: `Spec => []EmailRegisteredOnce`. As long as nobody asks for a
  deletion, an address that was registered stays in the index
  (`RegisteredIndexed`) and what the index names exists (`IndexExists`), in the
  memory store too, where a second account overwrites the entry.
* `DeletionEnds`: `Spec => []DeletionEndsSessions`. Once the deletion is
  answered, the account is gone for good, and its cutoff is at least as late as the
  deletion and there until every access token minted before it has expired
  (`CutoffsFit`, `CutoffsHold`).

The properties compare a request with one that was answered before it began, so
each of the last four also needs `BeforeDone`: what was answered stays answered.

`MemoryWebhookStore_proofs` proves, for any number of events, endpoints, workers
and attempts:

* `TypeCorrect`: `Spec => []TypeOK`; overlapping runs of one worker share
  nothing but the Map.
* `FanOutIsComplete`: `Spec => []FanOutComplete`. An emission owes an event to
  each endpoint it read and has not come to yet; nothing removes a Map entry.
* `AcceptedOnce`: if `OutlivedIn = {}`, `Spec => []AcceptedAtMostOnce`. What a
  worker claimed is open and locked by it alone (`LocksAreClaims`,
  `ClaimsAreCurrent`), and a row that was accepted is "delivered" or in the hands
  of the worker that was just told so (`AcceptancesCounted`). The hypothesis is
  needed: with a POST that outlasts its lock TLC finds two acceptances.
* `ImplementsOutboxSafety`: under the same hypothesis every behaviour starts in an
  initial state of `WebhookOutbox` and takes its steps or stutters, under the
  mapping `OutboxState`: the safety half of the refinement that run
  `memory_webhook_outbox` checks.

`MemoryResourceRoutes_proofs` proves, for any rows, plans, state machine and
number of requests:

* `TypeCorrect`: `Spec => []TypeOK`; inductive with what the queue for the lock
  and the snapshots hold.
* `RolesGate`: `Spec => []RoleGated`. A state comes to the clients' Map along
  detours, so the invariant (`GateInv`) gates the live Map, the snapshots that a
  rollback brings back and the rows that handlers read earlier as well.
* `CommittedOrNothing`: `Spec => []TransactionsAtomic`. While one transaction
  holds the lock, its snapshot has the sum of what was committed, and the rows
  have that sum and what the operations done so far add (`StockCounted`). The sum over the
  requests is a function on subsets (`SumFunction`), whose equations
  follow from a smallest counterexample: the library's induction theorems take
  an operator as a parameter, which the installed provers cannot instantiate.

`ApiServer_proofs` proves, as theorems of `ApiServer` and so of the properties
that run `api_server` checks, for any number of requests, clients, rows and
moments:

* `ServerStateSpentOnce` (`StateSpent`): the step of a callback that looks its state up
  takes it out of the store, and a state is drawn once (`OAuthConsumed`); a callback
  that was turned away before has looked none up.
* `ServerOneAccount` (`SameAccount`): every account and every link was made by a callback
  that reported its address, the link by one of its identity (`OAuthOwnersFit`,
  `OAuthAccountHeld`). The index leads to every account (`OAuthIndexed`): always in a
  database, in memory as long as a callback that is about to create one is alone to
  (`OAuthAloneToCreate`). The link of an identity leads to what its callbacks entered
  (`OAuthLinksLead`), and one that has to look by address has no account left
  (`OAuthUnlinked`), as long as its callbacks do not overlap.
* `ServerFirstKeyKnown` (`FirstKeyKnown`): a key is stored before it is shown and
  before anybody is served, and the first one is shown unless the instance that
  stored it is about to log it or failed (`KeyInv`).
* `ServerExchangedOnce` (`ExchangedOnce`): the tokens in use were generated and not
  revoked, no two accounts hold one, and one that was used is revoked (`FlowHeld`).
* `ServerGuessesBounded` (`GuessesBounded`): the passwords counted since the last
  lock were tried after it had run out, and all the earlier ones a whole window
  before that (`FlowCounted`): an interval sees either, never both.
* `ServerCountersExpire` (`CountersExpire`) and `ServerAdmittedBounded`
  (`AdmittedBounded`), by one invariant (`LimitInv`): a key's window was opened at
  some time s; what passed since s (`LimitSince`) is counted, what passed before
  but less than a window ago (`LimitBefore`) is one earlier window's, so any
  interval (`LimitWithin`) sees two windows at most.
* `ServerNothingSoldTwice` (`StockAccounted`): a row that is held is held by a
  transaction that still runs and has sold nothing yet, and has something left
  (`DatabaseHeldCovered`, `DatabaseNothingSoldYet`); the count of those who sold
  goes up by one when the transaction commits.
* `ServerRecordsArePaid` (`RecordsPaid`): what a running transaction was asked to take
  is what it has written and what it still has to do (`DatabaseTakesAll`), so a commit
  takes all of it; only a body with items comes to the undoing
  (`DatabaseItemRefused`).
* `ServerScopeKept` (`ScopeKept`): an update or deletion that is about to write has
  seen the row in its scope (`ScopeInv`), whoever moved it since; what it writes
  carries the scope.
* `ServerCascadeAllOrNothing` (`CascadeAllOrNothing`): until the user is gone (or, with
  the rows in memory and the users in a database, its deletion is due) only others
  have changed rows (`CascadeUntouched`); a row the transaction has not
  deleted has lost no relation with the policy Cascade (`CascadeCarried`), so that
  deleting the user finds them all (`CascadeEmptied`).
* `ServerWalkedOnce` (`WalkedOnce`): the rows of a listing are numbered by their
  indexes (`WalkIndex`), and a page is the rows of an interval of indexes. By
  cursor, a walk has returned exactly those of the untouched rows that are at or
  before its cursor, whatever was written around them (`WalkByCursor`); by page
  number, as long as nobody writes, those with an index below what it has fetched
  (`WalkByNumber`). In memory what is at or before a cursor that is there was returned,
  also after the walk started again (`WalkRestarts`).
* `ServerRolesExact` (`RolesExact`): the resolution is a recursive function of
  what is still to do and what was visited. The least set that has both, and the
  parents of its roles that were not visited, solves its equation (`RoleLeast`,
  `RoleEquation`), and nothing else does (`RoleUnique`): another solution would
  differ at an argument with the fewest roles left to visit and, of those, the
  shortest list to do. What is left is that this set is what paths of inheritance
  lead to (`RolesOfOne`).
* `ServerInboundFaithful` (`InboundFaithful`): deliveries are accepted in the order
  they arrive, the log is the accepted ones read backwards, and the queue is
  those at the end that `onEvent` has not seen (`InboundInv`).
* `ServerCleanShutdown` (`ShutdownClean`): each known client is either to be
  disconnected by one caller, the first, or was (`ClosedOnce`); without a timer
  no tick begins (`Stopped`).
* `ServerDurableAccounts` (`AccountsDurable`): whatever is not refused is durable,
  for all combinations of options (`NotRefusedDurable`).
* `ServerArtefactsServed` (`ArtefactsServed`): the routes mounted are the server's
  own in eight layers, those of the resources in the order of the spec, and the
  last ones (`MountedLayers`, `MountedOfResource`). The first layer that matches a
  request answers it (`ReachedFirst`); a route of the server is matched by no
  route of a resource, but for the one of stored files and that of inbound
  webhooks, because a path begins with a plural (`OwnFirst`,
  `OfResourceApart`); of the routes of resources the first that matches is of the
  same resource or a namesake (`FirstRoute`), and is the one offered, its like of
  the namesake, or a custom endpoint that
  overrides it (`OfResourceServed`). What an artefact offers, outside the named
  gaps, is one of these (`Genuine`; one lemma for each artefact).
* `ServerSchemaPaired` (`SchemaPaired`): once planned, the links are the first
  candidate of each foreign key (`PlanChosen`), so a key has one link; candidates
  from the owning side and from children come before those of join tables, hence
  whatever a later candidate repeats is already planned. Names are compared by
  their parts: a column is a stem and an ending, a back field of a self-relation or of
  several links is longer than
  a plain one, and stems differ where lengths agree (`PlanNamesDiffer`); a declared
  field is none of the columns (`PlanDeclaredSame`). Fields are
  rendered in pairs, for a link, a relation to a system resource, an injected owner,
  and each half of a self-join; members of a pair are each other's opposites, and
  two fields of different pairs are none (`PlanOneOpposite`). An include finds the
  field of the link that its relation made or found there (`PlanIncludes`).
* `ServerTypeCorrect` (`TypeOK`): the types of every part, which need more than
  the types where a step depends on what an earlier one put there: a request has at
  most three counters to increment (`LimitShort`), what a creation has still to do
  are stock rows before its records are written and related rows afterwards
  (`DatabaseTodoFits`), a cascade that writes is at one of the
  relations (`CascadeAt`), and a request that reads or writes has been through the
  guard (`AccessAsked`). Of the plan: a link leads from a resource or a
  join table to a resource or a system resource, and a field is of one of these
  (`PlanLinkModels`, `PlanFieldModels`).

Each is proved in its group first, as a theorem with the group's
assumption as hypothesis (`AlwaysStateSpent`, `AlwaysSameAccount`, ...): the
part's invariant is an invariant of the group as long as the part is exercised,
since `part` never changes. It is then carried over: a behaviour of the
server is a behaviour of each group (`ServerIsAccount`, `ServerIsRecord`,
`ServerIsRuntime`), whose variables a step of another group leaves alone. The
proofs are by group because a prover is given every definition of the parts that
are instantiated together.

Assumed: the assumption of each module, as a named `ASSUME`.
`DeliveryAssumption`, `SessionsAssumption` and `RoutesAssumption` are evaluated by
TLC in every run of their modules, those of the parts as conjuncts of
`ApiServerAssumption` in run `api_server`. They give the types of the constants and
keep the "none" values apart from the others (no cutoff, no pending call, no
account, no scope). Beyond that, `DatabaseRoutesAssumption` says that a declared
transaction decrements something and no row twice; the requests, clients or row ids that
are counted are finitely many; `SessionsAssumption` that a second has at least
one millisecond; `RoutesAssumption` that the amounts of a plan are integers;
`PermissionsAssumption` that a requester's claims are values a scope column can
have, and that the names of roles are finitely many; `ApiSurfaceAssumption` that the
plural of a resource, being what `toPlural` returns, is none of the server's own first
segments that end in no s (`NotPlural`); `RelationPlanAssumption` that the endings
of names (the spellings of `Id` and `_id`, and `s`, `ies`) are themselves no names, and that an
array field is named by a name, a name with an s, or a stem with ies. The default of
`?limit=` may be above the maximum, as the parser allows. `DisjointClaims`, `AcceptedOnce` and
`ImplementsOutboxSafety` have the further hypothesis that no claim outlives its
lock.

Only model-checked:

* liveness (`EventuallyQuiet`, `EveryRequestAnswered`, the liveness half of
  `ImplementsOutbox`), which is beyond the prover.

## 6. Plan

In order of importance; each step keeps the earlier ones checked.

1. Done: the webhook queue with both stores, its abstract specification, its
   theorems; the memory-mode routes with transactions and state machines; the
   sessions of the JWT user system; the limiters, the auth flows, OAuth and API
   keys; inbound webhooks; assembly and shutdown; the creation of a record over a
   database; cascades; listings; permissions; the plan of relations; routes and
   artefacts.
2. Done: the theorems of section 5. Every invariant a passing run checks is one of
   them; what is left is liveness.
3. Nested many-to-many writes and includes in memory; aggregates as operators;
   update and delete in database mode.

## 7. What is not modelled, and why

The environment's validation, the deployment files, and the text of the schema
and the documents turn text into text, before or beside the running system;
what of them has to agree with something else (names of fields, routes) is
modelled. Storage adapters and header middleware keep no state. Signatures and
encryption are cryptography; the models treat a signed POST as a POST. Hooks and
the handlers of custom endpoints run the user's code. Aggregates are sums over
rows without state; restoring a soft-deleted row and reading one are handlers
without an await between check and answer. `PROJECT.json` lists each component
with its status and each hazard with the properties that cover it.
