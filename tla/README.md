# A TLA+ model of the multi-tenant IAM server

This directory holds a specification of the server in `cmd/`, `config/`,
`internal/` and `pkg/`: TLA+ modules, the TLC configurations that model-check
them, and theorems checked by TLAPS. Everything is translated from the Go code;
documentation is quoted only where the code is shown to differ from it.

## 1. The system

The server is one stateless Go process (any number of HTTP requests at once)
between browsers and three stores: Redis, PostgreSQL and Keycloak.

| component | state it keeps | operations | talks to |
|---|---|---|---|
| Login sessions (`services/auth_service.go`, `handlers/auth_handler.go`, the Redis repositories) | Redis `pkce:<state>` (5 min) and `session:<id>` (`SESSION_TTL`) | authorize, callback, refresh, logout, me, session info | Redis, Keycloak token and logout endpoints, JWT verifier |
| Role resolution (`resolveAppRole`, `RequireRoles`, `assertRealmAccess`) | none | role of a token, route guards | sessions, middleware |
| Tenant lifecycle (`services/tenant_service.go`, `tenant_repository.go`, `keycloak/realms.go`) | a `tenants` row and a Keycloak realm per tenant | create, suspend, enable, delete, get, list | PostgreSQL, Keycloak admin API |
| Keycloak admin client (`keycloak/client.go`) | the cached admin token, the connection pool | `ensureAdminToken`, `doAdminRequest` | Keycloak |
| JWT verifier (`auth/jwt.go`) | per-realm cache of signing keys | `Verify`, `getPublicKey`, `fetchJWKS` | Keycloak certs endpoint |
| Middleware (`middleware.go`) | a token bucket per client address | rate limit, authenticate, role guards, tenant resolution | verifier, resolver |
| Realm directory (user, group, role and profile services) | none here; users, groups and roles live in Keycloak | create, update, enable, delete, assign, reset password | Keycloak admin API, audit |
| Audit trail (`audit/service.go`, `audit_repository.go`) | rows of `audit_logs`, goroutines in flight | `Log`, `List` | PostgreSQL |
| Tenant resolution (`tenant/resolver.go`) | none | `Resolve` | middleware |
| Start and shutdown (`cmd/server/main.go`) | the process | start, drain, stop | all |

Components share no memory except the admin token, the key cache and the rate
limiter's map. They interact through the stores, so the hard behaviour is
between the calls of one request and those of another.

What is hard, and what makes each component correct (the full list, with lines,
is `hazards` in `PROJECT.json`):

* **Sessions.** A request reads a session, calls Keycloak and writes back what it
  read; another deletes or refreshes it meanwhile; any call may lose its reply;
  the process may die in between. Correct: a redeemed code is not presented again, a
  login makes one session, a session keeps its identity, a logout that reached
  Keycloak is final in the end, what nobody uses expires, requests end.
* **Tenants.** Two stores without a common transaction, retries of calls that are
  not idempotent, and concurrent suspend, enable and delete. Correct: a live
  tenant has its own realm, a realm belongs to at most one tenant, the two agree
  once the calls have ended well.
* **Admin client.** Many requests, one token, one lock, a bounded pool of
  connections that unclosed bodies hold. Correct: requests that find the token stale
  share one fetch, a call begins with a token Keycloak accepts, no connection is
  lost, no request waits for ever.
* **Key cache.** Rotation against caching, and a lock for all realms held while one
  of them is asked. Correct: to its callers the cache is an atomic view of each
  realm's keys; a realm is asked at most once in five minutes; a new key is
  accepted in the end; one realm's keys never verify another realm's tokens.
* **Rate limiter.** Correct: no client exceeds burst plus rate.
* **Directory.** Roles looked up by name one call at a time while others delete and
  create roles; retries of creations and deletions. Correct: what is granted is
  what was named, and an error changed nothing.
* **Audit.** Rows written by goroutines nobody waits for. Correct: an entry is of
  something that was done, what was done and answered is logged, in its order.

## 2. Plan

| order | modules | abstract specification | theorems |
|---|---|---|---|
| 1, done | `AppRoles`, `AuthSession`, `AuthSessionProofs` | `SessionRegistry` | types, use of redeemed codes, one session per login, session identity, renewal after logout, refinement |
| 2, done | `TenantLifecycle`, `TenantLifecycleProofs`, `TenantFaultlessProofs`, `TenantRegistryProofs` | `TenantRegistry` | types, finality of deletion, realm ownership, finality of closing, nothing left by a deletion, refinement with faults; without them row and realm in step and the stronger refinement |
| 3, done | `JwksCache`, `JwksCacheProofs` | `KeyView` | types, refinement |
| 4, done | `AdminClient`, `AdminClientProofs` | | types, accounting of the connections, one fetch for all, fresh tokens |
| 5, done | `AuditTrail`, `Directory`, `DirectoryProofs` | | all safety properties of the run |
| 6, done | `RateLimiter`, `RateLimiterProofs` | an ideal bucket (the variable `budget`) | the budget, if the limiter is constructed once |

Every safety property of the passing runs is a theorem; what is left to TLC is
liveness (section 6).

`Directory` composes with `AuditTrail`: its actions take those of the trail into
their own steps. `JwksCache` is composed with its callers (`Authenticate`, the tenant
resolver); `TenantLifecycle` and `Directory` contain the attempts of the admin
client, whose token and connections `AdminClient` models by themselves: the calls of
the other two fail or succeed in any way that `AdminClient` allows.

Modules meant for proofs use no RECURSIVE operator, take their parameters as
CONSTANTS with named assumptions, and have one action per operation or per
external call.

## 3. Modules

### `AppRoles`
The set of role spellings the code distinguishes, and `resolveAppRole`
(`auth_service.go:395`) over sets of them. The code loops over a list and asks
only whether some element matches, so a set loses nothing.

### `AuthSession`
An HTTP request is a slot of `req`: its `pc` names the external call it makes
next and the other fields are the handler's locals. Each Redis or Keycloak call
is one action, because that is where other requests interleave.

| code | action |
|---|---|
| `PKCEAdminAuthorize`, `PKCEUserAuthorize`, `InitiatePKCE` | `InitiatePKCE` (one SETEX) |
| `HandlePKCECallback` | `Consume` (GETDEL), `ExchangeCode` (token call, `Verify`), `SaveNew` (SETEX, cookie) |
| `RefreshSession` | `RefreshSession` (GET), `RefreshToken` (token call), `Verify`, `SaveRefreshed` (SETEX) |
| `Logout` | `Logout` (GET), `Revoke` (logout endpoint), `DeleteSession` (DEL) |
| Redis expiry | `Tick` |
| Keycloak and the browser | `KcAuthorize`, `Redeems`, `KcRefuse`, `KcEndGrant`, `KcSetRoles` |
| the process dies and restarts | `Crash` |

Each call has the outcomes it can have in the code: it takes effect and is
answered, takes effect and loses its reply, or fails. A read that fails and a
read that finds nothing are one step where the handler treats them alike.

A login flow is named by its random PKCE `state`; the code, the refresh token and
the grant it leads to carry the same name. A callback takes `code` and `state` as two
parameters of its query (`auth_handler.go:81`), so `Consume` pairs any code with any
state. The verifier, realm and client come from the entry of the state, and Keycloak
redeems a code for the verifier of its own flow only (`Redeems`); a presentation it
refuses may cost an unredeemed code (phase "spent"), or the grant of a redeemed one
(`KcRefuse`). One code per flow is a simplification: a user who authenticates twice at
one URL gets a second code, of the same grant's realm and client. All refresh tokens
of a grant are one, because realms created by `DefaultRealmConfig` do not rotate them:
they are honoured alike until the grant ends. Random values (states, session ids) are
fresh: the chance of a repetition is not modelled.

`Verify` may fetch keys for up to ten seconds, and a logout may be acknowledged
meanwhile, so for a refresh it is a step of its own. In the callback it is part of
`ExchangeCode`: a request may wait before its save for as long as it likes, and
`Verify` reads nothing that other requests write.

`birth`, `given` and `revoked` are history variables: the identity an id was
created with, the ids a browser knows, and the ids whose revocation Keycloak
acknowledged; a refresh also remembers whether it loaded its session after that
(`late`). No action's guard reads `revoked` or `late`; `birth` and `given` stand for
"fresh uuid" and "the client has the cookie".

### `SessionRegistry`
What the store promises in abstract terms: `Open` binds a new id to a new login
for ever, `Lease` reads an entry, `Renew` writes back the entry of a lease,
`Release` and `Close` drop leases and entries. `AuthSession!Registry` is its
instance under the mapping: entry = identity of the stored session, lease = the
session of a refresh in flight.

### `TenantLifecycle`
An operation is a slot of `op`: `pc` names its next external call, the other
fields are the locals of the service method. A statement in PostgreSQL is one
action. A call of Keycloak is up to three attempts (`doAdminRequest`), each one
action, so other operations interleave between the attempts of one call.

| code | actions |
|---|---|
| `CreateTenant` | `CreateTenant`, `CreateRealm` (POST), `Create` (INSERT), `Rollback` (DELETE after a failed insert) |
| `SuspendTenant`, `EnableTenant` | `SuspendTenant`/`EnableTenant` (SELECT), `Update` (UPDATE), `UpdateRealm` (PUT, its result dropped) |
| `DeleteTenant` | `DeleteTenant` (SELECT), `DeleteRealm` (DELETE, 404 accepted), `SoftDelete` (UPDATE) |
| an attempt processed after its caller gave up | `KcLate` |
| the process dies and restarts | `Crash` |

`Faults` selects what can go wrong, so that a property can be stated for exactly
the circumstances under which it holds: `fail` (no effect, an error: network, 4xx
or 5xx, no admin token), `lost` (an effect and an error), `late` (an effect after
the caller gave up), `crash`. A row keeps the realm, the domain, the status and
the soft-delete marker: whether `deleted_at` is set, and whether a second deletion has
stamped it again, which `SoftDelete` does (`tenant_repository.go:149` has no condition
on it). A realm is whether it is enabled and, as history, the
tenant whose creation made it. Names that `sanitiseRealmName` reduces to nothing
are refused before any call and do not appear. Realms the server did not make
(`master`) meet every creation with a conflict and are left out.

### `TenantRegistry`
What `tenant_service.go:5` claims, in abstract terms: one registry in which an
operation is asked for, takes effect at one instant and ends. `Register` gives a
creation its name and its domain for good; `Reject` ends one that got neither, and
only because one of its names was given before or another creation asks for the same
realm; `WriteStatus` writes to an open tenant or to none; `Close` is of a deletion
asked for, and happens once. `TenantLifecycle!Registry` is its instance. A tenant is
open to its callers when its row is live and it has the realm made for it
(`StatusView`), so a creation takes effect with its INSERT and a deletion with the
DELETE of the realm; the POST, the rollback, the PUT and the marking of the row are
steps nobody sees. Whether the realm is enabled is not part of the view: the row's
status and the realm's disagree after a race (`SuspendedIsDisabled`, section 5).
`TenantsAtomic` says that it implements `RegistrySpec`. That holds without faults only;
with them the claim is false, which is the run `operation_torn`.

`FaultySpec` is what is left of the claim under faults, and `TenantsDurable` says that it
is implemented. An operation may end in error (`Fail`), a creation that takes effect may
report failure and may find its realm gone already (`RegisterTorn`), a tenant may lose
its realm to its own deletion or to the rollback of a creation of the same realm
(`Lose`), and operations die with the process (`Die`). Both weakenings are the code's:
while a rollback repeats its DELETE, another creation can make the realm and register it,
and loses it before its own insert (`RegisterTorn` with "closed") or after it (`Lose` by
an operation that is neither its deletion nor its creation). What stays is that names are
given once and for good, a status is written to an open tenant only, and a closed tenant
never opens again (`ClosedIsFinal` says the last by itself).

### `KeyView` and `JwksCache`
`KeyView` is what the verifier promises: each realm has at most one view, complete
and of one moment, and only a view that is not young is replaced. `JwksCache` is the
code: a request waits for the read side of the lock, then for its write side, then
for Keycloak, holding the lock. Keycloak's answer is drawn up at one moment
(`KcCerts`) and installed at a later one (`Install`), between which keys may rotate.

| code | actions |
|---|---|
| `Authenticate`, `CompositeResolver.Resolve` | `Authenticate` |
| `getPublicKey`, under the read lock | `Lookup` |
| `getPublicKey`, under the write lock | `Recheck` |
| `fetchJWKS` | `KcCerts`, `FetchFails` |
| the rest of `getPublicKey` | `Install` |
| five minutes pass; keys come and go | `Age`, `KcRotate` |

`Views` is the refinement mapping: the moment a fetch becomes visible is that of
Keycloak's answer, because its receiver holds the lock until it has installed it.
A signature is right or wrong as the key is that of the realm and id in hand, and
`Verify` then compares the token's issuer with the realm of the request (`Verified`).

### `AdminClient`
A request is a slot of `call`. The token is two numbers: the life the client
believes in, counted from the arrival of the answer, and the real one, counted from
Keycloak's issue. A connection of the transport is free, the `conn` of a call's
exchange, or held by the `body` of a 5xx answer that nobody closes (`client.go:181`),
until `http.Client.Timeout` ends it or the request's context is cancelled.

| code | actions |
|---|---|
| `doAdminRequest` begins; the handler returns | `Begin`, `Served` |
| `ensureAdminToken`, read lock, then write lock | `ReadToken`, `LockToken` |
| `fetchAdminToken` | `FetchDial`, `KcIssue`, `StoreToken`, `FetchFails` |
| the loop of attempts | `Dial`, `Answered`, `Failed5xx`, `NoAnswer`, `Retry` |
| `http.Client.Timeout` | `Expire`, and the guard of `Tick` |

### `AuditTrail` and `Directory`
`AuditTrail` is the life of an entry: stamped when it is logged, then written by a
goroutine that may find the pool closed or the process dead. `Directory` is the
realm's users, groups and roles in Keycloak and the sixteen handlers that change
them. A handler is a record of what it asks for (`Ask`), with the guards of its
route (`RequireRealmAdmin`, `assertRealmAccess`), the roles it looks up first, and
whether it logs. The guards are those of the code, over any token: a token carries
role names, a realm may define roles of any name, and the token keeps them until it
expires whatever becomes of the role. No property says who may ask (section 5).

| code | actions |
|---|---|
| the handlers of users, groups, roles and profile | `CreateUser` ... `ChangePassword`, the disjuncts of `Begin` |
| `GetRealmRole` for each name | `LookUp`, `LookUpFails` |
| one attempt of the changing call, with the answer and the log | `Done`, `Refused`, `AttemptFails`, `AnswerLost` |
| `audit.Service.Log`'s goroutine | `Acquire`, `Written`, `WriteFails` |
| graceful shutdown; the process dies | `Shutdown`, `Crash` |

Roles are named, users and groups have ids: a role deleted and created again between
a lookup and the assignment is another role with the same name. Keycloak's id for the
role, which the lookup returned, tells them apart in `refs`.

### `RateLimiter`
The bucket of each address, the goroutine that forgets the idle ones, and `budget`,
what an ideal bucket would still hold. `PerMatch` says whether the constructor of the
middleware runs per matched request, which is what gorilla/mux does with the
functions given to `Use`.

### Proof and model-checking modules
`AuthSessionProofs`, `TenantLifecycleProofs`, `TenantFaultlessProofs`,
`TenantRegistryProofs`, `JwksCacheProofs`, `AdminClientProofs`, `DirectoryProofs` and
`RateLimiterProofs` hold the theorems of section 6; the modules whose names begin with MC the instances TLC
checks.

## 4. Runs

| run | instance | shows |
|---|---|---|
| `session_safety` | 2 flows, 2 ids, 2 requests, 1 user, 2 realms, `SessionTTL` 2, `PkceTTL` 1 | `TypeOK`, `RedeemedCodeNotRepeated`, `OneSessionPerLogin`, `SessionOfItsLogin`, `NoRenewalAfterLogout`, `RegistryImplemented` |
| `session_liveness` | 1 flow, 1 id, 2 requests, two role sets | `RevokedStaysOut`, `UnusedSessionExpires`, `RequestsEnd` |
| `tenant_safety` | 2 operations, 3 tenants, 2 realm names, a domain and the empty one; `fail`, `lost`, `crash` | `TypeOK`, `DeletedLeavesNoRealm`, `ClosedIsFinal`, `TenantsDurable` |
| `tenant_late` | 2 operations, 2 tenants, 1 realm name, 2 domains; `lost`, `late`, at most one attempt outstanding | `DeletedIsFinal`, `RealmLostOnlyToItsOwner`, `OperationsEnd` |
| `tenant_faultless` | 3 operations, 3 tenants, 2 realm names; no faults | `LiveHasRealm`, `RealmHasOwner`, `TenantsAtomic` |
| `jwks` | 2 requests, 2 realms, 2 key ids, one of them common to both realms | `TypeOK`, `KeyViewImplemented`, `VerificationsEnd`, `RotationHeals` |
| `admin_client` | 2 requests, 2 connections, 3 attempts, `TTL` 3, `Margin` 1, `Timeout` 1 | `TypeOK`, `ConnectionsAccounted`, `StartsFresh`, `FetchOnlyWhenStale`, `CallsEnd`, `PoolRecovers` |
| `directory` | 2 requests of any kind, a user, a group, 2 roles and 2 free ids, 2 names, 2 attempts; `fail`, `lost`, `crash` | `TypeOK`, `TrailTellsTheTruth`, `ErrorChangedNothing`, `TrailInOrder`, `GrantsAsNamed`, `RequestsEnd`, `EntriesSettle` |
| `suspend_race`, `operation_torn`, `user_disabled`, `rate_limit` | the smallest instance that shows it | section 5 |

Bounds (sessions). Two requests are the least that can race, and every race of this code is
between two requests (a read, and one interfering write). Two flows with two ids
let sessions of different logins be confused, in two realms and by both portals'
clients, and a code be presented under the other's state. `SessionTTL` 2 distinguishes a renewed entry from an old one; `PkceTTL`
1 makes every login race its expiry. Ids and states are never reused, so two of
each bound the length of a behaviour without cutting a request short. One user is
enough because users are never compared with each other except through the flow
that names them. Request slots, states and ids are symmetric where only
invariants and the refinement are checked; the liveness run uses no symmetry.

Bounds (tenants). A uuid is drawn once, so the number of tenants bounds the
creations of a behaviour; suspensions, enablings and deletions are unbounded. One
realm name makes every pair of tenants compete for it, two let a realm be
confused with another; two domains keep the second creation from failing on the
domain. Three attempts per call are the code's own number. `MaxLate`
bounds the attempts outstanding in Keycloak in the one run that has them; one is
enough for a DELETE of one tenant to arrive in the life of the next, which is what
the mutant with a partial unique index does. An attempt that stays outstanding is
one that failed, so `tenant_late` needs no `fail` of its own. Operation slots,
tenants and names are symmetric in the safety runs, not in `tenant_late`, which
checks liveness.

Bounds (keys). Two requests are the least that can wait for one lock; two realms that
share an id and differ in whether they have a second one show both a rotation and a
mix-up of realms. Nothing else is bounded: rotations, ages and verifications repeat
for ever.

Bounds (admin client). One connection per request is enough for two requests to hold
both with unclosed bodies and wait for a third. The proportions of the times are the
code's: the margin is the timeout (30 s each), and the token lives longer (Keycloak's
default is a minute; that it is more than the timeout is `TimeAssumption`). A tick is
thirty seconds, and what happens within it is unordered. The theorems hold for any
times and numbers that meet the assumptions.

Bounds (directory). A request happens once, so two requests are one race of every pair
of operations, in either order or interleaved. `Tries` is 2 where the code has 3: one
retry is what a lost answer needs to meet its own effect, and the free ids bound the
objects created (`Id`: a creation without a free id does not happen, and two requests
with two tries create at most two: a second try meets the name of the first, unless
the other request renamed or deleted it and so creates nothing itself). `user_disabled`
uses 3. To delete a role and create it again while a third request holds its id takes
three requests: the run shows `GrantsAsNamed` against the deletion only, the theorem for
any number of requests. Tokens are not bounded: all of them occur.

Fairness (sessions). `FairSpec` assumes weak fairness of `Advance(r)`, the next step of a
request already in flight, because every external call is bounded by a timeout
(`keycloak.NewClient` 30 s, the verifier's client 10 s, the Redis client's
defaults), and of `Tick`, because Redis expires keys. Nothing is assumed of
users, browsers, Keycloak's decisions or crashes. `UnusedSessionExpires` has the
premise that refreshes of the session stop; it is met by every behaviour whose
client goes away.

Fairness (tenants). `FairSpec` assumes weak fairness of `Advance(o)`, the next
call of an operation in flight: an attempt at Keycloak ends after at most 30 s
(`client.go:61`), and PostgreSQL is assumed to answer or to break the connection,
because the code sets no statement timeout. Nothing is assumed of who starts
operations.

Fairness (keys). A verification's next step is strongly fair: a fetch ends within ten
seconds (the verifier's client), and a step that waits for the lock is enabled again
and again while others take it; a Go mutex hands itself to a waiter of more than a
millisecond and lets readers go before the next writer. `Age` is weakly fair because
time passes. `RotationHeals` has the premise that the realm comes to list the key for
good; rotations that go on for ever may keep any cache behind.

Fairness (admin client). The same of the two steps that wait for the lock. What is
sent ends within the timeout, so the other steps are weakly fair, and so is `Tick`.
Nothing is assumed of `Begin` and `Served`: a handler may take any time between its
calls.

Fairness (directory). The next step of a request and of an entry's goroutine: calls
and inserts end. Shutdown and crash may happen or not.

## 5. Where the code and its documentation differ

Shown by a run:

* `SuspendedIsDisabled`: `tenant_service.go:156` says a suspension prevents logins.
  Not when it interleaves with an enabling: one writes the row last, the other the
  realm. (The same state is reached by a single suspension whose realm update
  fails, since `tenant_service.go:169` drops the error.)
* `OperationsAtomic`: `tenant_service.go:5` calls every operation atomic for its
  caller. A repeated POST meets the realm of its own first attempt, reports a
  conflict and leaves the realm. (An insert that commits and loses its answer is
  rolled back in Keycloak only, which breaks the other half of the property.)
* `UpdateKeepsEnabled`: `user_service.go:132` and `profile_service.go:56` speak of
  profile fields. The representation they send leaves `Enabled` at false, and
  `users.go:22` encodes it without `omitempty`: editing a name disables the account.
* `IpBudget`: `middleware.go:138` gives each address its own limiter. The table of
  limiters is made by the middleware's constructor, which the router calls for every
  request it matches: each request finds a full bucket, and leaves a goroutine behind.

Met while modelling, each a single early return, assignment or comment, with nothing
for a model checker to explore:

* `README.md:278` says logout destroys the local session. A refresh that loaded the
  session before the delete saves it again afterwards (`auth_service.go:354`), and if
  Keycloak answered it before the logout, with the new tokens. What does hold is proved
  and checked: the entry comes back only that way (`RegistryImplemented`), a refresh that
  begins after the revocation was acknowledged does not renew it
  (`NoRenewalAfterLogout`), and it goes away for good in the end (`RevokedStaysOut`).
* A callback with the code of one login and the state of another is not noticed by the
  server: the state's entry is consumed and the code sent to Keycloak, which refuses it
  and may withdraw the code, or the grant if it was redeemed. `RedeemedCodeNotRepeated`
  speaks of codes presented with their own verifier for this reason.
* The early return `// session already gone` (`auth_service.go:291`) is also taken when
  Redis cannot be read.
* A refresh fetches "fresh claims" (`auth_service.go:342`) but keeps the application
  role of the login.
* "A Keycloak realm is created before the tenant row is inserted"
  (`tenant_service.go:6`). It can be gone again by then: another creation's rollback
  repeats its DELETE of the same name.
* `postgres.go:72` calls the domain optional; the empty string that stands for "none"
  is subject to UNIQUE like any other.
* `client.go:9` speaks of a token manager goroutine; there is none. The token is
  fetched by the request that needs it.
* A retry carries the token taken before the first attempt. If that expires while
  attempts wait, the 401 is a final answer.
* `jwt.go:7` says key rotation is transparent. An unknown key is refused for up to
  five minutes after the realm's last fetch; `RotationHeals` says that it ends.
* `jwt.go:14` speaks of the audience; nothing compares it.
* `middleware.go:139` says that limiters are not cleaned up; the code does clean them.
* `README.md:273` and `README.md:290` describe `super_admin` as a role of the master
  realm and realm administrators as confined to their own. The guards
  (`middleware.go:256`, `user_handler.go:315`) read role names of the token, whichever
  realm issued it. `Directory` models the guards as they are; which realms define a role
  of that name is configuration outside this repository, so no property is stated of it.
* The application role of a session (`resolveAppRole`) and the route guards compare
  different spellings: a holder of `manage-realm` is a realm administrator to the one
  and not to the other.
* `SoftDelete` stamps `deleted_at` again when two deletions of a tenant overlap:
  `DeletedIsFinal` says that nothing else of the row changes.
* A withdrawn key verifies tokens for as long as the realm's view is not replaced, which
  only an unknown key id brings about. `KeyView` permits it.
* An audit entry whose goroutine is cut by a shutdown or a crash, or whose insert fails, is
  gone, and the request has long been answered. `TrailTellsTheTruth` counts such an entry
  as had and `EntriesSettle` as settled. `TrailTellsTheTruth` and `ErrorChangedNothing`
  also exempt requests one of whose attempts took effect and lost its answer: those may
  report an error for something that was done, and log nothing.
* The directory's audit entries carry no tenant id, by which the listing for realm
  administrators filters; and if that listing cannot look its tenant up it drops the
  filter (`audit_handler.go:37`).

What holds in spite of these is `RealmLostOnlyToItsOwner`, `DeletedIsFinal`,
`DeletedLeavesNoRealm`, `ClosedIsFinal` and `TenantsDurable` under faults, and
`LiveHasRealm`, `RealmHasOwner` and `TenantsAtomic` without.

## 6. Proofs

`AuthSessionProofs` proves, for all values of the constants that satisfy
`TTLAssumption`, `RolesAssumption` and `NullAssumption` (the TTLs are positive,
users hold known roles, NULL is not a value of the program):

| theorem | statement |
|---|---|
| `TypeCorrect` | `Spec => []TypeOK` |
| `RedeemedCodeNotRepeatedHolds` | `Spec => []RedeemedCodeNotRepeated` |
| `OneSessionPerLoginHolds` | `Spec => []OneSessionPerLogin` |
| `SessionOfItsLoginHolds` | `Spec => []SessionOfItsLogin` |
| `NoRenewalAfterLogoutHolds` | `Spec => []NoRenewalAfterLogout` |
| `RegistryRefinement` | `Spec => RegistryImplemented` |

The properties are not inductive. `RedeemedCodeNotRepeated` needs to know that a flow
whose PKCE entry is still stored has not been redeemed (`EntryUnused`), because a code
is redeemed only with the verifier in that entry; and that a request about to exchange
has taken its state's entry, is the only one to have it, and finds the flow of that
state not redeemed (`ExchangeAlone`). Both hold whatever other codes are presented
meanwhile: those are refused and at most use a code up. `OneSessionPerLogin` needs the
same of the request about to save (`SaveAlone`) and that an id's login is one that was
redeemed (`BirthOwns`). `SessionOfItsLogin` and the refinement need that every copy of a
session, stored or held by a request, agrees with the identity the id was created with
(`CopiesAgree`). `NoRenewalAfterLogout` needs that a revoked session's grant has ended
(`RevokedEnded`), and that the copy a late refresh holds is of that grant (`CopiesAgree`
again: the entry it found may be one that was written back after the logout). `IInv` is the conjunction; the module proves that
`Init` implies it, that every step preserves it, action by action, and that it
implies the properties.

`TenantLifecycleProofs` proves, for all values of the constants that satisfy
`FaultsAssumption`, `BoundAssumption` and `NullAssumption`:

| theorem | statement |
|---|---|
| `TypeCorrect` | `Spec => []TypeOK` |
| `DeletedIsFinalHolds` | `Spec => DeletedIsFinal` |
| `RealmLostOnlyToItsOwnerHolds` | `Spec => RealmLostOnlyToItsOwner` |
| `DeletedLeavesNoRealmHolds` | `Spec => []DeletedLeavesNoRealm`, if `"late"` is not among the faults |
| `ClosedIsFinalHolds` | `Spec => ClosedIsFinal`, if `"late"` is not among the faults |

A deletion drops a realm by the name it read from its row, perhaps long ago. That
it hits no other tenant's realm needs three facts, all in `IInv`: no two rows,
deleted ones included, share a realm (`OneRowPerRealm`, the UNIQUE column); rows
keep their realm; every operation on a row, in flight or late, names that row's
realm (`OpsKnowRow`, `LateKnowRow`). The insert preserves them because a uuid
belongs to one creation (`CreationAlone`) and has no row before it
(`NotInserted`). `DeletedLeavesNoRealm` needs more (`PromptInv`): a realm bears the
name of the creation that made it (`RealmOfCreation`, then `RealmOfRow` once the
row exists), and past its DELETE a deletion has left nothing (`Dropped`). It is
false when Keycloak may process a POST late, hence the hypothesis. `ClosedIsFinal` is
false then too, for the same reason; without it, a tenant that has a row gets no realm
any more, because its creation is past its POST (`NoNewRealm`). Both invariants
were checked by TLC before they were proved, on instances of the size of
`tenant_late` (with all four faults) and of `tenant_safety`.

The seven actions that are an operation's next step share their argument:
`AttemptStep`, `StatementStep` and `CreateStep` say what one does to the
operation's own record and to the stores, and `MoveKeeps` that such a step
preserves the invariant.

`TenantFaultlessProofs` proves, under `Faults = {}`:

| theorem | statement |
|---|---|
| `LiveHasRealmHolds` | `Spec => []LiveHasRealm` |
| `RealmHasOwnerHolds` | `Spec => []RealmHasOwner` |

Concurrency alone makes these delicate. Between its POST and its INSERT a creation may
lose its realm to the second of two deletions of the tenant that had the name before,
and another creation may take the realm over. `Claims` is what saves them: a creation
past its POST has its realm, or the name is used up by a row whose realm is gone
(`UsedUp`), so its insert is refused, and the realm its rollback deletes is no
tenant's. A name stays used up because rows keep their names.

`TenantRegistryProofs` proves:

| theorem | statement |
|---|---|
| `TenantsAtomicHolds` | `Spec => TenantsAtomic`, if `Faults = {}` |
| `TenantsDurableHolds` | `Spec => TenantsDurable`, if `"late"` is not among the faults |

Each action has a lemma that its step is one of the registry or changes nothing of the
view. The insert is a `Register` because a creation that gets its row has its realm: if
it had lost it, the name would be used up (`Claims`) and the insert refused. A conflict
at the POST is a `Reject` with a reason because the realm that is there belongs to a
row or to another creation (`RealmHasOwner`); a rollback is one because the row that
refused the insert still has the name (`RollbackReason`), and it closes no tenant, since
the realm it deletes is its own or that of another creation that will be refused. The
DELETE closes its own tenant and no other (`OneRowPerRealm`), and the row marked afterwards is of a tenant already closed
(`Dropped`). `ViewInv` adds `RollbackReason`, and that the status of a live row is
active or suspended (`LiveStatus`), to the invariant of `TenantFaultlessProofs`; TLC
checked it first on the instance of `tenant_faultless`.

`TenantsDurableHolds` has the same lemmas about what a step shows, stated under
`BaseInv`, which is `PromptInv` and `LiveStatus`: the facts that faults leave standing.
`Claims` and `RollbackReason` are not among them, so an insert may register a tenant
without its realm (`RowAppears` says which) and a rollback may close the one tenant whose
row has the name (`DropSeen`, by `OneRowPerRealm`). An attempt that fails or loses its
answer leaves the operation asking for the same or for nothing (`AttemptAsks`). With
`"late"` a POST may give a closed tenant a realm again, and the statement is false.

`JwksCacheProofs` proves, under the assumptions of `JwksCache`:

| theorem | statement |
|---|---|
| `TypeCorrect` | `Spec => []TypeOK` |
| `KeyViewRefinement` | `Spec => KeyViewImplemented` |

Initial states map to initial states and every step to a step of `KeyView` or to
none. The invariant that makes `KcCerts` a `Refresh` is `StillDue`: whoever waits for
Keycloak still finds the realm due and the key unknown, because it alone can write the
cache (the lock, in `TypeOK`). `Install` changes nothing abstractly but its own
verdict.

`AdminClientProofs` proves, under the assumptions of `AdminClient`:

| theorem | statement |
|---|---|
| `TypeCorrect` | `Spec => []TypeOK` |
| `ConnectionsAccountedHolds` | `Spec => []ConnectionsAccounted` |
| `FetchOnlyWhenStaleHolds` | `Spec => FetchOnlyWhenStale` |
| `StartsFreshHolds` | `Spec => StartsFresh` |

`FetchJustified` says that whoever fetches has seen a stale token and that it is stale
still; it rests on the lock (`OneHolder`) and on time only making tokens staler.
`TokenKnown` says that the token really lives at least as long as the client believes
less `Timeout`; it rests on `InTransit`, that an exchange is no longer under way than
its age says. For the connections, `IInv` says that an exchange shares its connection
neither with another exchange nor with a body (`OwnConn`), that what nobody has is free
and what is free nobody has (`FreeConn`), and that bodies belong to requests still
served (`BodyServed`); one lemma each says what taking a connection, giving it back,
leaving it to a body, cancelling a request and closing an overdue body do to these.
Connections have identities in the model for this reason: with a mere count the
statement would be a sum over the requests, which is an induction over data.

`DirectoryProofs` proves, for every content, number of requests, number of attempts and
set of faults, `TypeCorrect`, `TrailTellsTheTruthHolds`, `ErrorChangedNothingHolds`,
`TrailInOrderHolds` and `GrantsAsNamedHolds`, each of the property
it is named for. The invariant adds three facts to the properties: what a request asks
is well-formed (`Sane`); a role looked up for a name has
that name or is gone (`Named`, since ids are never used again, `RolesStay`), so that the
assignment, which Keycloak refuses when a role is gone, grants what was named; and
whoever is in a request's past has been answered (`Past`).

`RateLimiterProofs` proves `SharedTableKeepsBudget`, `Spec => []IpBudget` under the
hypotheses `Once`: the limiter is constructed once, and a bucket is full again before
the table may forget it (`Burst <= Stale + 1`). With the defaults, 100 requests a
minute, the burst is 20, a tick 0.6 s and three minutes are 300 ticks. The run
`rate_limit` shows that the first hypothesis, which the code does not meet, cannot be
left out.

Only model-checked: liveness (`RevokedStaysOut`, `UnusedSessionExpires`, `RequestsEnd` of
sessions and of the directory, `EntriesSettle`, `OperationsEnd`, `VerificationsEnd`,
`RotationHeals`, `CallsEnd`, `PoolRecovers`), which depends on fairness and is out of
the prover's reach. Every invariant and action property of the passing runs, and every
refinement, is a theorem as well.

## 7. Not modelled

* The password grant (`AuthService.Login`), `SessionRepository.Touch`,
  `UpdateAccessToken`, `SessionService.TerminateSession`: no route calls them.
* `SessionData.ExpiresAt`: only `UpdateAccessToken` reads it.
* Cryptography: the code verifier and challenge, token signatures, the parsing of
  keys. In `AuthSession`, `Verify` may fail at any time; when it succeeds the claims
  are Keycloak's.
* Retries inside the Redis client: a retried command looks to the code like one
  that took effect and failed, or like one that found nothing.
* Audit entries of tenant operations and of logins: they go the way of those of the
  directory. The tenant's name, plan and settings, which no operation reads.
* Reads: listings of users, groups, roles, tenants and the audit trail, profile, session
  information. They change nothing and are one call each.
* A client that goes away during a call: its context ends the call, which is a call
  that fails. In `AdminClient` it would also close the request's unclosed bodies
  early, as `Served` does.
* Sessions of a suspended tenant: nothing in the server links the two. Keycloak refuses
  their refreshes, which is an outcome of `RefreshToken`, and access tokens live on
  until they expire.
* Request ids, logging, CORS, panic recovery, configuration, connecting to the stores,
  routing tables, responses and error formatting: sequential and without state of
  their own. `RequireTenant` is not routed.
* The browser pages: a browser is the environment that repeats, delays or drops
  requests.
