# wepuu: TLA+ specifications and proofs

wepuu is the OAuth control plane of a WordPress MCP connector: people pair a
WordPress site with their workspace, approve an MCP client's access to it, and
the authorization service issues five-minute access tokens that the connector
accepts until it is told of a revocation. The program is TypeScript on
PostgreSQL; its state is in tables, its concurrency is that of database
transactions issued by several processes, and its hardest promise is that
*a revocation is final, is recorded, and reaches the connector*.

This directory holds TLA+ modules translated from the code, TLC configurations
that check them on small instances, and TLAPS proofs. Paths in this document are
relative to the repository; `index.ts` without a directory is
`packages/database/src/index.ts`, and numbers such as `005` are files of
`packages/database/migrations/`. `CS` is `apps/control-api/src/server.ts`, `CM` its
`main.ts`, `AS` is `apps/authorization-service/src/server.ts`.

## 1. Inventory

| Component | State it keeps | Operations | What is hard | Module |
|---|---|---|---|---|
| Grants and sites (`002`, `004`, `005`, `index.ts` 1760–1943, `packages/pairing` 535–678) | `platform.sites`, `platform.grants` | create pending grant, read it, activate, deny; revoke (user, token endpoint), disconnect | every operation may meet any other between two of its statements; READ COMMITTED; three kinds of locks | `GrantRevocation`, `RevocationLedger` |
| Consent as a whole (`AS`, `packages/oauth-provider`, `CS`, `packages/pairing`) | interactions and Provider Grants of oidc-provider, idempotency records, csrf values, pending grants | authorize, bootstrap, start, sign, complete, submit, resume | two consents on two origins, several tabs, lapses and revocations between them | `ConsentFlow` |
| Signing keys (`001`, `005`, `009`, `index.ts` 2216–2310, `key-custody`, `AS`) | `oauth.signing_key_metadata`, key files, what a process loaded | mount, publish, activate, retire, revoke, start, sign | a process knows what it read at start; tokens outlive rotations | `SigningKeys`, `GrantRevocation` (events of a revocation) |
| Revocation outbox and worker (`index.ts` 1583–1643, `revocation-worker.ts`) | `oauth.revocation_outbox`, a worker's batch | claim, sign, post, mark delivered, reschedule | leases that run out, crashes, lost and late requests, order | `RevocationDelivery` |
| Deletion lifecycle (`007`, `index.ts` 265–328) | `deletion_jobs`, `deletion_tombstones` | begin, advance | overlapping scopes, rows that appear while it reads, a clock read early, tokens signed late, failure in the middle | `DeletionLifecycle` |
| Token issuance (`index.ts` 1259–1482, 2312–2413, `packages/oauth-provider`) | `secret_artifacts`, `provider_artifacts` | store, find, consume, destroy, revoke by grant; claims check | two users of one refresh token, check and sign apart | `TokenIssuance` |
| Pairing (`packages/pairing` 1–533, `index.ts` 1645–1758) | `pairing_attempts`, sites | begin, find, mark, verify, complete, fail | crash in the middle, lost acknowledgement, rivals for one resource | `Pairing`, `SiteRegistry` |
| Account login (`packages/account-auth`, `index.ts` 543–968, `003`, `011`, `013`) | login transactions, account links, home tenants, codes and identity sessions of Better Auth | open, send, resend, change, verify, bootstrap, provision | tabs and resent forms, two first logins, a projection that fails | `AccountLogin` |
| Console sessions (`014`, `index.ts`, `CS`) | `console_auth_transactions`, `console_sessions` | create, authorize, exchange, resolve, begin and validate logout | two origins, two browsers, cascades in the middle | `ConsoleSession` |
| Tenant pages and their authorization (`CS`, `001` policies, `011`) | memberships, home tenants, audit rows | page, `/v1/tenants`, revoke, disconnect, `/app` | a principal fixed once, several transactions, deletion in between | `TenantAccess` |
| OTP send quota (`otp-send-quota.ts`, `015`) | `otp_send_reservations` | reserve, claim, finish | rolling windows | its answers only, in `AccountLogin` |
| Rate limiter (`005` 348–384) | `rate_limit_buckets` | consume | window boundary | `TokenIssuance` (refresh family only) |

How they interact: a login leaves an identity session and an account with a home
tenant; a handoff turns that session into one of the console; there a tenant pairs
a site. An OAuth client's authorization request that nothing covers becomes an
interaction, which sends the visitor to the control API for a consent and comes
back for another. The approved grant is what the claims resolver of the
authorization service looks for. A refresh replay seen by its OIDC adapter, a user's
revocation, a disconnected site, a revoked key and a deletion job each write rows
of the outbox **in the transaction that revokes**; the worker of every
authorization-service process carries those rows to the connector, which is not
part of this repository. All of them meet in the database, save for the keys that
a process loads when it starts.

### Not modelled

- *OTP send quota windows.* `reserve` counts the sends of an hour and of a day in
  one transaction under one advisory lock, so its counting meets no interleaving;
  `AccountLogin` leaves open which of its answers a request gets.
- *OAuth clients, resource registry, callback registration.* Single statements of an
  operator, read when the service starts: a suspended client is served until the
  next start. The loopback callback variants of a test client are a FIFO of eight in
  the memory of the process and are lost with it.
- *Key formats, JOSE and cryptography*: which key a process holds and whether a
  signature is made at all is modelled, the encoding is not.
- *HTTP details*: headers, origins, body limits, input schemas, HTML, metrics, the
  well-known documents, endpoint rate limits, which only refuse.
- *Platform UI, contracts, security audit*: rendering, schemas, append-only rows
  (`TenantAccess` keeps which tenants have any).
- *Migrations runner, deployment, scripts, spikes.*
- *Code without a caller in the applications*: `oauth.rotate_refresh_family` and
  `refresh_families`; `PostgresGrantRepository.revoke`, the one revocation that
  writes no event; `revokeSession` (`index.ts` 951–956);
  `PostgresAccountSessionStore` (395–449); `index.ts` 1466–1500 and 1931–1942.

## 2. Modules

### GrantRevocation – statements, locks and commits

The unit of interleaving is the SQL statement of a database session. A session's
open transaction is a record in `tx`; the other variables are the committed
tables. A statement sees what was committed when it began, so reads are of the
committed variables, and writes stay in `tx` until the commit action.

| Code | Actions |
|---|---|
| `createPending` | `CreatePending` (the INSERT … SELECT from an active site; the unique index makes it wait for an uncommitted rival), `CommitCreate` |
| `GrantService.complete` | `FindPending` (the read), then `Activate` or `Deny` (one UPDATE that looks again at status and deadline, not at the site) |
| consent deadline | `LapseConsent` |
| `revoke_grant_with_event` | `RevokeGrant`, `TakeSequence`, `CommitRevocation` |
| `revoke_refresh_grant` | `RevokeRefreshGrant`, `TakeSequence`, `CommitRevocation` (`Insertable` and `Conflicts` hold its ON CONFLICT DO NOTHING) |
| `disconnect_site_with_event` | `DisconnectSite`, `DisconnectGrants`, `TakeSequence`, `CommitRevocation` |
| `revoke_signing_key` | `RevokeKey`, `TakeSequence` for each active site, `CommitRevocation` |
| ROLLBACK, a dead process, a proof that does not verify | `Abort` |
| PostgreSQL | `GrantRowFree`, `SiteRowFree`, `KeyRowFree`, `AdvisoryFree` (who waits for whom), `BreakDeadlock` |

Abstracted: a statement that waits for a row lock and finds the row changed is
the same statement run after the lock is free. Idempotency records are left out:
a repeated request returns the first one's result and changes nothing. The row locks
on `oauth.secret_artifacts` are left out (section 6, Waiting). A tenant is implied by the site. Role checks are left out: the model lets anybody ask.
`suspended` is a status no code writes. A grant whose tokens are revoked was
active when they were issued, and never becomes pending again
(`RevokedIsFinal`), so `RevokeRefreshGrant` starts from an active grant.

### RevocationLedger – what the tables promise

The abstract specification: no sessions, no locks. A revocation and its events
are one step, each event takes the next number of its site, and what is revoked
stays revoked. `GrantRevocation` implements it (`ImplementsLedger`, the identity
refinement on the committed tables): whatever the sessions interleave, an
observer of the committed tables sees one atomic operation after another.

### RevocationDelivery – the worker

One action for each await of `runOnce`: `Claim`, `SignFails`, `Post`,
`Delivered`, `Refused`, `TimesOut`; `Crash` at any moment; `LeaseLapses` and
`BackoffElapses` for the two timestamps; `Commit` for the transactions of
`GrantRevocation`, seen as one step. The connector (`Receive`, `Arrive`,
`ArriveLate`) is external: it accepts an event whose sequence is not below its
last one and answers 204, and refuses older ones, as ADR-009 says. The order in
which a worker handles its batch is that of `UPDATE … RETURNING`, which SQL
leaves open; `InOrder` chooses.

### DeletionLifecycle – begin, revoke, wait, purge

One tenant. A call is one transaction, and one action unless its effect depends on
when it reads and when it commits.

| Code | Actions |
|---|---|
| `begin_deletion_job` | `Begin` |
| first `advance_deletion_job` | `Sweep` (what its queries return, under the advisory lock of the scope), then `CommitAccount` or `CommitSites`, or `RollBack` |
| a later one | `PurgeAccount`, `PurgeSite`, `PurgeTenant`; `AdvanceFails` (an error inside the function, with what the report parser and the rollback make of it) |
| `POST /v1/tenants/…/pairing` | `BeginPairing` (the tenant is looked at here, and only here), `CompletePairing` (under row-level security, which looks at the membership) |
| `createPending`; `GrantService.complete` | `InsertPending`, `CommitPending`; `FindPending`, then `Activate` or `Deny` |
| `revoke_grant_with_event` | `RevokeGrant` |
| `extraTokenClaims`, signing | `CheckClaims`, `SignToken` |
| time | `Tick` |

A first advance writes over what it has found, and over grants of its sites that its
UPDATE still sees (`Newer`); a site, or a grant of another site, that appears after its
queries is left alone. Its window counts from the clock that the caller read before it
asked for a connection (`index.ts` 318): the commit comes any number of ticks later,
the `d` of `CommitAccount(j, d)`. Time is counted in ticks, `AccessLife` for the five
minutes a token lives and the sixty seconds of skew a connector allows, `SafeWindow` for
the six minutes a job waits. `late` and `published` are history. Locks inside a first
advance are not modelled: between its two moments the other steps do what they would
have done before its updates took their locks.

### TokenIssuance – codes, refresh tokens and the requests that use them

One grant. A request is a handler of oidc-provider, a library outside this
repository (9.12.2): its order of calls is external, each call it makes into
this code is one transaction and one action. `pc` is the next call.

| Code | Actions |
|---|---|
| `upsert` | `IssueCode`, `Store` |
| `find`, then the handler's test of `consumed` | `PresentCode`, `PresentToken`, `PresentRevocation` |
| `consume` | `ConsumeCode`; for refresh tokens `Rotate` (lock, rate limit, mark) or `Replay` (`revoke_refresh_grant`, then the error) |
| `extraTokenClaims`, signing | `CheckClaims`, `Sign`: two steps, as a revocation may commit in between |
| `destroy`, `revokeByGrantId` of the models | `RevokeCall`, in any order, as the provider awaits them together |
| reason resolver | `why`, `ReasonFor` |
| expiry, window of the rate limit, the user's revocation | `Lapse`, `NewWindow`, `PlatformRevokes` |
| a failed query, a crash | `Fail` |

Abstracted: `payload` (an artifact knows its code in `family`), the second lookup
key, the provider's own `Grant` artifact and the account check, which only refuse
more requests. A client presents tokens it has been handed in a response.

### AccountLogin – an emailed code, an identity, an account

A request is its handler up to the next await; its record holds what it has
learnt: browser, transaction token, user, identity session, and whether the lookup
of the link found anything.

| Code | Actions |
|---|---|
| `GET /v1/account/login` | `OpenLogin` (`Create`; straight to the projection for a signed-in browser) |
| send and resend, `change` | `SendCode` (`BindEmail`, `Issue`), `ChangeEmail` (`Restart`) |
| `POST …/verify` | `Verify`, then `ReuseSession`, `SignIn` or `WrongCode` |
| `POST …/bootstrap`, any authenticated route | `Bootstrap`, `Authenticate` |
| `completeLogin`, `provision` | `CompleteLogin` (reads the session), `Begin` (both locks, the lookup), `Commit` or `Rollback` |
| `ensure_account_auth_link` | `Linked`, `Project`, `Projected` |
| `ensure_personal_workspace` | `EnsureWorkspace` |
| sign-out, expiry, crash | `EndSession`, `Lapse`, `Crash` |
| deletion jobs | `CloseAccount`, `PurgeAccount`, `DeleteHome` |

`Leaving` names the users whose home tenant may be deleted. Better Auth is
external: the code, its five guesses and its session are what the calls in
`packages/account-auth` make of them. An identifier of a transaction or a session
stands for a new row once nothing names the old one.

### ConsoleSession – two origins, one sign-in, one sign-out

| Code | Actions |
|---|---|
| `GET /v1/console/login` | `CreateLogin` |
| `GET /v1/account/console/authorize` | `Authorize` (reads), `Bind` (`authorizeLogin`) |
| `POST /v1/session/exchange` | `Exchange` (the row lock, the authority), `Open` (insert, consume, COMMIT) |
| `resolveSession` | `Resolves` |
| `POST /app/logout` | `BeginLogout` |
| `POST /v1/account/console/logout` | `Logout` (`validateLogout` consumes), then `SignOut` or `SignOutFails` |
| around | `SignIn`, `EndSession`, `CloseAccount`, `Lapse`, `Crash` |

`End` is the deletion of an identity session with the cascades of `014`. The
one-time code is in the fragment of the page the authorizing browser was sent to,
the secret is a cookie of the browser that asked: `Holds` asks for both.

A process that dies between `validateLogout` and `signOut` (`CS` 1123–1125) leaves the
identity session alive. So does a deletion that fails, and nobody looks at the status
of the response `signOut` returns (`account-auth` 432, `asResponse`): the answer is the
same redirect, with whatever cookies that response clears (`SignOutFails`).
`SignOutEndsBoth` is therefore about the sessions a sign-out has deleted (`done`), not
about those whose sign-out was answered (`answered`), of which it is false (section 5).

### Pairing and SiteRegistry

An attempt is the request that makes it, its row and the site it may create, since
a request draws all three ids itself.

| Code | Actions |
|---|---|
| `createAttempt`, `findAttemptForUpdate`, `markVerifying` | `Begin`, `Find`, `MarkVerifying` |
| `HttpsSiteVerificationClient.verify`, `requestSiteProof`, `verifySiteProof` | `Verify` (`Reachable`, `Answers`, `Proves`) |
| `complete` | `InsertSite` (waits for an uncommitted rival, meets a committed one), `Consume`, `SendCommit`, `Commit`, `Acknowledge` |
| `fail` | `Fail` |
| database out of reach, dead process | `Unavailable`, `Crash` |
| around | `Disconnect`, `Expire`, `Offer`, `Sign` |

COMMIT is two actions, so its acknowledgement may be lost while the database still
has it to carry out. `SiteRegistry` is the abstract specification: a resource is
claimed when free, by a site that never was before, and released. The refinement
mapping computes the owner of a resource from the site rows.

### ConsentFlow – two consents to one grant

One subject, one client, one site: the tuple of `grants_one_live_consent_idx`.

| Code | Actions |
|---|---|
| `GET /auth`, `createResourceGrantLoader` | `Authorize` (`Loaded`) |
| `GET /interaction/:uid` | `View` (consent page, or the bootstrap token for the control API) |
| `POST /v1/oauth/consent/start`, `POST /v1/tenants/…/grants` | `Start`, `StartDirect` (`CreatePending` with its idempotency record) |
| `GrantService.complete` | `Find`, `Settle` |
| `POST /interaction/:uid` | `Submit`, `Save`, `Finish`; `Deny` |
| `GET /auth/:uid` | `Resume` |
| time, revocations | `Lapse`, `Close`, `Revoke`, `Forget` |

`Forget` reuses the id of a grant nothing refers to, so two ids suffice for
behaviours that never end. oidc-provider is external; its order of calls is taken
from how the service uses it.

### SigningKeys – rotation under a process that read the keys once

| Code | Actions |
|---|---|
| key files of the keyring | `Mount`, `Unmount` |
| `signing-keys-cli`, `activate_signing_key`, `retire`, `revoke_signing_key` | `Publish`, `Activate`, `Retire`, `RevokeKey` |
| `loadUsable`, custody, provider start | `Start` (`UsableRow`, `Sole`, `Custody`, `Jwks`), `Stop` |
| `custody.sign` with `isActive` | `Check`, `SignToken` |
| time | `Tick`; `Forget` reuses a name |

Age is counted up to `Overlap` (the twenty minutes of `009`), a token's life,
`TokenLife`, includes the connectors' skew; the assumption is that it is below the
overlap, as it is in the code. The deployment recreates the one service and never
runs two. The control API loads its own copy of the key when it starts (`CM`
57–70), signs consent requests with it and never asks `isActive`; after a rotation
it goes on with the old key, and bootstrap tokens signed with the new one fail its
verifier until it is restarted. That copy is not in the model.

### TenantAccess – what an account sees and changes

| Code | Actions |
|---|---|
| console pages of a tenant | `OpenPage`, `Find` (`tenantPageModel`), `Look` (`findTenant`), `ReadSites`, `ReadGrants`, `ReadEvents` |
| `/v1/tenants/…` | `Ask`, `Look`, `Deny`, `Refuse` |
| revoke, disconnect | `RequestRevoke`, `RevokeGrant`; `RequestDisconnect`, `DisconnectSite` |
| `/app` | `Visit`, `Ensure`, `Settle` |
| sessions | `OpenSession`, `CloseSession` (what `ConsoleSession` does to one account; section 6) |
| deletion jobs | `DeleteAccount`, `DeleteTenant`, `PurgeTenant` |

`Member`, `Memberships`, `MayRevoke`, `Visible…` are the row-level security
policies and the security-definer functions. What the code does and no property
forbids: API reads do not look at the tenant's status; a subject sees its own
grants in the API's list without a membership; a mutation answers 303 or 204
whether or not a row changed; while the home tenant is being deleted `/app`
answers 500, and after the purge it makes a new workspace; `/app` between begin and
advance of an account's deletion makes a tenant that is left without an owner; an
audit row written while its tenant is purged makes that purge fail by its foreign
key (`001`:137, `007`:263–265). Memberships beyond the owner's are made by an
operator.

`SigningKeys` and `TenantAccess` call their specifications `KeysSpec` and
`AccessSpec`, with `KeysInit`, `AccessInit` and so on, because each is proved about in
one module with its neighbour, `TokenIssuance` and `ConsoleSession`.

The `MC…` modules give constants their values. A definition commented as a
mutant is a plausible mistake in the definition after it and is used by no
specification.

## 3. Runs

| Run | Instance | Distinct states | What it shows |
|---|---|---|---|
| `grants` | 3 sessions, 1 site, 2 successive consents of one party and 1 of another, 1 key | 487,222 | every revoked grant and site has its event (`RevocationIsAnnounced`); no event lies or is repeated (`EventsTellTheTruth`); at most one live grant for a tuple; revocation is final; the tables behave like `RevocationLedger` |
| `grant_locks` | 2 sessions, 2 sites, 1 grant, 2 keys, fair | 115,944 | event numbers have no gap and no repetition (`SequencesGapless`); every begun revocation ends, although key revocations may deadlock (`RevocationEnds`) |
| `delivery` | 2 workers, 2 events of one site, batches of 2, 3 attempts, any order, fair | 76,904 | what is marked delivered was applied, and is left alone afterwards; every event is delivered or has used its attempts |
| `deletion` | 2 owners, 1 site, 1 grant, 2 jobs of any scope, windows of 2 ticks, fair | 87,645 | at the end of a job only tokens signed late live on (`TokensDeadBeforePurge`); nothing that a first advance found is purged unannounced or unrevoked (`PurgedWasAnnounced`, `DeletionIsMonotonic`), nothing is revived; every job ends |
| `tokens` | 4 requests, 2 codes, 3 refresh tokens, limit 1 | 1,292,025 | an artifact is worth one access token; a family has one live token; a replay revokes; later requests get nothing; the reason is that of the request which revoked |
| `login` | 2 users, one of whom may lose her home, 2 browsers, 1 session, 1 transaction, 2 requests, fair | 411,476 | a transaction is completed once (`CompletedOnce`), in its browser and by the owner of its address (`CompletedByItsOwner`); a user has one account; whoever goes on trying gets in (`RetryGetsIn`), a home provided |
| `login_home` | 1 user who may lose her home, 1 browser, 2 requests, fair | 9,058 | **violated**: `EveryRetryGetsIn` (section 5) |
| `console` | 2 browsers, 2 identity sessions of 1 user, 2 handoffs, 2 console sessions, 2 requests | 146,578 | a handoff opens one session (`SingleUse`), in the browser whose identity it is (`SameBrowser`); a sign-out that has deleted the identity session leaves no console session or handoff made from it, then or later (`SignOutEndsBoth`) |
| `pairing` | 2 tenants, 2 resources, 2 attempts, fair | 536,688 | a site exists exactly with its attempt's success, on a proof of its own; outcomes are final; the sites are a `SiteRegistry`; every request ends |
| `consent` | 2 grants, 1 interaction, 2 sets of scopes, fair | 143,179 | a code stands for both consents to one grant (`BothConsented`); a decision is taken once (`DecidedOnce`); a visitor who goes on gets a code (`RetryConsents`) |
| `keys` | 3 keys, overlap 3, token life 2, fair | 809,560 | living tokens verify with the served JWKS (`TokensVerify`); a retired key has nothing alive (`RetiredAreSilent`); after an emergency signing resumes (`SigningResumes`) |
| `access` | 2 accounts, 2 tenants, 1 grant, 2 requests | 1,390,696 | a late page shows nothing (`LatePageIsEmpty`); an answered revocation is in force (`AnswerIsTrue`); `/app` leads every tab to one home (`VisitsLand`) |

Why the bounds are enough. A race needs two transactions and, for a wait on a
wait, three: `grants` has three sessions. A second consent of the same party is
what the unique index is about, a second party is what a disconnect covers
beyond it. Numbering across sites and lock order need two sites and two
transactions that visit both. A lease that is taken over needs two workers; a third
attempt lets a row be claimed again while two workers still report about it, and
two events of one site are what an order can be wrong about. Two jobs are enough
for overlap, and windows of two ticks leave room for a token signed between the
clock reading, the revocation and the purge; a second grant, which the loop of an account
deletion numbers, multiplies the states by a hundred and is left to
`DeletionTwoGrants.cfg` (9,259,955 states, safety only, some minutes). A replay needs the request that got the token, the two that race
for it and one that comes later, and a second code tells a family from the grant.

Two requests of `login` are two tabs on one transaction, or a tab and another
route that provisions the same user, or two browsers, of which only one can hold
the identity session at a time; identifiers are used again, so one transaction
passes through many lives. In `console` two browsers and two sessions are what one
needs to be signed in as another, two handoffs let a login and a logout be under
way at once, two console sessions let one identity have both. A rival in `pairing`
may be another tenant or another tab, for the same resource or not, and each of the
two requests may be dead, in doubt, or waiting. Two grants and two scopes in
`consent` make a page, a Provider Grant and a binding disagree; the interaction's
slot is used again. Three keys are active, retiring and published at once; the
overlap exceeds the token's life by one tick, the smallest difference the code
promises. `access` has a stranger, an owner and the tenant made under way.

Symmetry is used only in runs without liveness (`grants`, `tokens`, `console`,
`access`; their action and refinement properties name no identity).

`CHECK_DEADLOCK FALSE` everywhere: a system in which every grant is revoked,
every event settled, every job complete or every request over rightly stops.

Type correctness is proved for every module (section 6) and is in no configuration.

## 4. Fairness

- `GrantRevocation!FairSpec`: strong fairness of a session's next step.
  PostgreSQL grants locks first come, first served and rolls back one member of
  a ring, so a transaction that can go on again and again does. No fairness of
  requests, aborts or deadlines.
- `RevocationDelivery!FairSpec`: the two-second timer of every process calls
  `runOnce`, a request in flight is answered or times out in five seconds, and
  clocks advance. Nothing is assumed of the network, of signing or of how often
  processes die: `Crash` may happen for ever, which costs attempts.
- `DeletionLifecycle!FairSpec`: whoever began a deletion keeps calling `advance`,
  an open insert of a grant commits, and time passes. Without those calls nothing
  advances a job.
- `AccountLogin!FairSpec`: a request runs on, strongly fair because it may have to
  wait for a row lock or the advisory lock of its user; transactions expire; a
  signed-in visitor opens the login page again and again (`Persists`); and from some
  moment on (`Calm`) nothing dies, nothing but logins goes on, and a transaction is
  rolled back only when the projection refuses. What happened before that moment
  is arbitrary, and `RetryGetsIn` is about recovering from it.
- `Pairing!FairSpec`: a request runs on: the call to the site has a timeout and a
  lock lasts as long as its transaction. Nothing is assumed of rivals or the site.
- `ConsentFlow!FairSpec`: the visitor takes the next step of an interaction and
  starts another when it is over, the site signs, a consent that lapsed is revoked by
  the user (nothing else removes it from the unique index); in the end nobody denies
  or revokes what is good. The starting of a request is strongly fair, because its
  slot is free only between two interactions.
- `SigningKeys!FairSpec`: the operator mounts, publishes and activates a key when
  none is active, and recreates a service whose readiness fails, as the runbook
  demands; time passes; emergencies end.

## 5. Where code and documents disagree

Each configuration here checks one property that states what a document, a page or
a comment of the repository says, and TLC answers with the shortest history in
which the code does otherwise. The first is a listed finding (PROJECT.json); the
others are kept beside it.

| Configuration (module) | Property | What the code does | What is said |
|---|---|---|---|
| `LoginHomeDeleted.cfg` (`MCAccountLogin`) | `EveryRetryGetsIn` | Purging a deleted tenant takes its owner's `account_home_tenants` row along (`007`:265), and `ensure_account_auth_link` (`011`:60) joins the link with the home: it finds nothing, inserts a second account and violates the link's key, every time. The account is active and nobody can sign in to it, unless a console session outlived the deletion. | "a protected retry can complete initialization without a new code. Suspended or deleted WePuu accounts fail closed." (`docs/ADR-019-BETTER-AUTH-EMAIL-OTP.md`:55–57) |
| `ReplayEndsFamily.cfg` (`MCTokenIssuance`) | `ReplayEndsFamily` | The winner of a refresh race saves its successor after the loser's `revoke_refresh_grant` has expired what was stored; it stays. It buys no access token (`LaterUsesFail`). | "any later use is replay, revokes the entire family and grant" (`docs/ADR-009-TOKEN-LIFECYCLE-AND-REVOCATION.md`:21–22) |
| `DisconnectRace.cfg` (`MCGrantRevocation`) | `DisconnectLeavesNoLiveGrant` | A `createPending` that read the site as active and commits after the disconnect's second UPDATE leaves a pending grant under a revoked site. It cannot be used, as the claims resolver looks at the site; only an answer that had read the site before the disconnect committed may still activate it. | "Disconnecting revokes the site relationship and its grants." (`apps/control-api/src/ui.ts`:142) |
| `EventOvertaken.cfg` (`MCRevocationDelivery`) | `NoEventOvertaken` | A rescheduled event waits while the next one of its site is sent; the connector then refuses it for good. One failed request is enough, with one worker and batches in order. | "Outbox delivery is at-least-once with bounded retry and idempotent connector application"; "older or cross-site events fail closed" (ADR-009: 47–48, 36–37) |
| `DeletionFailureLost.cfg` (`MCDeletionLifecycle`) | `FailureIsRecorded` | The report of a failed job lacks what `parseDeletionReport` (`index.ts` 278–284) demands; the error rolls the failed status back. Reached by an account that started a pairing (`002`:51). | "Any failure leaves a failed job and safe error category for operator review" (`docs/ADR-012-SECURITY-RESILIENCE-LIFECYCLE.md`:48–49) |
| `DeletionOwnerless.cfg` (`MCDeletionLifecycle`) | `TenantKeepsOwner` | Two owners whose deletions are both begun before either is advanced each count as the other's replacement. | "Account deletion refuses an active sole-owner membership" (ADR-012:19–21) |
| `DeletionStray.cfg` (`MCDeletionLifecycle`) | `DeletedTenantIsShut` | A pairing looks at the tenant when its request begins (`CS` 1462) and inserts an active site after a call to the site; row-level security looks at the membership only (`002`:141). A deletion whose first advance falls in between does not find the site: it stays active, a consent and tokens on it are possible, and the purge deletes them unrevoked and unannounced. | "The first transaction immediately revokes sessions, grants, refresh families, and site trust" (ADR-012:22–23) |
| `DeletionLateToken.cfg` (`MCDeletionLifecycle`) | `NoTokenOutlivesPurge` | The window counts from the caller's clock, and a request whose grant was checked before the revocation signs its token after it (`packages/oauth-provider` 372): the six minutes are exactly a token's life and the skew, so the token is accepted after the purge. | "Purging waits six minutes: five-minute access-token lifetime plus the sixty-second clock-skew allowance" (ADR-012:24–25) |
| `DeletionSequenceReuse.cfg` (`MCDeletionLifecycle`) | `SequenceNeverReused` | Purging an account deletes outbox rows of sites that live on, whose next number is the maximum of what is left plus one. | a "monotonic site sequence" (ADR-009:32) |
| `SignOutLost.cfg` (`MCConsoleSession`) | `AnsweredSignOutEndsBoth` | `signOut` answers with a Response whose status the route does not look at (`CS` 1124–1129, `account-auth` 432): when the deletion fails, the visitor is redirected as after a sign-out, and the identity session and the console sessions of other browsers or tabs made from it live on. | "This ends both the console session and its authoritative identity session." (the page of `CS` 1112) |
| `PairingAnswerFalse.cfg` (`MCPairing`) | `DeniedIsUnpaired` | When the acknowledgement of `complete`'s COMMIT is lost, the site is paired and the page says that it is not. | "Pairing failed. Return to WordPress and start again." (the pairing page of `CS`) |
| `KeyUnannounced.cfg` (`MCSigningKeys`) | `PublishedAreServed` | A published key enters the JWKS only with the next start of the service, which no statement waits for: it may have been published for the whole overlap and never been served. | "Published and retiring public keys remain in JWKS for the required overlap." (ADR-009:23–24; also `docs/PHASE_2_0_1_TEST_PLAN.md`:79, `docs/ADR_017_OPERATIONS_RUNBOOK.md`:79–95) |

## 6. Proofs

All ten components are proved about, in eight modules: `TokenProofs` treats
`TokenIssuance` and `SigningKeys`, `ConsoleProofs` treats `ConsoleSession` and
`TenantAccess`, every other proof module one component. Every theorem holds for all
values of the constants that satisfy the named assumptions of its module. Every safety
invariant, action property and refinement that a run of section 3 checks is stated by
a theorem; so is the type invariant of every component.

The assumptions say that "none" is no identity, that tables of constants are well
typed, and:

| Module | Assumption | Because |
|---|---|---|
| `TokenIssuance` | codes and tokens are different things (`TokenConstants`) | `kind` of `secret_artifacts` |
| `SigningKeys` | a token's life is below the overlap (`KeyConstants`) | six minutes against twenty (`009`) |
| `DeletionLifecycle` | `AccessLife <= SafeWindow`; grants are positive numbers (`DeletionConstants`) | five minutes and one of skew against six; the loop visits grants in an order |
| `ConsentFlow` | at least one set of scopes (`ConsentConstants`) | a request names scopes |
| `AccountLogin` | at least one browser (`LoginConstants`) | an idle request's browser has to be something |
| `TenantAccess` | a home tenant comes with its owner's membership, a grant with its tenant (`AccessConstants`) | `008` and `011` insert both in one function; foreign keys |

### GrantRevocation

`GrantRevocationProofs` proves what `GrantRevocation.tla` promises for every choice of
sites, grants, parties, keys and sessions, with no assumption but the typing of
the two grant columns (`GrantColumns`):

| Theorem | Statement |
|---|---|
| `NumberingCorrect` | `Spec => []NumberingInv` |
| `TypeCorrect` | `Spec => []TypeOK` |
| `SequencesCorrect` | `Spec => []SequencesGapless` |
| `SafetyCorrect` | `Spec => []SafetyInv` |
| `AnnouncementCorrect` | `Spec => []RevocationIsAnnounced` |
| `EventsCorrect` | `Spec => []EventsTellTheTruth` |
| `RevocationFinal` | `Spec => RevokedIsFinal` |
| `OneLiveGrantCorrect` | `Spec => []OneLiveGrantPerTuple` |
| `LedgerImplemented` | `Spec => ImplementsLedger` |
| `NobodyStuck` | `Spec => []SomebodyGoesOn` |

**Numbers.** `SequencesGapless` speaks of committed rows only and is not
inductive: whether a commit keeps it depends on the numbers inside the open
transaction. `NumberingInv` adds what makes those right: an advisory lock has at
most one holder (`AdvisoryExclusive`), and an uncommitted event belongs to a site
whose lock its transaction holds, carries the number after the committed ones,
and is the only one of its site in that transaction (`OpenEventsNumbered`); that
the events of a site are finite (`OutboxFinite`) lets a maximum be taken. Type
correctness goes into the same invariant, because the number that `TakeSequence`
writes is a positive integer only while the outbox is gapless. The argument:
`TakeSequence` runs only when nobody holds the site's lock, so no open
transaction has an event of the site, and the maximum it reads is the number of
committed rows (`MaxOfRun`, `NextSequenceValue`). The lock is held until
`CommitRevocation` adds the row or `Abort` drops it, so the number is still the
next one then (`CommitNumbering`), and no insert ever conflicts (`NoConflicts`):
the `ON CONFLICT DO NOTHING` of `revoke_refresh_grant` drops nothing. Every other
action neither commits an event nor inserts one (`QuietStep`).

**Locks and events.** The safety properties need to know what an open transaction
holds and owes. `LocksInv` says that a row it has updated is still live and in no
other transaction, that a row it has inserted is not there yet, and that it is
one of the three kinds of revocation (`OfGrant`, `OfSite`, `OfKey`), whose events
are inserted as soon as nothing is left to do. A statement that continues a
transaction keeps this when the rows it takes were free (`OpenStep`), an end of a
transaction when it writes only its own rows (`CloseStep`). It follows that no
step touches a revoked row (`StepSettled`), hence `RevokedIsFinal`. With
`NoConflicts`, a commit adds every event the transaction owes, about rows that
were live until then and so have no event yet (`CommitAnnounces`); no other step
revokes anything that needs one (`SilentStep`). `SafetyInv` is the conjunction
that is inductive. `OneLiveGrantPerTuple` has an invariant of its own, `TupleInv`,
which counts uncommitted inserts as taken, as the unique index does.

**Refinement.** Every commit is one step of `RevocationLedger` and every other
statement a stutter (`StepRefines`). The commit of a key revocation needs one more
invariant, `KnownSites`: the sites its loop visits were active when it listed
them.

**Waiting.** The safety half of `RevocationEnds`, without ENABLED: `HasLocks` spells
out the guards of a session's steps, and `SomebodyGoesOn` says that while a revocation
is open some session has the locks it needs, or the sessions form a ring the deadlock
detector finds. A disconnect that waits for grant rows waits for a transaction that
has them and takes its numbers; one that has all its numbers can commit, as nothing
conflicts; one that waits for an advisory lock waits for another transaction
that takes its numbers, as nobody else holds one (`WaitInv`). Which operations can form
a ring is not claimed. In the model only key revocations do: the loop of
`revoke_signing_key` (`005`:331) visits the active sites in no stated order. In the
code the rows of `oauth.secret_artifacts`, which the model leaves out, allow another: a
replayed refresh can hold the row of its token (`index.ts` 1383–1389) while it waits for
the grant (1420), and a revocation holds the grant while it waits for that row
(`005`:184). The detector breaks that ring in the same way, and its victim is a
transaction that is rolled back (`Abort`).

### TokenIssuance

`TokenProofs` proves, for any codes, tokens, requests and limit:
`IssuanceTypeCorrect` (`[]TypeOK`), `OneLiveTokenCorrect`
(`[]OneLiveTokenPerFamily`), `OneUseCorrect` (`[]OneUseMintsOnce`),
`ReplayCorrect` (`[]ReplayRevokes`) and `LaterUsesCorrect` (`[]LaterUsesFail`), all
from `IssuanceInvariant`. The assumption `TokenConstants` says that codes and
tokens are different things.

A family is without a live token between the consumption of one and the saving of
the next, and in that gap nothing in the tables says that a token is coming. So
`SingleUseInv` speaks of requests: one that has passed the compare-and-swap has
its artifact alone and that artifact is spent for good (`WinnersSpent`,
`WinnersDiffer`); one that still owes its family a token is the only one, and the
family has no live token (`OwedOnce`, `OwedToDeadFamily`); every family that has
tokens comes from a spent code (`FamiliesSpent`). Three steps change this:
winning a code, from which nothing descends yet (`WinCode`), winning the only live
token (`WinToken`) and saving the owed one (`PayFamily`); the others win and save
nothing (`QuietStep`). `EndInv` says that whoever was told of a replay, or has made
its revoking call, leaves the grant revoked, and that who began later never
reaches the signature. `CauseInv` traces the reason: a consumed
token was presented by a request that is past its compare-and-swap
(`SpentBySomeone`), so a replay means two requests with one token
(`ReplayersRepeat`); a request that has begun keeps its artifact and its context
(`BegunStays`). It gives `ReasonCorrect` (`[]ReasonTellsTheCause`).

### Pairing

`PairingProofs`: `PairingInvariant`, and from it `SiteIffActiveCorrect`,
`SiteWasProvedCorrect`, `OneLiveSiteCorrect`, `SettlesOnceCorrect` and
`RegistryImplemented` (`Spec => ImplementsRegistry`), for any tenants, resources and
rivals. None of the four safety properties is inductive, because a request writes
twice in one transaction and then loses sight of its COMMIT. The invariant says, of
each attempt, how far its request may have got given its row, that a COMMIT in
doubt belongs to a row that is 'verifying' and to a site that is not there yet,
that whoever is past `Verify` has its proof, and that whoever holds an uncommitted
index entry is the only one for its resource and finds no committed one. `Fail`
waits for the row, so what it records never meets a COMMIT in doubt. Each commit is
then a `Claim` of the registry, each disconnection a `Release`, everything else a
stutter.

### SigningKeys

`TokenProofs`: `KeysInvariant`, `TokensVerifyCorrect`, `RetiredAreSilentCorrect`,
for any keys, overlap and token life below it. The invariant covers what is left of
a token, signed or being signed, by the state of its key (`LivesCovered`): anything
while it is active or was revoked; while it is retiring, no more than the token life
less the age since it left 'active'; nothing otherwise. A token that a process
with stale knowledge is signing is counted from its check of `isActive`, before
which its expiry was set. So a retiring key with a living token is short of its
overlap and among the usable rows of every start (`TokensVerify` itself is part of
`KeysInv`), and one whose overlap is over has nothing alive. `LoadedInv`: the
loaded key was active then, and is served.

### AccountLogin

`AccountLoginProofs`: `LoginInvariant`, `LoginTypeCorrect`, `CompletedOnceCorrect`,
`CompletedByItsOwnerCorrect` and `OneAccountCorrect`, for any users, browsers, sessions,
transactions and requests. A completion looks at its transaction at one await and
writes at a later one. The lock it takes in between has one holder (`OneHolder`), so what
it found when it locked the row is so until it commits (`HeldInv`); a row somebody
signed in through is used and is written by nobody before it stands for a new token
(`WinsInv`). `OneAccountPerUser` is in the invariant as it stands: a second
insertion for a user who has a link is refused by the link's key (`Refused`), whatever
the lookup had found.

### ConsoleSession

`ConsoleProofs`: `ConsoleInvariant`, `SingleUseCorrect`, `SameBrowserCorrect`,
`SignOutEndsBothCorrect`, for any browsers, sessions, handoffs and requests. `OwnInv`
says that the identity session of a cookie, a request, an authorized handoff and a
console session is one that its browser has had; `CarryInv` what a request carries
between its awaits; `LiveInv` that rows name living sessions only, by the foreign
keys, and that a session a sign-out has deleted never lives again; `UseInv` that a handoff has
opened a session exactly when it is consumed, and that an exchange under way finds
the row as it read it or its session ended.

### TenantAccess

`ConsoleProofs`: `AccessInvariant`, `AccessTypeCorrect`, `LatePageCorrect`,
`AnswersCorrect` and `VisitsLandCorrect`, for any accounts, tenants, grants
and requests. A request looks at the tables in several transactions, so what it was told
has to stay true. The lemma `StepsAge` says what the steps of this model leave true: a
tenant does not serve again, nobody enters a tenant that exists, a grant is not revived
and a site is not reconnected (`Aged`). It is a step of the proof and no result about
the program: invitations, consents and pairings, which make new rows, are not in this
module, and `connected` is about the one site a tenant has here. From it `CallInv`: a late page never gets beyond the list of
memberships (`LateRow`), and an answered mutation that the account was entitled to is in
force (`TrueRow`). `VisitsLand` needs `HomeInv`: the home of an active account is a
tenant it is a member of.

The two components meet in one set: the accounts that `TenantAccess` calls
`Authenticated`, by `signedIn` and the account's status, are those of which
`ConsoleSession` has a console session that resolves (`Principals`). `UsersCorrect` (a console session belongs to the user of
the identity session it was made from) and `PrincipalsCorrect` show for `ConsoleSession`
what `TenantAccess` takes for granted: one account at a time comes to be authenticated,
or stops to be, and only an active one comes to be (`PrincipalsMove`), which are the
steps `OpenSession`, `CloseSession` and `DeleteAccount`.

### RevocationDelivery

`RevocationDeliveryProofs`: `DeliveryInvariant`, `DeliveredIsAppliedCorrect`,
`DeliveredIsFinalCorrect`, for any workers, events, batch size and attempts.
`HandInv`: workers hold committed events only. `AnswerInv`: a worker that has a 204
in hand has it of an event that is applied. `FreeInv`: a delivered row has no lease,
so neither a lease that lapses nor a worker that reports late finds it.

### DeletionLifecycle

`DeletionLifecycleProofs`: `LifecycleInvariant`, `TokensDeadCorrect`
(`[]TokensDeadBeforePurge`), `PurgedWasAnnouncedCorrect` and `MonotonicCorrect`
(`DeletionIsMonotonic`), for any accounts, sites, grants and overlapping jobs. A first
advance reads at one moment and writes at a later one, so the invariant speaks of both.
Until it commits, what it has found is either where its writes will reach it, in the
loop's list or on a site it has found, or out of use already (`SweepingInv`); once it
has committed, all of it is out of use (`SweptInv`), and nothing brings a row back
(`Forward`). `QuietInv`: a token of a grant found runs out no later than the window
of the job, unless it is one of the late ones. Only a signature makes a token's life
longer (`TokensFrame`), and one on a grant that a committed advance has found is late by
definition. That a grant in use is never purged while a job has found it, and that a
revoked one was announced (`RevokedInv`), need that a grant has a site as long as it
exists (`SitePresentInv`), which is why a purge waits for open inserts. The assumption
that makes it work is `AccessLife <= SafeWindow`: the code waits six minutes, the five of
an access token and one of clock skew.

The theorems are conditional where the code is: they say nothing of rows that no first
advance has found, which section 5 shows to exist, nor of the life of late tokens.

`NumbersInvariant`, `LifecycleTypeCorrect` and `OutboxNumbersCorrect` are about the
numbers of events. A purge takes events out of the middle, so nothing like
`SequencesGapless` holds, and numbers are given out again (section 5), but never while
the old event is there: the UNIQUE constraint does not fail `advance_deletion_job`.
`MAX + 1` is above all that is left because the numbers of a site are bounded
(`OutboxInv`), and the loop over the grants of an account gives each its own place among
those of its site because only finitely many exist (`FewGrants`, `Places`). That a finite
set of numbers has a greatest element (`FiniteTop`) is proved by taking a smallest
counterexample under strict inclusion, a well-founded order of finite sets, as an
induction scheme over a predicate cannot be used here.

### ConsentFlow

`ConsentFlowProofs`: `ConsentInvariant`, `ConsentTypeCorrect`, `BothConsentedCorrect`
and `DecidedOnceCorrect`, for any grants, interactions and sets of scopes (at least
one, `ConsentConstants`). A code is issued for an active grant with a Provider Grant:
by `RowInv` the first was approved by the site, with the decision on record, and the
second was saved for a page that the visitor approved, under the scopes of the row.
`PostInv` carries this over the gap between the submission and `grant.save`, where
the grant may be revoked but its scopes and its id stay. `CodeInv`: as long as a code
stands for a grant, its rows are not given to another one.

### Only model-checked

Liveness: `RevocationEnds`, `EverySettles`, `JobsEnd`, `RetryGetsIn`, `RequestsEnd`,
`RetryConsents` and `SigningResumes`, since the prover has neither ENABLED nor fairness
rules; `NobodyStuck` is the part of `RevocationEnds` that does without. The properties of
section 5 are false and so are only refuted.

## 7. What is left

1. `OtpSendQuota`: sends within every rolling window of an hour and a day, with the
   claim that comes up to a minute after its reservation.
2. Compositions of deletion with the statement-level revocation model, for the
   lock orders of `advance_deletion_job`, and with `TokenIssuance`, for artifacts
   that outlive a purge.
3. The control API's copy of the signing key, and client suspension, as caches that
   only a restart refreshes.

## 8. Checking it

    tlc -workers 2 -config GrantRevocation.cfg MCGrantRevocation.tla
    tlapm GrantRevocationProofs.tla

and likewise for the other configurations of sections 3 and 5, each with the `MC…`
module of its component (`GrantRevocationLocks.cfg`, `DisconnectRace.cfg`:
`MCGrantRevocation`), and for the other modules whose name ends in `Proofs`. The
longest run, `login`, takes about three minutes, the others between a second and two;
each proof module takes at most about a minute and a half.
