# Verification of the cPanel/WHM manager extension

TLA+ models of `cpanel-whm-manager` (an Express application with Prisma
repositories that talks to WHM servers, its scheduled job and its two
frontends), the TLC configurations
that check them on small instances, and theorems checked by TLAPS. Paths below
are relative to the repository; `backend/` is `src/backend/`.

## 1. The system

| Part | State it keeps | Operations | What is hard about it | Correct when | Module |
|---|---|---|---|---|---|
| Concurrency limiter (`backend/utils/http-retry.ts`) | per host: counter of running operations, array of parked callers | `run` = acquire, fn, release | the wake-up of a parked caller is a microtask after the release; callers, completions and wake-ups interleave | the cap holds, nobody is parked for ever or overtaken, the counter does not drift | `Limiter`, `FairSemaphore` |
| WHM client (`backend/services/whm-api.client.ts`, `retry` in `http-retry.ts`) | per call: attempt counter, error kind; slot of the limiter | `call`, and `testConnection`, `listAccounts`, `accountSummary` on it | retries hold the slot; every way an HTTP exchange can end | bounded load per host; gives up only after all attempts; always answers | `WhmClient` |
| Servers and tokens (`servers.service.ts`, `tokens.service.ts`, their repositories, `migration.sql`) | two tables with soft deletes and unique indexes, the operation log | create, update, remove | no transactions: look-ups are stale when the write comes; crash between a write and its audit row | unique live names, deleted rows frozen, truthful log | `Registry`, `Directory` |
| Account cache (`hosting-sync.service.ts`, `accounts.service.ts`, `accounts.repository.ts`, `ServersService.testConnection`) | account rows with `lastSyncedAt`; status of the server | `syncServer`, `refresh`, `testConnection` | requests and the worker overlap while WHM changes; find-then-create; server or token deleted meanwhile | one row per account, no older than stamped, eventually what WHM has | `AccountSync` |
| cPanel operations (`cpanel-api.client.ts`, `email.service.ts`, `databases.service.ts`, `domains.service.ts`, `account-whm-context.ts`) | none of its own; objects on the cPanel side, the operation log | create, delete, assign, update, AutoSSL | commands that are not idempotent are retried; late attempts; updates of several commands | success means done; a failed update is a prefix | `RemoteOps` |
| Sync worker (`src/workers/sync.worker.ts`, `syncTenant`, `whm-account-parse.ts`) | a process with a database client, the counts of a run | one run per tenant, again and again | servers come, go and fail under a run; runs overlap; every path must dispose of the client | the summary adds up, the client is disposed of, runs end, named accounts keep their rows | `TenantSync`, `AccountSync` |
| Operation log (`utils/audit.ts`, `operation-log.repository.ts`) | rows | `writeAudit` | written last, outside any transaction | truthful (it is not complete, see 3.1) | in `Registry`, `RemoteOps` |
| Tenant context, permissions, validation, errors (`context/`, `middleware/`, `routes/`, `controllers/`) | per request | guards before a handler | two providers, headers that may contradict each other, a secret that may be missing, the order of guards over three files | handlers run for entitled callers only (of the requests that come as documented, see 3.1); refusals in order | `ApiRoutes`, `RequestPipeline`, `ReferenceMonitor` |
| Assembly and configuration (`container.ts`, `env.ts`, `standalone.ts`) | cache of controllers per (database, key) | boot, look up or build | the environment and the headers of a request complete each other; stale entries | a request is served with its own database and key | `RequestPipeline` |
| Token encryption (`utils/crypto.ts`) | stored ciphertexts | encrypt, decrypt | one key id for all keys; keys that change | what has been stored can be read until the key is changed | in `RequestPipeline` |
| React frontend (`src/frontend/`) | query cache, open page, pending mutations | pages, queries, mutations | answers out of order, fetches from before a change, pages left meanwhile | controls agree with routes; own changes are shown | `Pages`, `Console` |
| Inline page (`backend/ui/index.ts`) | what is on the screen | loads and calls | any order of answers; rows replaced under a call | news of every change is shown; buttons come back | `Pages`, `InlinePage` |
| Manifest and its check (`extension.manifest.json`, `scripts/validate-manifest.ts`) | none | one verdict | manifest, routes and permissions are written in three places; views nest actions and sections that nest actions; tools are outside of the schema | the manifest asks for what the backend has; a valid one stays under the extension's API | `Manifest` |
| FTP, deployments, metrics stubs | none | answer 501 | - | behind the same guards | in `ApiRoutes`, `RequestPipeline` |
| Redaction, DTOs, sizes (`redact.ts`, `dto/`, `parseMb`) | none | pure functions | - | - | not modelled |

Services call repositories (database statements, one `await` each) and the WHM
client; the WHM client runs each call under the limiter; the cPanel client goes
through the WHM client; handlers of one process interleave at awaits, and the
worker is another process on the same database. No statement is in a
transaction with another.

## 2. Modules and the code

### FairSemaphore, Limiter, LimiterProofs
`FairSemaphore` is what a user of the limiter expects: per key, at most
`Capacity` holders, and a queue served in order. `Limiter` is the class:
`active` and `queue` are its two maps, `pc` says where a caller of `run` is
(idle, queued, woken, running), and `wakeups` is the microtask queue with the
continuations `next()` has resolved. `Enter` and `Enqueue` are the two branches
of `acquire`, `Resume` the rest of `acquire` in a woken caller, `Settle` the
`finally` with `release`.

The constant `TurnBased` decides what may run while microtasks are pending.
With TRUE a call or a completion is an event-loop turn and the microtasks are
drained in between: what happens when requests and responses come from the
network. With FALSE calls and completions may also come from other microtasks
of the same drain, as when one piece of code starts several operations after an
await.

The limiter refines `FairSemaphore` with the slot passing to the waiter when
`release` shifts the array (`Holders` are the running and the woken callers).

### WhmClient, WhmClientProofs
Extends `Limiter` with the retry loop: `phase` is what a call awaits (an
attempt, a sleep, or an attempt that will never settle), `attempt` the counter
of `retry`, `answer` the error code or OK. `Conclude` ends the loop in the turn
that gives the slot back. `CutShort` is a response that is cut off: the
transport listens to `end` of the response and `error` of the request, and Node
reports neither in that case. `CodeOf` is `mapRetryFailure` and the checks on
the response.

### Directory, Registry, RegistryProofs
`Registry` has the rows of both tables (`sState`, `sName`, `tState`, `tKey`,
`tActive`) and, for every request in progress, the statement it awaits
(`next`), what it asked for (`req`), and whether it has written a row
(`wrote`), its audit row (`logged`) and its reply. One action is one statement
with the code up to the next await. The `where` clauses are `ServerMatches` and
`TokenMatches`, the unique indexes `NameIndexed` and `KeyIndexed`; the indexes
count deleted rows, the look-ups do not. `Fail` is a failing statement or a
dying process. Columns that decide nothing here (host, port, notes, the
ciphertext) are left out. Only one tenant is modelled: every statement carries
the tenant's id, so tenants share nothing.

`Directory` is a table in which entries are added, renamed and removed
atomically and live names differ; the servers and the tokens of `Registry` each
implement it.

### AccountSync, AccountSyncProofs
One server and its account rows. `clock`, `hist` and `present` are the WHM side:
a change of an account advances the clock, and an account's version is the time
of its last change. Handlers (`Sync`, `Refresh`, `Test`) have the statement
they await (`step`), the time taken (`since`: `checkedAt`, or `now` of a
refresh), the accounts still to be written (`todo`, `account`) and the row
`findByUser` returned (`found`). `Caught` is the `catch` of `syncServer` and
`testConnection`: any error in the guarded part is recorded as UNREACHABLE.
`DecryptFails` is a token that cannot be decrypted: inside that part in a test (WHM
is not even called), outside of it in a sync or refresh, which end with the error.
`AnswerSummary` always has the account that was asked for: an answer of another shape
is left out here, `TenantSync` has the accounts without a name.
The order in which `upsertMany` goes through the accounts is left open: WHM
chooses it. `MaxBusy` bounds how many handlers are under way at a time.

### TenantSync, TenantSyncProofs
A run is one process of the job: `Start` and `createContainer` before the `try`
(an error there ends the run with nothing to close), `List`, one `SyncServer`
per server, `Return`, and `Dispose` for the `finally`, where `dispose()` closes the
client or throws and leaves it `stuck`; the exit of the process then takes the
connection with it. One server's sync is one
step with three outcomes: everything stored, failed with a part stored, or the
server not found; `AccountSync` has what happens inside. A server is called by
its place in the order of creation, since `list` returns the newest first and
`take`s so many (`Listed`). `parseWhmAccount` is the name an account gets from
two optional fields.

### ApiRoutes, ReferenceMonitor, RequestPipeline, RequestPipelineProofs
`ApiRoutes` is the table of routes: method and path, permission, the parts of a
request that are validated, the status of a success (or 501). `RequestPipeline`
takes requests through `Accept` (body parsers, public pages), `ResolveTenant`
(`tenantContext` with the provider of the assembly), `RequestDeps` (the factory
and its cache), `Dispatch` (`requirePermission`, `validate`, the stubs and the
check of `reqHandler`, which run in one go) and `Serve`. `Serve` knows of the
service only what depends on the way there: whether the stored token can be read
with the key of the request. `host` says which assembly runs; `Rotate` gives a
tenant another key, `Restart` is the death and new start of the process.
`ReferenceMonitor` is what the guards promise: whom the platform vouches for, what
the caller has been granted, and how far it has come. The refinement computes both
from the request itself, not from what the guards have put into the context: in
header mode `Vouched` asks for a token of this tenant signed with a secret there is,
as `docs/configuration.md:38` has it. The code also serves requests without a token
or a secret (`ResolveHeader`, network trust). The document has no such requests served, so
they are none of the monitor's: the refinement is about the requests that come as
documented (`AsDocumented`: in the host's process all of them, in header mode those with a
token, good or bad, where there is a secret), each `Watched` among any others that are
under way; the others are not there for it. `SecretRequired` says what the document
promises of those, and is violated (3.1).

### Pages, Console, InlinePage, Manifest, Frontends, FrontendsProofs
`Pages` lists what is offered: queries and mutations with what they invalidate,
pages with permission, query, controls and links, and the buttons of the inline
page with the loads that follow. `Affects` is what a call changes according to
the services. `Console` is the React frontend in use: `data`, `failed` and `fetch`
are the query cache, `ops` the mutations, `seen` what the person must be shown.
The cache follows react-query 5 with default options, which is external: a query
is fetched when it is mounted, a fetch under way is joined, an invalidation drops
it unless there is no data yet. A mutation is forgotten when its component leaves the
screen (`held`: those whose component has stayed, whose button is disabled), also
within a page, when the panel it stands in is taken away by a failed load. A link
`needs` nothing but the permission, data to list, or a page that has loaded. `InlinePage` holds a bag of loads, each with the
version it has read, and the calls with their buttons. `Manifest` is
`extension.manifest.json`, by its calls and permissions, and the check of it; a path is
under the API's prefix, under one that begins with the same letters, or elsewhere. `Frontends` composes the three: a person has one of
them. Versions stand for data: the number of the last change that concerns a
query.

### RemoteOps, RemoteOpsProofs
A request holds an object and its commands: one for create, delete, drop,
assign and AutoSSL, one to three for an email update. `Send` puts an attempt on
the wire; `Execute` has cPanel carry it out or refuse it, in time or not; `Lose`
drops it; `TimeOut` is an attempt that fails for the handler, whatever becomes
of it; `Retry` sends it again. The limiter and the backoff are in `WhmClient`
and left out here. cPanel itself is external: it refuses to create what exists
and to touch what does not; with faults it may refuse for any reason, or its
answer may be unreadable.

Each module ends its state section with *faulty variants*: versions of single
definitions with a plausible bug, used to see that the properties notice.

## 3. Runs

| Run | Config | Shows |
|---|---|---|
| turns | `MCLimiter_turns` | five callers, one host, two slots: types, the cap, the counter, no idle slot while somebody is parked, every parked caller served, `FairSemaphore` implemented |
| calls | `MCWhmClient_calls` | one call on a host that cuts connections, two on a sound one with one slot, two retries: load per host, no early giving up, the limiter used as specified, all calls on the sound host answered |
| requests | `MCRegistry_requests` | two requests of any kind at a time over two servers and two tokens, with failures: unique names, deleted rows frozen and inactive, truthful log, `Directory` implemented twice |
| overlap | `MCAccountSync_overlap` | two syncs, a refresh and a test (two under way at a time) of one account, two changes on WHM, server and token removed, failures and crashes: one row per account, no row older than its stamp, a deleted server's row is left alone |
| mirror | `MCAccountSync_mirror` | two syncs of two accounts for ever: the cache ends up with what WHM has |
| commands | `MCRemoteOps_commands` | two requests for one object, one retry, losses and late attempts: success means done, updates are prefixes |
| tenant | `MCTenantSync_tenant` | two overlapping runs over up to three servers of which a run lists two: the summary adds up, named accounts have their rows, every client is disposed of (closed, if the run exits with 0), runs end |
| pipeline | `MCRequestPipeline_pipeline` | two tenants on one database, some thirty kinds of requests, three environments, partial and full settings, one change of key per tenant, restarts, tokens and secrets present or not: types, order of refusals, own controllers, readable tokens, `ReferenceMonitor` implemented for the requests that come as documented |
| console | `MCFrontends_console` | four roles at the React frontend with three acts, two calls at the inline page, or the validation of the repository's manifest: controls agree with routes, own changes are shown, loads follow changes, buttons come back, the manifest asks for what the backend has |
| cap | `MCLimiter_cap` | *violation*, see 3.1 |
| cut | `MCWhmClient_cut` | *violation* |
| race | `MCAccountSync_race` | *violation* |

### 3.1 Where the code and its documentation disagree
- **cap**: `release` does not reserve the slot for the caller it wakes. A call
  made in the same microtask drain finds room, and then the woken caller counts
  itself too: `maxConcurrent + 1` operations (`http-retry.ts:35` says the class
  caps them). With one call per turn the cap holds, which is proved.
- **cut**: a response cut off in the middle settles nothing; the call hangs and
  its slot is lost (`docs/security.md:27` lists timeouts and retries).
- **race**: two overlapping syncs both find no row for a new account; the slower
  one's insert is refused by the unique index, and the server is recorded as
  UNREACHABLE though WHM answered (`hosting-sync.service.ts:4`: idempotent).

Stated and violated as well, each by a configuration kept beside the runs
(`tlc -config <config>.cfg <module>` shows the trace at once):
- `SecretRequired` (`MCRequestPipeline_trust`): in header mode without a secret the headers are trusted
  (`header-provider.ts:80`); `docs/configuration.md:38` says such requests fail with 401.
  A request without a token is trusted too where there is a secret.
- `AuditComplete` (`MCRegistry_audit`): `update` of a repository writes and then reads the row again; a deletion in
  between turns a rename that was made into NOT_FOUND without an audit row
  (`docs/security.md:31`: every server/token action is logged).
- `RemoteAuditComplete` (`MCRemoteOps_trail`): an email update whose second command is refused has changed the first field
  and leaves no audit row (`README.md:16`: full audit trail).
- `ValidStaysUnderApi` (`MCFrontends_prefix`): `validate-manifest.ts` compares paths with a prefix that ends in no slash
  (lines 170, 195, 206, 214), so paths under `/api/extensions/cpanel-whm-manager-x`
  pass; its line 189 says paths must live under the API. Only then does a valid manifest
  stray: everything else it draws is compared, however deep.
- `ToolsServed` (`MCFrontends_tools`): five of the seven tools of `extension.manifest.json` (from line 340) name
  calls the backend has no route for, e.g. `servers/test`; the check does not look.

Known, and in the models, without a property:
- Deleting a server leaves its tokens live (`extension.manifest.json:374` and the
  question the inline page asks, `ui/index.ts:251`, speak of its tokens too).
- Accounts removed on WHM stay in the cache; a deleted name can never be used
  again, since the unique indexes count deleted rows.
- `OwnChangesShown` is about queries on the screen, with data, when a change is
  confirmed. A query that is elsewhere, or still loading, is not dropped: a list asked for
  before a create and joined on return shows the old rows until it is opened again.
- At the inline page an older load that comes in last replaces newer rows until the next
  load; `EveryChangeReloaded` says only that the news had been there.
- With failing statements or undecryptable tokens UNREACHABLE means no more than that a
  test did not get through; `race` shows it of two healthy syncs.
- A command that is sent again may be carried out twice or late, and an error does not
  mean that nothing was done; `OkMeansDone` is about successes.

### 3.2 Bounds
- Limiter: five callers fill two slots and queue three, enough for a wake-up
  to race with two other completions. Two slots are the smallest number at which
  a slot can be free while somebody is parked.
- WhmClient: `MaxRetries` is 2, as in `container.ts:128`.
- Registry: two requests at a time are enough for every race between a read and a
  write; `RoomFor` admits an insert only while ids are left for it, so a database
  that runs out of rows never shows. One label is enough for the race of two
  inserts; renames of tokens to another label are covered by the proofs.
- AccountSync: `MaxClock` bounds the changes on WHM; two let a slow sync
  hold data older than the row it overwrites. `MaxRows` leaves room for a
  duplicate row, which must not appear.
- AccountSync, overlap: `MaxBusy` admits two handlers at a time out of two syncs, a
  refresh and a test: every race in the code is one of two handlers, and any number
  is covered by the proofs.
- TenantSync: of three servers a run lists two (`Take`), so one is left out; two runs
  work on the same servers. The answers have names in either field and two accounts
  without any.
- RequestPipeline: two places; one takes requests with one thing out of the ordinary
  at a time (each form of token, grant, tenant, body, validity), the other plain ones
  of a second tenant on the same database, which also stores tokens. Each tenant's key
  changes at most once. Among the tokens are a missing one
  and bad ones of every kind, among the environments and settings some without a secret.
- Frontends: `MaxActs` is three: enough to start a change, leave, and come back
  before it is confirmed, or to make two changes. `MaxCalls` is two: two calls and the
  loads they cause come in in any order. The manifests are the repository's and some 140 small
  ones with one or two things wrong, at every level of nesting. One server and one account stand for all.
- RemoteOps: every request is served once, hence no deadlock check there; one
  object makes requests conflict; one retry gives two attempts on the wire. A late
  attempt stays on the wire as long as it likes.
- Symmetry is used over interchangeable handlers where no liveness is checked.

### 3.3 Fairness
Node drains the microtask queue before the next turn: weak fairness of wake-ups.
Completions, sleeps and attempts are strongly fair, because they cannot run
during a drain and so are disabled again and again; that they come at all is
the contract of the limiter's user, and for an attempt the socket timeout. An
attempt that is cut short is not covered by it. In `AccountSync`, handlers go
on (weak fairness of statements and calls), the schedule starts syncs again and
again, and WHM is not out of reach for good (strong fairness of `AnswerList`);
failures and crashes are off in the liveness run, since a database that fails
for ever mirrors nothing. In `TenantSync` promises are run and every call to WHM
ends; the run `cut` shows when the client does not keep to that, and such a run of
the job never ends. In `InlinePage` the browser ends every call with an answer or an
error; nothing is assumed of the loads or of what the person does.

## 4. Proofs
`tlapm` checks all of them; they hold for all constants that satisfy the modules'
assumptions (naturals for bounds, names and answers of the right kind, no more).
Every safety property the runs check of more than one file is stated by a theorem. The inductive invariants
were checked by TLC on the instances of the runs before they were proved.

- **LimiterProofs**. The strengthening of the type invariant says that parked
  callers stand in the queue of their key exactly once, woken ones in `wakeups`
  exactly once, and that `active` is the number of running callers: without it
  the clamp `Math.max(0, ...)` in `release` could hide a lost count. From it
  follow `CountsRunning` and, with the fact that a queue is non-empty only while
  all slots are owned, `NoIdleSlotWhileQueued`, for both values of `TurnBased`.
  The cap and the refinement of `FairSemaphore` need `TurnBased`.
- **WhmClientProofs**. Every step of the client is a step of the limiter or
  leaves it alone (`UsesLimiter`), so the limiter's theorems carry over; with
  "a caller runs exactly while its call has a phase" they bound the load of a host,
  sleeping calls included. `GivesUpOnlyWhenExhausted` is a property of steps: only
  `Conclude` sets an answer, and one of those two codes only when the attempt that
  failed is the last.
- **RegistryProofs**. The invariant adds that a handler awaits only a
  statement its request has (`Placed`), that names differ over all rows, deleted
  ones included (`Indexed`: the unique indexes make the property inductive,
  the look-ups would not), and that a handler has written a row when it stands
  before its audit row (`Paced`). `OneRowAtATime` is the lemma behind the two
  refinements.
- **RemoteOpsProofs**. The invariant says how far a request has come on
  cPanel: all commands before the one awaited have taken effect, none after it,
  and nothing on the wire is ahead of the handler. Hence success means done.

- **AccountSyncProofs**. What a sync holds is no older than its stamp (`FreshInHand`):
  it contains every change up to the time it has noted, because `checkedAt` is taken
  before the call. Row ids are never used twice and an account has one row
  (`RowsSound`): the find-then-create of `upsertOne` keeps that only because the unique
  index refuses the second insert, and a row once found stays that account's
  (`FoundHolds`). `FreshAsStamped` is itself part of the invariant;
  `DeletedServerUntouched` holds because `setStatus` matches live rows only.
- **TenantSyncProofs**. A client is open only between `createContainer` and the call
  of `dispose()` (`OpenInside`), and whatever answer a run has stored in full has its rows
  (`StoredKept`), which no step removes. The summary rests on a second invariant,
  `Tallied`: at every moment of a run the servers listed are stored, counted as failed
  or still to be done, each in one of these, and nothing is left to do when the run
  ends. The accounts counted are stated as the number of a set, the (server, position)
  pairs of the answers stored, instead of as a sum: one answer more adds a disjoint set
  of as many pairs as it is long, so no induction over servers is needed. That the
  server taken next (`Max`) is one of those to be done is the least-number principle.
- **RequestPipelineProofs**. `Sound` says what is known of one request at each stage,
  in terms of the request and not of the guards' results; `CacheSound` that an entry is
  filed under its own database and key; `StoredSound` that the tokens of a tenant whose
  key has not changed are encrypted with the key the gateway still sends along, which
  needs that a request under way has the setting it came with. Order of refusals,
  own controllers and readable tokens follow for every deployment. The refinement holds
  for every deployment too: of a request that comes as documented `Resolved` is the same as
  `Vouched`, and a step is an `Admit` of the monitor only where `Sound` gives the permission;
  a step of any other request is a stutter (`Unseen`).
- **FrontendsProofs**. A person has one frontend, so each has an invariant of its own
  and the steps of the others leave it alone. `MaxActs` and `MaxCalls` are arbitrary
  naturals, so the bounds of the run play no part.
  - *Inline page* (`InlineInv`): for each confirmed change the person has had news of it
    or a load is on its way that has not read yet or has read since (`Reported`). The
    property only speaks of moments without loads, so it is not inductive: the invariant
    follows a change through the bag of loads, in whatever order they come in.
  - *React frontend* (`ConsoleInv`): versions count the mutations performed, and what
    is cached, read or owed is no newer than the backend (`Numbered`), hence a fetch
    sent after a change is confirmed brings it. `CaughtUp` says this of every query,
    on the screen or not: what is cached is at least what the person must be shown
    unless a fetch is under way, and an answer read before the change has been
    dropped. `OwnChangesShown` alone is not inductive, because a query leaves the screen
    and comes back from the cache. `Offered` and `Reached` keep the permission that a
    control or a page was reached with. A mutation that succeeds takes the person to
    another page only while its component has stayed on the screen, hence from a page that has its
    control (`OnPage`) and that they were allowed to see.
  - *Manifest*: nothing is proved; its claims are about one file, or do not hold.

Only model-checked: the liveness properties `EveryWaiterServed`, `SoundHostsAnswer`,
`EventuallyMirrored`, `RunEnds` and `ButtonsFreed`. They need fairness, that is, ENABLED,
which the provers do not handle.

## 5. Not modelled, and why
- AES-GCM, HMAC, TLS and the query cache are libraries: modelled by what the code
  relies on (which key reads what, who signed, which fetch is joined), not inside.
- The reads of the cPanel operations (lists, overviews, the best-effort look-up of
  certificates) keep no state; their answers are in `Console` as versions.
- Schemas: whether a part of a request is valid is an input, since no property here
  is about the content of names or ports. Sizes and flags of `whm-account-parse.ts`
  and redaction are total functions on strings that unit tests reach.
- Layout and wording: DTOs, the design system, fields of forms. Two hazards of the
  edit form are listed but not modelled for that reason.
- Of the inline page the table of accounts, which only reads, and the field for
  another address of the API.
- `migrate.ts`, `seed.ts`, `build.ts`, `healthcheck.ts` call other programs once; the
  example extension is another program. The tables `sftp_credentials`, `deployments`
  and `settings` have no code that uses them.
- A changed host name during a sync: `AccountSync` keeps one host per server. The
  code stores what the old host answered and cannot notice; no property is lost.

What could be added: a composition of `TenantSync` with the steps of `AccountSync`
(today the former has one step per server, whose outcomes are those of the latter),
and the limiter's cap across several turns when calls come from one drain.
