# Verification of the hazardous waste transfer compliance service

This directory holds a formal model of the service under `src/`: TLA+ modules
that describe what the code does, TLC configurations that check them on small
instances, and theorems that TLAPS proves for every instance.

The service is an API server (Go, Gin, GORM, PostgreSQL, Redis) with an Angular
front end. Users enter waste generators, carriers, transfer manifests and
compliance checks, move them along status graphs, and every write leaves an
audit entry. What must not go wrong is the evidence: a manifest that was
submitted stays, a decision that was taken stays, a manifest is dispatched only
between valid parties, and the audit log tells exactly what happened. The audit
log keeps up with any overlap of requests; the other three do not, and section 3
says how far they hold.

## 1. Inventory

Paths are relative to `src/backend/internal/` unless they start with `frontend/`,
`cmd/` or a file of the root.

| Component | State | Operations | Interacts with | What is hard |
|---|---|---|---|---|
| status graphs and aggregates (`constants/`, `model/`) | none (rules) | `CanTransition`, initial statuses | services, copy in `frontend/src/types/status.ts` | the copy drifts |
| repository store (`repository/base.go`) | the four tables, `audit_logs` | `Get`, `FindByCode`, `CreateAudited`, `UpdateAudited`, `DeleteAudited`, `List`, `CountByStatus` | database transactions | optimistic lock compares the version of the client; deletion compares nothing; unique index and soft deletes |
| business services (`service/`) | none of their own, `current` while a request runs | create, update, transition, delete for each aggregate | the store; manifests look up generators and carriers, checks look up manifests | read, check, look up, then write: everything read may have changed |
| audit trail of writes (`service/security.go`) | `audit_logs` | `newAuditLog` inside each transaction | the store | one entry per write, in the right order, saying the right statuses |
| audit queries (`repository/security.go`) | none | `EntityHistory`, `AuditSummary`, `ListAudits` | read the log while handlers write it | several queries without a snapshot; order by a time taken before the transaction |
| overview, health, login (`handler/system.go`) | none | counts, login, session | the tables, the token | login is half of the session of the front end |
| resource handlers (`handler/`) | none | bind, call the service, answer | services | none beyond the services |
| authentication (`middleware/auth.go`, `service/security.go`) | none | issue and parse tokens, compare roles | handlers, the session of the front end | a token outlives the session it was issued for, and expires while calls carry it |
| rate limiter (`middleware/ratelimit.go`) | counters in Redis, a map per server under a mutex | count, fall back, decide | Redis | calls that fail after they took effect, minutes that end meanwhile, a map that may grow |
| startup and seeding (`database/database.go`, `cmd/server/main.go`) | all tables | connect, migrate, seed, serve, stop | database, Redis, Docker | crash between tables, two servers seeding, seeding after deletions |
| configuration, request context, router | read only | | | none |
| workbench (`frontend/src/stores/factory.ts`, `components/entity-page.component.ts`, `hooks/use-pagination.ts`, `types/status.ts`) | items and loading flag of the store, two dialogs, page control, a copy of the status graphs | load, create, transition | the API, other people's writes | calls overlap and their answers are reordered or lost; a dialog keeps an old row and does not keep the keyboard off the page; buttons can be pressed twice; the copy of the graphs has drifted |
| session (`frontend/src/hooks/use-auth.ts`, `api/client.ts`, `router/guards.ts`) | stored session, shared by the tabs, and a signal in each tab | login, restore, logout, 401 | the API | the copies part when another tab signs in or out, when a token expires, when a late 401 clears the store |

Properties that make each component correct:

* **Services and store.** Statuses move only along their graphs; no write
  overwrites what it has not seen; row and audit entry appear together, and the
  audit log replays to the row; answers are not stale. Submitted manifests and
  decided checks are not deleted, parties are valid at submission and dispatch,
  checks pass only on a manifest under way: of these, what requests that overlap
  leave.
* **Rate limiter.** Admissions in a minute are bounded whatever Redis does, and exactly
  limited while it answers; nobody is refused for another minute's requests; the map
  forgets quiet keys.
* **Startup.** A table has all demo rows or none; who serves is seeded; deleted
  rows stay deleted; every server comes to serve.
* **Audit queries.** The history of a record lists its last entries in the order
  of its writes; the parts of a summary fit each other although the log grows
  while they are counted.
* **Workbench.** Whatever the page shows or sends was a row once; a move is
  carried out on the row the user saw, once, or not at all; the moves it offers are
  those the server knows; the page does not stay loading.
* **Session.** A session shows the user whose token it holds; what a page offers is
  forbidden only when the call went out with another user's token; a session that
  is gone stays gone until somebody signs in; no tab stays hidden.

## 2. Modules

| Module | Models | Built on |
|---|---|---|
| `StatusGraphs` | aggregates, graphs, initial statuses, which records are open to edits and deletions | |
| `RecordLifecycle` | abstract specification: the life of each record and its trail, without requests | `StatusGraphs` |
| `SeededTables` | abstract specification: the tables as seeding promises them, without servers | |
| `Compliance` | the API server: services, store, audit entries, overlapping requests | `StatusGraphs` |
| `ComplianceProperties` | properties of `Compliance`, the refinement mapping to `RecordLifecycle`, and the table as a page takes it for granted | `Compliance`, `INSTANCE RecordLifecycle`, `INSTANCE Workbench` |
| `Overtaking` | adds to `Compliance` the records each request was overtaken on, and states what the checks of the handlers are worth | `ComplianceProperties` |
| `AuditQueries` | composes `Compliance` with the times of audit entries and the queries that read the log, with its properties | `ComplianceProperties` |
| `RateLimiter` | the limiter, its properties | |
| `Startup` | start, seeding, stop and restart of servers, its properties, the refinement mapping to `SeededTables` | `INSTANCE SeededTables` |
| `Workbench` | a page of the front end over the API and the table others work on, its properties | `StatusGraphs` |
| `Session` | the tabs of a browser, the session they share, login and tokens on the server, its properties | |
| `ComplianceProofs` | theorems about `Compliance`, its refinement of `RecordLifecycle` and what it gives to `Workbench` | `ComplianceProperties` |
| `RequestProofs` | theorems about requests in flight, for any clients | `ComplianceProofs` |
| `OvertakingProofs` | theorems about the rules the handlers check before they write, for requests that overlap | `Overtaking`, `ComplianceProofs` |
| `AuditProofs` | theorems about the listed history and the summary | `AuditQueries`, `ComplianceProofs` |
| `RateLimiterProofs`, `StartupProofs`, `WorkbenchProofs`, `SessionProofs` | theorems about one module each | that module |
| `MCCompliance`, `MCOvertaking`, `MCAuditQueries`, `MCRateLimiter`, `MCStartup`, `MCWorkbench`, `MCSession` | instances for TLC | one each |

Definitions marked `Mutant` are wrong variants of the definition that follows
them. They are used by nothing; putting one in the place of the right definition
shows that a property fails when the code has that bug (`PROJECT.json` pairs
them with properties).

### Compliance: how state and actions correspond to the code

* `table[c]` is the row with code `c`. Codes are unique and immutable, so they
  stand for the ids as well. `life` is `absent` (no row), `live`, or `deleted`
  (`deleted_at` is set). `expiry` is `permit_expires_at` or `license_expires_at`,
  `links` the codes of the linked records. Free-text columns are left out.
* `history[c]` are the rows of `audit_logs` about `c`, in the order of the commits.
* `req[q]` is a request being handled: `current` is the variable of that name in
  the services, `expected` the version the client sent, `before` the status the
  audit entry will name, `phase` the next query.
* `now` is the clock that expiry dates are compared with.

A handler is cut where the code waits for the database: the first read with the
checks on what it read (`GeneratorCreate` ... `CheckDelete`), one step for each
lookup of a linked record (`FindGenerator`, `FindCarrier`, `FindManifest`), one
step for the transaction (`CommitCreate`, `CommitUpdate`, `CommitDelete`) and one
for the read that produces the answer (`Answer`). The steps of different
requests interleave freely. A transaction is one step because row and audit
entry are written in one database transaction and its only decisive read, the
`WHERE` clause of the update, locks the row it matches (PostgreSQL re-evaluates
it on the committed row). A request that is refused at its first read changes
nothing and is not a step. `Abandon` is everything that ends a request early
without a write: the client leaves, the database reports an error (a connection,
a unique permit number), the server stops.

`ExpectedVersions` says which versions clients send. `Foresight = 0`: versions
they were shown (the front end sends `item.version`). `Foresight = 1` adds the
next one, which the API also accepts.

### Overtaking

A handler checks a rule, then writes. `overtaken[q]` are the records request `q` has
looked at for its checks and that another request has written since: its own
record from the first read on, a party or a manifest from its lookup on. It is a history
variable: no action of `Compliance` reads it (`OvertakingIsCompliance` in
`OvertakingProofs`). With it the rules can be stated of every interleaving, with
their one excuse: `DispatchHoldsUnlessOvertaken`, `PassHoldsUnlessOvertaken`,
`RemovalsHoldUnlessOvertaken`, `OrphansAreStuckUnlessOvertaken`. The excuse is
about single records: a submission overtaken on its generator still has its
carrier in order. A request that met nobody is a special case, and so is a server
that handles one request at a time.

### RateLimiter

`redis[k][m]` is the counter under the Redis key of key `k` and minute `m`,
`local[s]` the map of server `s`, `req[r]` a request between its arrival and the
decision. `asked`, `admitted` and `fellBack` (the servers whose map has counted for
a key in a minute) are there for the properties. The Redis
pipeline is a MULTI/EXEC, hence one step; it may succeed (`RedisCounts`), fail
before it took effect (`RedisFails`) or after (`RedisReplyLost`). The map is used
under its mutex, hence one step. The clock may pass a minute between any two
steps; a call to Redis is given up within seconds (time-outs of go-redis), so it
does not outlive the minute after its own. Without Redis (`UseRedis = FALSE`) every
request takes the way it takes here after `RedisFails`; the run has Redis.

### Startup

`server[s]` is where a process is: connecting (which attempt), about to count the
rows of a table, about to insert, connecting to Redis, serving. `rows[t][c]` are
the rows. An insert of demo rows is one transaction (GORM wraps a create in one).
A server may stop at any step (`Stop`), Docker starts it again
(`docker-compose.yml`, `restart: unless-stopped`), the database may go away and
come back, and users create and soft delete rows through serving servers.

`SeededTables` is what is left of it for somebody who only sees the tables: each
table receives all of its demo rows in one step, in order, while it is empty, and
users write only once all tables have theirs. Connecting, counting, races, failed
inserts and restarts are stutters of it (`ImplementsSeededTables`).

### AuditQueries

`stamp[q]` is the `CreatedAt` that `newAuditLog` put into the entry request `q` is
about to insert, `created[c][i]` that of the entry `history[c][i]`. Every step of
`Compliance` that brings a request to its transaction takes the time
(`StampEntry`); every transaction that writes inserts the entry with it
(`InsertEntry`). The clock is `logged`, the number of entries of the log: two times
between the same two inserts are one time. A real clock shows the same order
provided that it does not run backwards and tells two writes of one record apart.

`EntityHistory(c, limit)` is the answer of the query of that name, the newest
entries by `CreatedAt`. A summary in progress is `summary`: `AuditSummary` fixes the
window, then each query is a step of its own (`CountTotal`, `CountTransitions`,
`CountActions`, `CountTypes`) and writers run in between. The window may begin at
any time up to the present, since an hour may have passed without an entry.

### Workbench

`rows` is the table as the page meets it, `call[k]` a call of the store from the
moment it is sent to the moment its answer is handled, `items` and `loading` are the
signals of the store, `pending` and `showCreate` those of the page component that
hold its two dialogs. `Press` holds what the user may do, at any time: an open dialog
is drawn over the page and takes the mouse, but it neither disables the page nor
holds the focus, so by keyboard the list can be loaded again, another move can
replace the one to be confirmed, and both dialogs can be open at once; no button
waits for a call to end. `StartLoad`, `StartMove`, `StartCreate` are the store's methods up to the
fetch, `Receive` what follows it: a write that succeeded starts a load, a load that
ends a write closes that kind of dialog, whichever record it is about by then.
`LoseLoad` and `LoseWrite` are a connection that breaks; a write may have reached
the server by then, or reach it yet (`abandoned`).

On the server's side a move is one step that compares version and status and
writes the row. That is what the handler of `Compliance` comes to: by `ReadIsFresh`
a transaction that finds the version it was sent has found the row the handler
read. Other people write and delete rows between any two steps (`OthersWork`), and
their deletions may be late: a row may go in any status (`Deleted`).

The two models are composed by assumption and guarantee. `ServersTable` is all that
`Workbench` takes for granted of the table; `ComplianceProperties` instantiates
`Workbench` with the rows of `Compliance` and states that the server keeps to it
(`FeedsThePage`), in turn on the assumption that clients send only versions they
were shown (`Foresight = 0`), which `SnapshotsWereRows` says of the page. Each
assumption is about the past of the other side, so there is no circle: what the
page sends next rests on the rows so far, and those on what was sent before.

Any call may be refused for reasons not modelled (`Refuse`: a
version conflict, a rule about linked records, the quota). Which rows a load asks
for is left out: an answer may hold any of the live rows.

### Session

`storage` is the session in `localStorage`, which the tabs share; `session[t]` and
`loading[t]` are the signals of tab `t`; `auth[t]` is its restore or login on the way
to the server and back, `work[k]` a call of one of its pages. A token is its user and
the second it expires at. `Open` is a tab that is opened or reloaded: it shows the
stored session at once and asks the server about it. `Restored` stores the session
it had cached before the call, as `use-auth.ts` does; any failure signs out. A call
reads its token from the store when it is sent, and the buttons follow the signal
(`Ask`); a 401 clears the store and not the signal (`ReceiveWork`, `LoginFailed`).
`ShownTo` is the role each button is shown to, `RouteRole` the one its route asks
for. Roles do not change, passwords are left out (a sign-in may be refused), and
tokens are only those the server issued.

### RecordLifecycle, the abstract specification

`Act` is what `src/README.md` says of one record: created once in its initial
status, edited while open, moved along its graph, removed while open, each with
one audit entry at the same moment. `RemoveLate` is a removal decided by a status
that the record has left since; `OverlappingPromise` is the life with both. The
refinement mapping (`ComplianceProperties`) keeps life, status and version of a row
and maps `history` to the trail; a transaction that writes is one abstract step,
everything else stutters. Requests that overlap implement `OverlappingPromise`:
removals are the only thing given up. `KeepsPromiseUnlessOvertaken` sharpens that:
every step is one of `Act`, or the late removal of a record by a request that was
overtaken on that record.

## 3. Runs

| Run | Configuration | Instance | Shows |
|---|---|---|---|
| `overlap_manifest` | `MCOverlapManifest` | 2 requests, 1 generator, 1 carrier up to version 2, 1 manifest up to version 3, a clock that ticks once | optimistic lock, status graph, trail, refinement of `OverlappingPromise`, parties at dispatch |
| `overlap_check` | `MCOverlapCheck` | 2 requests, 2 manifests (one in transit, one to be created), 1 check up to version 3 | answers, links, fixed data; deletions, decisions and checks without a manifest |
| `overlap_permit` | `MCOverlapPermit` | 2 requests and 1 summary, a generator that is entered and reaches version 2, a clock that ticks once | versions of a record that is always open; the listed history and the parts of a summary; the table as the page takes it for granted |
| `late_delete` | `MCLateDelete` | 2 requests | a submitted manifest is deleted |
| `late_dispatch` | `MCLateDispatch` | 2 requests | a submission commits after its permit was withdrawn |
| `late_pass` | `MCLatePass` | 2 requests | a check passes on a manifest rejected meanwhile |
| `pipelined` | `MCPipelined` | 2 requests, `Foresight = 1` | a manifest leaves its status graph |
| `rate_limiter` | `MCRateLimiter` | 3 keys (one busy), 2 requests, 3 minutes, limit 1, clean-up from 2 keys on | bounds of the limiter |
| `startup` | `MCStartup` | 2 servers, 2 tables, 2 attempts, 2 stops, 1 outage | seeding and start, refinement of `SeededTables` |
| `workbench` | `MCWorkbench` | the page of the manifests, 1 manifest up to version 3, 2 calls | what the page shows and sends, moves as confirmed, loading ends |
| `drifted_graph` | `MCDriftedGraph` | the pages of the carriers and the checks, 1 call | the page offers a move the server does not know |
| `session` | `MCSession` | 2 tabs, an operator and a reviewer, 1 call of a page, tokens that expire, clock up to 2 | sessions match tokens, 403s, signing out, loading ends |

**Bounds and why they suffice.** Versions are bounded in the guards
(`MaxVersion`), the clock by `MaxTime`. Two requests are enough for every race in
this code: a handler compares a row it read with a row it writes (or looked up),
and one other request suffices to change that row in between. In `overlap_manifest`
the carrier can be suspended, edited or deleted and the generator deleted between
their lookups and the commit, a license that was edited can run out, and the manifest can be
submitted and dispatched while it is edited, moved or deleted by the other request;
the pass from transit to its end repeats the same code. In `overlap_check` the check
can be entered about either manifest, edited, decided, escalated after it failed
(version 3) and deleted while its manifest is received, rejected or, if it is a
draft, deleted; so a check that failed on a draft really loses its manifest, and
its escalation is then tried. One run per aggregate keeps the state
space small: rows that a run does not write have `MaxVersion = 1` (they can still
be created and deleted). A log of one record with its creation, one change and its
deletion is enough for the queries: a second change of the same version is refused,
and `AuditProofs` covers longer logs. The limiter's limit and the threshold of its clean-up
enter only by comparison, and both sides of each comparison are reached: 3
requests of the busy key exceed the limit, 3 keys exceed the threshold, 3 minutes
let a Redis counter expire. On the page of the manifests two calls overlap in every
pair of kinds, and version 3 leaves room for somebody's write and the page's own
after the creation; `WorkbenchProofs` covers all four pages. `drifted_graph` has the
pages whose copied graphs differ from the server's. Two tabs and two
users are what it takes for a tab to act with another user's token; one call of a
page is enough, since the sign-ins and restores of both tabs run beside it; a token
that lasts one unit expires while it is stored, shown and on its way.
The three overlap runs use the symmetry of the request slots,
`rate_limiter` that of slots and quiet keys (these
runs check no liveness).

**Fairness.** The server's model has none and states no liveness: a handler is
straight-line code in a goroutine of its own and no handler waits for another, so
that every request ends follows from the shape of the actions and would say
nothing of the code.
`Startup!FairSpec`: a process that can go on does, Docker restarts one that has
exited, an outage of the database ends. Users and stops are not fair, stops and
outages are bounded. `EveryServerServes` holds as long as users do not delete
every row of a table: then the count finds no rows, the insert collides with the
soft deleted ones, and no server can start any more (`Deletable` of `MCStartup`
leaves one demo row of two; with both, TLC refutes the property).
`Workbench!Spec`: a call in flight is answered, and its answer handled: the server
answers every request, for the reasons just given, and the browser runs the continuation of
a fetch. Users, other people's writes and lost connections are not fair.
`Session!Spec`: the restore or login of a tab goes on, for the same reasons. Its
`LoadingEnds` is about tabs that are not reloaded for ever, since a reload starts
the notice again.

**Deadlock** is checked except in `rate_limiter` (the last minute is the last) and
`startup` (a server that serves may have nothing left to do).

**What the violations say.** The services read, check and look up before the
transaction, and the transaction checks only the version the client sent (updates,
transitions) or nothing (deletions). So: a submitted manifest can be deleted, with
a false status in the audit entry; a manifest can be submitted after a party was
withdrawn; a check can pass on a rejected manifest. `pipelined` shows that
comparing the client's version protects the status graph only as long as clients
never guess: `overlap_manifest` and the theorems below have `Foresight = 0`.

`drifted_graph` shows that the two copies of the status graphs, which
`src/README.md` and `constants/status.go` promise to be the same, are not: the page
offers to expire a pending carrier and to escalate a pending check, and the server
refuses both on a row nobody has touched.

The passing runs say how far the broken rules go. A rule fails only about a record
that was written between the look at it and the commit, so never for a request that
met nobody (the `...UnlessOvertaken` properties). A decided check may be deleted in
the same way as a submitted manifest (`RemovalsHoldUnlessOvertaken`). A passed check
may be about a manifest that was rejected, or even deleted, meanwhile, but never
about one that was not submitted (`PassedChecksWereSubmitted`).

One more consequence, which contradicts no documented promise: a check may fail
while its manifest is a draft, and that draft may be deleted; the check can then
never be escalated, since every transition looks its manifest up.
`OrphansAreStuckUnlessOvertaken` states that this is for good, but for a request
that looked the manifest up before it was deleted.

## 4. Proofs

Eight modules of theorems, all for every set of records, requests, servers, keys,
tabs, users and calls, every seed and every bound that meets the assumptions on the
constants:

| Assumption | Says |
|---|---|
| `KindsAreDisjoint` (`StatusGraphs`) | a code belongs to one aggregate |
| `BoundsAssumption` (`Compliance`, `Workbench`) | the bounds are numbers |
| `SeedAssumption`, `SeedLinksAssumption` (`Compliance`) | seeded rows have version 1 and link to seeded rows |
| `SeedAssumption` (`Workbench`) | a row that exists when the page is opened has a status of its kind and a version within the bound |
| `LimiterAssumption` (`RateLimiter`) | limit and threshold are at least 1; finitely many servers, keys and slots |
| `StartupAssumption` (`Startup`) | at least one table, each with a demo row, and at least one attempt |
| `SessionAssumption` (`Session`) | every user has one of the four roles |

Some theorems assume more:

* `Foresight = 0`: clients send only versions they were shown. The front end is such
  a client (`SnapshotsWereOnceRows`); the run `pipelined` shows what happens with
  others.
* `PassedChecksLeftDraft` also assumes its property of the seeded checks: the seeds
  of the code have one passed check, `CC-002`, and its manifest `TM-002` is submitted.

No theorem assumes anything about how many requests there are or how they overlap.

| Module | Theorem | States | Assumes |
|---|---|---|---|
| `ComplianceProofs` | `TypeCorrect` | `[]TypeOK` | |
| | `OptimisticLock` | `[]ReadIsFresh` | `Foresight = 0` |
| | `StatusesMoveAlongGraphs` | `StatusMovesAlongGraph` | `Foresight = 0` |
| | `DecidedDataStays` | `DecidedDataIsFixed` | `Foresight = 0` |
| | `TrailReplays` | `[]AuditTrailReplays` | `Foresight = 0` |
| | `VersionIsTrailLength` | `[]VersionCountsTheTrail` | |
| | `ImplementsLifecycle` | `ImplementsOverlappingPromise` | `Foresight = 0` |
| | `ServerFeedsThePage` | `FeedsThePage` | `Foresight = 0` |
| `RequestProofs` | `AnswersShowTheirWrites` | `[]AnswerShowsTheWrite` | |
| | `LinksAreKnown` | `[]LinksWereRecords` | |
| `OvertakingProofs` | `DispatchesHold` | `[]DispatchHoldsUnlessOvertaken` | |
| | `PassesHold` | `[]PassHoldsUnlessOvertaken` | |
| | `RemovalsHold` | `[]RemovalsHoldUnlessOvertaken` | |
| | `OrphansAreStuck` | `OrphansAreStuckUnlessOvertaken` | `Foresight = 0` |
| | `PromiseIsKept` | `KeepsPromiseUnlessOvertaken` | `Foresight = 0` |
| | `PassedChecksLeftDraft` | `[]PassedChecksWereSubmitted` | `Foresight = 0`, seeds |
| `AuditProofs` | `HistoriesListTheLastEntries` | `[]HistoryListsTheLastEntries` | `Foresight = 0` |
| | `SummariesOnlyGrow` | `[]SummaryPartsOnlyGrow` | |
| `RateLimiterProofs` | `LimiterTypeCorrect` | `[]TypeOK` | |
| | `StaleBucketsAreDropped` | `[]StaleBucketsBounded` | |
| | `RefusalsAreEarned` | `[]RefusedOnlyWhenBusy` | |
| | `AdmissionsAreBounded` | `[]AdmittedWithinLimit` | |
| `StartupProofs` | `StartupTypeCorrect` | `[]TypeOK` | |
| | `ServersAreSeeded` | `[]ServingIsSeeded` | |
| | `SeedingIsWhole` | `[]SeedsAllOrNone` | |
| | `DeletedRowsStay` | `DeletedStaysDeleted` | |
| | `StartupImplementsSeeding` | `ImplementsSeededTables` | |
| `WorkbenchProofs` | `WorkbenchTypeCorrect` | `[]TypeOK` | |
| | `SnapshotsWereOnceRows` | `[]SnapshotsWereRows` | |
| | `RefusalsAreExplained` | `[]OnlyDriftIsRefused` | |
| | `ConfirmedMovesOnly` | `MovesAreAsConfirmed` | |
| | `PageKeepsToTheTable` | `ServersTable` | |
| `SessionProofs` | `SessionTypeCorrect` | `[]TypeOK` | |
| | `SessionsMatch` | `[]SessionMatchesItsToken` | |
| | `RefusalsAreAnothers` | `RefusedOnlyWithAnothersToken` | |
| | `SignedOutStays` | `SignedOutStaysSignedOut` | |

**The arguments.**

*Compliance.* `TypeOK` is not inductive: a commit writes what a request carries, so a
request must carry something its aggregate allows. The invariant `Inv` adds that
(`RequestsAreLegal`: what an update carries was open, what a transition carries
follows the graph, what a deletion saw was open). On top of it `ReadIsFresh` is
inductive: while the version a request names is still the row's, what its handler
read is what the row holds. It holds when the request starts, because the handler
reads the row at that moment, and it stays true because the version named is at
most the row's (`Foresight = 0`) and every other write raises the row's above it,
for good. That the version counts
the entries needs none of this: every transaction raises both by one. From freshness
and legality together, `StepOperates` says what one step can do to one
row: nothing, or one of four operations (`Operates`), each with its audit entry. The
action properties, the trail, the refinement and what the page takes for granted
(`OperatesOnThePage`) are then facts about those four operations.

*Requests.* `ShownInv` says of a request with a write behind it what its answer will
find, `LinksInv` that a request has looked up what it has passed the lookup of.
Neither needs the lock: rows never become absent again.

*Overtaking.* `AllStillSo`: what a request has found out is still so, except about
the records it was overtaken on. The parties looked up so far are in order, the
manifest looked up can be checked, the row to be deleted is there with the status
read. A step of another request either leaves those records alone or puts them
into `overtaken` (`UnmovedIsSo`); a step of the request itself adds what it looks up
(`FindIsSo`). The expiry dates of parties are compared with the time the request
started, because the clock goes on between the lookup and the commit. None of this
needs the lock, so the rules at the commit hold for clients that send any version.
That a check whose manifest is gone is stuck, and that every step keeps the promise,
do need it: what a commit writes must follow from the row it meets (`ReadIsFresh`).
That the manifest of a passed check has left `draft` has no excuse to carry, because
having left `draft` is stable: no edge leads back, and an edit or a deletion does not
change a status. So it is enough that the lookup of a passing request found a
manifest under way and that it has left `draft` ever since, overtaken or not.

*Times of audit entries.* The times of the entries of a live record rise in the order
of its writes (`AllRising`), because a request whose version still matches has its
entry stamped after all entries of its record (`AllLater`): an entry inserted since
would have raised the version. Hence the newest by time are the last by order.

*Summary.* An entry has one action and its record one type, so the entries counted
by action, or by type, add up to all entries in the window; there are finitely many
places where an entry may be, since versions are bounded and the version counts the
entries. Between two queries entries are only added, so each count is at most the
next. The sums over the actions and the types are written out, because what a fold
computes needs induction over data.

*Limiter.* `Bounded`: no bucket of a map is ahead of the clock, so what the clean-up
leaves is of the present minute. `Honest`: a Redis counter with the requests still
on their way to it, and a bucket with the requests on their way to its server,
never exceed the number of requests its key made in that minute; each is a bag of
requests that asked, since a request counts once at each place it comes to. So a
count above the limit means that the key asked more than that. `AllAccounted`: the
requests admitted for a key and a minute have taken different counts, each from one
of the counters in use (Redis, and the maps of the servers that fell back) and none
above the limit, and those still to be decided hold others;
there are as many such counts as the property allows (`AccountsCounted`). A counter
never gives a count twice, because it goes back only when nobody can be counted for
its minute any more: a bucket is dropped or restarted after its minute, and Redis
forgets a counter two minutes after it was raised, when no call for it is out
(`Timely`; here the proof rests on the time-outs of go-redis).

*Startup.* A table is untouched or has all of its demo rows (`SeedsComeFirst`),
because they are inserted in one transaction before anybody serves; a server past a
table has seen it so (`PastIsSeeded`), because a count above zero is evidence of all
rows. Every insert that succeeds finds its table untouched and those before it
seeded, which is a step of `SeededTables`; one that fails changes nothing
(`InsertFills`), and users only come through a server that serves (`UsersChange`).
`DeletedStaysDeleted` is no run's property of its own: no step of `SeededTables`
brings a row back, and the theorem states it of `Startup` directly.

*Workbench.* `WorkbenchInv`: everything the page holds and every call carries is a
member of `WasRows`, the triples of code, status and version that were a row once.
Rows only advance, their content changes with their version (`Advance`), so a member
stays one, however late or reordered its answer is. That a move the server does not
know was offered on a row that has changed since, or is one of the two of `Drifted`,
then follows by comparing the graphs: the run `drifted_graph` shows the two,
`RefusalsAreExplained` that there are no others.

*Session.* `SessionInv` says what every call may carry: a restore the session it had
cached and, once answered, the user of its token; a call of a page a user whom the
button was shown to. A tab is loading exactly while it has a restore or a login under
way, and these are the only steps that store a session.

**Only model-checked.** Liveness (`EveryServerServes`, both `LoadingEnds`), which is
out of the prover's reach. Every other property of the passing runs is stated by a
theorem. **Only proved:** `KeepsPromiseUnlessOvertaken` (TLC takes too long to
evaluate it; its abstract half, `OverlappingPromise`, is checked) and
`OnlyDriftIsRefused`, whose violated half is the run `drifted_graph`.

## 5. Not modelled, and why

* Binding, status codes, JSON envelopes, request IDs, security headers, logging:
  per-request text without shared state.
* Free-text fields and their trimming and upper-casing; unique permit and license
  numbers (a collision ends the request without a write, which is `Abandon`).
* Actors of audit entries, and with them `UniqueActors` of the summary; `ListAudits`
  and `List` as pages with totals (the page and the total are two queries, and
  nothing relates them); `Overview` and `CountByStatus`, which count each table once;
  `Health`.
* The page control of the front end, its search text, page size and order, the
  total and the error text. After a write the store loads page 1 with 20 rows
  whatever the control says; nothing in the repository says what the control should
  show then, so there is no property to state.
* `RequireRoles`, which the deletion routes use: the front end offers no deletion, and
  any client with the role may call the routes, which is what `Compliance` assumes of
  every operation. Passwords and their hashes, changes of roles, forged tokens.
* Configuration: values read once and validated before anything starts. They are the
  constants of the modules; parsing and validating are sequential code over strings.
* The migration, health checks, the proxy, the validation script, the views.

Two things the code does that no property covers, because no text of the repository
says otherwise: an operator may edit the license of a verified carrier (or the
permit of an active generator) and its status stays; and after a version conflict
the dialog of the front end stays open with the version that was refused.

## 6. Plan

Done: the server (`Compliance`, `AuditQueries`, `RateLimiter`, `Startup`), the front
end (`Workbench`, `Session`), their runs, and theorems for each of them.

Left, should the code give them something to promise:

* the page control and the total of a list, if they come to be related;
* `Overview`, if its counts come to be compared with each other.

## 7. Running

    tlasany Compliance.tla
    tlc -workers 2 -config MCOverlapManifest.cfg MCOvertaking
    tlc -workers 2 -config MCOverlapCheck.cfg MCOvertaking
    tlc -workers 2 -config MCLateDelete.cfg MCCompliance
    tlc -workers 2 -config MCRateLimiter.cfg MCRateLimiter
    tlc -workers 2 -config MCOverlapPermit.cfg MCAuditQueries
    tlc -workers 2 -config MCStartup.cfg MCStartup
    tlc -workers 2 -config MCWorkbench.cfg MCWorkbench
    tlc -workers 2 -config MCSession.cfg MCSession
    tlapm ComplianceProofs.tla
    tlapm RateLimiterProofs.tla

and so on for the other configurations (`MCCompliance` is the module of
`MCLateDispatch`, `MCLatePass` and `MCPipelined`, `MCWorkbench` of `MCDriftedGraph`) and the other modules of theorems. The longest runs take two to three
minutes with two workers.

`PROJECT.json` lists the runs with their properties, the lines of the source that
each definition translates, the hazards of the code and the properties that cover
them, and the findings.
