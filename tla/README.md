# The Nextstep dashboard backend in TLA+

The backend queues reports, executes them against each customer's JavaWS server
(a SOAP endpoint in front of PostgreSQL), keeps their snapshots, and sends
scheduled ones as LINE messages. All state is in one PostgreSQL database; the
API process and any number of worker processes meet only there. What can go
wrong is therefore mostly what can go wrong between transactions: rows claimed
under leases by goroutines that may stall, statements of a READ COMMITTED
transaction that see different data, requests whose outcome nobody knows.

This directory holds models of the two pipelines that do the work, of the
configuration they work from, of what viewers are shown of their results and of
the chunked execution of heavy reports; the TLC instances that check them; and
TLAPS proofs about them.

| File | What it is |
| --- | --- |
| `SmlCircuit.tla` | the circuit breakers as values and operators |
| `ReportRuns.tla` | report queue, worker lanes, breakers, occurrences, generations |
| `RunLifeCycle.tla` | what a run is promised; the abstract specification of `ReportRuns` |
| `ReportRunsProofs.tla` | types, mutual exclusion and abandoned queries in `ReportRuns` |
| `LifeCycleProofs.tla` | occurrences, attempts, heads, and the refinement of `RunLifeCycle` |
| `LineDelivery.tla` | notification preparation and LINE delivery |
| `Announcement.tla` | what an occurrence promises its recipients; the abstract specification of `LineDelivery` |
| `LineDeliveryProofs.tla` | its safety properties and the refinement of `Announcement` |
| `Calendar.tla` | occurrences of a plan and periods of a preset, as operators |
| `Directory.tla` | stores, connections, recipients, invitations |
| `Schedules.tla` | schedules and their occurrences; extends `Directory` |
| `Administration.tla` | the two composed: requests, workers and the clock |
| `CalendarProofs.tla` | the next occurrence of a plan |
| `AdministrationTypes.tla` | type correctness of `Administration`, and the kinds of its steps |
| `AdministrationProofs.tla` | its safety properties |
| `Snapshots.tla` | stored results, revalidation, refreshes, detail rows, links, retention |
| `SnapshotsProofs.tla` | its safety properties |
| `Chunks.tla` | the chunked execution of a heavy report |
| `ChunksProofs.tla` | its safety properties; sums, ranking and cutting for inputs of any size |
| `MC*.tla`, `*.cfg` | instances for TLC |
| `PROJECT.json` | components, runs, mutants, source map, findings, hazards, theorems |

## 1. Inventory

### Report queue and worker lanes
`internal/database/report_store.go`, `internal/worker/report_worker.go`,
`internal/sml/client.go`, `cmd/worker/main.go`

* *State*: `report_runs` (status, `claimed_by`, `lease_expires_at`, `attempt`,
  `queued_at`, progress), one row per execution; each lane's position in
  `ProcessOne` and its copy of the run.
* *Operations*: `Enqueue`, `Cancel`, `Claim`, `MarkRunning`, `UpdateProgress`,
  `ExtendLease` (every minute beside the execution, for three), `Retry`,
  `RetryPreRequestFailure`, `FailPreRequestFailure`, `FailRemoteUnknown`, `Fail`,
  `Complete`, `RecoverExpiredLeases` (a loop of its own); `TenantStore.Archive`,
  which withdraws what is queued.
* *Interactions*: every end of a run updates, in the same transaction, its
  breaker, its occurrence and the generations it is linked to; `Cancel` and
  `TenantStore.Archive` only end the runs.
* *Hard*: all lanes of a process share `claimed_by`, and a restarted container
  has the same one; a lane can stall past its lease; `Claim` reads limits before
  it takes its row; a timed out query may still run at the customer.
* *Correct when*: a run has one executor, a tenant one query, a run a bounded
  number of executions; an ended run stays ended; an accepted run ends; a query
  with an unknown outcome is never repeated.

### Circuit breakers
`report_store.go`: `tenant_sml_circuits`, `sml_host_circuits`

* *State*: a failure count with its window and `open_until`, per tenant and host.
* *Operations*: count, open for an unknown outcome, reset, refuse, reserve a probe.
* *Correct when*: no query is sent while one may still run, and a closed store
  opens again.

### Dashboard generations
`internal/database/dashboard_generation.go`, `generation_snapshot_store.go`,
`ReportStore.CreateDashboardRefresh`

* *State*: generations, their links to runs, and the head per request.
* *Operations*: create (coalescing with pending runs), recount after each run,
  publish, read.
* *Hard*: a run belongs to several generations and to background refreshes.
* *Correct when*: the head is a complete generation; a building one has work.

### Schedule execution and management
`schedule_execution_store.go`, `schedule_store.go`, `internal/schedule/`

* *State*: schedules (status, version, `next_run_at`), occurrences
  (`notification_runs`), their runs.
* *Operations*: `MaterializeDue`, `MaterializeTest`, create, update, pause,
  resume, catch-up.
* *Hard*: an activation computes `next_run_at` before its transaction, under a
  version it does not check; revocation, permission changes and the archive of
  the store take away what a schedule needs; a scheduler that was down catches up.
* *Correct when*: an occurrence has all its runs or has failed, is materialized
  once and none is skipped; an ACTIVE schedule can be served.

### Stores, connections, recipients
`tenant_store.go`, `sml_store.go`, `recipient_store.go`, `recipient/service.go`

* *State*: tenants, connections with their test result, LINE identities,
  memberships with permissions, invitations. All but identities have versions.
* *Operations*: create, update, archive; replace and test a connection; invite,
  reissue, permit, revoke; redeem (bind a new LINE user or merge into a known one).
* *Hard*: an identity is shared by stores; a request reads its clock, or a
  connection, before it waits for a lock or a remote server.
* *Correct when*: a bound identity stays usable, an open link belongs to a
  recipient who is waiting, and what somebody read under a version stands with it.

### Notification preparation
`internal/notification/worker.go`, `notification_store.go`

* *State*: the claim columns of `notification_runs`; the notifier's loaded copy.
* *Operations*: `Claim`, `Defer`, `Fail`, `Publish`.
* *Hard*: eligibility and the run may change between load and publication.

### LINE delivery
`internal/delivery/worker.go`, `delivery_store.go`, `internal/line/messaging.go`

* *State*: `line_deliveries` with its outbox row, `line_monthly_quota`; what LINE
  has accepted.
* *Operations*: `Claim`, `Push`, `Accept`, `Retry`, `Fail`, and the count that
  ends the notification run.
* *Hard*: pushes with unknown outcome, several lanes on one delivery, counts
  over rows that others are changing.
* *Correct when*: a message arrives at most once, what is recorded as accepted
  did arrive, the counter is right, and the run ends with its last delivery.

### Snapshots, revalidation and retention
`snapshot_store.go`, `viewer/report_service.go`, `refresh_policy_store.go`,
`generation_snapshot_store.go`, `retention_store.go`

* *State*: dashboards and rows of succeeded runs, the refresh policy, links.
* *Operations*: look up, revalidate, refresh an overview, ask for rows, follow a
  link, expire.
* *Hard*: the connection or the policy changes between the reads of a request,
  the creation of its run, its execution and the reader; many viewers ask at once;
  retention works table by table, each by its own age.
* *Correct when*: what is shown was read from the present connection, whoever was
  told to wait finds a result, and nothing promised is deleted early.

### Chunks of heavy reports
`heavy_chunk.go`, `report_chunk_store.go`, `ReportWorker.executeChunked`

* *State*: the manifest and results in the worker's memory, `report_run_chunks`,
  the progress columns.
* *Hard*: the books change between queries; a retry cuts other chunks; the
  optional comparison fails for some chunks.
* *Correct when*: the merge equals one reading, and progress counts the chunks on
  record.

### Not modelled
* *Quota synchronisation* is one upsert per tick that takes the greater of two
  counters; nothing reads it back.
* *Sessions, login and its lockout* are checks of one row against a clock and
  share no state with the rest; lapsed ones are deleted by retention.
* *Heartbeats and the operations dashboard* only observe.
* *The HTTP layer, report SQL and layout, LINE rendering, the JavaWS protocol*
  are translation without state; the models take their outcomes.
* *Migrations, configuration, deployment* run once, before anything modelled.

## 2. Plan

Done: the queue (`SmlCircuit`, `ReportRuns`) and its implementation of the
abstract life cycle (`RunLifeCycle`); delivery (`LineDelivery`)
and its implementation of what an occurrence promises (`Announcement`); administration
(`Calendar`, `Directory`, `Schedules`, `Administration`); `Snapshots`; `Chunks`. Of
all of them every safety property that a passing run checks is also proved.

Worth doing next: `Enqueue`'s count and insert as two steps with the circuit row
as an optional lock; poison occurrences; an expired snapshot with queued siblings,
which needs `ReportRuns` and `LineDelivery` in one model.

## 3. The report queue: `ReportRuns`

### State
`status`, `owner`, `lease`, `attempt`, `due` are the columns of `report_runs`.
`pc`, `job`, `seen`, `result` are a lane's program counter and locals: `seen` is
`run.Attempt` as the lane read it, which the retry decisions use instead of the
row. `orphan[t]` says that a query may run on the server of `t` with nobody
waiting; `executions` is a history variable. `occurrence` and the three
generation variables are the rows that runs report to; `archived` are the tenants
whose `archived_at` is set.

### Actions
An action is a transaction, or a stretch of code between two. Two transactions
are split because their statements see different snapshots and another commit
between them matters:

* `Claim` is `Select` (the admission query, which locks the row) followed by
  `ClaimRun` or, when `report_runs_one_active_per_tenant_idx` refuses the
  update, `ClaimRefused`. A row locked by `Select` is skipped by other claims,
  and `Cancel` and sibling cancellation wait for it.
* `CreateDashboardRefresh` is `BeginRefresh` (its reads) and `CommitRefresh`.

Everything a handler changes is in its action. `FailRuns` is the shared tail of
the failing writes: run, occurrence, siblings and generations at once.
`ProcessOne` is `MarkRunning`, `Prepare`, `Send`, `Answer`, one of the final
writes, and `LoseLease` whenever `keepLease` finds its run gone. All queries of
a plan, and the chunks of a heavy report, are folded into the one state
`querying`.

`ArchiveTenant` is what `TenantStore.Archive` does here: it withdraws every queued
run of the tenant and pauses its schedules, and touches neither occurrences nor
generations. The notifier finds the incomplete set later and fails the occurrence
(the "expired" of `LineDelivery`). Requests have no guard on `archived`, because
they read the tenant's status without a lock before they insert, nor have claims,
which do not read it. Permissions of requests are always in order. So an
occurrence that is still collecting may have lost reports to the archive of its
store, and to nothing else (`CollectingOccurrenceIsIntact`).

### Abstractions of time
* A lease is none, live or lapsed. It lapses freely when the lane that works on
  the run is gone, and as a counted fault otherwise (a lane or its `keepLease`
  stood still for two minutes).
* A breaker's `open_until` is null, ahead or past. Whether a failure falls into
  the window of the last is free (`continues`).
* `CooldownEnds` assumes that ten minutes outlast a query left behind and a
  stalled lane that is about to send one. `NoQueryDuringUncertainty` depends on
  this assumption, which is the code's own.
* Aged priority is left out except that scheduled runs go first.

### Runs

| Run | Instance | What it shows |
| --- | --- | --- |
| `workers` | 1 store that may be archived, a schedule of 2 reports, a heavy interactive run, 2 lanes of 1 process, 1 fault | the lease properties, the occurrence properties and the action properties hold, and `RunLifeCycle` is implemented |
| `generations` | 1 store that may be archived, 1 lane, 2 generations and a background refresh over 2 keys, 1 fault | heads are complete; one lane respects the uncertainty cooldown |
| `settles` | 1 interactive and 1 scheduled run of a store that may be archived, 2 lanes, 1 fault, fairness | every queued run ends |
| `uncertainty_race` | 1 store, 2 lanes | violated: a claim slips past the opening breaker |
| `readmission` | 1 store, 1 run, fairness | violated: the probe after a cooldown cannot be reserved |
| `stuck_generation` | 1 generation of 2 runs | violated: a cancelled run leaves its generation building |

*Bounds.* Two lanes are needed for every race on a row. Two lanes of one process are the harder
case, because the guard on `claimed_by` does not separate them. Three runs let
two lanes be in one occurrence while a third competes; 1 fault at any step
produces a crash, a stalled lane with a new owner, or an abandoned run. Attempts
stay below four by the code's own limits, plus one per fault. `MaxFaults`,
`archivable` (the tenants an administrator may archive) and the sets in the `.cfg`
files are the only bounds; the three violated runs archive nothing, so that their
traces show the finding alone. Permutations of the two lanes of the process and of
the two reports of the occurrence are a symmetry of `workers`, which has no
liveness property. Deadlock checking is off because the system stops when all its
runs have ended.

*Fairness.* Lanes loop over `ProcessOne`; their queries and statements have
timeouts, so each lane's next step is weakly fair, and so are selection, the
recovery loop, the schedule loop and the passing of time. Requests,
cancellations, the archive and faults are not. Nothing is assumed of which run is selected.

### Refinement: `RunLifeCycle`
`RunLifeCycle` says what whoever asked for a run may rely on: it waits, executes
at most so often, ends once, is withdrawn only while it waits, and takes the rest
of its occurrence with it when it fails. A run that is part of an occurrence is
withdrawn by nobody's wish; only when its store closes (`Close`) does what waits go,
parts of an occurrence included. It knows no lanes, leases, breakers or
recovery. The mapping (`PromisedState`, `LifeCycleKept`) takes a run to its
status, with `CLAIMED` still waiting, `executions` to `starts` and `archived` to
`closed`; claims,
extensions, a recovered claim and everything about breakers and generations are
stuttering steps. `LifeCycleKept` is a property of `workers` and a theorem.

### Findings
1. *Uncertainty race* (`report_store.go:361`). `Claim` can read the closed
   breaker, wait while another run of the tenant ends with an unknown outcome,
   and then take its row: the index no longer objects.
2. *Readmission* (`report_store.go:255`). After a cooldown `Enqueue` reserves a
   probe with `open_until > now` although it is there because
   `open_until <= now`; interactive reports stay refused until a scheduled or
   background run of the store succeeds.
3. *Stuck generation* (`report_store.go:333`). `Cancel` does not recount the
   generations of its run, as every write of the worker that ends a run does. One
   that has lost its last pending run keeps one of the tenant's two places. A run
   that ends between the two halves of `CreateDashboardRefresh` has the same
   effect, and so has the archive of the store, where nobody waits any more.

Without a run of their own: a run of an archived store that is claimed or running
when the archive comes goes on, and a retry or the recovery may queue it again
(`tenant_store.go:333`, `report_store.go:361`); and `Claim` counts
the runs of a host and then updates with only its row locked
(`report_store.go:380`), so concurrent claims exceed
`REPORT_HOST_QUERY_CONCURRENCY`; only one-per-tenant has an index.

## 4. Delivery: `LineDelivery`

### State and actions
`occurrence`, `runOwner`, `runLease`, `runDue` are `notification_runs`; `work`,
`found`, `targets` what a notifier has loaded; `status` to `retryKey` a delivery
with its outbox row (which is completed exactly when the delivery is decided, so
`completed_at` is not kept). `known` and `inbox` are LINE: the keys it has
accepted, and the messages in the chat.

The notifier is `ClaimRun` followed by `Defer`, `FailRun` or `Publish`. A lane is
`Claim`, `Push`, and then `Retry`, or `BeginAccept` or `BeginFail` and `Commit`.
These last are split because `finalizeNotificationRun` counts other rows before
its transaction commits: `verdict` is what it counted. Between the halves the
delivery is locked, so claims skip it and writes to it wait; `BeginAccept` also
waits for the quota row that another acceptance holds. The quota row of one
month is modelled.

The reports of an occurrence are an environment here: pending, complete, failed
(which closes the occurrence at once) or expired. Which of them `ReportRuns`
reaches is not yet checked in one model. LINE answers a key it knows with 409
and otherwise may accept, refuse, or take or not take the message and report a
timeout, 429 or 5xx. An inactive tenant or recipient is one more refusal.

The lease tests compare with the clock of the claim, so they never fail for
whoever still owns the row; the model leaves them out. That is why a lane that
lost its delivery to a lane of the same process can still write to it, which
the properties below survive.

### Runs

| Run | Instance | What it shows |
| --- | --- | --- |
| `delivery` | 1 occurrence, 2 recipients, 2 notifiers, 2 lanes of 1 process, 3 attempts, 1 fault | one message per delivery, accepted means received, the counter, the final status and its finality hold, and `Announcement` is implemented |
| `delivery_settles` | the same with 1 process and 1 lane, fairness | every occurrence ends |
| `stranded` | 2 lanes, no fault | violated: two lanes end the last two deliveries and neither ends the run |

*Bounds.* Deliveries of different occurrences share only the counter, so one
occurrence shows the interactions; two recipients are needed for a count over
another's row; three attempts include a first, a middle and a last one; one
fault gives a delivery two lanes, or a run two notifiers. Permutations of the
recipients are a symmetry of the safety run.

*Fairness.* As above; in addition the report runs settle, which is
`EveryRunSettles` of the queue. `delivery_settles` has one dispatcher lane
because with two `stranded` refutes it: the finding
(`delivery_store.go:190`) is that two transactions which end the last two
deliveries, at least one of them a failure, each count the other as still being
sent. The run stays `SENDING`, without `finished_at`, and retention never
deletes it.

### Refinement: `Announcement`
`Announcement` says what an occurrence promises those it addresses and the store
that pays: it is given up, or announced once to an audience; each of them gets at
most one message; how each message ended is recorded once, `ACCEPTED` only if
it arrived, and charged for then; the occurrence may end with the last record, as
the sum of the records. It knows no claims, leases, keys or retries. The
mapping takes a delivery to "due" while it is undecided and to its status
afterwards (`PromisedMessage`), `inbox` to `received` and `locallyAccepted` to
`counted`; claims, lapses, retries, lost answers and counts are stuttering
steps. Two weaknesses of the code are part of the promise because it keeps no
more: a message may arrive although it was recorded as failed (a push under way
when another lane gave it up), and the occurrence may stay open after its last
record (`stranded`). `AnnouncementKept` is a property of `delivery` and a theorem.

## 5. Administration: `Calendar`, `Directory`, `Schedules`, `Administration`

### State and actions
A record per row: `tenant`, `connection`, `identity` (`line_recipients`), `member`
(membership and permissions), `invitation`, `schedule`, `occurrences`. A version
of 0, `ABSENT` or `NONE` is a row that does not exist. `now` counts calendar
slots; a request handled in slot *k* reads a clock within it.

Every store operation is one action; the three that read something before their
transaction are two: the connection test (`StartTest`, `MarkTested`), `Redeem`
(`BeginRedeem` has read the clock and the link), and `Activate` (`BeginActivate`
has computed `next_run_at` from an unlocked read). Schedule changes, permission
changes, revocation and archiving of a store hold its advisory lock, which is why
they are single steps. Refusals and replays of an idempotency key change nothing.
`Administration` composes the actions that cross modules: `ArchiveTenant` changes
directory and schedules in one transaction, `Revoke` and `ReplacePermissions` ask
the schedules first. `Edit` counts requests; `Proceed` is what was begun and what
workers do; `Tick` is the clock.

`Calendar` computes occurrences and periods for any length of day, week and
month, instead of enumerating dates. An occurrence's runs (`work`) and its
preparation are the summary of what `ReportRuns` and `LineDelivery` do.

### Run

| Run | Instance | What it shows |
| --- | --- | --- |
| `administration` | 1 store, 2 recipients, 2 LINE users, 1 schedule with 2 plans, 2 reports, 4 requests, 5 slots | a bound identity stays active; open links have a pending recipient; an ACTIVE schedule is servable; an archived store stays quiet; no occurrence is skipped or repeated; versions stand for what they were read with |

*Bounds.* TLC starts both from the empty database and from `Onboarded`, the
state after a store was set up, so that four requests suffice to revoke, merge,
archive or edit underneath an activation or a redemption. Two recipients and two
LINE users give both ways to redeem and a second claimant of one link; one store
is enough because stores share only identities, and an identity with memberships
of two stores arises only by merging, which acts on each store alone. Days of two
slots and weeks of two days make occurrences of both plans fall before, on and
after each other. `MaxEdits`, `MaxTests`, `LastSlot` and the sets of inputs are
the only bounds. `since` is a history variable: the activation in force, unless
another change overtook it between its two halves, which the two occurrence
properties except and say so.

### Observations
Behaviours the models have, that no document of the repository speaks about:

* A connection test writes its result into whatever version of the row it finds
  (`sml_store.go:127`): a replaced connection may be READY by its predecessor's.
* `Redeem` compares the expiry with a clock it read before it waited
  (`recipient/service.go:398`).
* A merge changes the permissions of the known membership without advancing its
  version (`recipient_store.go:536`); `VersionStandsForContent` is therefore about
  stores and schedules only.
* `MaterializeTest` takes no lock shared with the archive of the store
  (`schedule_execution_store.go:62`), and queued runs of a DISABLED or expired
  store are still executed (`report_store.go:361`).
* Editing a paused schedule changes whom an occurrence in preparation addresses,
  and can make its report periods fail the context check
  (`notification_store.go:189`).

## 6. Snapshots: `Snapshots`

### State and actions
`runs` holds the report runs of one store with what they stored (`dashboard`,
`rows`). `label` is `data_source_version`, fixed at creation; `reads` is the
version the worker really opened. `asking` is a viewer's request between its reads
and its transaction, `awaited` the run it was told to wait for; `occasions` are
notifications with their delivery and link; `promised` is a history variable of
links that reached somebody.

Revalidation and the overview refresh are two steps each (`BeginRevalidate`,
`EnqueueBackground`; `BeginRefresh`, `EnqueueOverview`), so that the connection,
the policy or another viewer's run changes in between. `Open`, `Complete`,
`GiveUp` and `Cancel` are the queue's part; `Publish` and `EndDelivery` the
delivery's. `Retention` is one pass, its statements in the order of the code with
each seeing what the one before has left. `GetExactSnapshot`, `Freshness`,
`ExecutiveOverview`, `ExactOverview`, `ListRows` and `DeliveryContext` are the
readers; they are operators, as they change nothing.

### Run

| Run | Instance | What it shows |
| --- | --- | --- |
| `snapshots` | 1 report, 2 viewers with different presets, 2 runs, 2 requests, 1 change of connection or policy, 4 slots | what is shown was read through the present connection; an awaited result is found by all three lookups; one background query per interval; rows and links last as long as promised |

*Bounds.* On the first day of a month the two presets mean the same dates and on
the next they do not, so viewers share runs and cease to. Two runs give a join, a
replacement and a newer beside an older result; one change falls before, between
or after the steps of a request and of an execution. A day has two slots,
snapshots live three and links two, in the order the code's 24 hours, 90 days
and a year are used: rows go first, then a result, with the link still valid in
between or not. All `Max...` constants and `LastSlot` are bounds; `MaxBackground`
and `MaxDashboard` are limits of the code.

### Observations
* A revalidation whose execution key is held by an overview refresh inserts, hits
  the unique index, finds no background run and is answered with an error instead
  of the run to wait for (`report_store.go:238`).
* A revalidation that repeats an idempotency key under another preset of the same
  dates is answered with a conflict (`report_store.go:91`).
* A request for rows that matches the viewer's own overview refresh of less than
  60 seconds ago is answered with that run, which will have no rows
  (`report_store.go:176`; `openapi.yaml:892` speaks of detail rows).
* A result taken during a day counts as that of a closed period once the day is
  over, and stays FRESH for 24 hours (`snapshot_store.go:257`).

## 7. Chunks: `Chunks`

### State and actions
`books` is the customer's data for the current period, which `ChangeBooks` changes
at any time. The worker's memory (`manifest`, `current`, `compared`, `warning`)
is apart from the tables (`rows`, `progress`, `result` and the run). An attempt is
`Begin`, `QueryManifest`, `PrepareChunks`, and for each chunk `StartChunk`,
`QueryCurrent`, `QueryComparison`, `CompleteChunk`; then `Complete`. When a chunk's
query fails, `FailChunk` records that in a transaction of its own; `Failure` is
the write that ends the attempt, after it or at any other step, with a retry where
the worker allows one; and `Lapse` takes the lease away. `ChunkSize` is the code's
500 or 300 keys, by report. `Query`, `Cut` and `Merge` are the arithmetic, with units as numbers
and one amount and one turnover each; `Selected` is the ranking with its ties.

### Run

| Run | Instance | What it shows |
| --- | --- | --- |
| `chunks` | up to 4 units in chunks of 2, 3 possible figures, both rankings and projections, top 1, 2 attempts, 1 change of the books | the merge is one query over what was read, the comparison covers the current figures, progress counts the chunks on record and is full when a result is stored |

*Bounds.* Every assignment of figures to units is an initial state, so ties,
debts ranked by their absolute amount, and the two rankings choosing different
units all occur; four units in chunks of two give a full, a partial and no chunk;
`TopN = 1` with two units in a chunk makes each chunk cut its rows. One change of
the books lies between any two queries. Two attempts cut different chunks.

*Observation.* The comment at `heavy_chunk.go:18` has a retry continue with the
same boundaries; `PrepareChunks` deletes the manifest and writes a new one, and
the properties hold because nothing of the old attempt is used.

## 8. Proofs

All theorems hold for every value of the constants that satisfies the named
assumptions: the typing of the constants (`None`, which stands for null, is none
of the values it is compared with) and, for `ReportRuns`, that scheduled
runs belong to an occurrence of their own tenant and that execution keys
contain the tenant (`OccurrenceLinks`, `KeysBelongToTenants`). Two theorems
assume one lane besides, and say so.

| Theorem | States | Inductive invariant |
| --- | --- | --- |
| `TypeCorrect` | `ReportRuns` keeps `TypeOK` | `Typed`: `TypeOK` and a lane at work has a run |
| `ExecutorUnique` | `OneExecutorPerRun` | `MutexInv` |
| `TenantExecutorUnique` | `OneLiveExecutorPerTenant` | `MutexInv` |
| `OneLaneNeverAddsAQuery` | `NoQueryDuringUncertainty`, with one lane | `OrphanInv` |
| `OccurrenceFailsWhole` | `FailedOccurrenceHasNoLiveWork` | `IInv` |
| `OccurrenceIntact` | `CollectingOccurrenceIsIntact` | `IInv` |
| `ExecutionsLimited` | `ExecutionsBounded` | `IInv` |
| `HeadComplete` | `HeadIsComplete` | `IInv` |
| `EndIsFinal` | `TerminalIsFinal` | `IInv` |
| `RequeueAfterDefiniteFailure` | `RequeuedOnlyAfterDefiniteFailure` | `IInv` |
| `LifeCycleImplemented` | `LifeCycleKept`: `ReportRuns` implements `RunLifeCycle` | `IInv` |
| `DeliveryTypeCorrect` | `LineDelivery` keeps `TypeOK` | `Typed` |
| `MessageSentOnce` | `NoDuplicateMessage` | `MessageInv` |
| `AcceptanceIsTrue` | `AcceptedWasReceived` | `MessageInv` |
| `SettledInvariance` | `SettledInv` is an invariant | `MessageInv`, `SettledInv` |
| `QuotaIsExact` | `QuotaCountsAccepted` | `SettledInv` |
| `FinalStatusIsTrue` | `FinalStatusAgrees` | `SettledInv` |
| `RunEndsOnce` | `OccurrenceEndsOnce` | `SettledInv` |
| `AnnouncementImplemented` | `AnnouncementKept`: `LineDelivery` implements `Announcement` | `MessageInv`, `SettledInv` |
| `OneLaneStrandsNothing` | `SendingHasWork`, with one lane | `SettledInv`, `OneLaneInv` |
| `NextOccurrenceIsNext` | what `NextOccurrence` computes, for any day and week length | none |
| `AdministrationTyped` | `Administration` keeps `TypeOK` | `Typed` |
| `VersionsStandForContent` | `VersionStandsForContent` | `Typed` |
| `NothingSkipped` | `NoOccurrenceSkipped` | `Typed`, `Catching` |
| `NextIsNew` | `NextOccurrenceIsNew` | `Typed`, `Catching` |
| `BoundIdentitiesStay` | `BoundIdentityStaysActive` | `Typed`, `Consistent` |
| `OpenInvitationsWait` | `OpenInvitationIsPending` | `Typed`, `Consistent` |
| `ActiveSchedulesServable` | `ActiveScheduleIsServable` | `Typed`, `Consistent`, `Sound` |
| `ArchivedStoresQuiet` | `ArchivedTenantStaysQuiet` | `Typed`, `Consistent`, `Sound` |
| `SnapshotInvariance`, `SnapshotTypeCorrect` | `SnapshotInv` is an invariant; `Snapshots` keeps `TypeOK` | `SnapshotInv` |
| `ResultsAreOfCurrentSource` | `SnapshotIsOfCurrentSource` | `SnapshotInv` |
| `RowsStayADay` | `DetailRowsStay` | `SnapshotInv` |
| `RefreshedOncePerInterval` | `OneRefreshPerInterval` | `SnapshotInv`, with the property itself |
| `WaitingIsRewarded` | `AwaitedRunIsServed` | `SnapshotInv` |
| `LinksKeepWorking` | `DeliveredLinkWorks` | `SnapshotInv` |
| `FirstOfTheFirst` | ranking distributes over any cut into chunks | none |
| `ChunkInvariance`, `ChunkTypeCorrect` | `ChunkInv` is an invariant; `Chunks` keeps `TypeOK` | `ChunkInv` |
| `MergeIsOneReading` | `MergedIsOneReading` | `ChunkInv` |
| `ComparisonIsComplete` | `ComparisonIsWhole` | `ChunkInv` |
| `ProgressIsExact` | `ProgressIsTrue` | `ChunkInv` |

*Mutual exclusion.* `OneExecutorPerRun` is not inductive: nothing in it prevents
a lane from marking a run that another one executes. `MutexInv` adds the reason.
A run that some lane has selected is still queued and selected by that lane
only; a run that a lane executes is RUNNING, or was failed by the recovery, so
it waits for no other lane; and a tenant has one active run. A lane
starts to execute only from `CLAIMED`, recovery re-queues only `CLAIMED` runs,
and only the executor re-queues a `RUNNING` one and goes idle in the same step.
The proof goes by the actions: what the rows may do while no lane moves
(`RowsMove`), what the lanes may do while no row moves (`LanesMove`), and the
steps of a lane that do both.

*Abandoned queries.* `OrphanInv` adds to `MutexInv` where a query left behind can
come from and what keeps others away. While there is one, the tenant's breaker is
open, or the run that sent it is still RUNNING, so that the tenant is busy
(`OrphanGuarded`): either way `Select` refuses the tenant. A lane that goes on after
the recovery failed its run does so behind an open breaker (`LostIsBlocked`), and a
lane at work finds no such query unless it has just left one (`LaneIsClean`), which
is why the breaker that `Complete` closes guards nothing. The last
conjunct is what a second lane breaks, between its `Select` and its `ClaimRun`: run
`uncertainty_race`. The theorem rests on the assumption about ten minutes that
`CooldownEnds` states.

*The life cycle.* `LifeCycleProofs` starts from `MutexInv` and does not go through
the actions again for each property. `StepMoves` shows once that every step is one
of nine *moves* (rows are inserted, one is cancelled, claimed, started, re-queued or
completed, a set of them fails with their siblings, those of a store are withdrawn
by its archive, or none of this), each saying
what happens to statuses, attempts, executions and occurrences; `DashMove` says
the same of generations. The invariants are then shown of the moves. `OccurrenceInv` says which statuses an occurrence allows
its runs: the siblings of a failing run are not RUNNING, because a tenant has one
active run, so cancelling the queued ones closes the occurrence. A cancelled report
of an occurrence that has not failed belongs to an archived store. `ExecutionInv`
relates `executions` to `attempt`, and needs from `MutexInv` that a lane's copy
`seen` is the row's attempt while it holds the run. `HeadInv` says that a published
generation has only succeeded runs, which are final. The refinement shows that
each move is a step of `RunLifeCycle` or a stutter under the mapping.

*At most once.* `MessageInv` says that a collecting run has published nothing,
that an unpublished delivery is unknown to LINE and to every lane, that LINE
knows a delivery by its stored key alone and has put one message in the chat if
it knows it, and that a lane holding the answer "accepted" is right. The first
two conjuncts are needed for `Publish`, which draws a fresh key and would
otherwise replace one that LINE knows.

*How a run ends.* `FinalStatusAgrees` is about a decision taken on counts that others
make stale. `SettledInv` says how stale: a finishing lane holds the row of a
delivery still undecided, alone, so what it found decided stays decided, and its
verdict is the present one or "open" (`VerdictIsTrue`). A verdict that ends the run
is therefore right when it commits. That the other kind of staleness exists is the finding
of `stranded`; with one lane there is none (`OneLaneInv`: the verdict is always the
present one), so a run in SENDING has work. The counter equals the number of
accepted deliveries because the same lock makes each acceptance the first.

*What an occurrence promises.* `AnnouncementImplemented` maps four steps of the
code to a step of `Announcement` (`FailurePromised`, `PublishPromised`,
`PushPromised`, `CommitPromised`) and the rest to stutters. A push that LINE
takes finds the chat empty by `MessageInv`; the
commit of an acceptance or failure records a delivery that was due by
`SettledInv`, and the status that ends the run is the sum of the records because
`VerdictIsTrue` makes the verdict that of the moment.

*Administration.* `AdministrationTypes` shows that each action keeps the types,
strengthened by what they rest on (an unused invitation has a store, an existing
schedule a plan, an ACTIVE one a next occurrence), and that every step is one of
six kinds as far as schedules are concerned (`ScheduleStep`): shelved, half of an
activation, activated, materialized, archived with the store, or unaffected.

`CalendarProofs` shows that a week and a day after a slot contain an allowed one, so
that `NextOccurrence`'s CHOOSE has a least element to choose. `Catching` is what
makes the catching up of schedules inductive. All of a schedule's slots are past;
an activation under way whose version is still the stored one carries the
plan's next occurrence, and while the schedule rests nothing is younger
than it; so the schedule starts, when that activation commits, with nothing
allowed between, and every `MaterializeDue` fills exactly the slot it moves on from.

`Consistent` says of a recipient: an identity that was never invited has no
membership; a pending one is a member of the store that invited it only; one with
an unused invitation is pending or revoked. The second conjunct is what saves an
open invitation of another store when a member is revoked or a store archived; the
third is why a redemption never merges away a bound identity. `Sound` adds
schedules: who serves an ACTIVE schedule loses nothing, because permission
changes ask `NotNeeded` first, archiving pauses the store's schedules in the same
transaction, and an activation checks readiness again when it commits.

*Snapshots.* `SnapshotInv` says of a run that it was created under a version the
connection has had and reads one at least as new (`RunsAreTrue`), so a result whose
label is the present version was read through it; that it has its figures and rows for as long as
they are promised; that a key belongs to a version no newer than the label. Of a viewer,
that he asks, and waits for a run created, under no newer version than he
believes (`AskedTrue`, `AwaitedTrue`). Of notifications, that the run behind one
exists and has succeeded before anything is delivered (`OccasionsTrue`), and that
retention has taken nothing behind a valid link (`PromisesKept`): its
statements go by different ages, and the proof follows the pass in their order.
For `AwaitedRunIsServed` the lookups choose a latest result; `LatestExists` shows that a
finite table has one, and that the awaited run is among the candidates it is chosen
from, or something newer is. `OneRefreshPerInterval` is inductive beside it:
a background run is inserted only where the table has none of its key and bucket.

*Chunks.* `ChunkInv` follows the worker: the manifest is a partition of the units into
intervals (`Boundaries`), what the memory holds of each chunk is what was read of its
units, and the checkpoints and counters say how far it has come. `Complete` then needs
three facts of arithmetic, for sets of any size. `CutIsPartition`: `Cut` gives
disjoint intervals that cover the keys. `MergeAppend`, `SumOfUnion`: sums and counts of disjoint
chunks add up. `FirstOfTheFirst`: the first rows among the first rows of the chunks
are the first of the whole; a row that is cut from its chunk has *N* better ones there,
and they are better in the whole as well. Sums over sets are defined
by recursion, and the library's induction theorems, which take an operator as a parameter, are of no use here.
`ChunksProofs` proves induction over numbers and over subsets from the well-foundedness of the
naturals, with a set of counterexamples instead of a predicate
(`NumberInduction`, `SubsetInduction`), and shows that a sum is the one
function that satisfies its recursion (`TallyUnique`).
`QueryManifest` names the ascending sequence of the units by its property, not by a
sorting operator, so that the proof can use it.

*Only model-checked*: liveness (`EveryRunSettles`, `EveryOccurrenceEnds`), which
is beyond the prover. The four properties of the violated runs are false.

## 9. What the models leave out

* `Enqueue` counts pending runs and inserts in one step; in the code only the
  tenant's circuit row, which may not exist, serialises two of them.
* PostgreSQL may abort one of two transactions that wait for each other; here
  that is a refused claim or an abandoned run.
* A gateway's 502 or 504 is retried as an answer; the model lets no query
  outlive an HTTP answer.
* An occurrence whose work cannot be loaded, and a message too large to
  publish, are retried forever by the code; here errors of the notifier are
  bounded faults.
* With `GENERATION_CACHE_ENABLED` off, refreshes use an older table; the models
  describe the generation path.
* Deleted rows other than those of `Snapshots`: nothing modelled reads an old
  audit record, session, nonce, idempotency key or generation. Idempotency keys of
  the administrator's requests are replays, which change nothing.
* `Snapshots` does not distinguish requests that a permission, a breaker or the
  guard before a schedule refuses; all of them change nothing.
* Host names, periods, payloads, access links, audit records and progress
  details are data that no property here looks at.

## 10. Running

    tlc -workers 2 -config workers.cfg MCReportRuns.tla
    tlc -workers 2 -config delivery.cfg MCLineDelivery.tla
    tlc -workers 2 -config administration.cfg MCAdministration.tla
    tlc -workers 2 -config snapshots.cfg MCSnapshots.tla
    tlc -workers 2 -config chunks.cfg MCChunks.tla
    tlapm ReportRunsProofs.tla
    tlapm LifeCycleProofs.tla
    tlapm LineDeliveryProofs.tla
    tlapm CalendarProofs.tla
    tlapm AdministrationTypes.tla
    tlapm AdministrationProofs.tla
    tlapm SnapshotsProofs.tla
    tlapm ChunksProofs.tla

Each passing run takes from a few seconds to about three minutes. The definitions
commented as mutations are not used by the specifications: replacing the named
definition by one of them makes the property that `PROJECT.json` lists with it
fail.
