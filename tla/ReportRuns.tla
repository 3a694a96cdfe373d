----------------------------- MODULE ReportRuns -----------------------------
(***************************************************************************)
(* The table report_runs and the worker lanes that empty it.               *)
(*                                                                         *)
(* A run is queued by a dashboard request, a background refresh, an        *)
(* overview refresh (a "generation" of summary runs) or a schedule, is     *)
(* claimed under a lease by a lane of a worker process, queries the        *)
(* tenant's JavaWS server, and ends SUCCEEDED, FAILED or CANCELLED.  Every *)
(* database transaction of the Go code is one action, except Claim, whose  *)
(* admission query and update are two statements of a READ COMMITTED       *)
(* transaction: another transaction may commit between them, with only the *)
(* selected row locked.  CreateDashboardRefresh is split for the same      *)
(* reason.                                                                 *)
(*                                                                         *)
(* Time is abstracted: a lease is live or lapsed, a retry is due or not, a *)
(* schedule is far, soon or due.  The environment actions at the end move  *)
(* these; what they assume of the clock is stated there.                   *)
(***************************************************************************)
EXTENDS SmlCircuit, FiniteSets

CONSTANTS
    Tenant, Host, Run, Proc, Lane, Occurrence, Generation, ExecutionKey,
    None,               \* stands for null
    hostOf,             \* [Tenant -> Host]: endpoint_host_key of the connection
    tenantOf,           \* [Run -> Tenant]
    source,             \* [Run -> Source]
    heavy,              \* runs of stock_balance and ar_customer_movement
    executionKeyOf,     \* [Run -> ExecutionKey \cup {None}], None: never coalesced
    occurrenceOf,       \* [Run -> Occurrence \cup {None}]
    occurrenceTenant,   \* [Occurrence -> Tenant]
    request,            \* [Generation -> SUBSET ExecutionKey]: its generation_key
    generationTenant,   \* [Generation -> Tenant]
    procOf,             \* [Lane -> Proc]: lanes of a process share its worker id
    archivable,         \* bound: the tenants an administrator may archive
    GlobalLimit,        \* REPORT_GLOBAL_QUERY_CONCURRENCY
    HostLimit,          \* REPORT_HOST_QUERY_CONCURRENCY
    MaxFaults           \* bound on crashes, abandoned runs and stalled lanes

Source == {"DASHBOARD", "BACKGROUND", "SCHEDULE"}

ASSUME ConstantsTyped ==
    /\ hostOf \in [Tenant -> Host]
    /\ tenantOf \in [Run -> Tenant]
    /\ source \in [Run -> Source]
    /\ heavy \subseteq Run
    /\ executionKeyOf \in [Run -> ExecutionKey \cup {None}]
    /\ occurrenceOf \in [Run -> Occurrence \cup {None}]
    /\ occurrenceTenant \in [Occurrence -> Tenant]
    /\ request \in [Generation -> (SUBSET ExecutionKey) \ {{}}]
    /\ generationTenant \in [Generation -> Tenant]
    /\ procOf \in [Lane -> Proc]
    /\ archivable \subseteq Tenant
    /\ None \notin Run \cup Proc \cup Occurrence \cup Generation \cup ExecutionKey
    /\ GlobalLimit \in Nat /\ HostLimit \in Nat /\ MaxFaults \in Nat

\* Exactly the scheduled runs belong to an occurrence, and to one of their own
\* tenant; scheduled runs are never coalesced.
ASSUME OccurrenceLinks ==
    \A r \in Run :
        /\ source[r] = "SCHEDULE" <=> occurrenceOf[r] # None
        /\ source[r] = "SCHEDULE" => /\ occurrenceTenant[occurrenceOf[r]] = tenantOf[r]
                                     /\ executionKeyOf[r] = None

\* snapshotExecutionKey contains the tenant; a background refresh always has one.
ASSUME KeysBelongToTenants ==
    \A r \in Run :
        /\ source[r] = "BACKGROUND" => executionKeyOf[r] # None
        /\ \A g \in Generation :
              executionKeyOf[r] \in request[g] => tenantOf[r] = generationTenant[g]

-----------------------------------------------------------------------------
VARIABLES
    status,       \* report_runs.status, "absent" before the row exists
    owner,        \* claimed_by
    lease,        \* lease_expires_at: "none", "live" (not passed) or "lapsed"
    attempt,      \* attempt
    due,          \* queued_at <= now
    executions,   \* history: how often the run was marked RUNNING
    pc,           \* where a lane stands in ProcessOne
    job,          \* the run a lane has selected or claimed
    seen,         \* run.Attempt as the lane read it when it claimed
    result,       \* how the lane's execution ended
    circuit,      \* tenant_sml_circuits
    hostCircuit,  \* sml_host_circuits
    orphan,       \* a query of the tenant may still run with nobody waiting for it
    occurrence,   \* notification_runs.status, or how far off the occurrence is
    generation,   \* dashboard_generations.status
    links,        \* dashboard_generation_reports
    head,         \* dashboard_generation_heads
    archived,     \* tenants with archived_at set
    faults        \* faults injected so far

rowVars  == <<status, owner, lease, attempt, due, executions>>
laneVars == <<pc, job, seen, result>>
smlVars  == <<circuit, hostCircuit, orphan>>
dashVars == <<generation, links, head>>
vars     == <<rowVars, laneVars, smlVars, occurrence, dashVars, archived, faults>>

Active   == {"CLAIMED", "RUNNING"}
Pending  == {"QUEUED"} \cup Active
Terminal == {"SUCCEEDED", "FAILED", "CANCELLED"}
Status   == {"absent"} \cup Pending \cup Terminal

\* pc: "selected" is inside the Claim transaction; "running" to "querying" is
\* inside execute, with keepLease beating beside it; "deciding" is after it.
InExecute == {"running", "sending", "querying"}
Executing == InExecute \cup {"deciding"}
LanePc    == {"idle", "selected", "claimed"} \cup Executing

\* executionFailure, by what ProcessOne does with it: RemoteStateUnknown,
\* PreRequestFailure, retryable (HTTP 5xx, 429, a failed progress write),
\* retryable and counted against the tenant (SML_CONNECTION_LOAD_FAILED), or
\* permanent.
Failure == {"unknown", "unsent", "retryable", "unloaded", "rejected"}
Result  == {"none", "answered"} \cup Failure

Upcoming        == {"far", "soon", "due"}
OccurrenceState == Upcoming \cup {"COLLECTING", "FAILED"}
GenerationState == {"none", "drafting", "BUILDING", "PUBLISHED", "FAILED"}

maximumReportAttempts == 3
DashboardQueueLimit   == 2
BackgroundQueueLimit  == 10
BuildingLimit         == 2

TypeOK ==
    /\ status \in [Run -> Status]
    /\ owner \in [Run -> Proc \cup {None}]
    /\ lease \in [Run -> {"none", "live", "lapsed"}]
    /\ attempt \in [Run -> Nat]
    /\ due \in [Run -> BOOLEAN]
    /\ executions \in [Run -> Nat]
    /\ pc \in [Lane -> LanePc]
    /\ job \in [Lane -> Run \cup {None}]
    /\ seen \in [Lane -> Nat]
    /\ result \in [Lane -> Result]
    /\ circuit \in [Tenant -> Circuit]
    /\ hostCircuit \in [Host -> Circuit]
    /\ orphan \in [Tenant -> BOOLEAN]
    /\ occurrence \in [Occurrence -> OccurrenceState]
    /\ generation \in [Generation -> GenerationState]
    /\ links \in [Generation -> SUBSET Run]
    /\ head \in [SUBSET ExecutionKey -> Generation \cup {None}]
    /\ archived \subseteq Tenant
    /\ faults \in Nat

Init ==
    /\ status = [r \in Run |-> "absent"]
    /\ owner = [r \in Run |-> None]
    /\ lease = [r \in Run |-> "none"]
    /\ attempt = [r \in Run |-> 0]
    /\ due = [r \in Run |-> FALSE]
    /\ executions = [r \in Run |-> 0]
    /\ pc = [l \in Lane |-> "idle"]
    /\ job = [l \in Lane |-> None]
    /\ seen = [l \in Lane |-> 0]
    /\ result = [l \in Lane |-> "none"]
    /\ circuit = [t \in Tenant |-> Closed]
    /\ hostCircuit = [h \in Host |-> Closed]
    /\ orphan = [t \in Tenant |-> FALSE]
    /\ occurrence = [o \in Occurrence |-> "far"]
    /\ generation = [g \in Generation |-> "none"]
    /\ links = [g \in Generation |-> {}]
    /\ head = [k \in SUBSET ExecutionKey |-> None]
    /\ archived = {}
    /\ faults = 0

-----------------------------------------------------------------------------
(* Queries on the table. *)

ActiveRuns    == {r \in Run : status[r] \in Active}
TenantBusy(r) == \E a \in ActiveRuns : tenantOf[a] = tenantOf[r]
HostRun(r)    == hostOf[tenantOf[r]]
Locked(r)     == \E l \in Lane : pc[l] = "selected" /\ job[l] = r
PendingOn(k)  == {r \in Run : executionKeyOf[r] = k /\ status[r] \in Pending}

\* Mutation of Holds: the write is guarded by claimed_by alone.
HoldsByOwner(l, states) == owner[job[l]] = procOf[l]

\* The guard of every write a lane makes to its run: claimed_by, status and
\* lease_expires_at >= now.
Holds(l, states) ==
    /\ owner[job[l]] = procOf[l]
    /\ status[job[l]] \in states
    /\ lease[job[l]] = "live"

Idle(l) ==
    /\ pc' = [pc EXCEPT ![l] = "idle"]
    /\ job' = [job EXCEPT ![l] = None]
    /\ seen' = [seen EXCEPT ![l] = 0]
    /\ result' = [result EXCEPT ![l] = "none"]

-----------------------------------------------------------------------------
(* Making a run terminal: the tail shared by the handlers. *)

\* failScheduledOccurrenceTx: the occurrences that the failure of the runs in
\* dead closes, and their queued siblings.
ClosedBy(dead) ==
    {o \in Occurrence : occurrence[o] = "COLLECTING" /\ \E r \in dead : occurrenceOf[r] = o}
\* Mutation of SiblingsOf: the occurrence fails, its other runs stay queued.
NoSiblings(dead) == {}
SiblingsOf(dead) ==
    {s \in Run \ dead : status[s] = "QUEUED" /\ occurrenceOf[s] \in ClosedBy(dead)}

StatusAfterFailure(dead) ==
    [r \in Run |-> IF r \in dead THEN "FAILED"
                   ELSE IF r \in SiblingsOf(dead) THEN "CANCELLED" ELSE status[r]]

\* Mutation of GenerationAfter: only the run that changed is counted.
GenerationAfterChangedOnly(changed, after) ==
    [g \in Generation |->
        IF generation[g] # "BUILDING" \/ links[g] \cap changed = {} THEN generation[g]
        ELSE IF \E r \in links[g] : after[r] \in {"FAILED", "CANCELLED"} THEN "FAILED"
        ELSE IF \A r \in links[g] \cap changed : after[r] = "SUCCEEDED" THEN "PUBLISHED"
        ELSE "BUILDING"]

\* updateDashboardGenerationsForRun: recount every BUILDING generation linked
\* to a run that changed, and move the head to one that is now complete.
GenerationAfter(changed, after) ==
    [g \in Generation |->
        IF generation[g] # "BUILDING" \/ links[g] \cap changed = {} THEN generation[g]
        ELSE IF \E r \in links[g] : after[r] \in {"FAILED", "CANCELLED"} THEN "FAILED"
        ELSE IF \A r \in links[g] : after[r] = "SUCCEEDED" THEN "PUBLISHED"
        ELSE "BUILDING"]

Published(changed, after, k) ==
    {g \in Generation : /\ request[g] = k /\ generation[g] = "BUILDING"
                        /\ GenerationAfter(changed, after)[g] = "PUBLISHED"}

HeadAfter(changed, after) ==
    [k \in SUBSET ExecutionKey |->
        IF Published(changed, after, k) = {} THEN head[k]
        ELSE CHOOSE g \in Published(changed, after, k) : TRUE]

UpdateGenerations(changed, after) ==
    /\ generation' = GenerationAfter(changed, after)
    /\ head' = HeadAfter(changed, after)
    /\ UNCHANGED links

\* The runs in dead become FAILED.  A sibling row locked by a Claim makes the
\* statement wait for that transaction.
FailRuns(dead) ==
    /\ \A s \in SiblingsOf(dead) : ~Locked(s)
    /\ status' = StatusAfterFailure(dead)
    /\ lease' = [r \in Run |-> IF r \in dead \cup SiblingsOf(dead) THEN "none" ELSE lease[r]]
    /\ occurrence' = [o \in Occurrence |-> IF o \in ClosedBy(dead) THEN "FAILED" ELSE occurrence[o]]
    /\ UpdateGenerations(dead, StatusAfterFailure(dead))

\* The run goes back to the queue, not before its backoff has passed.
RequeueRun(r) ==
    /\ status' = [status EXCEPT ![r] = "QUEUED"]
    /\ owner' = [owner EXCEPT ![r] = None]
    /\ lease' = [lease EXCEPT ![r] = "none"]
    /\ due' = [due EXCEPT ![r] = FALSE]
    /\ UNCHANGED <<attempt, executions, occurrence, dashVars>>

\* recordHostPreRequestFailureTx.
CountHostFailure(r) ==
    \E continues \in BOOLEAN :
        hostCircuit' = [hostCircuit EXCEPT ![HostRun(r)] = Counted(@, HostThreshold, continues)]

-----------------------------------------------------------------------------
(* Requests.  The tenant's status is read, without a lock, when the request's *)
(* transaction begins: its inserts may still follow the tenant's archive, so  *)
(* no request has a guard on archived.                                        *)

Insert(new) ==
    /\ status' = [r \in Run |-> IF r \in new THEN "QUEUED" ELSE status[r]]
    /\ due' = [r \in Run |-> IF r \in new THEN TRUE ELSE due[r]]
    /\ UNCHANGED <<owner, lease, attempt, executions>>

\* Enqueue of an interactive report.  A replay and a join of a recent identical
\* request return the existing run and change nothing.
EnqueueDashboard(r) ==
    /\ source[r] = "DASHBOARD" /\ executionKeyOf[r] = None /\ status[r] = "absent"
    /\ Admits(circuit[tenantOf[r]])
    /\ Cardinality({s \in Run : /\ source[s] = "DASHBOARD" /\ tenantOf[s] = tenantOf[r]
                                /\ status[s] \in Pending}) < DashboardQueueLimit
    /\ Insert({r})
    /\ UNCHANGED <<laneVars, smlVars, occurrence, dashVars, archived, faults>>

\* Enqueue of a background refresh: joined to a pending run of its key.
EnqueueBackground(r) ==
    /\ source[r] = "BACKGROUND" /\ status[r] = "absent"
    /\ PendingOn(executionKeyOf[r]) = {}
    /\ Cardinality({s \in Run : /\ source[s] = "BACKGROUND" /\ tenantOf[s] = tenantOf[r]
                                /\ status[s] \in Pending}) < BackgroundQueueLimit
    /\ Insert({r})
    /\ UNCHANGED <<laneVars, smlVars, occurrence, dashVars, archived, faults>>

\* CreateDashboardRefresh up to its reads: the tenant's advisory lock is held,
\* no generation with the same request is BUILDING (it would be joined), and
\* every report gets a pending run of its key or a new one.
BeginRefresh(g) ==
    /\ generation[g] = "none"
    /\ \A h \in Generation :
          generationTenant[h] = generationTenant[g] =>
              /\ generation[h] # "drafting"
              /\ ~(generation[h] = "BUILDING" /\ request[h] = request[g])
    /\ Cardinality({h \in Generation : /\ generationTenant[h] = generationTenant[g]
                                       /\ generation[h] = "BUILDING"}) < BuildingLimit
    /\ \E run \in [request[g] -> Run] :
          /\ \A k \in request[g] :
                \/ run[k] \in PendingOn(k)
                \/ /\ PendingOn(k) = {} /\ source[run[k]] = "DASHBOARD"
                   /\ executionKeyOf[run[k]] = k /\ status[run[k]] = "absent"
          /\ links' = [links EXCEPT ![g] = {run[k] : k \in request[g]}]
    /\ generation' = [generation EXCEPT ![g] = "drafting"]
    /\ UNCHANGED <<rowVars, laneVars, smlVars, occurrence, head, archived, faults>>

\* Its inserts and its commit; a run of the same key queued in between violates
\* report_runs_summary_execution_active_idx and rolls the refresh back.
CommitRefresh(g) ==
    LET new == {r \in links[g] : status[r] = "absent"} IN
    /\ generation[g] = "drafting"
    /\ IF \E r \in new : PendingOn(executionKeyOf[r]) # {}
       THEN /\ generation' = [generation EXCEPT ![g] = "none"]
            /\ links' = [links EXCEPT ![g] = {}]
            /\ UNCHANGED rowVars
       ELSE /\ generation' = [generation EXCEPT ![g] = "BUILDING"]
            /\ Insert(new)
            /\ UNCHANGED links
    /\ UNCHANGED <<laneVars, smlVars, occurrence, head, archived, faults>>

\* MaterializeDue: a due schedule becomes an occurrence with its runs, or, when
\* a readiness check blocks it, a failed occurrence without any.
Materialize(o) ==
    /\ occurrence[o] = "due"
    /\ Insert({r \in Run : occurrenceOf[r] = o /\ status[r] = "absent"})
    /\ occurrence' = [occurrence EXCEPT ![o] = "COLLECTING"]
    /\ UNCHANGED <<laneVars, smlVars, dashVars, archived, faults>>

MaterializeBlocked(o) ==
    /\ occurrence[o] = "due"
    /\ occurrence' = [occurrence EXCEPT ![o] = "FAILED"]
    /\ UNCHANGED <<rowVars, laneVars, smlVars, dashVars, archived, faults>>

\* Cancel itself, whoever may ask for it.  It waits for a Claim that holds the
\* row.
CancelQueued(r) ==
    /\ status[r] = "QUEUED" /\ ~Locked(r)
    /\ status' = [status EXCEPT ![r] = "CANCELLED"]
    /\ owner' = [owner EXCEPT ![r] = None]
    /\ lease' = [lease EXCEPT ![r] = "none"]
    /\ UNCHANGED <<attempt, due, executions, laneVars, smlVars, occurrence, dashVars, archived, faults>>

\* The viewer service lets the requester of a DASHBOARD run cancel it.
Cancel(r) == source[r] = "DASHBOARD" /\ CancelQueued(r)

\* TenantStore.Archive pauses the tenant's schedules and withdraws all its
\* queued runs, waiting for a Claim that holds one.  It looks at neither the
\* occurrences nor the generations the runs belong to, and a run that is
\* claimed or executing goes on.  (Of dashboard_refreshes it only marks what
\* viewers read as progress.)
ArchiveTenant(t) ==
    LET withdrawn == {r \in Run : tenantOf[r] = t /\ status[r] = "QUEUED"}
    IN  /\ t \in archivable \ archived
        /\ \A r \in withdrawn : ~Locked(r)
        /\ archived' = archived \cup {t}
        /\ status' = [r \in Run |-> IF r \in withdrawn THEN "CANCELLED" ELSE status[r]]
        /\ occurrence' = [o \in Occurrence |->
                            IF occurrenceTenant[o] = t /\ occurrence[o] \in Upcoming
                            THEN "far" ELSE occurrence[o]]
        /\ UNCHANGED <<owner, lease, attempt, due, executions, laneVars, smlVars, dashVars, faults>>

-----------------------------------------------------------------------------
(* A worker lane: ProcessOne. *)

ScheduleImminent(h) ==
    \E o \in Occurrence : occurrence[o] = "soon" /\ hostOf[occurrenceTenant[o]] = h

InteractiveLimit == IF GlobalLimit - 1 >= 1 THEN GlobalLimit - 1 ELSE 1

\* The where clause of Claim.
Claimable(r) ==
    /\ status[r] = "QUEUED" /\ due[r]
    /\ ~Blocks(circuit[tenantOf[r]]) /\ ~Blocks(hostCircuit[HostRun(r)])
    /\ Cardinality(ActiveRuns) < GlobalLimit
    /\ \/ source[r] = "SCHEDULE"
       \/ Cardinality({a \in ActiveRuns : source[a] # "SCHEDULE"}) < InteractiveLimit
    /\ ~TenantBusy(r)
    /\ Cardinality({a \in ActiveRuns : HostRun(a) = HostRun(r)}) < HostLimit
    /\ ~(source[r] # "SCHEDULE" /\ r \in heavy /\ ScheduleImminent(HostRun(r)))

\* Claim's select ... for update skip locked limit 1.  A scheduled run, of
\* priority 100, goes before any other, whose aged priority stops at 99; among
\* the others aging and tenant fairness may favour any.
Select(l, r) ==
    /\ pc[l] = "idle"
    /\ Claimable(r) /\ ~Locked(r)
    /\ source[r] = "SCHEDULE" \/ \A s \in Run : source[s] = "SCHEDULE" => ~Claimable(s) \/ Locked(s)
    /\ pc' = [pc EXCEPT ![l] = "selected"]
    /\ job' = [job EXCEPT ![l] = r]
    /\ UNCHANGED <<rowVars, seen, result, smlVars, occurrence, dashVars, archived, faults>>

\* Claim's update and commit.
ClaimAs(l, worker) ==
    /\ status' = [status EXCEPT ![job[l]] = "CLAIMED"]
    /\ owner' = [owner EXCEPT ![job[l]] = worker]
    /\ lease' = [lease EXCEPT ![job[l]] = "live"]
    /\ attempt' = [attempt EXCEPT ![job[l]] = @ + 1]
    /\ pc' = [pc EXCEPT ![l] = "claimed"]
    /\ seen' = [seen EXCEPT ![l] = attempt[job[l]] + 1]
    /\ UNCHANGED <<due, executions, job, result, smlVars, occurrence, dashVars, archived, faults>>

\* Mutations of ClaimRun: no unique index; the run's id in claimed_by.
ClaimWithoutIndex(l) == pc[l] = "selected" /\ ClaimAs(l, procOf[l])
ClaimSwapped(l) == pc[l] = "selected" /\ ~TenantBusy(job[l]) /\ ClaimAs(l, job[l])

\* report_runs_one_active_per_tenant_idx refuses the update when another lane
\* has claimed a run of the tenant since the select.
ClaimRun(l) == pc[l] = "selected" /\ ~TenantBusy(job[l]) /\ ClaimAs(l, procOf[l])

ClaimRefused(l) ==
    /\ pc[l] = "selected"
    /\ TenantBusy(job[l])
    /\ Idle(l)
    /\ UNCHANGED <<rowVars, smlVars, occurrence, dashVars, archived, faults>>

\* MarkRunning and the first UpdateProgress.
MarkRunning(l) ==
    /\ pc[l] = "claimed"
    /\ Holds(l, {"CLAIMED"})
    /\ status' = [status EXCEPT ![job[l]] = "RUNNING"]
    /\ executions' = [executions EXCEPT ![job[l]] = @ + 1]
    /\ pc' = [pc EXCEPT ![l] = "running"]
    /\ UNCHANGED <<owner, lease, attempt, due, job, seen, result, smlVars, occurrence, dashVars, archived, faults>>

MarkRunningLost(l) ==
    /\ pc[l] = "claimed"
    /\ ~Holds(l, {"CLAIMED"})
    /\ Idle(l)
    /\ UNCHANGED <<rowVars, smlVars, occurrence, dashVars, archived, faults>>

Decide(l, outcome) ==
    /\ pc' = [pc EXCEPT ![l] = "deciding"]
    /\ result' = [result EXCEPT ![l] = outcome]
    /\ UNCHANGED <<job, seen>>

\* execute up to the first query: open the connection, build the plan, and
\* record QUERYING_CURRENT, which a lane that lost its lease cannot.
Prepare(l) ==
    /\ pc[l] = "running"
    /\ \/ /\ Holds(l, {"RUNNING"})
          /\ pc' = [pc EXCEPT ![l] = "sending"]
          /\ UNCHANGED <<job, seen, result>>
       \/ \E outcome \in {"retryable", "unloaded", "rejected"} : Decide(l, outcome)
    /\ UNCHANGED <<rowVars, smlVars, occurrence, dashVars, archived, faults>>

\* The request leaves, or fails before its bytes were written.  Nothing checks
\* the lease between the progress write and the request.
Send(l) ==
    /\ pc[l] = "sending"
    /\ \/ pc' = [pc EXCEPT ![l] = "querying"] /\ UNCHANGED <<job, seen, result>>
       \/ \E outcome \in {"unsent", "rejected"} : Decide(l, outcome)
    /\ UNCHANGED <<rowVars, smlVars, occurrence, dashVars, archived, faults>>

\* The queries of the plan are over: all answered, or one failed.  A transport
\* error after the bytes were written leaves a query behind.
Answer(l) ==
    /\ pc[l] = "querying"
    /\ \E outcome \in Result \ {"none", "unloaded"} :
          /\ Decide(l, outcome)
          /\ orphan' = [orphan EXCEPT ![tenantOf[job[l]]] = @ \/ outcome = "unknown"]
    /\ UNCHANGED <<rowVars, circuit, hostCircuit, occurrence, dashVars, archived, faults>>

\* The lane stops without writing, leaving the query it may have sent.
Leave(ls) ==
    /\ pc' = [l \in Lane |-> IF l \in ls THEN "idle" ELSE pc[l]]
    /\ job' = [l \in Lane |-> IF l \in ls THEN None ELSE job[l]]
    /\ seen' = [l \in Lane |-> IF l \in ls THEN 0 ELSE seen[l]]
    /\ result' = [l \in Lane |-> IF l \in ls THEN "none" ELSE result[l]]
    /\ orphan' = [t \in Tenant |-> \/ orphan[t]
                                   \/ \E l \in ls : pc[l] = "querying" /\ tenantOf[job[l]] = t]

\* keepLease: ExtendLease matched no row, so execution is cancelled.
LoseLease(l) ==
    /\ pc[l] \in InExecute
    /\ ~Holds(l, Active)
    /\ Leave({l})
    /\ UNCHANGED <<rowVars, circuit, hostCircuit, occurrence, dashVars, archived, faults>>

-----------------------------------------------------------------------------
(* The last write of ProcessOne, chosen from the failure and from the run as  *)
(* the lane read it when it claimed.                                          *)

RetriesUnsent(l)    == source[job[l]] = "DASHBOARD" /\ seen[l] < 2
\* Mutation of RetriesRetryable: off by one.
RetriesOnceMore(l) == source[job[l]] # "BACKGROUND" /\ seen[l] <= maximumReportAttempts
RetriesRetryable(l) == source[job[l]] # "BACKGROUND" /\ seen[l] < maximumReportAttempts

FinishGuard(l, outcomes, states) ==
    pc[l] = "deciding" /\ result[l] \in outcomes /\ Holds(l, states)

\* Mutation of FailRemoteUnknown: a query with an unknown outcome is retried.
RetryRemoteUnknown(l) ==
    /\ FinishGuard(l, {"unknown"}, Active)
    /\ RequeueRun(job[l])
    /\ circuit' = [circuit EXCEPT ![tenantOf[job[l]]] = Uncertain(@)]
    /\ Idle(l)
    /\ UNCHANGED <<hostCircuit, orphan, archived, faults>>

FailRemoteUnknown(l) ==
    /\ FinishGuard(l, {"unknown"}, Active)
    /\ FailRuns({job[l]})
    /\ circuit' = [circuit EXCEPT ![tenantOf[job[l]]] = Uncertain(@)]
    /\ Idle(l)
    /\ UNCHANGED <<owner, attempt, due, executions, hostCircuit, orphan, archived, faults>>

RetryPreRequestFailure(l) ==
    /\ FinishGuard(l, {"unsent"}, Active)
    /\ RetriesUnsent(l)
    /\ RequeueRun(job[l])
    /\ CountHostFailure(job[l])
    /\ Idle(l)
    /\ UNCHANGED <<circuit, orphan, archived, faults>>

FailPreRequestFailure(l) ==
    /\ FinishGuard(l, {"unsent"}, Active)
    /\ ~RetriesUnsent(l)
    /\ FailRuns({job[l]})
    /\ CountHostFailure(job[l])
    /\ Idle(l)
    /\ UNCHANGED <<owner, attempt, due, executions, circuit, orphan, archived, faults>>

Retry(l) ==
    /\ FinishGuard(l, {"retryable", "unloaded"}, Active)
    /\ RetriesRetryable(l)
    /\ RequeueRun(job[l])
    /\ Idle(l)
    /\ UNCHANGED <<smlVars, archived, faults>>

Fail(l) ==
    /\ FinishGuard(l, {"retryable", "unloaded", "rejected"}, Active)
    /\ result[l] # "rejected" => ~RetriesRetryable(l)
    /\ FailRuns({job[l]})
    /\ IF result[l] = "unloaded"
       THEN \E continues \in BOOLEAN :
               circuit' = [circuit EXCEPT ![tenantOf[job[l]]] = Counted(@, TenantThreshold, continues)]
       ELSE UNCHANGED circuit
    /\ Idle(l)
    /\ UNCHANGED <<owner, attempt, due, executions, hostCircuit, orphan, archived, faults>>

\* Complete publishes the snapshot and resets both breakers.
Complete(l) ==
    LET r == job[l]
        after == [status EXCEPT ![r] = "SUCCEEDED"]
    IN  /\ FinishGuard(l, {"answered"}, {"RUNNING"})
        /\ status' = after
        /\ lease' = [lease EXCEPT ![r] = "none"]
        /\ circuit' = [circuit EXCEPT ![tenantOf[r]] = Closed]
        /\ hostCircuit' = [hostCircuit EXCEPT ![HostRun(r)] = Closed]
        /\ UpdateGenerations({r}, after)
        /\ Idle(l)
        /\ UNCHANGED <<owner, attempt, due, executions, orphan, occurrence, archived, faults>>

\* Every one of these writes matches no row once the lease is lost.
FinishLost(l) ==
    /\ pc[l] = "deciding"
    /\ ~Holds(l, Active)
    /\ Idle(l)
    /\ UNCHANGED <<rowVars, smlVars, occurrence, dashVars, archived, faults>>

-----------------------------------------------------------------------------
\* RecoverExpiredLeases: the runs in back are queued again, those in dead fail
\* and their tenants cool down.
RecoverRuns(back, dead) ==
    LET after == [r \in Run |-> IF r \in back THEN "QUEUED" ELSE StatusAfterFailure(dead)[r]]
    IN  /\ back \cup dead # {}
        /\ \A s \in SiblingsOf(dead) : ~Locked(s)
        /\ status' = after
        /\ owner' = [r \in Run |-> IF r \in back THEN None ELSE owner[r]]
        /\ lease' = [r \in Run |-> IF r \in back \cup dead \cup SiblingsOf(dead) THEN "none" ELSE lease[r]]
        /\ due' = [r \in Run |-> due[r] \/ r \in back]
        /\ circuit' = [t \in Tenant |-> IF \E r \in dead : tenantOf[r] = t
                                        THEN Uncertain(circuit[t]) ELSE circuit[t]]
        /\ occurrence' = [o \in Occurrence |-> IF o \in ClosedBy(dead) THEN "FAILED" ELSE occurrence[o]]
        /\ UpdateGenerations(dead, after)
        /\ UNCHANGED <<attempt, executions, laneVars, hostCircuit, orphan, archived, faults>>

Expired(state) == {r \in Run : status[r] = state /\ lease[r] = "lapsed"}

\* Mutations of Recover: a RUNNING run is queued again; a CLAIMED one is missed.
RecoverAllToQueue == RecoverRuns(Expired("CLAIMED") \cup Expired("RUNNING"), {})
RecoverRunningOnly == RecoverRuns({}, Expired("RUNNING"))

\* A lapsed CLAIMED run has sent no query; a lapsed RUNNING run may have.
Recover == RecoverRuns(Expired("CLAIMED"), Expired("RUNNING"))

-----------------------------------------------------------------------------
(* Time and the customer's server. *)

\* A query that nobody waits for any more ends on the server.
OrphanEnds(t) ==
    /\ orphan[t]
    /\ orphan' = [orphan EXCEPT ![t] = FALSE]
    /\ UNCHANGED <<rowVars, laneVars, circuit, hostCircuit, occurrence, dashVars, archived, faults>>

\* open_until passes.  Ten minutes are assumed to outlast a query left behind
\* and a lane that works on after its run was failed.
CooldownEnds(t) ==
    /\ Blocks(circuit[t])
    /\ ~orphan[t]
    /\ \A l \in Lane : pc[l] \in {"sending", "querying"} /\ tenantOf[job[l]] = t
                          => status[job[l]] = "RUNNING"
    /\ circuit' = [circuit EXCEPT ![t] = CooledDown(@)]
    /\ UNCHANGED <<rowVars, laneVars, hostCircuit, orphan, occurrence, dashVars, archived, faults>>

HostCooldownEnds(h) ==
    /\ Blocks(hostCircuit[h])
    /\ hostCircuit' = [hostCircuit EXCEPT ![h] = CooledDown(@)]
    /\ UNCHANGED <<rowVars, laneVars, circuit, orphan, occurrence, dashVars, archived, faults>>

RetryDelayPasses(r) ==
    /\ status[r] = "QUEUED" /\ ~due[r]
    /\ due' = [due EXCEPT ![r] = TRUE]
    /\ UNCHANGED <<status, owner, lease, attempt, executions, laneVars, smlVars, occurrence, dashVars, archived, faults>>

\* next_run_at comes inside the window that holds heavy queries back, and then
\* passes.  The schedules of an archived tenant are paused and have none.
ScheduleNears(o) ==
    /\ occurrence[o] \in {"far", "soon"} /\ occurrenceTenant[o] \notin archived
    /\ occurrence' = [occurrence EXCEPT ![o] = IF @ = "far" THEN "soon" ELSE "due"]
    /\ UNCHANGED <<rowVars, laneVars, smlVars, dashVars, archived, faults>>

LeaseLapses(r) ==
    /\ status[r] \in Active /\ lease[r] = "live"
    /\ lease' = [lease EXCEPT ![r] = "lapsed"]
    /\ UNCHANGED <<status, owner, attempt, due, executions, laneVars, smlVars, occurrence, dashVars, archived>>

Working(l, r) == pc[l] \in {"claimed"} \cup Executing /\ job[l] = r

\* Nobody extends the lease of a run whose lane is gone.
AbandonedLeaseLapses(r) ==
    /\ \A l \in Lane : Working(l, r) => procOf[l] # owner[r]
    /\ LeaseLapses(r)
    /\ UNCHANGED faults

-----------------------------------------------------------------------------
(* Faults, at most MaxFaults of them. *)

Fault == faults < MaxFaults /\ faults' = faults + 1

\* A lane, or its keepLease, does not run for two minutes.
StalledLeaseLapses(r) ==
    /\ Fault
    /\ \E l \in Lane : Working(l, r) /\ procOf[l] = owner[r]
    /\ LeaseLapses(r)

\* ProcessOne returns without its last write: the context is cancelled, a
\* statement fails or the snapshot cannot be encoded.
Abandon(l) ==
    /\ Fault
    /\ pc[l] \in {"claimed"} \cup Executing
    /\ Leave({l})
    /\ UNCHANGED <<rowVars, circuit, hostCircuit, occurrence, dashVars, archived>>

\* A worker process dies and is started again under the same worker ids; the
\* Claim transactions it had open roll back.
Crash(p) ==
    /\ Fault
    /\ \E l \in Lane : procOf[l] = p /\ pc[l] # "idle"
    /\ Leave({l \in Lane : procOf[l] = p})
    /\ UNCHANGED <<rowVars, circuit, hostCircuit, occurrence, dashVars, archived>>

-----------------------------------------------------------------------------
Request ==
    \/ \E r \in Run : EnqueueDashboard(r) \/ EnqueueBackground(r) \/ Cancel(r)
    \/ \E g \in Generation : BeginRefresh(g) \/ CommitRefresh(g)
    \/ \E t \in Tenant : ArchiveTenant(t)

Finish(l) ==
    \/ FailRemoteUnknown(l)
    \/ RetryPreRequestFailure(l)
    \/ FailPreRequestFailure(l)
    \/ Retry(l)
    \/ Fail(l)
    \/ Complete(l)
    \/ FinishLost(l)

LaneStep(l) ==
    \/ ClaimRun(l)
    \/ ClaimRefused(l)
    \/ MarkRunning(l)
    \/ MarkRunningLost(l)
    \/ Prepare(l)
    \/ Send(l)
    \/ Answer(l)
    \/ LoseLease(l)
    \/ Finish(l)

Schedule(o) == ScheduleNears(o) \/ Materialize(o) \/ MaterializeBlocked(o)

Clock ==
    \/ \E t \in Tenant : OrphanEnds(t) \/ CooldownEnds(t)
    \/ \E h \in Host : HostCooldownEnds(h)
    \/ \E r \in Run : RetryDelayPasses(r) \/ AbandonedLeaseLapses(r)

Failures ==
    \/ \E r \in Run : StalledLeaseLapses(r)
    \/ \E l \in Lane : Abandon(l)
    \/ \E p \in Proc : Crash(p)

Next ==
    \/ Request
    \/ \E l \in Lane : LaneStep(l) \/ \E r \in Run : Select(l, r)
    \/ Recover
    \/ \E o \in Occurrence : Schedule(o)
    \/ Clock
    \/ Failures

Spec == Init /\ [][Next]_vars

\* The lanes loop over ProcessOne, every query has a timeout, the recovery loop
\* and the schedule loop tick, and time passes.  Requests and faults are free.
Fairness ==
    /\ \A l \in Lane : /\ WF_vars(LaneStep(l))
                       /\ WF_vars(\E r \in Run : Select(l, r))
    /\ WF_vars(Recover)
    /\ \A o \in Occurrence : WF_vars(Schedule(o))
    /\ \A t \in Tenant : WF_vars(OrphanEnds(t)) /\ WF_vars(CooldownEnds(t))
    /\ \A h \in Host : WF_vars(HostCooldownEnds(h))
    /\ \A r \in Run : WF_vars(RetryDelayPasses(r)) /\ WF_vars(AbandonedLeaseLapses(r))

FairSpec == Spec /\ Fairness

-----------------------------------------------------------------------------
(* Safety of the leases. *)

\* No two lanes ever execute the same run, not even when one of them lost its
\* lease and does not know it, or when both belong to one process and so share
\* claimed_by (Claim, RecoverExpiredLeases, MarkRunning).
OneExecutorPerRun ==
    \A l, m \in Lane :
        pc[l] \in Executing /\ pc[m] \in Executing /\ job[l] = job[m] => l = m

\* Of the lanes that still hold their run, at most one executes for a tenant:
\* what keeps the single query per customer server (Claim and the index
\* report_runs_one_active_per_tenant_idx).
OneLiveExecutorPerTenant ==
    \A l, m \in Lane :
        /\ pc[l] \in Executing /\ Holds(l, Active)
        /\ pc[m] \in Executing /\ Holds(m, Active)
        /\ tenantOf[job[l]] = tenantOf[job[m]]
        => l = m

\* However many lanes lose and regain a run, it is executed at most three
\* times, and a background refresh once (the attempt checks of ProcessOne read
\* the attempt of the lane's own claim, not the row's).
ExecutionsBounded ==
    \A r \in Run :
        executions[r] <= IF source[r] = "BACKGROUND" THEN 1 ELSE maximumReportAttempts

\* No late write of a lane that lost its run, no recovery and no cancellation
\* changes a run that has ended.
TerminalIsFinal ==
    [][\A r \in Run : status[r] \in Terminal => status'[r] = status[r]]_vars

\* A run that may have reached the customer's server is queued again only by
\* the lane that executed it and saw a failure that is not RemoteStateUnknown;
\* RecoverExpiredLeases never does it.
RequeuedOnlyAfterDefiniteFailure ==
    [][\A r \in Run : status[r] = "RUNNING" /\ status'[r] = "QUEUED" =>
          /\ \E l \in Lane : job[l] = r /\ pc[l] = "deciding" /\ result[l] \in {"unsent", "retryable", "unloaded"}
          /\ \A l \in Lane : job[l] = r => pc[l] \notin InExecute]_vars

\* While a query that nobody waits for may still run on a tenant's server, no
\* lane sends that tenant another (FailRemoteUnknown, RecoverExpiredLeases and
\* the circuit test of Claim).
NoQueryDuringUncertainty ==
    \A l \in Lane : pc[l] = "querying" => ~orphan[tenantOf[job[l]]]

-----------------------------------------------------------------------------
(* Safety of what the runs are for. *)

\* As soon as one report of an occurrence fails, in the same transaction,
\* nothing of the occurrence can be claimed or executed any more
\* (failScheduledOccurrenceTx cancels only QUEUED siblings).
FailedOccurrenceHasNoLiveWork ==
    \A r \in Run : occurrenceOf[r] # None /\ status[r] \in Pending
                      => occurrence[occurrenceOf[r]] = "COLLECTING"

\* A report that fails takes its occurrence with it, and only the archive of
\* its tenant withdraws a report from an occurrence that goes on collecting
\* (failScheduledOccurrenceTx cancels the siblings of what it fails, Cancel is
\* for interactive runs, TenantStore.Archive leaves notification_runs alone).
CollectingOccurrenceIsIntact ==
    \A r \in Run : occurrenceOf[r] # None =>
        /\ status[r] = "FAILED" => occurrence[occurrenceOf[r]] = "FAILED"
        /\ status[r] = "CANCELLED" =>
              occurrence[occurrenceOf[r]] = "FAILED" \/ tenantOf[r] \in archived

\* The head that the overview shows is a generation all of whose runs have
\* succeeded, however runs are shared between generations and background
\* refreshes (updateDashboardGenerationsForRun).
HeadIsComplete ==
    \A k \in SUBSET ExecutionKey : head[k] # None =>
        /\ generation[head[k]] = "PUBLISHED" /\ request[head[k]] = k
        /\ {executionKeyOf[r] : r \in links[head[k]]} = k
        /\ \A r \in links[head[k]] : status[r] = "SUCCEEDED"

\* A building generation has a run that executes or waits to be executed.
BuildingGenerationHasWork ==
    \A g \in Generation :
        generation[g] = "BUILDING" => \E r \in links[g] : status[r] \in Pending

-----------------------------------------------------------------------------
(* The promise behind the table. *)

\* A claimed run still waits: whoever claimed it has sent nothing.
PromisedState ==
    [r \in Run |-> CASE status[r] \in {"QUEUED", "CLAIMED"} -> "waiting"
                     [] status[r] = "RUNNING" -> "executing"
                     [] OTHER -> status[r]]

ExecutionLimit == [r \in Run |-> IF source[r] = "BACKGROUND" THEN 1 ELSE maximumReportAttempts]

LifeCycle == INSTANCE RunLifeCycle WITH
    Part <- Occurrence, partOf <- occurrenceOf, limit <- ExecutionLimit,
    Store <- Tenant, storeOf <- tenantOf,
    state <- PromisedState, starts <- executions, closed <- archived

\* Leases, lanes, crashes and recoveries are invisible to whoever asked for a
\* run: it waits, executes, returns, ends, takes its occurrence with it when it
\* fails and leaves when its tenant is archived as RunLifeCycle promises (Claim,
\* MarkRunning, RecoverExpiredLeases, Complete, failScheduledOccurrenceTx,
\* Cancel and TenantStore.Archive together).
LifeCycleKept == LifeCycle!Spec

-----------------------------------------------------------------------------
(* Liveness. *)

\* Every accepted run ends, whatever crashes, stalls and cooldowns come first
\* (RecoverExpiredLeases, and Claim never waiting for a run that cannot start).
EveryRunSettles == \A r \in Run : status[r] = "QUEUED" ~> status[r] \in Terminal

\* A tenant whose breaker opened accepts interactive reports again, once time
\* has passed and its pending runs have ended.
StoreReadmitted == \A t \in Tenant : Blocks(circuit[t]) ~> Admits(circuit[t])
=============================================================================
