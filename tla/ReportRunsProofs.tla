-------------------------- MODULE ReportRunsProofs --------------------------
(***************************************************************************)
(* Theorems about ReportRuns, for every value of its constants.            *)
(***************************************************************************)
EXTENDS ReportRuns, TLAPS

-----------------------------------------------------------------------------
(* The breakers stay breakers. *)

\* Every operation on a breaker gives a breaker (the upserts of
\* tenant_sml_circuits and sml_host_circuits).
LEMMA CircuitOperations ==
    /\ Closed \in Circuit
    /\ \A c \in Circuit :
          /\ Uncertain(c) \in Circuit
          /\ CooledDown(c) \in Circuit
          /\ \A continues \in BOOLEAN : /\ Counted(c, TenantThreshold, continues) \in Circuit
                                        /\ Counted(c, HostThreshold, continues) \in Circuit
<1>1. Closed \in Circuit
  BY DEF Closed, Circuit, Cooldown, TenantThreshold
<1>2. ASSUME NEW c \in Circuit PROVE Uncertain(c) \in Circuit
  BY DEF Uncertain, Circuit, Cooldown, TenantThreshold
<1>3. ASSUME NEW c \in Circuit PROVE CooledDown(c) \in Circuit
  BY DEF CooledDown, Circuit, Cooldown, TenantThreshold
<1>4. ASSUME NEW c \in Circuit, NEW continues \in BOOLEAN,
             NEW threshold \in {TenantThreshold, HostThreshold}
      PROVE  Counted(c, threshold, continues) \in Circuit
  <2>1. CountAfter(c, threshold, continues) \in 0..TenantThreshold
    BY DEF CountAfter, Circuit, TenantThreshold, HostThreshold
  <2>2. QED
    BY <2>1 DEF Counted, Circuit, Cooldown
<1>5. QED
  BY <1>1, <1>2, <1>3, <1>4

-----------------------------------------------------------------------------
(* The parts that several handlers share. *)

\* A lane that is not idle has a run.
JobTyped == \A l \in Lane : pc[l] # "idle" => job[l] \in Run

Typed == TypeOK /\ JobTyped

LaneTyped ==
    /\ pc \in [Lane -> LanePc] /\ job \in [Lane -> Run \cup {None}]
    /\ seen \in [Lane -> Nat] /\ result \in [Lane -> Result]
    /\ JobTyped

RowTyped ==
    /\ status \in [Run -> Status]
    /\ owner \in [Run -> Proc \cup {None}]
    /\ lease \in [Run -> {"none", "live", "lapsed"}]
    /\ attempt \in [Run -> Nat]
    /\ due \in [Run -> BOOLEAN]
    /\ executions \in [Run -> Nat]

DashTyped ==
    /\ generation \in [Generation -> GenerationState]
    /\ links \in [Generation -> SUBSET Run]
    /\ head \in [SUBSET ExecutionKey -> Generation \cup {None}]

\* A lane that returns to idle leaves the lanes typed.
LEMMA IdleTyped ==
    ASSUME LaneTyped, NEW l \in Lane, Idle(l) PROVE LaneTyped'
BY DEF LaneTyped, JobTyped, Idle, LanePc, Result

\* So does a lane whose execution has ended with an outcome.
LEMMA DecideTyped ==
    ASSUME LaneTyped, NEW l \in Lane, NEW outcome \in Result, pc[l] # "idle", Decide(l, outcome)
    PROVE  LaneTyped'
BY DEF LaneTyped, JobTyped, Decide, LanePc, Executing, InExecute

\* Lanes that stop without a write leave the lanes and the orphans typed.
LEMMA LeaveTyped ==
    ASSUME LaneTyped, orphan \in [Tenant -> BOOLEAN], NEW ls \in SUBSET Lane, Leave(ls)
    PROVE  LaneTyped' /\ (orphan \in [Tenant -> BOOLEAN])'
BY DEF LaneTyped, JobTyped, Leave, LanePc, Result

\* Queueing absent runs (Enqueue, CreateDashboardRefresh, MaterializeDue).
LEMMA InsertTyped ==
    ASSUME RowTyped, NEW new \in SUBSET Run, Insert(new) PROVE RowTyped'
BY DEF RowTyped, Insert, Status, Pending

\* updateDashboardGenerationsForRun keeps generations and heads typed.
LEMMA UpdateGenerationsTyped ==
    ASSUME DashTyped, NEW changed, NEW after, UpdateGenerations(changed, after)
    PROVE  DashTyped'
<1>1. GenerationAfter(changed, after) \in [Generation -> GenerationState]
  BY DEF GenerationAfter, DashTyped, GenerationState
<1>2. HeadAfter(changed, after) \in [SUBSET ExecutionKey -> Generation \cup {None}]
  <2>1. ASSUME NEW k \in SUBSET ExecutionKey, Published(changed, after, k) # {}
        PROVE  (CHOOSE g \in Published(changed, after, k) : TRUE) \in Generation
    BY <2>1 DEF Published
  <2>2. QED
    BY <2>1 DEF HeadAfter, DashTyped
<1>3. QED
  BY <1>1, <1>2 DEF UpdateGenerations, DashTyped

\* The tail of every failure keeps rows, generations and occurrences typed.
LEMMA FailRunsTyped ==
    ASSUME TypeOK, NEW dead \in SUBSET Run, FailRuns(dead),
           UNCHANGED <<owner, attempt, due, executions>>
    PROVE  RowTyped' /\ DashTyped' /\ (occurrence \in [Occurrence -> OccurrenceState])'
<1>1. StatusAfterFailure(dead) \in [Run -> Status]
  BY DEF StatusAfterFailure, TypeOK, Status, Terminal
<1>2. DashTyped'
  BY UpdateGenerationsTyped DEF FailRuns, TypeOK, DashTyped
<1>3. RowTyped'
  BY <1>1 DEF FailRuns, RowTyped, TypeOK
<1>4. (occurrence \in [Occurrence -> OccurrenceState])'
  BY DEF FailRuns, TypeOK, OccurrenceState
<1>5. QED
  BY <1>2, <1>3, <1>4

\* The tail of Retry and RetryPreRequestFailure keeps the rows typed.
LEMMA RequeueRunTyped ==
    ASSUME RowTyped, NEW r \in Run, RequeueRun(r) PROVE RowTyped'
BY DEF RowTyped, RequeueRun, Status, Pending

\* recordHostPreRequestFailureTx keeps the host breakers typed.
LEMMA CountHostFailureTyped ==
    ASSUME ConstantsTyped, hostCircuit \in [Host -> Circuit], NEW r \in Run, CountHostFailure(r)
    PROVE  (hostCircuit \in [Host -> Circuit])'
<1>1. HostRun(r) \in Host
  BY DEF ConstantsTyped, HostRun
<1>2. PICK continues \in BOOLEAN :
         hostCircuit' = [hostCircuit EXCEPT ![HostRun(r)] = Counted(@, HostThreshold, continues)]
  BY DEF CountHostFailure
<1>3. Counted(hostCircuit[HostRun(r)], HostThreshold, continues) \in Circuit
  BY <1>1, CircuitOperations
<1>4. QED
  BY <1>1, <1>2, <1>3

-----------------------------------------------------------------------------
(* Type correctness. *)

SmlTyped ==
    /\ circuit \in [Tenant -> Circuit] /\ hostCircuit \in [Host -> Circuit]
    /\ orphan \in [Tenant -> BOOLEAN]

OccurrenceTyped == occurrence \in [Occurrence -> OccurrenceState]

ArchivedTyped == archived \subseteq Tenant

Parts == /\ RowTyped /\ LaneTyped /\ SmlTyped /\ DashTyped
         /\ OccurrenceTyped /\ ArchivedTyped /\ faults \in Nat

\* TypeOK, in the groups of variables that the actions leave alone together.
LEMMA TypedParts == (Typed <=> Parts) /\ (Typed' <=> Parts')
BY DEF Typed, TypeOK, Parts, RowTyped, LaneTyped, SmlTyped, DashTyped, OccurrenceTyped,
       ArchivedTyped

\* A group of variables that a step leaves alone stays typed.
LEMMA TypedStutter ==
    /\ RowTyped /\ UNCHANGED rowVars => RowTyped'
    /\ LaneTyped /\ UNCHANGED laneVars => LaneTyped'
    /\ SmlTyped /\ UNCHANGED smlVars => SmlTyped'
    /\ DashTyped /\ UNCHANGED dashVars => DashTyped'
    /\ OccurrenceTyped /\ UNCHANGED occurrence => OccurrenceTyped'
    /\ ArchivedTyped /\ UNCHANGED archived => ArchivedTyped'
    /\ faults \in Nat /\ UNCHANGED faults => (faults \in Nat)'
BY DEF RowTyped, LaneTyped, JobTyped, SmlTyped, DashTyped, OccurrenceTyped, ArchivedTyped,
       rowVars, laneVars, smlVars, dashVars

\* The empty table is typed.
LEMMA InitTyped == Init => Typed
<1>1. Init => TypeOK
  BY CircuitOperations, ConstantsTyped
  DEF Init, TypeOK, Status, LanePc, Result, OccurrenceState, Upcoming, GenerationState
<1>2. Init => JobTyped
  BY DEF Init, JobTyped
<1>3. QED
  BY <1>1, <1>2 DEF Typed

\* Requests of dashboards, refreshes, cancellations and archives.
LEMMA RequestTyped == Typed /\ Request => Typed'
<1> SUFFICES ASSUME Typed, Request PROVE Typed'
  OBVIOUS
<1> USE TypedParts, TypedStutter DEF Parts
<1>1. CASE \E r \in Run : EnqueueDashboard(r) \/ EnqueueBackground(r)
  <2>1. PICK r \in Run : EnqueueDashboard(r) \/ EnqueueBackground(r)
    BY <1>1
  <2>2. Insert({r}) /\ UNCHANGED <<laneVars, smlVars, occurrence, dashVars, archived, faults>>
    BY <2>1 DEF EnqueueDashboard, EnqueueBackground
  <2>3. QED
    BY <2>2, InsertTyped
<1>2. CASE \E r \in Run : Cancel(r)
  <2>1. PICK r \in Run : CancelQueued(r)
    BY <1>2 DEF Cancel
  <2>2. RowTyped'
    BY <2>1 DEF CancelQueued, RowTyped, Status, Terminal
  <2>3. QED
    BY <2>1, <2>2 DEF CancelQueued
<1>3. CASE \E g \in Generation : BeginRefresh(g)
  <2>1. PICK g \in Generation : BeginRefresh(g)
    BY <1>3
  <2>2. PICK run \in [request[g] -> Run] :
           links' = [links EXCEPT ![g] = {run[k] : k \in request[g]}]
    BY <2>1 DEF BeginRefresh
  <2>3. {run[k] : k \in request[g]} \in SUBSET Run
    OBVIOUS
  <2>4. DashTyped'
    BY <2>1, <2>2, <2>3 DEF BeginRefresh, DashTyped, GenerationState
  <2>5. QED
    BY <2>1, <2>4 DEF BeginRefresh
<1>4. CASE \E g \in Generation : CommitRefresh(g)
  <2>1. PICK g \in Generation : CommitRefresh(g)
    BY <1>4
  <2>2. DashTyped'
    BY <2>1 DEF CommitRefresh, DashTyped, GenerationState
  <2>3. {r \in links[g] : status[r] = "absent"} \in SUBSET Run
    BY DEF DashTyped
  <2>4. RowTyped'
    BY <2>1, <2>3, InsertTyped DEF CommitRefresh, rowVars
  <2>5. QED
    BY <2>1, <2>2, <2>4 DEF CommitRefresh
<1>5. CASE \E t \in Tenant : ArchiveTenant(t)
  <2>1. PICK t \in Tenant : ArchiveTenant(t)
    BY <1>5
  <2>2. RowTyped'
    BY <2>1 DEF ArchiveTenant, RowTyped, Status, Terminal
  <2>3. OccurrenceTyped' /\ ArchivedTyped'
    BY <2>1 DEF ArchiveTenant, OccurrenceTyped, OccurrenceState, Upcoming, ArchivedTyped
  <2>4. QED
    BY <2>1, <2>2, <2>3 DEF ArchiveTenant
<1>6. QED
  BY <1>1, <1>2, <1>3, <1>4, <1>5 DEF Request

\* Claim and execution of a run by one lane.
LEMMA LaneTypedStep == ASSUME NEW l \in Lane PROVE Typed /\ LaneStep(l) => Typed'
<1> SUFFICES ASSUME Typed, LaneStep(l) PROVE Typed'
  OBVIOUS
<1> USE TypedParts, TypedStutter DEF Parts
<1> job[l] \in Run \/ pc[l] = "idle"
  BY DEF LaneTyped, JobTyped
<1>1. CASE ClaimRun(l)
  <2>1. job[l] \in Run /\ procOf[l] \in Proc
    BY <1>1, ConstantsTyped DEF ClaimRun
  <2>2. RowTyped'
    BY <1>1, <2>1 DEF ClaimRun, ClaimAs, RowTyped, Status, Pending, Active
  <2>3. LaneTyped'
    BY <1>1, <2>1 DEF ClaimRun, ClaimAs, LaneTyped, JobTyped, RowTyped, LanePc
  <2>4. QED
    BY <1>1, <2>2, <2>3 DEF ClaimRun, ClaimAs
<1>2. CASE ClaimRefused(l)
  BY <1>2, IdleTyped DEF ClaimRefused
<1>3. CASE MarkRunning(l)
  <2>1. RowTyped'
    BY <1>3 DEF MarkRunning, RowTyped, Status, Pending, Active
  <2>2. LaneTyped'
    BY <1>3 DEF MarkRunning, LaneTyped, JobTyped, LanePc, Executing, InExecute
  <2>3. QED
    BY <1>3, <2>1, <2>2 DEF MarkRunning
<1>4. CASE MarkRunningLost(l)
  BY <1>4, IdleTyped DEF MarkRunningLost
<1>5. CASE Prepare(l)
  <2>1. LaneTyped'
    <3>1. ASSUME pc' = [pc EXCEPT ![l] = "sending"], UNCHANGED <<job, seen, result>> PROVE LaneTyped'
      BY <1>5, <3>1 DEF Prepare, LaneTyped, JobTyped, LanePc, Executing, InExecute
    <3>2. QED
      BY <1>5, <3>1, DecideTyped DEF Prepare, Result, Failure
  <2>2. QED
    BY <1>5, <2>1 DEF Prepare
<1>6. CASE Send(l)
  <2>1. LaneTyped'
    <3>1. ASSUME pc' = [pc EXCEPT ![l] = "querying"], UNCHANGED <<job, seen, result>> PROVE LaneTyped'
      BY <1>6, <3>1 DEF Send, LaneTyped, JobTyped, LanePc, Executing, InExecute
    <3>2. QED
      BY <1>6, <3>1, DecideTyped DEF Send, Result, Failure
  <2>2. QED
    BY <1>6, <2>1 DEF Send
<1>7. CASE Answer(l)
  <2>1. PICK outcome \in Result \ {"none", "unloaded"} :
           /\ Decide(l, outcome)
           /\ orphan' = [orphan EXCEPT ![tenantOf[job[l]]] = @ \/ outcome = "unknown"]
    BY <1>7 DEF Answer
  <2>2. tenantOf[job[l]] \in Tenant
    BY <1>7, ConstantsTyped DEF Answer
  <2>3. SmlTyped'
    BY <1>7, <2>1, <2>2 DEF SmlTyped, Answer
  <2>4. QED
    BY <1>7, <2>1, <2>3, DecideTyped DEF Answer
<1>8. CASE LoseLease(l)
  BY <1>8, LeaveTyped DEF LoseLease, SmlTyped
<1>9. CASE Finish(l)
  <2>1. job[l] \in Run /\ tenantOf[job[l]] \in Tenant /\ HostRun(job[l]) \in Host
    <3>1. job[l] \in Run
      BY <1>9 DEF Finish, FinishGuard, FailRemoteUnknown, RetryPreRequestFailure,
                  FailPreRequestFailure, Retry, Fail, Complete, FinishLost
    <3>2. QED
      BY <3>1, ConstantsTyped DEF HostRun
  <2>2. LaneTyped'
    BY <1>9, IdleTyped DEF Finish, FailRemoteUnknown, RetryPreRequestFailure,
                           FailPreRequestFailure, Retry, Fail, Complete, FinishLost
  <2>3. CASE FailRemoteUnknown(l)
    <3>1. RowTyped' /\ DashTyped' /\ OccurrenceTyped'
      BY <2>1, <2>3, FailRunsTyped DEF FailRemoteUnknown, OccurrenceTyped, Typed
    <3>2. SmlTyped'
      BY <2>1, <2>3, CircuitOperations DEF FailRemoteUnknown, SmlTyped
    <3>3. QED
      BY <2>2, <2>3, <3>1, <3>2 DEF FailRemoteUnknown
  <2>4. CASE RetryPreRequestFailure(l)
    <3>1. RowTyped'
      BY <2>1, <2>4, RequeueRunTyped DEF RetryPreRequestFailure
    <3>2. SmlTyped'
      BY <2>1, <2>4, CountHostFailureTyped, ConstantsTyped DEF RetryPreRequestFailure, SmlTyped
    <3>3. QED
      BY <2>2, <2>4, <3>1, <3>2 DEF RetryPreRequestFailure, RequeueRun
  <2>5. CASE FailPreRequestFailure(l)
    <3>1. RowTyped' /\ DashTyped' /\ OccurrenceTyped'
      BY <2>1, <2>5, FailRunsTyped DEF FailPreRequestFailure, OccurrenceTyped, Typed
    <3>2. SmlTyped'
      BY <2>1, <2>5, CountHostFailureTyped, ConstantsTyped DEF FailPreRequestFailure, SmlTyped
    <3>3. QED
      BY <2>2, <2>5, <3>1, <3>2 DEF FailPreRequestFailure
  <2>6. CASE Retry(l)
    BY <2>1, <2>2, <2>6, RequeueRunTyped DEF Retry, RequeueRun
  <2>7. CASE Fail(l)
    <3>1. RowTyped' /\ DashTyped' /\ OccurrenceTyped'
      BY <2>1, <2>7, FailRunsTyped DEF Fail, OccurrenceTyped, Typed
    <3>2. SmlTyped'
      <4>1. ASSUME NEW continues \in BOOLEAN,
                   circuit' = [circuit EXCEPT ![tenantOf[job[l]]] = Counted(@, TenantThreshold, continues)]
            PROVE  circuit' \in [Tenant -> Circuit]
        <5>1. Counted(circuit[tenantOf[job[l]]], TenantThreshold, continues) \in Circuit
          BY <2>1, CircuitOperations DEF SmlTyped
        <5>2. QED
          BY <2>1, <4>1, <5>1 DEF SmlTyped
      <4>2. QED
        BY <2>7, <4>1 DEF Fail, SmlTyped
    <3>3. QED
      BY <2>2, <2>7, <3>1, <3>2 DEF Fail
  <2>8. CASE Complete(l)
    <3>1. RowTyped'
      BY <2>8 DEF Complete, RowTyped, Status, Terminal
    <3>2. DashTyped'
      BY <2>8, UpdateGenerationsTyped DEF Complete
    <3>3. SmlTyped'
      BY <2>8, CircuitOperations DEF Complete, SmlTyped
    <3>4. QED
      BY <2>2, <2>8, <3>1, <3>2, <3>3 DEF Complete
  <2>9. CASE FinishLost(l)
    BY <2>2, <2>9 DEF FinishLost
  <2>10. QED
    BY <1>9, <2>3, <2>4, <2>5, <2>6, <2>7, <2>8, <2>9 DEF Finish
<1>10. QED
  BY <1>1, <1>2, <1>3, <1>4, <1>5, <1>6, <1>7, <1>8, <1>9 DEF LaneStep

\* RecoverExpiredLeases.
LEMMA RecoverTyped == Typed /\ Recover => Typed'
<1> SUFFICES ASSUME Typed, Recover PROVE Typed'
  OBVIOUS
<1> USE TypedParts, TypedStutter DEF Parts
<1> DEFINE back == Expired("CLAIMED")
           dead == Expired("RUNNING")
<1>1. RecoverRuns(back, dead)
  BY DEF Recover
<1>2. back \in SUBSET Run /\ dead \in SUBSET Run
  BY DEF Expired
<1> HIDE DEF back, dead
<1>3. StatusAfterFailure(dead) \in [Run -> Status]
  BY DEF StatusAfterFailure, RowTyped, Status, Terminal
<1>4. RowTyped'
  BY <1>1, <1>3 DEF RecoverRuns, RowTyped, Status, Pending
<1>5. DashTyped'
  BY <1>1, UpdateGenerationsTyped DEF RecoverRuns
<1>6. SmlTyped' /\ OccurrenceTyped'
  BY <1>1, CircuitOperations DEF RecoverRuns, SmlTyped, OccurrenceTyped, OccurrenceState
<1>7. QED
  BY <1>1, <1>4, <1>5, <1>6 DEF RecoverRuns

\* The select of a Claim transaction.
LEMMA SelectTyped ==
    ASSUME NEW l \in Lane, NEW r \in Run PROVE Typed /\ Select(l, r) => Typed'
<1> SUFFICES ASSUME Typed, Select(l, r) PROVE Typed'
  OBVIOUS
<1> USE TypedParts, TypedStutter DEF Parts
<1>1. LaneTyped'
  BY DEF Select, LaneTyped, JobTyped, LanePc
<1>2. QED
  BY <1>1 DEF Select

\* Schedules, the clock and the faults.
LEMMA EnvironmentTyped ==
    Typed /\ ((\E o \in Occurrence : Schedule(o)) \/ Clock \/ Failures) => Typed'
<1> SUFFICES ASSUME Typed, (\E o \in Occurrence : Schedule(o)) \/ Clock \/ Failures PROVE Typed'
  OBVIOUS
<1> USE TypedParts, TypedStutter DEF Parts
<1>1. CASE \E o \in Occurrence : Schedule(o)
  <2>1. PICK o \in Occurrence : Schedule(o)
    BY <1>1
  <2>2. CASE ScheduleNears(o)
    BY <2>2 DEF ScheduleNears, OccurrenceTyped, OccurrenceState, Upcoming
  <2>3. CASE Materialize(o)
    <3>1. OccurrenceTyped'
      BY <2>3 DEF Materialize, OccurrenceTyped, OccurrenceState
    <3>2. QED
      BY <2>3, <3>1, InsertTyped DEF Materialize
  <2>4. CASE MaterializeBlocked(o)
    BY <2>4 DEF MaterializeBlocked, OccurrenceTyped, OccurrenceState
  <2>5. QED
    BY <2>1, <2>2, <2>3, <2>4 DEF Schedule
<1>2. CASE Clock
  <2>1. CASE \E t \in Tenant : OrphanEnds(t) \/ CooldownEnds(t)
    <3>1. PICK t \in Tenant : OrphanEnds(t) \/ CooldownEnds(t)
      BY <2>1
    <3> SmlTyped'
      <4>1. CooledDown(circuit[t]) \in Circuit
        BY CircuitOperations DEF SmlTyped
      <4>2. QED
        BY <3>1, <4>1 DEF OrphanEnds, CooldownEnds, SmlTyped
    <3>2. QED
      BY <3>1 DEF OrphanEnds, CooldownEnds
  <2>2. CASE \E h \in Host : HostCooldownEnds(h)
    <3>1. SmlTyped'
      BY <2>2, CircuitOperations DEF HostCooldownEnds, SmlTyped
    <3>2. QED
      BY <2>2, <3>1 DEF HostCooldownEnds
  <2>3. CASE \E r \in Run : RetryDelayPasses(r) \/ AbandonedLeaseLapses(r)
    <3>1. RowTyped'
      BY <2>3 DEF RetryDelayPasses, AbandonedLeaseLapses, LeaseLapses, RowTyped
    <3>2. QED
      BY <2>3, <3>1 DEF RetryDelayPasses, AbandonedLeaseLapses, LeaseLapses
  <2>4. QED
    BY <1>2, <2>1, <2>2, <2>3 DEF Clock
<1>3. CASE Failures
  <2>1. (faults \in Nat)'
    <3>1. Fault
      BY <1>3 DEF Failures, StalledLeaseLapses, Abandon, Crash
    <3>2. QED
      BY <3>1 DEF Fault
  <2>2. CASE \E r \in Run : StalledLeaseLapses(r)
    <3>1. RowTyped'
      BY <2>2 DEF StalledLeaseLapses, LeaseLapses, RowTyped
    <3>2. QED
      BY <2>1, <2>2, <3>1 DEF StalledLeaseLapses, LeaseLapses
  <2>3. ASSUME NEW ls \in SUBSET Lane, Leave(ls),
               UNCHANGED <<rowVars, circuit, hostCircuit, occurrence, dashVars, archived>>
        PROVE  Typed'
    <3>1. LaneTyped' /\ SmlTyped'
      BY <2>3, LeaveTyped DEF SmlTyped
    <3>2. QED
      BY <2>1, <2>3, <3>1
  <2>4. CASE \E l \in Lane : Abandon(l)
    BY <2>3, <2>4 DEF Abandon
  <2>5. CASE \E p \in Proc : Crash(p)
    BY <2>3, <2>5 DEF Crash
  <2>6. QED
    BY <1>3, <2>2, <2>4, <2>5 DEF Failures
<1>4. QED
  BY <1>1, <1>2, <1>3

\* Every step keeps the state typed.
LEMMA NextTyped == Typed /\ [Next]_vars => Typed'
<1>1. Typed /\ UNCHANGED vars => Typed'
  BY TypedParts, TypedStutter DEF Parts, vars
<1>2. Typed /\ Next => Typed'
  BY RequestTyped, LaneTypedStep, SelectTyped, RecoverTyped, EnvironmentTyped DEF Next
<1>3. QED
  BY <1>1, <1>2

\* Every reachable state is well typed, for any tenants, runs, lanes, limits
\* and number of faults.
THEOREM TypeCorrect == Spec => []TypeOK
<1>1. Spec => []Typed
  BY InitTyped, NextTyped, PTL DEF Spec
<1>2. Typed => TypeOK
  BY DEF Typed
<1>3. QED
  BY <1>1, <1>2, PTL

-----------------------------------------------------------------------------
(* Mutual exclusion. *)

\* The run a Claim transaction has selected is still QUEUED: its row is locked.
SelectedIsQueued ==
    \A l \in Lane : pc[l] = "selected" => status[job[l]] = "QUEUED"

\* for update skip locked: two Claim transactions never hold the same row.
SelectedOnce ==
    \A l, m \in Lane : pc[l] = "selected" /\ pc[m] = "selected" /\ job[l] = job[m] => l = m

\* A run that some lane executes is RUNNING, or was failed by the recovery; it
\* is not waiting for another lane.
ExecutedIsRunning ==
    \A l \in Lane : pc[l] \in Executing => status[job[l]] \in {"RUNNING", "FAILED"}

\* What report_runs_one_active_per_tenant_idx says.
OneActivePerTenant ==
    \A a, b \in Run :
        status[a] \in Active /\ status[b] \in Active /\ tenantOf[a] = tenantOf[b] => a = b

MutexInv ==
    /\ Typed
    /\ SelectedIsQueued
    /\ SelectedOnce
    /\ ExecutedIsRunning
    /\ OneExecutorPerRun
    /\ OneActivePerTenant

\* The mutual exclusion invariant holds of the empty table.
LEMMA InitMutex == Init => MutexInv
<1>1. Init => Typed
  BY InitTyped
<1>2. Init => SelectedIsQueued /\ SelectedOnce /\ ExecutedIsRunning /\ OneExecutorPerRun
  BY DEF Init, SelectedIsQueued, SelectedOnce, ExecutedIsRunning, OneExecutorPerRun,
         Executing, InExecute
<1>3. Init => OneActivePerTenant
  BY DEF Init, OneActivePerTenant, Active
<1>4. QED
  BY <1>1, <1>2, <1>3 DEF MutexInv

\* A transaction that leaves the lanes alone: it inserts runs, cancels queued
\* ones that no Claim holds, queues claimed ones again or fails running ones.
LEMMA RowsMove ==
    ASSUME MutexInv, Typed', UNCHANGED <<pc, job>>,
           \A r \in Run : \/ status'[r] = status[r]
                          \/ status[r] = "absent" /\ status'[r] = "QUEUED"
                          \/ status[r] = "QUEUED" /\ ~Locked(r) /\ status'[r] = "CANCELLED"
                          \/ status[r] = "CLAIMED" /\ status'[r] = "QUEUED"
                          \/ status[r] = "RUNNING" /\ status'[r] = "FAILED"
    PROVE  MutexInv'
<1> USE DEF MutexInv
<1>1. JobTyped
  BY DEF Typed
<1>2. SelectedIsQueued'
  BY <1>1 DEF SelectedIsQueued, JobTyped, Locked
<1>3. ExecutedIsRunning'
  BY <1>1 DEF ExecutedIsRunning, JobTyped, Executing, InExecute
<1>4. SelectedOnce' /\ OneExecutorPerRun'
  BY DEF SelectedOnce, OneExecutorPerRun
<1>5. OneActivePerTenant'
  <2>1. \A r \in Run : status'[r] \in Active => status[r] \in Active
    BY DEF Active
  <2>2. QED
    BY <2>1 DEF OneActivePerTenant
<1>6. QED
  BY <1>2, <1>3, <1>4, <1>5

\* Steps of lanes that write no status: a lane stops, or goes on executing.
LEMMA LanesMove ==
    ASSUME MutexInv, Typed', UNCHANGED status,
           \A l \in Lane : \/ pc'[l] = "idle"
                           \/ pc'[l] = pc[l] /\ job'[l] = job[l]
                           \/ pc[l] \in Executing /\ pc'[l] \in Executing /\ job'[l] = job[l]
    PROVE  MutexInv'
<1> USE DEF MutexInv
<1>1. SelectedIsQueued' /\ SelectedOnce'
  BY DEF SelectedIsQueued, SelectedOnce, Executing, InExecute
<1>2. ExecutedIsRunning' /\ OneExecutorPerRun'
  BY DEF ExecutedIsRunning, OneExecutorPerRun, Executing, InExecute
<1>3. OneActivePerTenant'
  BY DEF OneActivePerTenant
<1>4. QED
  BY <1>1, <1>2, <1>3

\* The last write of a lane that still holds its run.
LEMMA LaneFinishes ==
    ASSUME MutexInv, Typed', NEW l \in Lane, pc[l] \in Executing, Idle(l),
           status[job[l]] = "RUNNING", status'[job[l]] \in {"QUEUED"} \cup Terminal,
           \A r \in Run \ {job[l]} :
              \/ status'[r] = status[r]
              \/ status[r] = "QUEUED" /\ ~Locked(r) /\ status'[r] = "CANCELLED"
    PROVE  MutexInv'
<1> USE DEF MutexInv
<1>1. /\ LaneTyped /\ JobTyped
      /\ \A m \in Lane \ {l} : pc'[m] = pc[m] /\ job'[m] = job[m]
      /\ pc'[l] = "idle"
  BY TypedParts DEF Parts, LaneTyped, Idle
<1>2. SelectedIsQueued'
  BY <1>1 DEF SelectedIsQueued, JobTyped, Locked
<1>3. ExecutedIsRunning'
  <2> SUFFICES ASSUME NEW m \in Lane, pc'[m] \in Executing
               PROVE  status'[job'[m]] \in {"RUNNING", "FAILED"}
    BY DEF ExecutedIsRunning
  <2>1. m # l /\ pc[m] \in Executing /\ job'[m] = job[m]
    BY <1>1 DEF Executing, InExecute
  <2>2. job[m] \in Run /\ job[m] # job[l]
    BY <1>1, <2>1 DEF OneExecutorPerRun, JobTyped, Executing, InExecute
  <2>3. QED
    BY <2>1, <2>2 DEF ExecutedIsRunning
<1>4. SelectedOnce' /\ OneExecutorPerRun'
  BY <1>1 DEF SelectedOnce, OneExecutorPerRun, Executing, InExecute
<1>5. OneActivePerTenant'
  <2>1. \A r \in Run : status'[r] \in Active => status[r] \in Active
    BY DEF Active, Terminal
  <2>2. QED
    BY <2>1 DEF OneActivePerTenant
<1>6. QED
  BY <1>2, <1>3, <1>4, <1>5

\* What the failure of the run a lane executes does to the other runs.
LEMMA FailRunsMoves ==
    ASSUME NEW dead \in SUBSET Run, FailRuns(dead)
    PROVE  /\ \A r \in dead : status'[r] = "FAILED"
           /\ \A r \in Run \ dead :
                 \/ status'[r] = status[r]
                 \/ status[r] = "QUEUED" /\ ~Locked(r) /\ status'[r] = "CANCELLED"
BY DEF FailRuns, StatusAfterFailure, SiblingsOf

\* The last write of ProcessOne keeps the mutual exclusion invariant.
LEMMA FinishMutex == ASSUME NEW l \in Lane PROVE MutexInv /\ Typed' /\ Finish(l) => MutexInv'
<1> SUFFICES ASSUME MutexInv, Typed', Finish(l) PROVE MutexInv'
  OBVIOUS
<1>1. Idle(l) /\ pc[l] \in Executing
  BY DEF Finish, FinishGuard, FailRemoteUnknown, RetryPreRequestFailure,
         FailPreRequestFailure, Retry, Fail, Complete, FinishLost, Executing
<1>2. /\ LaneTyped /\ job[l] \in Run /\ status \in [Run -> Status]
  BY <1>1, TypedParts DEF MutexInv, Typed, TypeOK, JobTyped, Executing, InExecute, Parts
<1>3. CASE FinishLost(l)
  <2>1. UNCHANGED status /\ \A m \in Lane : pc'[m] = "idle" \/ (pc'[m] = pc[m] /\ job'[m] = job[m])
    BY <1>1, <1>2, <1>3 DEF FinishLost, Idle, LaneTyped, rowVars
  <2>2. QED
    BY <2>1, LanesMove
<1>4. ASSUME Holds(l, Active) PROVE status[job[l]] = "RUNNING"
  BY <1>1, <1>4 DEF MutexInv, ExecutedIsRunning, Holds, Active
<1>5. CASE FailRemoteUnknown(l) \/ FailPreRequestFailure(l) \/ Fail(l)
  <2>1. FailRuns({job[l]}) /\ Holds(l, Active)
    BY <1>5 DEF FailRemoteUnknown, FailPreRequestFailure, Fail, FinishGuard
  <2>2. QED
    BY <1>1, <1>2, <1>4, <2>1, FailRunsMoves, LaneFinishes DEF Terminal
<1>6. CASE RetryPreRequestFailure(l) \/ Retry(l)
  <2>1. RequeueRun(job[l]) /\ Holds(l, Active)
    BY <1>6 DEF RetryPreRequestFailure, Retry, FinishGuard
  <2>2. QED
    BY <1>1, <1>2, <1>4, <2>1, LaneFinishes DEF RequeueRun
<1>7. CASE Complete(l)
  <2>1. status' = [status EXCEPT ![job[l]] = "SUCCEEDED"] /\ Holds(l, {"RUNNING"})
    BY <1>7 DEF Complete, FinishGuard
  <2>2. QED
    BY <1>1, <1>2, <2>1, LaneFinishes DEF Terminal, Holds
<1>8. QED
  BY <1>3, <1>5, <1>6, <1>7 DEF Finish

\* Every step of a lane after its select keeps it.
LEMMA LaneMutex == ASSUME NEW l \in Lane PROVE MutexInv /\ Typed' /\ LaneStep(l) => MutexInv'
<1> SUFFICES ASSUME MutexInv, Typed', LaneStep(l) PROVE MutexInv'
  OBVIOUS
<1> USE DEF MutexInv
<1>1. LaneTyped /\ JobTyped /\ status \in [Run -> Status]
  BY TypedParts DEF Parts, LaneTyped, Typed, TypeOK
<1>2. CASE ClaimRun(l)
  <2>1. /\ pc[l] = "selected" /\ job[l] \in Run /\ ~TenantBusy(job[l])
        /\ UNCHANGED job
        /\ pc' = [pc EXCEPT ![l] = "claimed"]
        /\ status' = [status EXCEPT ![job[l]] = "CLAIMED"]
    BY <1>1, <1>2 DEF ClaimRun, ClaimAs, JobTyped
  <2>2. status[job[l]] = "QUEUED"
    BY <2>1 DEF SelectedIsQueued
  <2>3. SelectedIsQueued' /\ SelectedOnce'
    BY <1>1, <2>1 DEF LaneTyped, JobTyped, SelectedIsQueued, SelectedOnce
  <2>4. ExecutedIsRunning' /\ OneExecutorPerRun'
    BY <1>1, <2>1, <2>2 DEF LaneTyped, JobTyped, ExecutedIsRunning, OneExecutorPerRun, Executing, InExecute
  <2>5. OneActivePerTenant'
    BY <1>1, <2>1 DEF OneActivePerTenant, TenantBusy, ActiveRuns, Active
  <2>6. QED
    BY <2>3, <2>4, <2>5
<1>3. CASE MarkRunning(l)
  <2>1. /\ pc[l] = "claimed" /\ job[l] \in Run /\ status[job[l]] = "CLAIMED"
        /\ UNCHANGED job
        /\ pc' = [pc EXCEPT ![l] = "running"]
        /\ status' = [status EXCEPT ![job[l]] = "RUNNING"]
    BY <1>1, <1>3 DEF MarkRunning, Holds, JobTyped
  <2>2. SelectedIsQueued' /\ SelectedOnce'
    BY <1>1, <2>1 DEF LaneTyped, JobTyped, SelectedIsQueued, SelectedOnce
  <2>3. ExecutedIsRunning' /\ OneExecutorPerRun'
    BY <1>1, <2>1 DEF LaneTyped, JobTyped, ExecutedIsRunning, OneExecutorPerRun, Executing, InExecute
  <2>4. OneActivePerTenant'
    BY <1>1, <2>1 DEF OneActivePerTenant, Active
  <2>5. QED
    BY <2>2, <2>3, <2>4
<1>4. CASE ClaimRefused(l) \/ MarkRunningLost(l)
  <2>1. UNCHANGED status /\ \A m \in Lane : pc'[m] = "idle" \/ (pc'[m] = pc[m] /\ job'[m] = job[m])
    BY <1>1, <1>4 DEF ClaimRefused, MarkRunningLost, Idle, LaneTyped, rowVars
  <2>2. QED
    BY <2>1, LanesMove
<1>5. CASE Prepare(l) \/ Send(l) \/ Answer(l)
  <2>1. /\ UNCHANGED <<status, job>> /\ pc[l] \in Executing
        /\ \E next \in Executing : pc' = [pc EXCEPT ![l] = next]
    BY <1>5 DEF Prepare, Send, Answer, Decide, rowVars, Executing, InExecute
  <2>2. QED
    BY <1>1, <2>1, LanesMove DEF LaneTyped
<1>6. CASE LoseLease(l)
  <2>1. UNCHANGED status /\ \A m \in Lane : pc'[m] = "idle" \/ (pc'[m] = pc[m] /\ job'[m] = job[m])
    BY <1>1, <1>6 DEF LoseLease, Leave, LaneTyped, rowVars
  <2>2. QED
    BY <2>1, LanesMove
<1>7. CASE Finish(l)
  BY <1>7, FinishMutex
<1>8. QED
  BY <1>2, <1>3, <1>4, <1>5, <1>6, <1>7 DEF LaneStep

\* The select of a Claim transaction keeps it: the row was not locked.
LEMMA SelectMutex ==
    ASSUME NEW l \in Lane, NEW r \in Run PROVE MutexInv /\ Typed' /\ Select(l, r) => MutexInv'
<1> SUFFICES ASSUME MutexInv, Typed', Select(l, r) PROVE MutexInv'
  OBVIOUS
<1> USE DEF MutexInv
<1>1. /\ LaneTyped /\ UNCHANGED status /\ status[r] = "QUEUED" /\ ~Locked(r)
      /\ pc' = [pc EXCEPT ![l] = "selected"] /\ job' = [job EXCEPT ![l] = r]
  BY TypedParts DEF Parts, Select, rowVars, Claimable
<1>2. SelectedIsQueued' /\ SelectedOnce'
  BY <1>1 DEF LaneTyped, SelectedIsQueued, SelectedOnce, Locked
<1>3. ExecutedIsRunning' /\ OneExecutorPerRun'
  BY <1>1 DEF LaneTyped, ExecutedIsRunning, OneExecutorPerRun, Executing, InExecute
<1>4. OneActivePerTenant'
  BY <1>1 DEF OneActivePerTenant
<1>5. QED
  BY <1>2, <1>3, <1>4

\* Requests keep it.
LEMMA RequestMutex == MutexInv /\ Typed' /\ Request => MutexInv'
<1> SUFFICES ASSUME MutexInv, Typed', Request PROVE MutexInv'
  OBVIOUS
<1>1. UNCHANGED <<pc, job>>
  BY DEF Request, EnqueueDashboard, EnqueueBackground, Cancel, CancelQueued,
         BeginRefresh, CommitRefresh, ArchiveTenant, laneVars
<1>2. status \in [Run -> Status]
  BY DEF MutexInv, Typed, TypeOK
<1>3. \A r \in Run : \/ status'[r] = status[r]
                     \/ status[r] = "absent" /\ status'[r] = "QUEUED"
                     \/ status[r] = "QUEUED" /\ ~Locked(r) /\ status'[r] = "CANCELLED"
  <2>1. CASE \E r \in Run : EnqueueDashboard(r) \/ EnqueueBackground(r)
    BY <2>1 DEF EnqueueDashboard, EnqueueBackground, Insert
  <2>2. CASE \E r \in Run : Cancel(r)
    BY <1>2, <2>2 DEF Cancel, CancelQueued
  <2>3. CASE \E g \in Generation : BeginRefresh(g) \/ CommitRefresh(g)
    BY <2>3 DEF BeginRefresh, CommitRefresh, Insert, rowVars
  <2>4. CASE \E t \in Tenant : ArchiveTenant(t)
    BY <2>4 DEF ArchiveTenant
  <2>5. QED
    BY <2>1, <2>2, <2>3, <2>4 DEF Request
<1>4. QED
  BY <1>1, <1>3, RowsMove

\* RecoverExpiredLeases keeps it: only CLAIMED rows are queued again.
LEMMA RecoverMutex == MutexInv /\ Typed' /\ Recover => MutexInv'
<1> SUFFICES ASSUME MutexInv, Typed', Recover PROVE MutexInv'
  OBVIOUS
<1> DEFINE back == Expired("CLAIMED")
           dead == Expired("RUNNING")
<1>1. /\ RecoverRuns(back, dead) /\ UNCHANGED <<pc, job>>
  BY DEF Recover, RecoverRuns, laneVars
<1>2. /\ \A r \in back : status[r] = "CLAIMED"
      /\ \A r \in dead : status[r] = "RUNNING"
  BY DEF Expired
<1> HIDE DEF back, dead
<1>3. \A r \in Run : \/ status'[r] = status[r]
                     \/ status[r] = "QUEUED" /\ ~Locked(r) /\ status'[r] = "CANCELLED"
                     \/ status[r] = "CLAIMED" /\ status'[r] = "QUEUED"
                     \/ status[r] = "RUNNING" /\ status'[r] = "FAILED"
  BY <1>1, <1>2 DEF RecoverRuns, StatusAfterFailure, SiblingsOf
<1>4. QED
  BY <1>1, <1>3, RowsMove

\* Schedules, the clock and the faults keep it.
LEMMA EnvironmentMutex ==
    MutexInv /\ Typed' /\ ((\E o \in Occurrence : Schedule(o)) \/ Clock \/ Failures) => MutexInv'
<1> SUFFICES ASSUME MutexInv, Typed', (\E o \in Occurrence : Schedule(o)) \/ Clock \/ Failures
             PROVE  MutexInv'
  OBVIOUS
<1>1. CASE \E o \in Occurrence : Schedule(o)
  <2>1. UNCHANGED <<pc, job>>
    BY <1>1 DEF Schedule, ScheduleNears, Materialize, MaterializeBlocked, laneVars
  <2>2. \A r \in Run : status'[r] = status[r] \/ (status[r] = "absent" /\ status'[r] = "QUEUED")
    BY <1>1 DEF Schedule, ScheduleNears, Materialize, MaterializeBlocked, Insert, rowVars
  <2>3. QED
    BY <2>1, <2>2, RowsMove
<1>2. CASE Clock \/ \E r \in Run : StalledLeaseLapses(r)
  <2>1. UNCHANGED <<pc, job, status>>
    BY <1>2 DEF Clock, OrphanEnds, CooldownEnds, HostCooldownEnds, RetryDelayPasses,
                AbandonedLeaseLapses, StalledLeaseLapses, LeaseLapses, laneVars, rowVars
  <2>2. QED
    BY <2>1, RowsMove
<1>3. CASE \E ls \in SUBSET Lane : Leave(ls) /\ UNCHANGED rowVars
  <2>1. UNCHANGED status /\ \A m \in Lane : pc'[m] = "idle" \/ (pc'[m] = pc[m] /\ job'[m] = job[m])
    BY <1>3 DEF Leave, rowVars
  <2>2. QED
    BY <2>1, LanesMove
<1>4. QED
  BY <1>1, <1>2, <1>3 DEF Failures, Abandon, Crash

\* Every step keeps it.
LEMMA NextMutex == MutexInv /\ [Next]_vars => MutexInv'
<1> SUFFICES ASSUME MutexInv, [Next]_vars PROVE MutexInv'
  OBVIOUS
<1>1. Typed'
  BY NextTyped DEF MutexInv
<1>2. CASE UNCHANGED vars
  BY <1>1, <1>2, RowsMove DEF vars, rowVars, laneVars
<1>3. CASE Next
  BY <1>1, <1>3, LaneMutex, SelectMutex, RequestMutex, RecoverMutex, EnvironmentMutex DEF Next
<1>4. QED
  BY <1>2, <1>3

\* The mutual exclusion invariant holds in every reachable state.
LEMMA MutexInvariant == Spec => []MutexInv
BY InitMutex, NextMutex, PTL DEF Spec

\* No run is ever executed by two lanes, whatever stalls, crashes, recoveries
\* and shared worker ids come between.
THEOREM ExecutorUnique == Spec => []OneExecutorPerRun
<1>1. MutexInv => OneExecutorPerRun
  BY DEF MutexInv
<1>2. QED
  BY <1>1, MutexInvariant, PTL

\* At most one lane that still holds its run executes for a tenant.
THEOREM TenantExecutorUnique == Spec => []OneLiveExecutorPerTenant
<1>1. MutexInv => OneLiveExecutorPerTenant
  <2> SUFFICES ASSUME MutexInv, NEW l \in Lane, NEW m \in Lane,
                      pc[l] \in Executing, Holds(l, Active),
                      pc[m] \in Executing, Holds(m, Active),
                      tenantOf[job[l]] = tenantOf[job[m]]
               PROVE  l = m
    BY DEF OneLiveExecutorPerTenant
  <2>1. job[l] \in Run /\ job[m] \in Run
    BY DEF MutexInv, Typed, JobTyped, Executing, InExecute
  <2>2. job[l] = job[m]
    BY <2>1 DEF MutexInv, OneActivePerTenant, Holds
  <2>3. QED
    BY <2>2 DEF MutexInv, OneExecutorPerRun
<1>2. QED
  BY <1>1, MutexInvariant, PTL
-----------------------------------------------------------------------------
(* The queries that nobody waits for, where one lane works. *)

\* While a query is left behind, either the tenant's breaker is open, or the
\* run that sent it is still RUNNING and so keeps the tenant busy.
OrphanGuarded ==
    \A t \in Tenant : orphan[t] =>
        Blocks(circuit[t]) \/ \E r \in Run : tenantOf[r] = t /\ status[r] = "RUNNING"

\* A lane that goes on after the recovery failed its run does so behind an open
\* breaker (what CooldownEnds assumes of the ten minutes).
LostIsBlocked ==
    \A l \in Lane :
        pc[l] \in {"sending", "querying"} /\ status[job[l]] # "RUNNING"
            => Blocks(circuit[tenantOf[job[l]]])

\* A lane at work finds no query left behind at its tenant's server, unless it
\* has just left one there itself.
LaneIsClean ==
    \A l \in Lane :
        pc[l] # "idle" /\ orphan[tenantOf[job[l]]] => pc[l] = "deciding" /\ result[l] = "unknown"

OrphanInv == MutexInv /\ OrphanGuarded /\ LostIsBlocked /\ LaneIsClean

\* What each operation does to an open breaker: only a completed run and the
\* end of its cooldown close it.
LEMMA OpenBreakers ==
    \A c \in Circuit :
        /\ Blocks(Uncertain(c))
        /\ \A continues \in BOOLEAN : Blocks(c) => Blocks(Counted(c, TenantThreshold, continues))
BY DEF Blocks, Uncertain, Counted, Circuit

\* Transactions that touch no lane, no tenant's breaker and no running run keep
\* the three.
LEMMA OrphanFrame ==
    ASSUME Typed, OrphanGuarded, LostIsBlocked, LaneIsClean,
           UNCHANGED <<pc, job, result, circuit, orphan>>,
           \A r \in Run : status[r] = "RUNNING" <=> status'[r] = "RUNNING"
    PROVE  OrphanGuarded' /\ LostIsBlocked' /\ LaneIsClean'
<1>1. OrphanGuarded'
  BY DEF OrphanGuarded
<1>2. LostIsBlocked'
  BY DEF LostIsBlocked, Typed, JobTyped
<1>3. LaneIsClean'
  BY DEF LaneIsClean
<1>4. QED
  BY <1>1, <1>2, <1>3

\* The select of a Claim transaction keeps them: a tenant whose server may hold
\* such a query is refused, for its breaker or for its running run.
LEMMA SelectOrphan ==
    ASSUME OrphanInv, NEW l \in Lane, NEW r \in Run, Select(l, r)
    PROVE  OrphanGuarded' /\ LostIsBlocked' /\ LaneIsClean'
<1>1. /\ LaneTyped /\ UNCHANGED <<status, circuit, orphan, result>>
      /\ pc' = [pc EXCEPT ![l] = "selected"] /\ job' = [job EXCEPT ![l] = r]
      /\ ~Blocks(circuit[tenantOf[r]]) /\ ~TenantBusy(r)
  BY TypedParts DEF OrphanInv, MutexInv, Parts, Select, Claimable, rowVars, smlVars
<1>2. tenantOf[r] \in Tenant
  BY ConstantsTyped
<1>3. ~orphan[tenantOf[r]]
  BY <1>1, <1>2 DEF OrphanInv, OrphanGuarded, TenantBusy, ActiveRuns, Active
<1>4. OrphanGuarded'
  BY <1>1 DEF OrphanInv, OrphanGuarded
<1>5. LostIsBlocked'
  BY <1>1 DEF OrphanInv, LostIsBlocked, LaneTyped
<1>6. LaneIsClean'
  BY <1>1, <1>3 DEF OrphanInv, LaneIsClean, LaneTyped
<1>7. QED
  BY <1>4, <1>5, <1>6

\* Lanes that stop without a write keep them: the query that is left behind was
\* sent for a run that is still RUNNING, or behind an open breaker.
LEMMA LeaveOrphan ==
    ASSUME OrphanInv, NEW ls \in SUBSET Lane, Leave(ls), UNCHANGED <<status, circuit>>,
           \A k, m \in Lane : k = m
    PROVE  OrphanGuarded' /\ LostIsBlocked' /\ LaneIsClean'
<1>1. \A l \in Lane : pc'[l] = "idle" \/ (l \notin ls /\ pc'[l] = pc[l] /\ job'[l] = job[l] /\ result'[l] = result[l])
  BY DEF Leave
<1>2. \A l \in Lane : l \notin ls => ls = {}
  OBVIOUS
<1>3. \A t \in Tenant : orphan'[t] =>
         orphan[t] \/ \E l \in ls : pc[l] = "querying" /\ tenantOf[job[l]] = t
  BY DEF Leave
<1>4. OrphanGuarded'
  <2> SUFFICES ASSUME NEW t \in Tenant, orphan'[t]
               PROVE  Blocks(circuit[t]) \/ \E r \in Run : tenantOf[r] = t /\ status[r] = "RUNNING"
    BY DEF OrphanGuarded
  <2>1. CASE orphan[t]
    BY <2>1 DEF OrphanInv, OrphanGuarded
  <2>2. CASE \E l \in ls : pc[l] = "querying" /\ tenantOf[job[l]] = t
    BY <2>2 DEF OrphanInv, LostIsBlocked, MutexInv, Typed, JobTyped
  <2>3. QED
    BY <1>3, <2>1, <2>2
<1>5. LostIsBlocked'
  BY <1>1 DEF OrphanInv, LostIsBlocked
<1>6. LaneIsClean'
  <2> SUFFICES ASSUME NEW l \in Lane, pc'[l] # "idle", orphan'[tenantOf[job'[l]]]
               PROVE  pc'[l] = "deciding" /\ result'[l] = "unknown"
    BY DEF LaneIsClean
  <2>1. ls = {} /\ pc'[l] = pc[l] /\ job'[l] = job[l] /\ result'[l] = result[l]
    BY <1>1, <1>2
  <2>2. tenantOf[job[l]] \in Tenant
    BY <2>1, ConstantsTyped DEF OrphanInv, MutexInv, Typed, JobTyped
  <2>3. orphan[tenantOf[job[l]]]
    BY <1>3, <2>1, <2>2
  <2>4. QED
    BY <2>1, <2>3 DEF OrphanInv, LaneIsClean
<1>7. QED
  BY <1>4, <1>5, <1>6

\* The last write of ProcessOne keeps them: a query of unknown outcome opens
\* the breaker in the transaction that ends its run, and the writes that end a
\* run otherwise find no query left behind.
LEMMA FinishOrphan ==
    ASSUME OrphanInv, NEW l \in Lane, Finish(l), \A k, m \in Lane : k = m
    PROVE  OrphanGuarded' /\ LostIsBlocked' /\ LaneIsClean'
<1>1. /\ Idle(l) /\ pc[l] = "deciding" /\ UNCHANGED orphan
  BY DEF Finish, FinishGuard, FailRemoteUnknown, RetryPreRequestFailure,
         FailPreRequestFailure, Retry, Fail, Complete, FinishLost, smlVars
<1>2. /\ LaneTyped /\ SmlTyped /\ status \in [Run -> Status]
      /\ job[l] \in Run /\ tenantOf[job[l]] \in Tenant
  BY <1>1, TypedParts, ConstantsTyped DEF OrphanInv, MutexInv, Typed, TypeOK, JobTyped, Parts
<1>3. \A m \in Lane : pc'[m] = "idle"
  BY <1>1, <1>2 DEF Idle, LaneTyped
<1>4. LostIsBlocked' /\ LaneIsClean'
  BY <1>3 DEF LostIsBlocked, LaneIsClean
<1>5. result[l] # "unknown" => ~orphan[tenantOf[job[l]]]
  BY <1>1 DEF OrphanInv, LaneIsClean
<1>6. \A r \in Run : r = job[l] \/ FinishLost(l) \/ (status[r] = "RUNNING" => status'[r] = "RUNNING")
  <2>1. CASE FailRemoteUnknown(l) \/ FailPreRequestFailure(l) \/ Fail(l)
    <3>1. FailRuns({job[l]})
      BY <2>1 DEF FailRemoteUnknown, FailPreRequestFailure, Fail
    <3>2. QED
      BY <1>2, <3>1, FailRunsMoves
  <2>2. CASE RetryPreRequestFailure(l) \/ Retry(l)
    BY <1>2, <2>2 DEF RetryPreRequestFailure, Retry, RequeueRun
  <2>3. CASE Complete(l)
    BY <1>2, <2>3 DEF Complete
  <2>4. QED
    BY <2>1, <2>2, <2>3 DEF Finish
<1>7. \A t \in Tenant : orphan[t] /\ Blocks(circuit[t]) => Blocks(circuit'[t])
  <2>1. CASE FailRemoteUnknown(l)
    BY <1>2, <2>1, OpenBreakers DEF FailRemoteUnknown, SmlTyped
  <2>2. CASE RetryPreRequestFailure(l) \/ FailPreRequestFailure(l) \/ Retry(l) \/ FinishLost(l)
    BY <2>2 DEF RetryPreRequestFailure, FailPreRequestFailure, Retry, FinishLost, smlVars
  <2>3. CASE Fail(l)
    <3>1. \/ UNCHANGED circuit
          \/ \E continues \in BOOLEAN :
                circuit' = [circuit EXCEPT ![tenantOf[job[l]]] = Counted(@, TenantThreshold, continues)]
      BY <2>3 DEF Fail
    <3>2. QED
      BY <1>2, <3>1, OpenBreakers DEF SmlTyped
  <2>4. CASE Complete(l)
    BY <1>2, <1>5, <2>4 DEF Complete, FinishGuard, SmlTyped
  <2>5. QED
    BY <2>1, <2>2, <2>3, <2>4 DEF Finish
<1>8. OrphanGuarded'
  <2> SUFFICES ASSUME NEW t \in Tenant, orphan[t]
               PROVE  Blocks(circuit'[t]) \/ \E r \in Run : tenantOf[r] = t /\ status'[r] = "RUNNING"
    BY <1>1 DEF OrphanGuarded
  <2>1. CASE Blocks(circuit[t])
    BY <1>7, <2>1
  <2>2. ASSUME NEW r \in Run, tenantOf[r] = t, status[r] = "RUNNING"
        PROVE  Blocks(circuit'[t]) \/ \E s \in Run : tenantOf[s] = t /\ status'[s] = "RUNNING"
    <3>1. CASE FinishLost(l)
      BY <2>2, <3>1 DEF FinishLost, rowVars
    <3>2. CASE r # job[l] /\ ~FinishLost(l)
      BY <1>6, <2>2, <3>2
    <3>3. CASE r = job[l] /\ ~FinishLost(l)
      <4>1. result[l] = "unknown"
        BY <1>5, <2>2, <3>3
      <4>2. FailRemoteUnknown(l)
        BY <3>3, <4>1 DEF Finish, FinishGuard, RetryPreRequestFailure, FailPreRequestFailure,
                          Retry, Fail, Complete
      <4>3. QED
        BY <1>2, <2>2, <3>3, <4>2, OpenBreakers DEF FailRemoteUnknown, SmlTyped
    <3>4. QED
      BY <3>1, <3>2, <3>3
  <2>3. QED
    BY <2>1, <2>2 DEF OrphanInv, OrphanGuarded
<1>9. QED
  BY <1>4, <1>8

\* Every other step of a lane keeps them.
LEMMA LaneOrphan ==
    ASSUME OrphanInv, NEW l \in Lane, LaneStep(l), \A k, m \in Lane : k = m
    PROVE  OrphanGuarded' /\ LostIsBlocked' /\ LaneIsClean'
<1> USE DEF OrphanInv
<1>1. /\ LaneTyped /\ SmlTyped /\ status \in [Run -> Status]
      /\ pc[l] # "idle" => job[l] \in Run /\ tenantOf[job[l]] \in Tenant
  BY TypedParts, ConstantsTyped DEF MutexInv, Typed, TypeOK, JobTyped, Parts
<1>2. CASE ClaimRun(l)
  <2>1. /\ pc[l] = "selected" /\ UNCHANGED <<job, result, circuit, orphan>>
        /\ pc' = [pc EXCEPT ![l] = "claimed"] /\ status' = [status EXCEPT ![job[l]] = "CLAIMED"]
    BY <1>2 DEF ClaimRun, ClaimAs, smlVars
  <2>2. status[job[l]] = "QUEUED"
    BY <2>1 DEF MutexInv, SelectedIsQueued
  <2>3. \A r \in Run : status[r] = "RUNNING" => status'[r] = "RUNNING"
    BY <1>1, <2>1, <2>2
  <2>4. OrphanGuarded'
    BY <2>1, <2>3 DEF OrphanGuarded
  <2>5. LostIsBlocked' /\ LaneIsClean'
    BY <1>1, <2>1 DEF LostIsBlocked, LaneIsClean, LaneTyped
  <2>6. QED
    BY <2>4, <2>5
<1>3. CASE MarkRunning(l)
  <2>1. /\ pc[l] = "claimed" /\ UNCHANGED <<job, result, circuit, orphan>>
        /\ pc' = [pc EXCEPT ![l] = "running"] /\ status' = [status EXCEPT ![job[l]] = "RUNNING"]
    BY <1>3 DEF MarkRunning, smlVars
  <2>2. OrphanGuarded'
    BY <1>1, <2>1 DEF OrphanGuarded
  <2>3. LostIsBlocked' /\ LaneIsClean'
    BY <1>1, <2>1 DEF LostIsBlocked, LaneIsClean, LaneTyped
  <2>4. QED
    BY <2>2, <2>3
<1>4. CASE ClaimRefused(l) \/ MarkRunningLost(l)
  <2>1. Idle(l) /\ UNCHANGED <<status, circuit, orphan>>
    BY <1>4 DEF ClaimRefused, MarkRunningLost, rowVars, smlVars
  <2>2. OrphanGuarded'
    BY <2>1 DEF OrphanGuarded
  <2>3. LostIsBlocked' /\ LaneIsClean'
    BY <1>1, <2>1 DEF LostIsBlocked, LaneIsClean, LaneTyped, Idle
  <2>4. QED
    BY <2>2, <2>3
<1>5. CASE Prepare(l)
  <2>1. /\ pc[l] = "running" /\ UNCHANGED <<status, job, circuit, orphan>>
        /\ \/ Holds(l, {"RUNNING"}) /\ pc' = [pc EXCEPT ![l] = "sending"]
           \/ pc' = [pc EXCEPT ![l] = "deciding"]
    BY <1>5 DEF Prepare, Decide, rowVars, smlVars
  <2>2. ~orphan[tenantOf[job[l]]]
    BY <2>1 DEF LaneIsClean
  <2>3. OrphanGuarded'
    BY <2>1 DEF OrphanGuarded
  <2>4. LostIsBlocked' /\ LaneIsClean'
    BY <1>1, <2>1, <2>2 DEF LostIsBlocked, LaneIsClean, LaneTyped, Holds
  <2>5. QED
    BY <2>3, <2>4
<1>6. CASE Send(l)
  <2>1. /\ pc[l] = "sending" /\ UNCHANGED <<status, job, circuit, orphan>>
        /\ \E next \in {"querying", "deciding"} : pc' = [pc EXCEPT ![l] = next]
    BY <1>6 DEF Send, Decide, rowVars, smlVars
  <2>2. ~orphan[tenantOf[job[l]]]
    BY <2>1 DEF LaneIsClean
  <2>3. OrphanGuarded'
    BY <2>1 DEF OrphanGuarded
  <2>4. LostIsBlocked' /\ LaneIsClean'
    BY <1>1, <2>1, <2>2 DEF LostIsBlocked, LaneIsClean, LaneTyped
  <2>5. QED
    BY <2>3, <2>4
<1>7. CASE Answer(l)
  <2>1. PICK outcome \in Result :
           /\ pc[l] = "querying" /\ UNCHANGED <<status, job, circuit>>
           /\ pc' = [pc EXCEPT ![l] = "deciding"] /\ result' = [result EXCEPT ![l] = outcome]
           /\ orphan' = [orphan EXCEPT ![tenantOf[job[l]]] = @ \/ outcome = "unknown"]
    BY <1>7 DEF Answer, Decide, rowVars
  <2>2. ~orphan[tenantOf[job[l]]]
    BY <2>1 DEF LaneIsClean
  <2>3. Blocks(circuit[tenantOf[job[l]]]) \/ status[job[l]] = "RUNNING"
    BY <2>1 DEF LostIsBlocked
  <2>4. \A t \in Tenant : orphan'[t] => orphan[t] \/ t = tenantOf[job[l]]
    BY <1>1, <2>1 DEF SmlTyped
  <2>5. orphan'[tenantOf[job[l]]] => outcome = "unknown"
    BY <1>1, <2>1, <2>2 DEF SmlTyped
  <2>6. OrphanGuarded'
    BY <1>1, <2>1, <2>3, <2>4 DEF OrphanGuarded
  <2>7. LostIsBlocked' /\ LaneIsClean'
    BY <1>1, <2>1, <2>5 DEF LostIsBlocked, LaneIsClean, LaneTyped
  <2>8. QED
    BY <2>6, <2>7
<1>8. CASE LoseLease(l)
  BY <1>8, LeaveOrphan DEF LoseLease, rowVars
<1>9. CASE Finish(l)
  BY <1>9, FinishOrphan
<1>10. QED
  BY <1>2, <1>3, <1>4, <1>5, <1>6, <1>7, <1>8, <1>9 DEF LaneStep

\* RecoverExpiredLeases keeps them: it opens the breaker of every tenant whose
\* RUNNING run it fails.
LEMMA RecoverOrphan ==
    ASSUME OrphanInv, Recover PROVE OrphanGuarded' /\ LostIsBlocked' /\ LaneIsClean'
<1> DEFINE back == Expired("CLAIMED")
           dead == Expired("RUNNING")
<1>1. RecoverRuns(back, dead) /\ UNCHANGED <<pc, job, result, orphan>>
  BY DEF Recover, RecoverRuns, laneVars
<1>2. /\ \A r \in back : status[r] = "CLAIMED"
      /\ dead \in SUBSET Run
  BY DEF Expired
<1> HIDE DEF back, dead
<1>3. circuit \in [Tenant -> Circuit]
  BY DEF OrphanInv, MutexInv, Typed, TypeOK
<1>4. /\ \A r \in dead : Blocks(circuit'[tenantOf[r]])
      /\ \A t \in Tenant : Blocks(circuit[t]) => Blocks(circuit'[t])
  BY <1>1, <1>2, <1>3, OpenBreakers, ConstantsTyped DEF RecoverRuns
<1>5. \A r \in Run \ dead : status[r] = "RUNNING" <=> status'[r] = "RUNNING"
  BY <1>1, <1>2 DEF RecoverRuns, StatusAfterFailure, SiblingsOf
<1>6. OrphanGuarded'
  BY <1>1, <1>4, <1>5 DEF OrphanInv, OrphanGuarded
<1>7. LostIsBlocked'
  <2> SUFFICES ASSUME NEW l \in Lane, pc[l] \in {"sending", "querying"}, status'[job[l]] # "RUNNING"
               PROVE  Blocks(circuit'[tenantOf[job[l]]])
    BY <1>1 DEF LostIsBlocked
  <2>1. job[l] \in Run /\ tenantOf[job[l]] \in Tenant
    BY ConstantsTyped DEF OrphanInv, MutexInv, Typed, JobTyped
  <2>2. QED
    BY <1>4, <1>5, <2>1 DEF OrphanInv, LostIsBlocked
<1>8. LaneIsClean'
  BY <1>1 DEF OrphanInv, LaneIsClean
<1>9. QED
  BY <1>6, <1>7, <1>8

\* The end of a query left behind, and the end of a cooldown, which outlasts it.
LEMMA ClockOrphan ==
    ASSUME OrphanInv, NEW t \in Tenant, OrphanEnds(t) \/ CooldownEnds(t)
    PROVE  OrphanGuarded' /\ LostIsBlocked' /\ LaneIsClean'
<1>1. /\ UNCHANGED <<pc, job, result, status>>
      /\ circuit \in [Tenant -> Circuit] /\ orphan \in [Tenant -> BOOLEAN]
      /\ \A l \in Lane : pc[l] # "idle" => tenantOf[job[l]] \in Tenant
  BY ConstantsTyped DEF OrphanEnds, CooldownEnds, rowVars, laneVars, OrphanInv, MutexInv,
                        Typed, TypeOK, JobTyped
<1>2. CASE OrphanEnds(t)
  <2>1. UNCHANGED circuit /\ \A u \in Tenant : orphan'[u] => orphan[u]
    BY <1>1, <1>2 DEF OrphanEnds
  <2>2. QED
    BY <1>1, <2>1 DEF OrphanInv, OrphanGuarded, LostIsBlocked, LaneIsClean
<1>3. CASE CooldownEnds(t)
  <2>1. /\ UNCHANGED orphan /\ ~orphan[t]
        /\ \A u \in Tenant \ {t} : circuit'[u] = circuit[u]
        /\ \A l \in Lane : pc[l] \in {"sending", "querying"} /\ tenantOf[job[l]] = t
                              => status[job[l]] = "RUNNING"
    BY <1>1, <1>3 DEF CooldownEnds
  <2>2. OrphanGuarded'
    BY <1>1, <2>1 DEF OrphanInv, OrphanGuarded
  <2>3. LostIsBlocked'
    BY <1>1, <2>1 DEF OrphanInv, LostIsBlocked
  <2>4. LaneIsClean'
    BY <1>1, <2>1 DEF OrphanInv, LaneIsClean
  <2>5. QED
    BY <2>2, <2>3, <2>4
<1>4. QED
  BY <1>2, <1>3

\* Requests, schedules and the rest of the clock touch none of it.
LEMMA QuietOrphan ==
    ASSUME OrphanInv,
           \/ Request
           \/ \E o \in Occurrence : Schedule(o)
           \/ \E h \in Host : HostCooldownEnds(h)
           \/ \E r \in Run : RetryDelayPasses(r) \/ AbandonedLeaseLapses(r) \/ StalledLeaseLapses(r)
    PROVE  OrphanGuarded' /\ LostIsBlocked' /\ LaneIsClean'
<1>1. status \in [Run -> Status]
  BY DEF OrphanInv, MutexInv, Typed, TypeOK
<1>2. UNCHANGED <<pc, job, result, circuit, orphan>>
  BY DEF Request, EnqueueDashboard, EnqueueBackground, Cancel, CancelQueued, BeginRefresh,
         CommitRefresh, ArchiveTenant, Schedule, ScheduleNears, Materialize, MaterializeBlocked,
         HostCooldownEnds, RetryDelayPasses, AbandonedLeaseLapses, StalledLeaseLapses,
         LeaseLapses, laneVars, smlVars
<1>3. \A r \in Run : status[r] = "RUNNING" <=> status'[r] = "RUNNING"
  <2>1. CASE \E r \in Run : EnqueueDashboard(r) \/ EnqueueBackground(r)
    BY <2>1 DEF EnqueueDashboard, EnqueueBackground, Insert
  <2>2. CASE \E r \in Run : Cancel(r)
    BY <1>1, <2>2 DEF Cancel, CancelQueued
  <2>3. CASE \E g \in Generation : BeginRefresh(g) \/ CommitRefresh(g)
    BY <2>3 DEF BeginRefresh, CommitRefresh, Insert, rowVars
  <2>4. CASE \E o \in Occurrence : Schedule(o)
    BY <2>4 DEF Schedule, ScheduleNears, Materialize, MaterializeBlocked, Insert, rowVars
  <2>5. CASE \/ \E h \in Host : HostCooldownEnds(h)
             \/ \E r \in Run : RetryDelayPasses(r) \/ AbandonedLeaseLapses(r) \/ StalledLeaseLapses(r)
    BY <2>5 DEF HostCooldownEnds, RetryDelayPasses, AbandonedLeaseLapses, StalledLeaseLapses,
                LeaseLapses, rowVars
  <2>6. CASE \E t \in Tenant : ArchiveTenant(t)
    BY <2>6 DEF ArchiveTenant
  <2>7. QED
    BY <2>1, <2>2, <2>3, <2>4, <2>5, <2>6 DEF Request
<1>4. QED
  BY <1>2, <1>3, OrphanFrame DEF OrphanInv, MutexInv

\* The empty table has no query left behind.
LEMMA InitOrphan == Init => OrphanInv
<1>1. Init => OrphanGuarded /\ LostIsBlocked /\ LaneIsClean
  BY DEF Init, OrphanGuarded, LostIsBlocked, LaneIsClean
<1>2. QED
  BY <1>1, InitMutex DEF OrphanInv

\* Every step of a system with one lane keeps the three.
LEMMA NextOrphan ==
    ASSUME \A k, m \in Lane : k = m PROVE OrphanInv /\ [Next]_vars => OrphanInv'
<1> SUFFICES ASSUME OrphanInv, [Next]_vars PROVE OrphanInv'
  OBVIOUS
<1>1. MutexInv'
  BY NextMutex DEF OrphanInv
<1>2. CASE UNCHANGED vars
  BY <1>1, <1>2, OrphanFrame DEF OrphanInv, MutexInv, vars, rowVars, laneVars, smlVars
<1>3. CASE Failures
  <2>1. CASE \E r \in Run : StalledLeaseLapses(r)
    BY <1>1, <2>1, QuietOrphan DEF OrphanInv
  <2>2. CASE \E ls \in SUBSET Lane : Leave(ls) /\ UNCHANGED <<status, circuit>>
    BY <1>1, <2>2, LeaveOrphan DEF OrphanInv
  <2>3. CASE \E l \in Lane : Abandon(l)
    BY <2>2, <2>3 DEF Abandon, rowVars
  <2>4. CASE \E p \in Proc : Crash(p)
    BY <2>2, <2>4 DEF Crash, rowVars
  <2>5. QED
    BY <1>3, <2>1, <2>3, <2>4 DEF Failures
<1>4. CASE Clock
  BY <1>1, <1>4, QuietOrphan, ClockOrphan DEF Clock, OrphanInv
<1>5. CASE Next
  BY <1>1, <1>3, <1>4, <1>5, QuietOrphan, RecoverOrphan, LaneOrphan, SelectOrphan
  DEF Next, OrphanInv
<1>6. QED
  BY <1>2, <1>5

\* With one lane, no tenant is ever sent a query while one that nobody waits
\* for may still run on its server, whatever stalls, crashes, recoveries and
\* late answers come between.  Two lanes can: the breaker is not read again
\* between the select and the update of Claim.
THEOREM OneLaneNeverAddsAQuery ==
    ASSUME \A k, m \in Lane : k = m PROVE Spec => []NoQueryDuringUncertainty
<1>1. OrphanInv => NoQueryDuringUncertainty
  BY DEF OrphanInv, LaneIsClean, NoQueryDuringUncertainty
<1>2. Spec => []OrphanInv
  BY InitOrphan, NextOrphan, PTL DEF Spec
<1>3. QED
  BY <1>1, <1>2, PTL

=============================================================================
