----------------------------- MODULE Schedules -----------------------------
(***************************************************************************)
(* The schedules of the stores: their life cycle, the readiness gates, and *)
(* the occurrences ("notification runs") that are materialized from them.  *)
(* What the report runs of an occurrence go through is the subject of      *)
(* ReportRuns, what becomes of the messages that of LineDelivery; here an  *)
(* occurrence's runs are queued, done or cancelled, and its preparation is *)
(* one step.                                                               *)
(*                                                                         *)
(* Schedule mutations, revocation and permission changes of a store share  *)
(* an advisory lock, so each is one action.  MaterializeTest does not take *)
(* it: that a store may be archived between its readiness query and its    *)
(* commit is left out here.                                                *)
(*                                                                         *)
(* All processes read the same clock.  A test send's scheduled_for is the  *)
(* microsecond it was asked for; that it coincides with a scheduled minute *)
(* is left out.                                                            *)
(***************************************************************************)
EXTENDS Directory

CONSTANTS
    Schedule,
    storeOf,       \* [Schedule -> Tenant]
    Plans,         \* inputs Validate accepts: [days, time, preset, reports, recipients]
    SmartPeriods,  \* the smart-period feature is on for the stores
    MaxTests       \* bound on test sends of a schedule

ASSUME ScheduleConstants ==
    /\ storeOf \in [Schedule -> Tenant]
    /\ \A plan \in Plans :
          /\ plan.days # {} /\ plan.days \subseteq 0 .. (DaysInWeek - 1)
          /\ plan.time \in 0 .. (SlotsPerDay - 1)
          /\ plan.preset \in Preset
          /\ plan.reports # {} /\ plan.reports \subseteq Report
          /\ plan.recipients # {} /\ plan.recipients \subseteq Recipient
    /\ SmartPeriods \in BOOLEAN
    /\ MaxTests \in Nat
    /\ None \notin Nat \cup Plans

VARIABLES
    schedule,    \* notification_schedules with their days, reports and recipients
    activating,  \* an Activate request between its unlocked read and its commit
    since,       \* history: the clock of the activation in force, None when it
                 \* was overtaken by another change of the schedule
    occurrences  \* notification_runs; "to" is whom the preparation addressed

scheduleVars == <<schedule, activating, since, occurrences>>

ScheduleStatus   == {"ABSENT", "DRAFT", "ACTIVE", "PAUSED", "ARCHIVED"}
OccurrenceStatus == {"COLLECTING", "SENT", "FAILED"}
WorkStatus       == {"QUEUED", "DONE", "CANCELLED"}

NoSchedule == [status |-> "ABSENT", plan |-> None, next |-> None, version |-> 0]

SchedulesTypeOK ==
    /\ schedule \in [Schedule -> [status : ScheduleStatus, plan : Plans \cup {None},
                                  next : Nat \cup {None}, version : Nat]]
    /\ activating \in [Schedule -> {None} \cup [next : Nat, at : Nat, version : Nat]]
    /\ since \in [Schedule -> Nat \cup {None}]
    /\ \A o \in occurrences :
          /\ o.schedule \in Schedule /\ o.slot \in Nat /\ o.test \in Nat
          /\ o.status \in OccurrenceStatus /\ o.work \in WorkStatus
          /\ DOMAIN o.periods \subseteq Report
          /\ o.to \subseteq Recipient

SchedulesInit ==
    /\ schedule = [s \in Schedule |-> NoSchedule]
    /\ activating = [s \in Schedule |-> None]
    /\ since = [s \in Schedule |-> None]
    /\ occurrences = {}

-----------------------------------------------------------------------------
HasPermissions(t, plan) ==
    \A r \in plan.recipients : plan.reports \subseteq member[t][r].keys

\* scheduleReadiness finds no blocker.
Ready(s) ==
    LET t == storeOf[s]
        plan == schedule[s].plan
    IN  /\ TenantActive(t)
        /\ SmlReady(t)
        /\ \A r \in plan.recipients : RecipientActive(t, r)
        /\ HasPermissions(t, plan)

Scheduled(s) == {o \in occurrences : o.schedule = s /\ o.test = 0}
TestsOf(s)   == {o \in occurrences : o.schedule = s /\ o.test > 0}

\* Mutation of NotNeeded: the dependency query is dropped.
NotAsked(t, r, keys) == TRUE

\* No ACTIVE schedule of the store makes use of what is to be taken away.
NotNeeded(t, r, keys) ==
    \A s \in Schedule :
        storeOf[s] = t /\ schedule[s].status = "ACTIVE" /\ r \in schedule[s].plan.recipients
            => schedule[s].plan.reports \subseteq keys

-----------------------------------------------------------------------------
(* The administrator                                                       *)

CreateSchedule(s) ==
    /\ schedule[s].status = "ABSENT"
    /\ Exists(storeOf[s])
    /\ \E plan \in Plans :
          /\ HasPermissions(storeOf[s], plan)
          /\ schedule' = [schedule EXCEPT ![s] =
                [status |-> "DRAFT", plan |-> plan, next |-> None, version |-> 1]]
    /\ UNCHANGED <<activating, since, occurrences>>

UpdateSchedule(s) ==
    /\ schedule[s].status \in {"DRAFT", "PAUSED"}
    /\ \E plan \in Plans :
          /\ HasPermissions(storeOf[s], plan)
          /\ schedule' = [schedule EXCEPT ![s].plan = plan, ![s].version = @ + 1]
    /\ UNCHANGED <<activating, since, occurrences>>

\* Mutation of BeginActivate: the first occurrence is not computed.
BeginActivateBlank(s) ==
    /\ schedule[s].status # "ABSENT"
    /\ activating[s] = None
    /\ Ready(s)
    /\ activating' = [activating EXCEPT ![s] =
          [next |-> None, at |-> now, version |-> schedule[s].version]]
    /\ UNCHANGED <<schedule, since, occurrences>>

\* Service.Activate reads the schedule and its readiness without a lock and
\* computes the first occurrence from that copy and its own clock.
BeginActivate(s) ==
    /\ schedule[s].status # "ABSENT"
    /\ activating[s] = None
    /\ Ready(s)
    /\ activating' = [activating EXCEPT ![s] =
          [next |-> NextOccurrence(schedule[s].plan, now), at |-> now,
           version |-> schedule[s].version]]
    /\ UNCHANGED <<schedule, since, occurrences>>

\* Mutation of Activate: the store relies on the service's readiness check.
ActivateUnchecked(s) ==
    /\ activating[s] # None
    /\ activating' = [activating EXCEPT ![s] = None]
    /\ schedule[s].status \in {"DRAFT", "PAUSED"}
    /\ schedule' = [schedule EXCEPT ![s].status = "ACTIVE",
                                    ![s].next = activating[s].next,
                                    ![s].version = @ + 1]
    /\ since' = [since EXCEPT ![s] = activating[s].at]
    /\ UNCHANGED occurrences

\* ScheduleStore.Activate checks status and readiness again, the version and
\* the clock not.  On an ACTIVE schedule it is a replay.
Activate(s) ==
    /\ activating[s] # None
    /\ activating' = [activating EXCEPT ![s] = None]
    /\ \/ /\ schedule[s].status \in {"DRAFT", "PAUSED"} /\ Ready(s)
          /\ schedule' = [schedule EXCEPT ![s].status = "ACTIVE",
                                          ![s].next = activating[s].next,
                                          ![s].version = @ + 1]
          /\ since' = [since EXCEPT ![s] =
                IF activating[s].version = schedule[s].version
                THEN activating[s].at ELSE None]
       \/ /\ schedule[s].status \notin {"DRAFT", "PAUSED"} \/ ~ Ready(s)
          /\ UNCHANGED <<schedule, since>>
    /\ UNCHANGED occurrences

\* Mutation of Stopped: the version is not advanced.
StoppedUnseen(record, status) == [record EXCEPT !.status = status, !.next = None]

Stopped(record, status) ==
    [record EXCEPT !.status = status, !.next = None, !.version = @ + 1]

PauseSchedule(s) ==
    /\ schedule[s].status = "ACTIVE"
    /\ schedule' = [schedule EXCEPT ![s] = Stopped(@, "PAUSED")]
    /\ UNCHANGED <<activating, since, occurrences>>

ArchiveSchedule(s) ==
    /\ schedule[s].status \in {"DRAFT", "PAUSED"}
    /\ schedule' = [schedule EXCEPT ![s] = Stopped(@, "ARCHIVED")]
    /\ UNCHANGED <<activating, since, occurrences>>

RestoreSchedule(s) ==
    /\ schedule[s].status = "ARCHIVED"
    /\ schedule' = [schedule EXCEPT ![s] = Stopped(@, "DRAFT")]
    /\ UNCHANGED <<activating, since, occurrences>>

\* The schedules' part of TenantStore.Archive: queued runs are cancelled, the
\* occurrences they belong to are left to the notifier.
ArchiveSchedulesOf(t) ==
    /\ schedule' = [s \in Schedule |->
          IF storeOf[s] = t /\ schedule[s].status = "ACTIVE"
          THEN Stopped(schedule[s], "PAUSED") ELSE schedule[s]]
    /\ occurrences' =
          {IF storeOf[o.schedule] = t /\ o.work = "QUEUED"
           THEN [o EXCEPT !.work = "CANCELLED"] ELSE o : o \in occurrences}
    /\ UNCHANGED <<activating, since>>

-----------------------------------------------------------------------------
(* Materialization                                                         *)

\* PeriodPolicy.Resolve for every report of the plan.
PeriodsOf(plan, slot) ==
    [k \in plan.reports |->
        IF SmartPeriods THEN ResolveEffectivePeriod(plan.preset, modeOf[k], Day(slot))
        ELSE ResolvePeriod(plan.preset, Day(slot))]

Collecting(s, slot, test) ==
    [schedule |-> s, slot |-> slot, test |-> test, status |-> "COLLECTING",
     work |-> "QUEUED", periods |-> PeriodsOf(schedule[s].plan, slot), to |-> {}]

Blocked(s, slot) ==
    [schedule |-> s, slot |-> slot, test |-> 0, status |-> "FAILED",
     work |-> "DONE", periods |-> <<>>, to |-> {}]

\* "Send now", also for a schedule that is not active.
MaterializeTest(s) ==
    /\ schedule[s].status \notin {"ABSENT", "ARCHIVED"}
    /\ Ready(s)
    /\ Cardinality(TestsOf(s)) < MaxTests
    /\ occurrences' = occurrences \cup {Collecting(s, now, Cardinality(TestsOf(s)) + 1)}
    /\ UNCHANGED <<schedule, activating, since>>

\* The unique index on (schedule_id, scheduled_for) makes the transaction fail
\* when the slot has its occurrence already: then nothing changes.
IsDue(s) ==
    /\ schedule[s].status = "ACTIVE" /\ schedule[s].next <= now
    /\ \A o \in Scheduled(s) : o.slot # schedule[s].next

\* Mutation of MaterializeDue: the next occurrence is counted from the clock.
MaterializeLatest(s) ==
    /\ IsDue(s) /\ Ready(s)
    /\ occurrences' = occurrences \cup {Collecting(s, schedule[s].next, 0)}
    /\ schedule' = [schedule EXCEPT ![s].next = NextOccurrence(schedule[s].plan, now)]
    /\ UNCHANGED <<activating, since>>

MaterializeDue(s) ==
    /\ IsDue(s)
    /\ LET slot == schedule[s].next
       IN  \/ /\ Ready(s)
              /\ occurrences' = occurrences \cup {Collecting(s, slot, 0)}
              /\ schedule' = [schedule EXCEPT ![s].next =
                                  NextOccurrence(schedule[s].plan, slot)]
           \/ /\ ~ Ready(s)
              /\ occurrences' = occurrences \cup {Blocked(s, slot)}
              /\ schedule' = [schedule EXCEPT ![s] = Stopped(@, "PAUSED")]
    /\ UNCHANGED <<activating, since>>

-----------------------------------------------------------------------------
(* An occurrence's runs are executed and its messages prepared.            *)

Replace(o, new) == occurrences' = (occurrences \ {o}) \cup {new}

\* Claim asks for the state of circuits and slots, never of the store.
ExecuteRuns(o) ==
    /\ o.work = "QUEUED"
    /\ Replace(o, [o EXCEPT !.work = "DONE"])
    /\ UNCHANGED <<schedule, activating, since>>

\* loadNotificationWork: whoever the schedule names now and may see all reports.
Targets(o) ==
    LET t == storeOf[o.schedule]
    IN  {r \in schedule[o.schedule].plan.recipients :
            RecipientActive(t, r) /\ DOMAIN o.periods \subseteq member[t][r].keys}

\* Reports of different periods must be what the schedule's present preset
\* gives for the occurrence's day.
ValidReportContext(o) ==
    \/ \A j, k \in DOMAIN o.periods : o.periods[j] = o.periods[k]
    \/ \A k \in DOMAIN o.periods :
          o.periods[k] = ResolveEffectivePeriod(schedule[o.schedule].plan.preset,
                                                modeOf[k], Day(o.slot))

Prepare(o) ==
    /\ o.status = "COLLECTING"
    /\ \/ /\ o.work = "CANCELLED" \/ (o.work = "DONE" /\ Targets(o) = {})
                                  \/ (o.work = "DONE" /\ ~ ValidReportContext(o))
          /\ Replace(o, [o EXCEPT !.status = "FAILED"])
       \/ /\ o.work = "DONE" /\ Targets(o) # {} /\ ValidReportContext(o)
          /\ Replace(o, [o EXCEPT !.status = "SENT", !.to = Targets(o)])
    /\ UNCHANGED <<schedule, activating, since>>
=============================================================================
