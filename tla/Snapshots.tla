----------------------------- MODULE Snapshots -----------------------------
(***************************************************************************)
(* What viewers of one store are shown: the stored results of report runs, *)
(* which of them answers a request, when a new run is started instead, and *)
(* when retention takes results away.                                      *)
(*                                                                         *)
(* A run is taken from the queue and executed in two steps here; leases,   *)
(* lanes and generations are the subject of ReportRuns.  A request that is *)
(* refused (by a permission, a breaker, the guard before a schedule, a     *)
(* limit, a policy version) changes nothing and is a stuttering step.      *)
(* A retention pass handles all that is due: its batches are not full.     *)
(*                                                                         *)
(* The unit of time is the slot of Calendar; a day of SlotsPerDay slots is *)
(* the 24 hours for which detail rows are kept and a closed period counts  *)
(* as fresh.  The window in which a viewer's repeated request joins his    *)
(* own run (60 seconds) is the slot.                                       *)
(***************************************************************************)
EXTENDS Calendar, FiniteSets

CONSTANTS
    Viewer, None,
    presetsOf,       \* [Viewer -> SUBSET Preset]: what a viewer asks for
    SchedulePresets, \* presets of the schedules
    Intervals,       \* refresh intervals an administrator may choose, in slots
    RetentionSlots,  \* 90 days: SnapshotRetention
    HistorySlots,    \* 365 days: HistoryRetention
    LinkSlots,       \* one year: how long a delivery and its link are valid
    MaxBackground,   \* 10: background runs of a store
    MaxDashboard,    \* 2: interactive runs of a store
    MaxRuns,         \* bound on the runs ever created
    MaxRequests,     \* bound on the viewers' requests
    MaxEdits,        \* bound on the administrator's changes
    LastSlot         \* bound on the clock

Key == [report : Report, from : Int, to : Int, version : Nat]

ASSUME SnapshotConstants ==
    /\ None \notin Nat \cup Viewer \cup Key
    /\ presetsOf \in [Viewer -> SUBSET Preset]
    /\ SchedulePresets \subseteq Preset
    /\ Intervals \subseteq Nat \ {0}
    /\ {RetentionSlots, HistorySlots, LinkSlots} \subseteq Nat \ {0}
    /\ SlotsPerDay <= RetentionSlots /\ RetentionSlots <= HistorySlots
    /\ {MaxBackground, MaxDashboard, MaxRuns, MaxRequests, MaxEdits, LastSlot} \subseteq Nat

VARIABLES
    now,
    version,    \* of the store's connection
    edits,      \* changes by the administrator so far
    interval,   \* of its refresh policy; None: no background refreshes
    runs,       \* report_runs with their dashboards and rows
    serial,     \* the next run's id
    requests,   \* requests of viewers so far
    asking,     \* a viewer's request between its reads and its transaction
    awaited,    \* the run a viewer was told to wait for
    occasions,  \* scheduled notifications: run, delivery and link
    promised    \* history: links that reached their recipients

vars == <<now, version, edits, interval, runs, serial, requests, asking, awaited, occasions, promised>>

Active(r) == r.status \in {"QUEUED", "RUNNING"}

Period == [preset : Preset \cup {"CUSTOM"}, from : Int, to : Int]

\* "key" stands for the execution key, "label" for data_source_version (the
\* connection's version when the run was created) and "reads" for the version
\* the worker opened for the attempt under way or the one that succeeded.
Run == [id : Nat, source : {"SCHEDULE", "DASHBOARD", "BACKGROUND"},
        kind : {"SUMMARY", "DETAIL"}, report : Report, period : Period,
        key : Key \cup {None}, bucket : Nat \cup {None}, by : Viewer \cup {None},
        label : Nat, reads : Nat,
        status : {"QUEUED", "RUNNING", "SUCCEEDED", "FAILED", "CANCELLED"},
        at : Nat, done : Nat, dashboard : BOOLEAN, rows : BOOLEAN]

TypeOK ==
    /\ {now, version, edits, serial, requests} \subseteq Nat
    /\ interval \in Intervals \cup {None}
    /\ runs \subseteq Run
    /\ asking \in [Viewer -> {None} \cup
          [how : {"BACKGROUND", "OVERVIEW"}, report : Report, period : Period,
           key : Key, version : Nat, bucket : Nat \cup {None}]]
    /\ awaited \in [Viewer -> {None} \cup [run : Nat, version : Nat]]
    /\ occasions \subseteq
          [run : Nat, at : Nat, status : {"COLLECTING", "SENDING", "COMPLETED", "FAILED"},
           delivery : {"NONE", "PENDING", "ACCEPTED", "FAILED_PERMANENT"},
           until : Nat, link : BOOLEAN]
    /\ promised \subseteq [run : Nat, until : Nat]

Init ==
    /\ now = 0 /\ version = 1 /\ edits = 0 /\ interval \in Intervals
    /\ runs = {} /\ serial = 1 /\ requests = 0
    /\ asking = [v \in Viewer |-> None] /\ awaited = [v \in Viewer |-> None]
    /\ occasions = {} /\ promised = {}

-----------------------------------------------------------------------------
(* Looking up a result                                                     *)

\* Only SUMMARY runs carry the fingerprint that the lookup asks for.
Candidates(report, period) ==
    {r \in runs : /\ r.status = "SUCCEEDED" /\ r.kind = "SUMMARY" /\ r.dashboard
                  /\ r.report = report /\ r.label = version
                  /\ r.period.from = period.from /\ r.period.to = period.to}

\* The exact snapshot: the latest candidate.
GetExactSnapshot(report, period) ==
    {r \in Candidates(report, period) :
        \A other \in Candidates(report, period) :
            other.done < r.done \/ (other.done = r.done /\ other.id <= r.id)}

\* finalizeSnapshot.  A period that is over stays fresh for a day and can be
\* shown for the time of a snapshot, another for the interval and for a day.
Freshness(r) ==
    LET closed == r.period.to < Day(now) IN
    CASE now < r.done + (IF closed THEN SlotsPerDay
                         ELSE IF interval = None THEN 0 ELSE interval)   -> "FRESH"
      [] now >= r.done + (IF closed THEN RetentionSlots ELSE SlotsPerDay) -> "EXPIRED"
      [] OTHER -> "STALE"

\* An overview without a selected period: each report's latest result.
ExecutiveOverview ==
    {r \in runs : /\ r \in Candidates(r.report, r.period)
                  /\ \A other \in runs :
                        other.report = r.report /\ other \in Candidates(r.report, other.period)
                        => other.done < r.done \/ (other.done = r.done /\ other.id <= r.id)}

ValidViewerPeriod(mode, preset) ==
    IF mode = "DATE_RANGE" THEN preset # "AS_OF_RUN" ELSE preset = "AS_OF_RUN"

\* What an overview of the selected period asks of a report of each mode.
DashboardRefreshPeriod(mode, selected) ==
    CASE mode = "DATE_RANGE" -> selected
      [] mode = "AS_OF_DATE" /\ selected.to # Day(now) ->
            [preset |-> "CUSTOM", from |-> selected.to, to |-> selected.to]
      [] OTHER -> ResolvePeriod("AS_OF_RUN", Day(now))

OverviewPeriod(report, preset) ==
    DashboardRefreshPeriod(modeOf[report], ResolvePeriod(preset, Day(now)))

\* An overview of a selected period: what can be shown of it.
ExactOverview(preset) ==
    {r \in UNION {GetExactSnapshot(report, OverviewPeriod(report, preset)) : report \in Report} :
        Freshness(r) # "EXPIRED"}

\* What a page of the rows of a run comes to: they expire with the run.
ListRows(r) ==
    LET over == now >= SlotsPerDay + IF r.status = "SUCCEEDED" THEN r.done ELSE r.at IN
    CASE over                             -> "EXPIRED"
      [] ~over /\ r.status # "SUCCEEDED"  -> "NOT_FOUND"
      [] OTHER -> IF r.rows THEN "ROWS" ELSE "EMPTY"

\* Mutation of SnapshotExecutionKey: it leaves the connection's version out.
UnversionedKey(report, period) ==
    [report |-> report, from |-> period.from, to |-> period.to, version |-> 0]

SnapshotExecutionKey(report, period) ==
    [report |-> report, from |-> period.from, to |-> period.to, version |-> version]

-----------------------------------------------------------------------------
(* Creating runs                                                           *)

NewRun(source, kind, report, period, key, bucket, by) ==
    [id |-> serial, source |-> source, kind |-> kind, report |-> report,
     period |-> period, key |-> key, bucket |-> bucket, by |-> by,
     label |-> version, reads |-> 0, status |-> "QUEUED",
     at |-> now, done |-> 0, dashboard |-> FALSE, rows |-> FALSE]

Add(r) ==
    /\ serial <= MaxRuns
    /\ runs' = runs \cup {r}
    /\ serial' = serial + 1

\* Mutation of Answer: the scan of the answering row is lost.
AnswerUnread(v, r, asked) == awaited' = [awaited EXCEPT ![v] = [run |-> None, version |-> asked]]

\* The answer to a viewer: wait for run r.  He asked under his version.
Answer(v, r, asked) ==
    awaited' = [awaited EXCEPT ![v] = [run |-> r.id, version |-> asked]]

Holders(key) == {r \in runs : Active(r) /\ r.key = key}

Request ==
    /\ requests < MaxRequests
    /\ requests' = requests + 1

\* RevalidateSnapshot up to its reads, for a report on its own or as one of an
\* overview's (RevalidateOverview).  A fresh snapshot ends the request.
BeginRevalidate(v) ==
    /\ asking[v] = None /\ interval # None
    /\ Request
    /\ \E report \in Report, preset \in presetsOf[v], alone \in BOOLEAN :
          LET period == IF alone THEN ResolvePeriod(preset, Day(now))
                        ELSE OverviewPeriod(report, preset)
          IN
          /\ alone => ValidViewerPeriod(modeOf[report], preset)
          /\ ~ \E r \in GetExactSnapshot(report, period) : Freshness(r) = "FRESH"
          /\ asking' = [asking EXCEPT ![v] =
                [how |-> "BACKGROUND", report |-> report, period |-> period,
                 key |-> SnapshotExecutionKey(report, period), version |-> version,
                 bucket |-> now \div interval]]
    /\ awaited' = [awaited EXCEPT ![v] = None]
    /\ UNCHANGED <<now, version, edits, interval, runs, serial, occasions, promised>>

\* Mutation of Replay: a repeated idempotency key is not looked up.
ReplayForgotten(ask) == {}

\* The run that the idempotency key "key + bucket" stands for.
Replay(ask) ==
    {r \in runs : r.source = "BACKGROUND" /\ r.key = ask.key /\ r.bucket = ask.bucket}

\* The rest of it, the transaction of Enqueue: the run of the idempotency key,
\* an active one of the execution key, or a new one.  Two refusals: a replay
\* under another preset of the same dates, and a key whose active run is an
\* overview's (the insert hits the unique index, the fallback finds nothing).
EnqueueBackground(v) ==
    LET ask  == asking[v]
        open == {r \in runs : r.source = "BACKGROUND" /\ Active(r)}
        join == open \cap Holders(ask.key)
    IN
    /\ asking[v] # None /\ ask.how = "BACKGROUND"
    /\ asking' = [asking EXCEPT ![v] = None]
    /\ \/ /\ \E r \in Replay(ask) :
                r.period.preset = ask.period.preset /\ Answer(v, r, ask.version)
          /\ UNCHANGED <<runs, serial>>
       \/ /\ Replay(ask) = {}
          /\ \E r \in join : Answer(v, r, ask.version)
          /\ UNCHANGED <<runs, serial>>
       \/ /\ Replay(ask) = {} /\ Holders(ask.key) = {}
          /\ Cardinality(open) < MaxBackground
          /\ LET r == NewRun("BACKGROUND", "SUMMARY", ask.report, ask.period,
                             ask.key, ask.bucket, None)
             IN  Add(r) /\ Answer(v, r, ask.version)
       \/ /\ \/ \E r \in Replay(ask) : r.period.preset # ask.period.preset
             \/ Replay(ask) = {} /\ join = {} /\ Holders(ask.key) # {}
          /\ UNCHANGED <<runs, serial, awaited>>
    /\ UNCHANGED <<now, version, edits, interval, requests, occasions, promised>>

\* CreateDashboardRefresh, for one report of the overview, up to its reading of
\* the connection's version.
BeginRefresh(v) ==
    /\ asking[v] = None
    /\ Request
    /\ \E report \in Report, preset \in presetsOf[v] :
          LET period == OverviewPeriod(report, preset) IN
          asking' = [asking EXCEPT ![v] =
              [how |-> "OVERVIEW", report |-> report, period |-> period,
               key |-> SnapshotExecutionKey(report, period), version |-> version,
               bucket |-> None]]
    /\ awaited' = [awaited EXCEPT ![v] = None]
    /\ UNCHANGED <<now, version, edits, interval, runs, serial, occasions, promised>>

\* The rest: any active summary run of the key is joined.
EnqueueOverview(v) ==
    LET ask == asking[v] IN
    /\ asking[v] # None /\ ask.how = "OVERVIEW"
    /\ asking' = [asking EXCEPT ![v] = None]
    /\ \/ /\ \E r \in Holders(ask.key) : Answer(v, r, ask.version)
          /\ UNCHANGED <<runs, serial>>
       \/ /\ Holders(ask.key) = {}
          /\ LET r == NewRun("DASHBOARD", "SUMMARY", ask.report, ask.period, ask.key, None, v)
             IN  Add(r) /\ Answer(v, r, ask.version)
    /\ UNCHANGED <<now, version, edits, interval, requests, occasions, promised>>

\* Create, a viewer's request for the rows of a report.  His active run of the
\* same report and dates answers it, be it an overview's, and changes nothing.
CreateDetail(v) ==
    /\ Request
    /\ \E report \in Report, preset \in presetsOf[v] :
          LET period == ResolvePeriod(preset, Day(now)) IN
          /\ ValidViewerPeriod(modeOf[report], preset)
          /\ ~ \E r \in runs :
                /\ r.source = "DASHBOARD" /\ r.by = v /\ Active(r) /\ r.at = now
                /\ r.report = report /\ r.period.from = period.from /\ r.period.to = period.to
          /\ Add(NewRun("DASHBOARD", "DETAIL", report, period, None, None, v))
    /\ Cardinality({r \in runs : r.source = "DASHBOARD" /\ Active(r)}) < MaxDashboard
    /\ UNCHANGED <<now, version, edits, interval, asking, awaited, occasions, promised>>

\* An occurrence of a schedule (Schedules!MaterializeDue), for one report.
MaterializeScheduled ==
    /\ \E report \in Report, preset \in SchedulePresets :
          Add(NewRun("SCHEDULE", "SUMMARY", report,
                     ResolveEffectivePeriod(preset, modeOf[report], Day(now)), None, None, None))
    /\ occasions' = occasions \cup
          {[run |-> serial, at |-> now, status |-> "COLLECTING",
            delivery |-> "NONE", until |-> 0, link |-> FALSE]}
    /\ UNCHANGED <<now, version, edits, interval, requests, asking, awaited, promised>>

-----------------------------------------------------------------------------
(* Executing them                                                          *)

Change(r, new) == runs' = (runs \ {r}) \cup {new}

\* Claim and the opening of the connection; one run of a store at a time.
Open(r) ==
    /\ r.status = "QUEUED" /\ \A other \in runs : other.status # "RUNNING"
    /\ Change(r, [r EXCEPT !.status = "RUNNING", !.reads = version])

\* Mutation of Complete: it labels the result with the version of the moment.
CompleteRelabelled(r) ==
    /\ r.status = "RUNNING"
    /\ Change(r, [r EXCEPT !.status = "SUCCEEDED", !.done = now, !.dashboard = TRUE,
                           !.label = version,
                           !.rows = (r.source = "DASHBOARD" /\ r.kind = "DETAIL")])

Complete(r) ==
    /\ r.status = "RUNNING"
    /\ Change(r, [r EXCEPT !.status = "SUCCEEDED", !.done = now, !.dashboard = TRUE,
                           !.rows = (r.source = "DASHBOARD" /\ r.kind = "DETAIL")])

\* Fail, a lapsed lease, or a retry after a definite failure.
GiveUp(r) ==
    /\ r.status = "RUNNING"
    /\ \E status \in {"QUEUED", "FAILED"} :
          Change(r, [r EXCEPT !.status = status, !.reads = 0])

\* A viewer cancels his own run while it is queued.
Cancel(r) ==
    /\ r.status = "QUEUED" /\ r.source = "DASHBOARD"
    /\ Change(r, [r EXCEPT !.status = "CANCELLED"])

Work ==
    /\ \E r \in runs : Open(r) \/ Complete(r) \/ GiveUp(r) \/ Cancel(r)
    /\ UNCHANGED <<now, version, edits, interval, serial, requests, asking, awaited, occasions, promised>>

\* Publish: a delivery and its link, or a failed notification.  One recipient.
Publish(o) ==
    /\ o.status = "COLLECTING"
    /\ \E r \in runs :
          /\ r.id = o.run
          /\ \/ /\ r.status = "SUCCEEDED"
                /\ occasions' = (occasions \ {o}) \cup
                      {[o EXCEPT !.status = "SENDING", !.delivery = "PENDING",
                                 !.until = now + LinkSlots, !.link = TRUE]}
             \/ /\ r.status = "FAILED"
                /\ occasions' = (occasions \ {o}) \cup {[o EXCEPT !.status = "FAILED"]}
    /\ UNCHANGED promised

\* What LineDelivery makes of the delivery.
EndDelivery(o) ==
    /\ o.delivery = "PENDING"
    /\ \/ /\ occasions' = (occasions \ {o}) \cup
                {[o EXCEPT !.status = "COMPLETED", !.delivery = "ACCEPTED"]}
          /\ promised' = promised \cup {[run |-> o.run, until |-> o.until]}
       \/ /\ occasions' = (occasions \ {o}) \cup
                {[o EXCEPT !.status = "FAILED", !.delivery = "FAILED_PERMANENT"]}
          /\ UNCHANGED promised

Notify ==
    /\ \E o \in occasions : Publish(o) \/ EndDelivery(o)
    /\ UNCHANGED <<now, version, edits, interval, runs, serial, requests, asking, awaited>>

\* What the link of a message leads to (loadDeliveryContext).
DeliveryContext(link) ==
    LET shown == {r \in runs : r.id = link.run /\
                     \E o \in occasions : /\ o.run = r.id /\ o.link /\ o.until > now
                                          /\ o.delivery = "ACCEPTED"}
    IN  IF shown = {} THEN "NOT_FOUND"
        ELSE LET r == CHOOSE r \in shown : TRUE IN
             CASE r.status # "SUCCEEDED" -> "UNAVAILABLE"
               [] r.status = "SUCCEEDED" /\ ~r.dashboard -> "EXPIRED"
               [] OTHER -> "AVAILABLE"

-----------------------------------------------------------------------------
(* Retention                                                               *)

\* Mutation of RowsKept: rows are counted from the creation of the run.
RowsKeptByAge(r) == r.at + SlotsPerDay > now

RowsKept(r) == r.done + SlotsPerDay > now

\* Links, then deliveries that are over.
Expire(o) ==
    LET over == o.until <= now IN
    [o EXCEPT !.link = @ /\ ~over,
              !.delivery = IF over /\ @ \in {"ACCEPTED", "FAILED_PERMANENT"} THEN "NONE" ELSE @]

\* Mutation of OccasionKept: deliveries do not hold their notification.
OccasionKeptByAge(o) == o.at + HistorySlots > now \/ o.status \in {"COLLECTING", "SENDING"}

OccasionKept(o) ==
    \/ o.at + HistorySlots > now
    \/ o.status \in {"COLLECTING", "SENDING"}
    \/ o.delivery # "NONE"

\* RetentionStore.Run, in the order of its statements: a later one sees what an
\* earlier one left.  Deleting a notification takes its delivery and link along.
Retention ==
    /\ occasions' = {o \in {Expire(o) : o \in occasions} : OccasionKept(o)}
    /\ LET linked(r) == \E o \in occasions' : o.run = r.id
           kept == {r \in runs : IF r.source = "SCHEDULE"
                                 THEN r.at + HistorySlots > now \/ linked(r)
                                 ELSE r.at + RetentionSlots > now}
       IN  runs' = {[r EXCEPT !.rows = @ /\ RowsKept(r),
                              !.dashboard = @ /\ ~ (/\ r.source = "SCHEDULE"
                                                    /\ r.at + RetentionSlots <= now)] : r \in kept}
    /\ UNCHANGED <<now, version, edits, interval, serial, requests, asking, awaited, promised>>

-----------------------------------------------------------------------------
Edit == edits < MaxEdits /\ edits' = edits + 1

PutConnection ==
    /\ Edit /\ version' = version + 1
    /\ UNCHANGED <<now, interval, runs, serial, requests, asking, awaited, occasions, promised>>

PutRefreshPolicy ==
    /\ Edit /\ interval' \in (Intervals \cup {None}) \ {interval}
    /\ UNCHANGED <<now, version, runs, serial, requests, asking, awaited, occasions, promised>>

\* Requests are answered within their slot.
Tick ==
    /\ now < LastSlot /\ \A v \in Viewer : asking[v] = None
    /\ now' = now + 1
    /\ UNCHANGED <<version, edits, interval, runs, serial, requests, asking, awaited,
                   occasions, promised>>

\* The viewer's requests that may create a run, and the transactions of those
\* under way.
ViewerRequest(v) == BeginRevalidate(v) \/ BeginRefresh(v) \/ CreateDetail(v)
ViewerAnswer(v)  == EnqueueBackground(v) \/ EnqueueOverview(v)

Next ==
    \/ \E v \in Viewer : ViewerRequest(v) \/ ViewerAnswer(v)
    \/ MaterializeScheduled \/ Work \/ Notify \/ Retention
    \/ PutConnection \/ PutRefreshPolicy \/ Tick

Spec == Init /\ [][Next]_vars

-----------------------------------------------------------------------------
(* Safety                                                                  *)

\* Whatever happens to the connection while runs are queued and executed, a
\* stored result that answers a request was read through the connection that is
\* configured now, not through a predecessor of it.
SnapshotIsOfCurrentSource ==
    \A r \in runs :
        r \in Candidates(r.report, r.period) => r.reads = version

\* A viewer who was told to wait for a run, his own or one he joined, is served:
\* once it has succeeded, and if the connection is still the one he asked under,
\* the lookups find a result at least as new: that of his report and dates, the
\* overview of the period he had selected (while that still means the same dates), and
\* the overview of the latest results.
AwaitedRunIsServed ==
    \A v \in Viewer : \A r \in runs :
        /\ awaited[v] # None /\ awaited[v].run = r.id
        /\ r.status = "SUCCEEDED" /\ awaited[v].version = version
        => /\ \E shown \in GetExactSnapshot(r.report, r.period) : shown.done >= r.done
           /\ \E shown \in ExecutiveOverview : shown.report = r.report /\ shown.done >= r.done
           /\ \A preset \in Preset :
                 OverviewPeriod(r.report, preset) = r.period /\ now < r.done + SlotsPerDay
                 => \E shown \in ExactOverview(preset) :
                       shown.report = r.report /\ shown.done >= r.done

\* However many viewers revalidate, the store is asked once per report, dates
\* and refresh interval.
OneRefreshPerInterval ==
    \A r, other \in runs :
        /\ r.source = "BACKGROUND" /\ other.source = "BACKGROUND"
        /\ r.key = other.key /\ r.bucket = other.bucket
        => r = other

\* docs: "Dashboard detail rows are paginated and expire after 24 hours", counted
\* from the end of the run that a viewer may have waited for.  No pass of the
\* retention takes them earlier, and when one has taken them the viewer is told
\* so: he never sees an empty page of a report that had rows.
DetailRowsStay ==
    \A r \in runs :
        r.status = "SUCCEEDED" /\ r.source = "DASHBOARD" /\ r.kind = "DETAIL"
        => ListRows(r) = IF now < r.done + SlotsPerDay THEN "ROWS" ELSE "EXPIRED"

\* The link of a message that reached its recipient works for a year: retention
\* keeps the delivery, the notification and the run behind it, and the figures
\* themselves for the time of a snapshot.
DeliveredLinkWorks ==
    \A link \in promised : now < link.until =>
        /\ DeliveryContext(link) \in {"AVAILABLE", "EXPIRED"}
        /\ (\A r \in runs : r.id = link.run => now < r.at + RetentionSlots)
              => DeliveryContext(link) = "AVAILABLE"
=============================================================================
