-------------------------- MODULE SnapshotsProofs --------------------------
(***************************************************************************)
(* Theorems about Snapshots, for every value of its constants.             *)
(***************************************************************************)
EXTENDS Snapshots, CalendarProofs

-----------------------------------------------------------------------------
(* The inductive invariant. *)

\* What is always true of one run: the worker read through a connection that is
\* no older than the one the run is labelled with, and a result has its
\* dashboard and its rows for as long as retention promises.
RunIsTrue(r) ==
    /\ r.id < serial /\ r.label <= version
    /\ r.status \in {"RUNNING", "SUCCEEDED"} => r.label <= r.reads /\ r.reads <= version
    /\ r.status = "SUCCEEDED" =>
          /\ r.done <= now
          /\ r.source # "SCHEDULE" \/ now < r.at + RetentionSlots => r.dashboard
          /\ r.source = "DASHBOARD" /\ r.kind = "DETAIL" /\ now < r.done + SlotsPerDay => r.rows
    /\ r.key # None => r.kind = "SUMMARY" /\ r.source # "SCHEDULE" /\ r.key.version <= r.label

RunsAreTrue ==
    /\ \A r \in runs : RunIsTrue(r)
    /\ \A r, other \in runs : r.id = other.id => r = other

\* A viewer asks under a version of the connection that was once configured, and
\* waits for a run that was created under it or under a later one.
AskedTrue ==
    \A v \in Viewer : asking[v] # None =>
        /\ asking[v].key \in Key
        /\ asking[v].version = asking[v].key.version /\ asking[v].version <= version

AwaitedTrue ==
    \A v \in Viewer : awaited[v] # None =>
        /\ awaited[v].run < serial
        /\ \A r \in runs : r.id = awaited[v].run =>
              r.kind = "SUMMARY" /\ r.source # "SCHEDULE" /\ awaited[v].version <= r.label

\* A notification keeps the run behind it, which has succeeded before anything
\* is delivered; a link that reached its recipient stays until it is over.
OccasionsTrue ==
    \A o \in occasions :
        /\ \E r \in runs : /\ r.id = o.run /\ r.source = "SCHEDULE"
                           /\ o.delivery \in {"PENDING", "ACCEPTED"} => r.status = "SUCCEEDED"
        /\ o.status = "COLLECTING" => o.delivery = "NONE"
        /\ o.delivery = "PENDING" /\ now < o.until => o.link

PromisesKept ==
    \A link \in promised : now < link.until =>
        \E o \in occasions : /\ o.run = link.run /\ o.until = link.until
                             /\ o.link /\ o.delivery = "ACCEPTED"

SnapshotInv ==
    /\ TypeOK
    /\ RunsAreTrue
    /\ AskedTrue
    /\ AwaitedTrue
    /\ OccasionsTrue
    /\ PromisesKept

-----------------------------------------------------------------------------
(* Types. *)

\* Days are integers (the arithmetic of timeutil on a slot).
LEMMA DayTyped == ASSUME NEW slot \in Int PROVE Day(slot) \in Int
BY CalendarConstants, Division DEF Day

\* A preset stands for a period of whole days (ResolvePeriod).
LEMMA ResolvePeriodTyped ==
    ASSUME NEW preset \in Preset, NEW day \in Int
    PROVE  ResolvePeriod(preset, day) \in Period
<1>1. day % DaysInMonth \in Int
  BY CalendarConstants, Division
<1> DEFINE from == CASE preset = "YESTERDAY"     -> day - 1
                     [] preset = "MONTH_TO_DATE" -> day - (day % DaysInMonth)
                     [] OTHER                    -> day
<1>2. from \in Int
  BY <1>1
<1> HIDE DEF from
<1>3. [preset |-> preset, from |-> from, to |-> IF preset = "YESTERDAY" THEN day - 1 ELSE day] \in Period
  BY <1>2 DEF Period
<1>4. QED
  BY <1>3 DEF ResolvePeriod, from

\* So does the smart period of a schedule (ResolveEffectivePeriod).
LEMMA EffectivePeriodTyped ==
    ASSUME NEW preset \in Preset, NEW mode, NEW day \in Int
    PROVE  ResolveEffectivePeriod(preset, mode, day) \in Period
<1>1. EffectivePreset(preset, mode) \in Preset
  BY DEF EffectivePreset, Preset
<1>2. QED
  BY <1>1, ResolvePeriodTyped DEF ResolveEffectivePeriod

\* And the period an overview asks a report for (DashboardRefreshPeriod).
LEMMA OverviewPeriodTyped ==
    ASSUME now \in Nat, NEW report, NEW preset \in Preset
    PROVE  OverviewPeriod(report, preset) \in Period
<1> DEFINE selected == ResolvePeriod(preset, Day(now))
           run      == ResolvePeriod("AS_OF_RUN", Day(now))
<1>1. Day(now) \in Int
  BY DayTyped
<1>2. "AS_OF_RUN" \in Preset
  BY DEF Preset
<1>3. selected \in Period /\ run \in Period
  BY <1>1, <1>2, ResolvePeriodTyped
<1> HIDE DEF selected, run
<1>4. [preset |-> "CUSTOM", from |-> selected.to, to |-> selected.to] \in Period
  BY <1>3 DEF Period
<1>5. DashboardRefreshPeriod(modeOf[report], selected) \in {selected, run,
          [preset |-> "CUSTOM", from |-> selected.to, to |-> selected.to]}
  BY DEF DashboardRefreshPeriod, run
<1>6. QED
  BY <1>3, <1>4, <1>5 DEF OverviewPeriod, selected

\* The execution key names the report, the dates and the connection's version.
LEMMA KeyTyped ==
    ASSUME version \in Nat, NEW report \in Report, NEW period \in Period
    PROVE  /\ SnapshotExecutionKey(report, period) \in Key
           /\ SnapshotExecutionKey(report, period).version = version
BY DEF SnapshotExecutionKey, Key, Period

\* A run as it is inserted, and what is known of it.
LEMMA NewRunTyped ==
    ASSUME {now, version, serial} \subseteq Nat,
           NEW source \in {"SCHEDULE", "DASHBOARD", "BACKGROUND"}, NEW kind \in {"SUMMARY", "DETAIL"},
           NEW report \in Report, NEW period \in Period, NEW key \in Key \cup {None},
           NEW bucket \in Nat \cup {None}, NEW by \in Viewer \cup {None}
    PROVE  LET r == NewRun(source, kind, report, period, key, bucket, by) IN
           /\ r \in Run
           /\ r.id = serial /\ r.source = source /\ r.kind = kind /\ r.key = key /\ r.bucket = bucket
           /\ r.label = version /\ r.status = "QUEUED"
BY DEF NewRun, Run

\* What a viewer asks, as BeginRevalidate and BeginRefresh remember it.
Ask == [how : {"BACKGROUND", "OVERVIEW"}, report : Report, period : Period,
        key : Key, version : Nat, bucket : Nat \cup {None}]

\* What never changes in a run once it is inserted.
SameRun(r, s) ==
    /\ s.id = r.id /\ s.source = r.source /\ s.kind = r.kind /\ s.report = r.report
    /\ s.period = r.period /\ s.key = r.key /\ s.bucket = r.bucket /\ s.by = r.by
    /\ s.label = r.label /\ s.at = r.at

\* Claim opens the connection that is configured at that moment.
LEMMA OpenRow ==
    ASSUME NEW r \in Run, version \in Nat
    PROVE  LET s == [r EXCEPT !.status = "RUNNING", !.reads = version] IN
           /\ s \in Run /\ SameRun(r, s) /\ s.status = "RUNNING" /\ s.reads = version
<1> DEFINE a == [r EXCEPT !.status = "RUNNING"]
           s == [a EXCEPT !.reads = version]
<1>1. a \in Run /\ SameRun(r, a) /\ a.status = "RUNNING"
  BY DEF Run, SameRun
<1> HIDE DEF a
<1>2. s \in Run /\ SameRun(r, s) /\ s.status = "RUNNING" /\ s.reads = version
  BY <1>1 DEF Run, SameRun
<1>3. s = [r EXCEPT !.status = "RUNNING", !.reads = version]
  BY DEF a, Run
<1>4. QED
  BY <1>2, <1>3

\* Complete stores the dashboard, and the rows of a viewer's detail run.
LEMMA CompleteRow ==
    ASSUME NEW r \in Run, now \in Nat
    PROVE  LET rows == r.source = "DASHBOARD" /\ r.kind = "DETAIL"
               s == [r EXCEPT !.status = "SUCCEEDED", !.done = now, !.dashboard = TRUE, !.rows = rows] IN
           /\ s \in Run /\ SameRun(r, s) /\ s.status = "SUCCEEDED" /\ s.reads = r.reads
           /\ s.done = now /\ s.dashboard = TRUE /\ s.rows = rows
<1> DEFINE rows == r.source = "DASHBOARD" /\ r.kind = "DETAIL"
           a == [r EXCEPT !.status = "SUCCEEDED"]
           b == [a EXCEPT !.done = now]
           c == [b EXCEPT !.dashboard = TRUE]
           s == [c EXCEPT !.rows = rows]
<1>1. a \in Run /\ SameRun(r, a) /\ a.status = "SUCCEEDED" /\ a.reads = r.reads
  BY DEF Run, SameRun
<1>2. s = [r EXCEPT !.status = "SUCCEEDED", !.done = now, !.dashboard = TRUE, !.rows = rows]
  BY DEF Run
<1>3. rows \in BOOLEAN
  OBVIOUS
<1> HIDE DEF a, rows
<1>4. b \in Run /\ SameRun(r, b) /\ b.status = "SUCCEEDED" /\ b.reads = r.reads /\ b.done = now
  BY <1>1 DEF Run, SameRun
<1> HIDE DEF b
<1>5. /\ c \in Run /\ SameRun(r, c) /\ c.status = "SUCCEEDED" /\ c.reads = r.reads /\ c.done = now
      /\ c.dashboard = TRUE
  BY <1>4 DEF Run, SameRun
<1> HIDE DEF c
<1>6. /\ s \in Run /\ SameRun(r, s) /\ s.status = "SUCCEEDED" /\ s.reads = r.reads /\ s.done = now
      /\ s.dashboard = TRUE /\ s.rows = rows
  BY <1>3, <1>5 DEF Run, SameRun
<1>7. QED
  BY <1>2, <1>6 DEF rows

\* Fail, a retry and Cancel leave a run without a result.
LEMMA StoppedRow ==
    ASSUME NEW r \in Run, NEW status \in {"QUEUED", "FAILED", "CANCELLED"}
    PROVE  /\ LET s == [r EXCEPT !.status = status, !.reads = 0] IN
              s \in Run /\ SameRun(r, s) /\ s.status = status
           /\ LET s == [r EXCEPT !.status = status] IN
              s \in Run /\ SameRun(r, s) /\ s.status = status
<1> DEFINE a == [r EXCEPT !.status = status]
           s == [a EXCEPT !.reads = 0]
<1>1. a \in Run /\ SameRun(r, a) /\ a.status = status
  BY DEF Run, SameRun
<1>2. s = [r EXCEPT !.status = status, !.reads = 0]
  BY DEF Run
<1> HIDE DEF a
<1>3. s \in Run /\ SameRun(r, s) /\ s.status = status
  BY <1>1 DEF Run, SameRun
<1>4. QED
  BY <1>1, <1>2, <1>3 DEF a

Occasion == [run : Nat, at : Nat, status : {"COLLECTING", "SENDING", "COMPLETED", "FAILED"},
             delivery : {"NONE", "PENDING", "ACCEPTED", "FAILED_PERMANENT"},
             until : Nat, link : BOOLEAN]

\* Publish inserts the delivery and its link in one transaction.
LEMMA PublishedRow ==
    ASSUME NEW o \in Occasion, now \in Nat
    PROVE  LET s == [o EXCEPT !.status = "SENDING", !.delivery = "PENDING",
                              !.until = now + LinkSlots, !.link = TRUE] IN
           s \in Occasion /\ s.run = o.run /\ s.status = "SENDING" /\ s.delivery = "PENDING" /\ s.link
<1> DEFINE until == now + LinkSlots
           a == [o EXCEPT !.status = "SENDING"]
           b == [a EXCEPT !.delivery = "PENDING"]
           c == [b EXCEPT !.until = until]
           s == [c EXCEPT !.link = TRUE]
<1>1. until \in Nat
  BY SnapshotConstants
<1>2. s = [o EXCEPT !.status = "SENDING", !.delivery = "PENDING", !.until = until, !.link = TRUE]
  BY DEF Occasion
<1> HIDE DEF until
<1>3. b \in Occasion /\ b.run = o.run /\ b.status = "SENDING" /\ b.delivery = "PENDING"
  BY DEF Occasion
<1> HIDE DEF b
<1>4. s \in Occasion /\ s.run = o.run /\ s.status = "SENDING" /\ s.delivery = "PENDING" /\ s.link
  BY <1>1, <1>3 DEF Occasion
<1>5. QED
  BY <1>2, <1>4 DEF until

\* A notification fails, or ends with its delivery.
LEMMA EndedRow ==
    ASSUME NEW o \in Occasion, NEW status \in {"COMPLETED", "FAILED"},
           NEW delivery \in {"ACCEPTED", "FAILED_PERMANENT"}
    PROVE  /\ LET s == [o EXCEPT !.status = status, !.delivery = delivery] IN
              /\ s \in Occasion /\ s.run = o.run /\ s.until = o.until /\ s.link = o.link
              /\ s.status = status /\ s.delivery = delivery
           /\ LET s == [o EXCEPT !.status = status] IN
              s \in Occasion /\ s.run = o.run /\ s.status = status /\ s.delivery = o.delivery
BY DEF Occasion

\* Retention takes links and deliveries that are over, never one that still runs.
LEMMA ExpiredRow ==
    ASSUME NEW o \in Occasion, now \in Nat
    PROVE  LET s == Expire(o) IN
           /\ s \in Occasion /\ s.run = o.run /\ s.at = o.at /\ s.status = o.status /\ s.until = o.until
           /\ now < o.until => s.link = o.link /\ s.delivery = o.delivery
           /\ s.delivery \in {o.delivery, "NONE"}
           /\ o.delivery = "PENDING" => s.delivery = "PENDING"
<1> DEFINE link == o.link /\ ~ (o.until <= now)
           delivery == IF o.until <= now /\ o.delivery \in {"ACCEPTED", "FAILED_PERMANENT"}
                       THEN "NONE" ELSE o.delivery
           s == [o EXCEPT !.link = link, !.delivery = delivery]
<1>1. o.link \in BOOLEAN /\ o.until \in Nat
      /\ o.delivery \in {"NONE", "PENDING", "ACCEPTED", "FAILED_PERMANENT"}
  BY DEF Occasion
<1>2. /\ link \in BOOLEAN /\ delivery \in {"NONE", "PENDING", "ACCEPTED", "FAILED_PERMANENT"}
      /\ now < o.until => link = o.link /\ delivery = o.delivery
      /\ delivery \in {o.delivery, "NONE"} /\ (o.delivery = "PENDING" => delivery = "PENDING")
  BY <1>1
<1>3. Expire(o) = s
  BY DEF Expire, Occasion
<1> HIDE DEF link, delivery
<1>4. /\ s \in Occasion /\ s.run = o.run /\ s.at = o.at /\ s.status = o.status /\ s.until = o.until
      /\ s.link = link /\ s.delivery = delivery
  BY <1>2 DEF Occasion
<1>5. QED
  BY <1>2, <1>3, <1>4

\* The types in the parts that the steps disturb separately.
LEMMA TypeParts ==
    TypeOK <=> /\ {now, version, edits, serial, requests} \subseteq Nat
               /\ interval \in Intervals \cup {None} /\ runs \subseteq Run
               /\ asking \in [Viewer -> {None} \cup Ask]
               /\ awaited \in [Viewer -> {None} \cup [run : Nat, version : Nat]]
               /\ occasions \subseteq Occasion /\ promised \subseteq [run : Nat, until : Nat]
BY DEF TypeOK, Ask, Occasion

\* A viewer's request remembers a well-formed question.
LEMMA RequestTyped ==
    ASSUME TypeOK, NEW v \in Viewer, BeginRevalidate(v) \/ BeginRefresh(v)
    PROVE  /\ TypeOK'
           /\ \E ask \in Ask : /\ asking' = [asking EXCEPT ![v] = ask]
                               /\ ask.version = version /\ ask.key.version = version
           /\ awaited' = [awaited EXCEPT ![v] = None]
           /\ UNCHANGED <<now, version, runs, serial, occasions, promised>>
<1>1. {now, version, requests} \subseteq Nat /\ presetsOf[v] \subseteq Preset /\ Day(now) \in Int
  BY DayTyped, SnapshotConstants DEF TypeOK
<1>2. \E ask \in Ask : /\ asking' = [asking EXCEPT ![v] = ask]
                       /\ ask.version = version /\ ask.key.version = version
  <2>1. ASSUME NEW report \in Report, NEW period \in Period, NEW how \in {"BACKGROUND", "OVERVIEW"},
               NEW bucket \in Nat \cup {None},
               asking' = [asking EXCEPT ![v] =
                   [how |-> how, report |-> report, period |-> period,
                    key |-> SnapshotExecutionKey(report, period), version |-> version, bucket |-> bucket]]
        PROVE  \E ask \in Ask : /\ asking' = [asking EXCEPT ![v] = ask]
                                /\ ask.version = version /\ ask.key.version = version
    <3> DEFINE key == SnapshotExecutionKey(report, period)
               ask == [how |-> how, report |-> report, period |-> period,
                       key |-> key, version |-> version, bucket |-> bucket]
    <3>1. key \in Key /\ key.version = version
      BY <1>1, KeyTyped
    <3> HIDE DEF key
    <3>2. ask \in Ask /\ ask.version = version /\ ask.key.version = version
      BY <1>1, <3>1 DEF Ask
    <3>3. asking' = [asking EXCEPT ![v] = ask]
      BY <2>1 DEF key
    <3> HIDE DEF ask
    <3>4. QED
      BY <3>2, <3>3
  <2>2. CASE BeginRevalidate(v)
    <3>1. PICK report \in Report, preset \in presetsOf[v], alone \in BOOLEAN :
             LET period == IF alone THEN ResolvePeriod(preset, Day(now))
                           ELSE OverviewPeriod(report, preset)
             IN  asking' = [asking EXCEPT ![v] =
                     [how |-> "BACKGROUND", report |-> report, period |-> period,
                      key |-> SnapshotExecutionKey(report, period), version |-> version,
                      bucket |-> now \div interval]]
      BY <2>2 DEF BeginRevalidate
    <3>2. ResolvePeriod(preset, Day(now)) \in Period /\ OverviewPeriod(report, preset) \in Period
      BY <1>1, ResolvePeriodTyped, OverviewPeriodTyped
    <3>3. now \div interval \in Nat
      <4>1. interval \in Nat /\ interval > 0
        <5>1. interval \in Intervals
          BY <2>2 DEF BeginRevalidate, TypeOK
        <5>2. Intervals \subseteq Nat \ {0}
          BY SnapshotConstants
        <5>3. interval \in Nat \ {0}
          BY <5>1, <5>2
        <5>4. QED
          BY <5>3
      <4>2. now \in Nat
        BY <1>1
      <4>3. QED
        BY <4>1, <4>2, SMT
    <3>4. QED
      BY <2>1, <3>1, <3>2, <3>3
  <2>3. CASE BeginRefresh(v)
    <3>1. PICK report \in Report, preset \in presetsOf[v] :
             LET period == OverviewPeriod(report, preset) IN
             asking' = [asking EXCEPT ![v] =
                 [how |-> "OVERVIEW", report |-> report, period |-> period,
                  key |-> SnapshotExecutionKey(report, period), version |-> version, bucket |-> None]]
      BY <2>3 DEF BeginRefresh
    <3>2. OverviewPeriod(report, preset) \in Period
      BY <1>1, OverviewPeriodTyped
    <3>3. QED
      BY <2>1, <3>1, <3>2
  <2>4. QED
    BY <2>2, <2>3
<1>3. /\ awaited' = [awaited EXCEPT ![v] = None] /\ requests' = requests + 1
      /\ UNCHANGED <<now, version, edits, interval, runs, serial, occasions, promised>>
  BY DEF BeginRevalidate, BeginRefresh, Request
<1>4. TypeOK'
  BY <1>1, <1>2, <1>3 DEF TypeOK, Ask
<1>5. QED
  BY <1>2, <1>3, <1>4

-----------------------------------------------------------------------------
(* The steps that insert runs. *)

\* A run is inserted, with the next id and under the configured connection.
Created(r) ==
    /\ r \in Run /\ r.id = serial /\ r.label = version /\ r.status = "QUEUED"
    /\ r.key # None => r.kind = "SUMMARY" /\ r.source # "SCHEDULE" /\ r.key.version <= version
    /\ runs' = runs \cup {r} /\ serial' = serial + 1

\* It has no result yet and nobody could name it before.
LEMMA CreationKeepsRuns ==
    ASSUME SnapshotInv, NEW r, Created(r), UNCHANGED <<now, version>>
    PROVE  /\ RunsAreTrue' /\ runs' \subseteq Run /\ serial' \in Nat
           /\ \A v \in Viewer : awaited[v] # None => awaited[v].run # r.id /\ awaited[v].run < serial'
<1>1. {now, version, serial} \subseteq Nat /\ runs \subseteq Run
  BY DEF SnapshotInv, TypeOK
<1>2. serial' \in Nat /\ runs' \subseteq Run
  BY <1>1 DEF Created
<1>3. RunIsTrue(r)'
  BY <1>1 DEF Created, RunIsTrue
<1>4. ASSUME NEW s \in runs PROVE RunIsTrue(s)' /\ s.id # r.id
  <2>1. RunIsTrue(s) /\ s.id \in Nat
    BY <1>1 DEF SnapshotInv, RunsAreTrue, Run
  <2>2. QED
    BY <1>1, <2>1 DEF Created, RunIsTrue
<1>5. RunsAreTrue'
  BY <1>3, <1>4 DEF SnapshotInv, RunsAreTrue, Created
<1>6. ASSUME NEW v \in Viewer, awaited[v] # None PROVE awaited[v].run # r.id /\ awaited[v].run < serial'
  <2>1. awaited[v].run \in Nat /\ awaited[v].run < serial
    BY <1>6 DEF SnapshotInv, TypeOK, AwaitedTrue
  <2>2. QED
    BY <1>1, <2>1 DEF Created
<1>7. QED
  BY <1>2, <1>5, <1>6

\* What Enqueue and CreateDashboardRefresh insert for a question.
LEMMA KeyedRunCreated ==
    ASSUME SnapshotInv, NEW ask \in Ask, ask.key.version <= version,
           NEW source \in {"BACKGROUND", "DASHBOARD"}, NEW bucket \in Nat \cup {None},
           NEW by \in Viewer \cup {None}, NEW r,
           r = NewRun(source, "SUMMARY", ask.report, ask.period, ask.key, bucket, by), Add(r)
    PROVE  r \in Run /\ Created(r)
<1>1. {now, version, serial} \subseteq Nat
  BY DEF SnapshotInv, TypeOK
<1>2. ask.report \in Report /\ ask.period \in Period /\ ask.key \in Key
  BY DEF Ask
<1>3. /\ r \in Run /\ r.id = serial /\ r.source = source /\ r.kind = "SUMMARY" /\ r.key = ask.key
      /\ r.bucket = bucket /\ r.label = version /\ r.status = "QUEUED"
  BY <1>1, <1>2, NewRunTyped
<1>4. runs' = runs \cup {r} /\ serial' = serial + 1
  BY DEF Add
<1>5. QED
  BY <1>3, <1>4 DEF Created

\* The three endings of a request: refused, joined to a run of its key, or
\* answered with a new one, which the guards of Enqueue say is the first.
LEMMA AnswerStep ==
    ASSUME SnapshotInv, NEW v \in Viewer, ViewerAnswer(v)
    PROVE  /\ asking[v] \in Ask /\ asking[v] # None /\ asking' = [asking EXCEPT ![v] = None]
           /\ UNCHANGED <<now, version, edits, interval, requests, occasions, promised>>
           /\ \/ UNCHANGED <<runs, serial, awaited>>
              \/ /\ UNCHANGED <<runs, serial>>
                 /\ \E r \in runs : r.key = asking[v].key /\ Answer(v, r, asking[v].version)
              \/ \E r \in Run : /\ Created(r) /\ Answer(v, r, asking[v].version)
                                /\ r.kind = "SUMMARY" /\ r.source # "SCHEDULE"
                                /\ r.key = asking[v].key
                                /\ r.source = "BACKGROUND" =>
                                      r.bucket = asking[v].bucket /\ Replay(asking[v]) = {}
<1> DEFINE ask == asking[v]
<1>1. ask # None /\ ask \in Ask
  <2>1. ask # None
    BY DEF ViewerAnswer, EnqueueBackground, EnqueueOverview
  <2>2. asking \in [Viewer -> {None} \cup Ask]
    BY TypeParts DEF SnapshotInv
  <2>3. QED
    BY <2>1, <2>2
<1>2. /\ {now, version, serial} \subseteq Nat /\ ask.key \in Key /\ ask.key # None
      /\ ask.key.version <= version
  BY <1>1, SnapshotConstants DEF SnapshotInv, TypeOK, AskedTrue
<1>3. ask.report \in Report /\ ask.period \in Period /\ ask.bucket \in Nat \cup {None}
  BY <1>1 DEF Ask
<1>4. CASE EnqueueBackground(v)
  <2>1. /\ asking' = [asking EXCEPT ![v] = None]
        /\ UNCHANGED <<now, version, edits, interval, requests, occasions, promised>>
    BY <1>4 DEF EnqueueBackground
  <2>2. CASE UNCHANGED <<runs, serial, awaited>>
    BY <1>1, <2>1, <2>2
  <2>3. CASE UNCHANGED <<runs, serial>> /\ \E r \in Replay(ask) : Answer(v, r, ask.version)
    <3>1. PICK r \in runs : r.key = ask.key /\ Answer(v, r, ask.version)
      BY <2>3 DEF Replay
    <3>2. QED
      BY <1>1, <2>1, <2>3, <3>1
  <2>4. CASE UNCHANGED <<runs, serial>> /\ \E r \in Holders(ask.key) : Answer(v, r, ask.version)
    <3>1. PICK r \in runs : r.key = ask.key /\ Answer(v, r, ask.version)
      BY <2>4 DEF Holders
    <3>2. QED
      BY <1>1, <2>1, <2>4, <3>1
  <2>5. CASE /\ Replay(ask) = {}
             /\ LET r == NewRun("BACKGROUND", "SUMMARY", ask.report, ask.period, ask.key, ask.bucket, None)
                IN  Add(r) /\ Answer(v, r, ask.version)
    <3>1. PICK r : /\ r = NewRun("BACKGROUND", "SUMMARY", ask.report, ask.period, ask.key, ask.bucket, None)
                   /\ Add(r) /\ Answer(v, r, ask.version) /\ Replay(ask) = {}
      BY <2>5 DEF Add, Answer
    <3>2. r \in Run /\ Created(r)
      BY <1>1, <1>2, <1>3, <3>1, KeyedRunCreated
    <3>3. r.kind = "SUMMARY" /\ r.source = "BACKGROUND" /\ r.key = ask.key /\ r.bucket = ask.bucket
      BY <3>1 DEF NewRun
    <3>4. QED
      BY <1>1, <2>1, <3>1, <3>2, <3>3
  <2>6. QED
    BY <1>4, <2>2, <2>3, <2>4, <2>5 DEF EnqueueBackground
<1>5. CASE EnqueueOverview(v)
  <2>1. /\ asking' = [asking EXCEPT ![v] = None]
        /\ UNCHANGED <<now, version, edits, interval, requests, occasions, promised>>
    BY <1>5 DEF EnqueueOverview
  <2>2. ask.how = "OVERVIEW"
    BY <1>5 DEF EnqueueOverview
  <2>3. CASE UNCHANGED <<runs, serial>> /\ \E r \in Holders(ask.key) : Answer(v, r, ask.version)
    <3>1. PICK r \in runs : r.key = ask.key /\ Answer(v, r, ask.version)
      BY <2>3 DEF Holders
    <3>2. QED
      BY <1>1, <2>1, <2>3, <3>1
  <2>4. CASE LET r == NewRun("DASHBOARD", "SUMMARY", ask.report, ask.period, ask.key, None, v)
             IN  Add(r) /\ Answer(v, r, ask.version)
    <3>1. PICK r : /\ r = NewRun("DASHBOARD", "SUMMARY", ask.report, ask.period, ask.key, None, v)
                   /\ Add(r) /\ Answer(v, r, ask.version)
      BY <2>4 DEF Add, Answer
    <3>2. r \in Run /\ Created(r)
      BY <1>1, <1>2, <3>1, KeyedRunCreated
    <3>3. r.kind = "SUMMARY" /\ r.source = "DASHBOARD" /\ r.key = ask.key
      BY <3>1 DEF NewRun
    <3>4. QED
      BY <1>1, <2>1, <3>1, <3>2, <3>3
  <2>5. QED
    BY <1>5, <2>3, <2>4 DEF EnqueueOverview
<1>6. QED
  BY <1>4, <1>5 DEF ViewerAnswer

\* Runs that nobody writes stay true, as long as time and versions stand still.
LEMMA RunsFrame ==
    ASSUME SnapshotInv, UNCHANGED <<now, version, serial, runs>> PROVE RunsAreTrue'
BY DEF SnapshotInv, RunsAreTrue, RunIsTrue

\* Notifications and links need their run, and that it stays a success.
LEMMA OccasionsFrame ==
    ASSUME SnapshotInv, UNCHANGED <<now, occasions, promised>>,
           \A r \in runs : \E s \in runs' : /\ s.id = r.id /\ s.source = r.source
                                            /\ r.status = "SUCCEEDED" => s.status = "SUCCEEDED"
    PROVE  OccasionsTrue' /\ PromisesKept'
BY DEF SnapshotInv, OccasionsTrue, PromisesKept

\* Viewers go on waiting for the same runs.
LEMMA AwaitedFrame ==
    ASSUME SnapshotInv, UNCHANGED awaited, {serial, serial'} \subseteq Nat, serial <= serial',
           \A s \in runs' : s.id = serial \/ \E r \in runs : SameRun(r, s)
    PROVE  AwaitedTrue'
<1> SUFFICES ASSUME NEW v \in Viewer, awaited[v] # None
             PROVE  /\ awaited[v].run < serial'
                    /\ \A s \in runs' : s.id = awaited[v].run =>
                          s.kind = "SUMMARY" /\ s.source # "SCHEDULE" /\ awaited[v].version <= s.label
  BY DEF AwaitedTrue
<1>1. awaited[v].run \in Nat /\ awaited[v].run < serial
  BY DEF SnapshotInv, TypeOK, AwaitedTrue
<1>2. ASSUME NEW s \in runs', s.id = awaited[v].run
      PROVE  s.kind = "SUMMARY" /\ s.source # "SCHEDULE" /\ awaited[v].version <= s.label
  <2>1. PICK r \in runs : SameRun(r, s)
    BY <1>1, <1>2
  <2>2. r.kind = "SUMMARY" /\ r.source # "SCHEDULE" /\ awaited[v].version <= r.label
    BY <1>2, <2>1 DEF SnapshotInv, AwaitedTrue, SameRun
  <2>3. QED
    BY <2>1, <2>2 DEF SameRun
<1>3. QED
  BY <1>1, <1>2

\* A request asks under the version that is configured when it reads it.
LEMMA RequestKeeps ==
    ASSUME SnapshotInv, NEW v \in Viewer, BeginRevalidate(v) \/ BeginRefresh(v)
    PROVE  SnapshotInv'
<1>1. /\ TypeOK'
      /\ \E ask \in Ask : /\ asking' = [asking EXCEPT ![v] = ask]
                          /\ ask.version = version /\ ask.key.version = version
      /\ awaited' = [awaited EXCEPT ![v] = None]
      /\ UNCHANGED <<now, version, runs, serial, occasions, promised>>
  BY RequestTyped DEF SnapshotInv
<1>2. PICK ask \in Ask : /\ asking' = [asking EXCEPT ![v] = ask]
                         /\ ask.version = version /\ ask.key.version = version
  BY <1>1
<1>3. AskedTrue'
  BY <1>1, <1>2 DEF SnapshotInv, TypeOK, AskedTrue, Ask
<1>4. AwaitedTrue'
  BY <1>1 DEF SnapshotInv, TypeOK, AwaitedTrue
<1>5. RunsAreTrue' /\ OccasionsTrue' /\ PromisesKept'
  BY <1>1, RunsFrame, OccasionsFrame
<1>6. QED
  BY <1>1, <1>3, <1>4, <1>5 DEF SnapshotInv

\* The run that answers a viewer, new or joined, was created under his version
\* of the connection or a later one, and is no scheduled one.
LEMMA AnswerKeeps ==
    ASSUME SnapshotInv, NEW v \in Viewer, ViewerAnswer(v) PROVE SnapshotInv'
<1> DEFINE ask == asking[v]
<1>1. /\ ask \in Ask /\ ask # None /\ asking' = [asking EXCEPT ![v] = None]
      /\ UNCHANGED <<now, version, edits, interval, requests, occasions, promised>>
  BY AnswerStep
<1>2. ask.key \in Key /\ ask.key # None /\ ask.version = ask.key.version /\ ask.version <= version
  BY <1>1, SnapshotConstants DEF SnapshotInv, AskedTrue
<1>3. AskedTrue'
  BY <1>1 DEF SnapshotInv, TypeOK, AskedTrue
<1>4. {now, version, serial} \subseteq Nat /\ runs \subseteq Run
  BY DEF SnapshotInv, TypeOK
<1>5. asking' \in [Viewer -> {None} \cup Ask]
  BY <1>1, TypeParts DEF SnapshotInv
<1>6. CASE UNCHANGED <<runs, serial, awaited>>
  <2>1. TypeOK'
    BY <1>1, <1>5, <1>6, TypeParts DEF SnapshotInv, TypeOK, Ask
  <2>2. AwaitedTrue'
    BY <1>6 DEF SnapshotInv, AwaitedTrue
  <2>3. RunsAreTrue' /\ OccasionsTrue' /\ PromisesKept'
    BY <1>1, <1>6, RunsFrame, OccasionsFrame
  <2>4. QED
    BY <1>3, <2>1, <2>2, <2>3 DEF SnapshotInv
<1>7. ASSUME NEW r \in runs, UNCHANGED <<runs, serial>>, r.key = ask.key, Answer(v, r, ask.version)
      PROVE  SnapshotInv'
  <2>1. /\ r.id \in Nat /\ r.id < serial /\ r.kind = "SUMMARY" /\ r.source # "SCHEDULE"
        /\ ask.version <= r.label
    BY <1>2, <1>4, <1>7 DEF SnapshotInv, RunsAreTrue, RunIsTrue, Run
  <2>2. awaited' = [awaited EXCEPT ![v] = [run |-> r.id, version |-> ask.version]]
    BY <1>7 DEF Answer
  <2>3. ask.version \in Nat
    BY <1>1 DEF Ask
  <2>4. awaited' \in [Viewer -> {None} \cup [run : Nat, version : Nat]]
    BY <2>1, <2>2, <2>3 DEF SnapshotInv, TypeOK
  <2>5. TypeOK'
    BY <1>1, <1>5, <1>7, <2>4, TypeParts DEF SnapshotInv, TypeOK, Ask
  <2>6. AwaitedTrue'
    <3>1. \A s \in runs : s.id = r.id => s = r
      BY DEF SnapshotInv, RunsAreTrue
    <3>2. ASSUME NEW w \in Viewer, awaited'[w] # None
          PROVE  /\ awaited'[w].run < serial
                 /\ \A s \in runs : s.id = awaited'[w].run =>
                       s.kind = "SUMMARY" /\ s.source # "SCHEDULE" /\ awaited'[w].version <= s.label
      <4>1. CASE w = v
        BY <2>1, <2>2, <3>1, <4>1 DEF SnapshotInv, TypeOK
      <4>2. CASE w # v
        BY <2>2, <3>2, <4>2 DEF SnapshotInv, TypeOK, AwaitedTrue
      <4>3. QED
        BY <4>1, <4>2
    <3>3. QED
      BY <1>7, <3>2 DEF AwaitedTrue
  <2>7. RunsAreTrue' /\ OccasionsTrue' /\ PromisesKept'
    BY <1>1, <1>7, RunsFrame, OccasionsFrame
  <2>8. QED
    BY <1>3, <2>5, <2>6, <2>7 DEF SnapshotInv
<1>8. ASSUME NEW r \in Run, Created(r), Answer(v, r, ask.version), r.kind = "SUMMARY", r.source # "SCHEDULE"
      PROVE  SnapshotInv'
  <2>1. /\ RunsAreTrue' /\ runs' \subseteq Run /\ serial' \in Nat
        /\ \A w \in Viewer : awaited[w] # None => awaited[w].run # r.id /\ awaited[w].run < serial'
    BY <1>1, <1>8, CreationKeepsRuns
  <2>2. r.id = serial /\ r.label = version /\ runs' = runs \cup {r} /\ serial' = serial + 1
    BY <1>8 DEF Created
  <2>3. awaited' = [awaited EXCEPT ![v] = [run |-> serial, version |-> ask.version]]
    BY <1>8, <2>2 DEF Answer
  <2>4. ask.version \in Nat
    BY <1>1 DEF Ask
  <2>5. awaited' \in [Viewer -> {None} \cup [run : Nat, version : Nat]]
    BY <1>4, <2>3, <2>4 DEF SnapshotInv, TypeOK
  <2>6. TypeOK'
    BY <1>1, <1>5, <2>1, <2>5, TypeParts DEF SnapshotInv, TypeOK, Ask
  <2>7. AwaitedTrue'
    <3>1. \A s \in runs : s.id # serial
      BY <1>4 DEF SnapshotInv, RunsAreTrue, RunIsTrue, Run
    <3>2. ASSUME NEW w \in Viewer, awaited'[w] # None
          PROVE  /\ awaited'[w].run < serial'
                 /\ \A s \in runs' : s.id = awaited'[w].run =>
                       s.kind = "SUMMARY" /\ s.source # "SCHEDULE" /\ awaited'[w].version <= s.label
      <4>1. CASE w = v
        <5>1. awaited'[w].run = serial /\ awaited'[w].version = ask.version
          BY <2>3, <4>1 DEF SnapshotInv, TypeOK
        <5>2. \A s \in runs' : s.id = serial => s = r
          BY <2>2, <3>1
        <5>3. QED
          BY <1>2, <1>4, <1>8, <2>2, <5>1, <5>2
      <4>2. CASE w # v
        <5>1. awaited'[w] = awaited[w] /\ awaited[w] # None
          BY <2>3, <3>2, <4>2 DEF SnapshotInv, TypeOK
        <5>2. awaited[w].run # r.id /\ awaited[w].run < serial'
          BY <2>1, <5>1
        <5>3. QED
          BY <2>2, <5>1, <5>2 DEF SnapshotInv, AwaitedTrue
      <4>3. QED
        BY <4>1, <4>2
    <3>3. QED
      BY <3>2 DEF AwaitedTrue
  <2>8. OccasionsTrue' /\ PromisesKept'
    BY <1>1, <2>2, OccasionsFrame
  <2>9. QED
    BY <1>3, <2>1, <2>6, <2>7, <2>8 DEF SnapshotInv
<1>9. QED
  BY <1>6, <1>7, <1>8, AnswerStep

\* A detail run carries no key, so no one else's request is joined to it.
LEMMA DetailKeeps ==
    ASSUME SnapshotInv, NEW v \in Viewer, CreateDetail(v) PROVE SnapshotInv'
<1>1. {now, version, serial, requests} \subseteq Nat /\ runs \subseteq Run /\ Day(now) \in Int
  BY DayTyped DEF SnapshotInv, TypeOK
<1>2. PICK report \in Report, preset \in presetsOf[v] :
         LET period == ResolvePeriod(preset, Day(now)) IN
         Add(NewRun("DASHBOARD", "DETAIL", report, period, None, None, v))
  BY DEF CreateDetail
<1> DEFINE period == ResolvePeriod(preset, Day(now))
<1>3. preset \in Preset
  BY SnapshotConstants
<1>4. period \in Period
  BY <1>1, <1>3, ResolvePeriodTyped
<1> HIDE DEF period
<1>5. PICK r : /\ r = NewRun("DASHBOARD", "DETAIL", report, period, None, None, v)
               /\ runs' = runs \cup {r} /\ serial' = serial + 1
  BY <1>2 DEF Add, period
<1>6. /\ r \in Run /\ r.id = serial /\ r.source = "DASHBOARD" /\ r.kind = "DETAIL" /\ r.key = None
      /\ r.label = version /\ r.status = "QUEUED"
  <2>1. r \in Run
    BY <1>1, <1>4, <1>5, NewRunTyped
  <2>2. QED
    BY <1>5, <2>1 DEF NewRun
<1>7. Created(r)
  BY <1>5, <1>6 DEF Created
<1>8. /\ UNCHANGED <<now, version, edits, interval, asking, awaited, occasions, promised>>
      /\ requests' = requests + 1
  BY DEF CreateDetail, Request
<1>9. RunsAreTrue' /\ runs' \subseteq Run /\ serial' \in Nat
  BY <1>7, <1>8, CreationKeepsRuns
<1>10. TypeOK'
  BY <1>1, <1>8, <1>9, TypeParts DEF SnapshotInv, TypeOK
<1>11. AwaitedTrue'
  <2>1. \A s \in runs' : s.id = serial \/ \E o \in runs : SameRun(o, s)
    BY <1>5, <1>6 DEF SameRun
  <2>2. {serial, serial'} \subseteq Nat /\ serial <= serial'
    BY <1>1, <1>5
  <2>3. QED
    BY <1>8, <2>1, <2>2, AwaitedFrame
<1>12. AskedTrue' /\ OccasionsTrue' /\ PromisesKept'
  BY <1>5, <1>8, OccasionsFrame DEF SnapshotInv, AskedTrue
<1>13. QED
  BY <1>9, <1>10, <1>11, <1>12 DEF SnapshotInv

\* An occurrence of a schedule inserts its run together with its notification.
LEMMA MaterializeKeeps ==
    ASSUME SnapshotInv, MaterializeScheduled PROVE SnapshotInv'
<1>1. {now, version, serial} \subseteq Nat /\ runs \subseteq Run /\ Day(now) \in Int
  BY DayTyped DEF SnapshotInv, TypeOK
<1>2. PICK report \in Report, preset \in SchedulePresets :
         Add(NewRun("SCHEDULE", "SUMMARY", report,
                    ResolveEffectivePeriod(preset, modeOf[report], Day(now)), None, None, None))
  BY DEF MaterializeScheduled
<1> DEFINE period == ResolveEffectivePeriod(preset, modeOf[report], Day(now))
           o == [run |-> serial, at |-> now, status |-> "COLLECTING",
                 delivery |-> "NONE", until |-> 0, link |-> FALSE]
<1>3. preset \in Preset
  BY SnapshotConstants
<1>4. period \in Period
  BY <1>1, <1>3, EffectivePeriodTyped
<1> HIDE DEF period
<1>5. PICK r : /\ r = NewRun("SCHEDULE", "SUMMARY", report, period, None, None, None)
               /\ runs' = runs \cup {r} /\ serial' = serial + 1
  BY <1>2 DEF Add, period
<1>6. /\ r \in Run /\ r.id = serial /\ r.source = "SCHEDULE" /\ r.kind = "SUMMARY" /\ r.key = None
      /\ r.label = version /\ r.status = "QUEUED"
  <2>1. r \in Run
    BY <1>1, <1>4, <1>5, NewRunTyped
  <2>2. QED
    BY <1>5, <2>1 DEF NewRun
<1>7. Created(r)
  BY <1>5, <1>6 DEF Created
<1>8. /\ UNCHANGED <<now, version, edits, interval, requests, asking, awaited, promised>>
      /\ occasions' = occasions \cup {o}
  BY DEF MaterializeScheduled
<1>9. /\ o \in Occasion /\ o.run = serial /\ o.status = "COLLECTING" /\ o.delivery = "NONE"
  BY <1>1 DEF Occasion
<1> HIDE DEF o
<1>10. RunsAreTrue' /\ runs' \subseteq Run /\ serial' \in Nat
  BY <1>7, <1>8, CreationKeepsRuns
<1>11. TypeOK'
  <2>1. occasions' \subseteq Occasion
    BY <1>8, <1>9, TypeParts DEF SnapshotInv
  <2>2. QED
    BY <1>1, <1>8, <1>10, <2>1 DEF SnapshotInv, TypeOK, Occasion
<1>12. AwaitedTrue'
  <2>1. \A s \in runs' : s.id = serial \/ \E x \in runs : SameRun(x, s)
    BY <1>5, <1>6 DEF SameRun
  <2>2. {serial, serial'} \subseteq Nat /\ serial <= serial'
    BY <1>1, <1>5
  <2>3. QED
    BY <1>8, <2>1, <2>2, AwaitedFrame
<1>13. OccasionsTrue'
  <2>1. ASSUME NEW x \in occasions'
        PROVE  /\ \E s \in runs' : /\ s.id = x.run /\ s.source = "SCHEDULE"
                                   /\ x.delivery \in {"PENDING", "ACCEPTED"} => s.status = "SUCCEEDED"
               /\ x.status = "COLLECTING" => x.delivery = "NONE"
               /\ x.delivery = "PENDING" /\ now < x.until => x.link
    <3>1. CASE x = o
      BY <1>5, <1>6, <1>9, <3>1
    <3>2. CASE x \in occasions
      BY <1>5, <3>2 DEF SnapshotInv, OccasionsTrue
    <3>3. QED
      BY <1>8, <2>1, <3>1, <3>2
  <2>2. QED
    BY <1>8, <2>1 DEF OccasionsTrue
<1>14. AskedTrue' /\ PromisesKept'
  BY <1>8 DEF SnapshotInv, AskedTrue, PromisesKept
<1>15. QED
  BY <1>10, <1>11, <1>12, <1>13, <1>14 DEF SnapshotInv

-----------------------------------------------------------------------------
(* The steps that execute runs. *)

\* One run is written: it reads through the connection configured when it is
\* opened, and ends with a dashboard and, if a viewer wants them, its rows.
LEMMA WorkStep ==
    ASSUME SnapshotInv, Work
    PROVE  \E r \in runs : \E s \in Run :
              /\ runs' = (runs \ {r}) \cup {s} /\ SameRun(r, s) /\ RunIsTrue(s)
              /\ r.status # "SUCCEEDED"
<1>1. {now, version, serial} \subseteq Nat /\ runs \subseteq Run
  BY DEF SnapshotInv, TypeOK
<1>2. PICK r \in runs : Open(r) \/ Complete(r) \/ GiveUp(r) \/ Cancel(r)
  BY DEF Work
<1>3. r \in Run /\ RunIsTrue(r)
  BY <1>1 DEF SnapshotInv, RunsAreTrue
<1>4. /\ r.id \in Nat /\ r.label \in Nat /\ r.reads \in Nat
      /\ r.status \in {"QUEUED", "RUNNING", "SUCCEEDED", "FAILED", "CANCELLED"}
  BY <1>3 DEF Run
<1>5. CASE Open(r)
  <2> DEFINE s == [r EXCEPT !.status = "RUNNING", !.reads = version]
  <2>1. r.status = "QUEUED" /\ runs' = (runs \ {r}) \cup {s}
    BY <1>5 DEF Open, Change
  <2>2. s \in Run /\ SameRun(r, s) /\ s.status = "RUNNING" /\ s.reads = version
    BY <1>1, <1>3, OpenRow
  <2> HIDE DEF s
  <2>3. RunIsTrue(s)
    BY <1>1, <1>3, <2>2 DEF RunIsTrue, SameRun
  <2>4. QED
    BY <2>1, <2>2, <2>3
<1>6. CASE Complete(r)
  <2> DEFINE rows == r.source = "DASHBOARD" /\ r.kind = "DETAIL"
             s == [r EXCEPT !.status = "SUCCEEDED", !.done = now, !.dashboard = TRUE, !.rows = rows]
  <2>1. r.status = "RUNNING" /\ runs' = (runs \ {r}) \cup {s}
    BY <1>6 DEF Complete, Change
  <2>2. /\ s \in Run /\ SameRun(r, s) /\ s.status = "SUCCEEDED" /\ s.reads = r.reads
        /\ s.done = now /\ s.dashboard = TRUE /\ s.rows = rows
    BY <1>1, <1>3, CompleteRow
  <2>3. s.source = "DASHBOARD" /\ s.kind = "DETAIL" => s.rows
    BY <2>2 DEF SameRun
  <2> HIDE DEF s, rows
  <2>4. s.id < serial /\ s.label <= version /\ s.label <= s.reads /\ s.reads <= version /\ s.done <= now
    BY <1>1, <1>3, <2>1, <2>2 DEF RunIsTrue, SameRun
  <2>5. s.key # None => s.kind = "SUMMARY" /\ s.source # "SCHEDULE" /\ s.key.version <= s.label
    BY <1>3, <2>2 DEF RunIsTrue, SameRun
  <2>6. RunIsTrue(s)
    BY <2>2, <2>3, <2>4, <2>5 DEF RunIsTrue
  <2>7. QED
    BY <2>1, <2>2, <2>6
<1>7. ASSUME NEW status \in {"QUEUED", "FAILED", "CANCELLED"}, NEW s \in Run, SameRun(r, s),
             s.status = status, runs' = (runs \ {r}) \cup {s}, r.status # "SUCCEEDED"
      PROVE  \E x \in Run : runs' = (runs \ {r}) \cup {x} /\ SameRun(r, x) /\ RunIsTrue(x)
  BY <1>1, <1>3, <1>7 DEF RunIsTrue, SameRun
<1>8. CASE GiveUp(r)
  <2>1. PICK status \in {"QUEUED", "FAILED"} :
           r.status = "RUNNING" /\ runs' = (runs \ {r}) \cup {[r EXCEPT !.status = status, !.reads = 0]}
    BY <1>8 DEF GiveUp, Change
  <2> DEFINE s == [r EXCEPT !.status = status, !.reads = 0]
  <2>2. s \in Run /\ SameRun(r, s) /\ s.status = status
    BY <1>3, StoppedRow
  <2> HIDE DEF s
  <2>3. runs' = (runs \ {r}) \cup {s}
    BY <2>1 DEF s
  <2>4. QED
    BY <1>7, <2>1, <2>2, <2>3
<1>9. CASE Cancel(r)
  <2> DEFINE s == [r EXCEPT !.status = "CANCELLED"]
  <2>1. r.status = "QUEUED" /\ runs' = (runs \ {r}) \cup {s}
    BY <1>9 DEF Cancel, Change
  <2>2. s \in Run /\ SameRun(r, s) /\ s.status = "CANCELLED"
    BY <1>3, StoppedRow
  <2> HIDE DEF s
  <2>3. QED
    BY <1>7, <2>1, <2>2
<1>10. QED
  BY <1>2, <1>5, <1>6, <1>8, <1>9

\* So a run keeps its identity, and a success stays one.
LEMMA WorkKeeps == ASSUME SnapshotInv, Work PROVE SnapshotInv'
<1>1. {now, version, serial} \subseteq Nat /\ runs \subseteq Run
  BY DEF SnapshotInv, TypeOK
<1>2. UNCHANGED <<now, version, edits, interval, serial, requests, asking, awaited, occasions, promised>>
  BY DEF Work
<1>3. PICK r \in runs, s \in Run :
         /\ runs' = (runs \ {r}) \cup {s} /\ SameRun(r, s) /\ RunIsTrue(s)
         /\ r.status # "SUCCEEDED"
  BY WorkStep
<1>4. RunsAreTrue'
  <2>1. \A x \in Run : RunIsTrue(x)' <=> RunIsTrue(x)
    BY <1>2 DEF RunIsTrue
  <2>2. \A x \in runs' : RunIsTrue(x)'
    BY <1>1, <1>3, <2>1 DEF SnapshotInv, RunsAreTrue
  <2>3. \A x, y \in runs' : x.id = y.id => x = y
    BY <1>3 DEF SnapshotInv, RunsAreTrue, SameRun
  <2>4. QED
    BY <2>2, <2>3 DEF RunsAreTrue
<1>5. TypeOK'
  BY <1>1, <1>2, <1>3, TypeParts DEF SnapshotInv, TypeOK
<1>6. AwaitedTrue'
  <2>1. \A x \in runs' : \E o \in runs : SameRun(o, x)
    BY <1>3 DEF SameRun
  <2>2. QED
    BY <1>1, <1>2, <2>1, AwaitedFrame
<1>7. OccasionsTrue' /\ PromisesKept'
  <2>1. ASSUME NEW x \in runs
        PROVE  \E y \in runs' : /\ y.id = x.id /\ y.source = x.source
                                /\ x.status = "SUCCEEDED" => y.status = "SUCCEEDED"
    <3>1. CASE x = r
      BY <1>3, <3>1 DEF SameRun
    <3>2. CASE x # r
      BY <1>3, <3>2
    <3>3. QED
      BY <3>1, <3>2
  <2>2. QED
    BY <1>2, <2>1, OccasionsFrame
<1>8. AskedTrue'
  BY <1>2 DEF SnapshotInv, AskedTrue
<1>9. QED
  BY <1>4, <1>5, <1>6, <1>7, <1>8 DEF SnapshotInv

-----------------------------------------------------------------------------
(* Notifications, retention, administrators and time. *)

\* One notification is rewritten: what it says of its run and of its link stays
\* true, and so does what was promised.
LEMMA OccasionRewritten ==
    ASSUME SnapshotInv, NEW o \in occasions, NEW s \in Occasion,
           occasions' = (occasions \ {o}) \cup {s}, UNCHANGED <<now, runs>>, s.run = o.run,
           s.delivery \in {"PENDING", "ACCEPTED"} => \A r \in runs : r.id = o.run => r.status = "SUCCEEDED",
           s.status = "COLLECTING" => s.delivery = "NONE",
           s.delivery = "PENDING" /\ now < s.until => s.link,
           o.delivery # "ACCEPTED"
    PROVE  /\ OccasionsTrue'
           /\ \A link \in promised : now < link.until =>
                 \E x \in occasions' : /\ x.run = link.run /\ x.until = link.until
                                       /\ x.link /\ x.delivery = "ACCEPTED"
<1>1. ASSUME NEW x \in occasions'
      PROVE  /\ \E r \in runs : /\ r.id = x.run /\ r.source = "SCHEDULE"
                                /\ x.delivery \in {"PENDING", "ACCEPTED"} => r.status = "SUCCEEDED"
             /\ x.status = "COLLECTING" => x.delivery = "NONE"
             /\ x.delivery = "PENDING" /\ now < x.until => x.link
  <2>1. CASE x = s
    <3>1. PICK r \in runs : r.id = o.run /\ r.source = "SCHEDULE"
      BY DEF SnapshotInv, OccasionsTrue
    <3>2. QED
      BY <2>1, <3>1
  <2>2. CASE x \in occasions
    BY <2>2 DEF SnapshotInv, OccasionsTrue
  <2>3. QED
    BY <1>1, <2>1, <2>2
<1>2. OccasionsTrue'
  BY <1>1 DEF OccasionsTrue
<1>3. ASSUME NEW link \in promised, now < link.until
      PROVE  \E x \in occasions' : /\ x.run = link.run /\ x.until = link.until
                                   /\ x.link /\ x.delivery = "ACCEPTED"
  <2>1. PICK x \in occasions : /\ x.run = link.run /\ x.until = link.until
                               /\ x.link /\ x.delivery = "ACCEPTED"
    BY <1>3 DEF SnapshotInv, PromisesKept
  <2>2. x \in occasions'
    BY <2>1
  <2>3. QED
    BY <2>1, <2>2
<1>4. QED
  BY <1>2, <1>3

\* Publish needs a run that has succeeded; a link is promised when it has
\* reached its recipient, and its delivery stays behind it.
LEMMA NotifyKeeps == ASSUME SnapshotInv, Notify PROVE SnapshotInv'
<1>1. UNCHANGED <<now, version, edits, interval, runs, serial, requests, asking, awaited>>
  BY DEF Notify
<1>2. PICK o \in occasions : Publish(o) \/ EndDelivery(o)
  BY DEF Notify
<1>3. /\ now \in Nat /\ occasions \subseteq Occasion /\ o \in Occasion
      /\ promised \subseteq [run : Nat, until : Nat]
  BY TypeParts DEF SnapshotInv
<1>4. ASSUME NEW s \in Occasion, occasions' = (occasions \ {o}) \cup {s},
             promised' \subseteq [run : Nat, until : Nat], OccasionsTrue', PromisesKept'
      PROVE  SnapshotInv'
  <2>1. occasions' \subseteq Occasion
    BY <1>3, <1>4
  <2>2. TypeOK'
    BY <1>1, <1>4, <2>1 DEF SnapshotInv, TypeOK, Occasion
  <2>3. AskedTrue' /\ AwaitedTrue' /\ RunsAreTrue'
    BY <1>1, RunsFrame DEF SnapshotInv, AskedTrue, AwaitedTrue
  <2>4. QED
    BY <1>4, <2>2, <2>3 DEF SnapshotInv
<1>5. ASSUME NEW s \in Occasion, occasions' = (occasions \ {o}) \cup {s}, promised' = promised, s.run = o.run,
             s.delivery \in {"PENDING", "ACCEPTED"} => \A r \in runs : r.id = o.run => r.status = "SUCCEEDED",
             s.status = "COLLECTING" => s.delivery = "NONE",
             s.delivery = "PENDING" /\ now < s.until => s.link,
             o.delivery # "ACCEPTED"
      PROVE  SnapshotInv'
  <2>1. /\ OccasionsTrue'
        /\ \A link \in promised : now < link.until =>
              \E x \in occasions' : /\ x.run = link.run /\ x.until = link.until
                                    /\ x.link /\ x.delivery = "ACCEPTED"
    BY <1>1, <1>5, OccasionRewritten
  <2>2. PromisesKept'
    BY <1>1, <1>5, <2>1 DEF PromisesKept
  <2>3. QED
    BY <1>3, <1>4, <1>5, <2>1, <2>2
<1>6. CASE Publish(o)
  <2>1. PICK r \in runs :
           /\ o.status = "COLLECTING" /\ r.id = o.run /\ promised' = promised
           /\ \/ /\ r.status = "SUCCEEDED"
                 /\ occasions' = (occasions \ {o}) \cup
                       {[o EXCEPT !.status = "SENDING", !.delivery = "PENDING",
                                  !.until = now + LinkSlots, !.link = TRUE]}
              \/ /\ r.status = "FAILED"
                 /\ occasions' = (occasions \ {o}) \cup {[o EXCEPT !.status = "FAILED"]}
    BY <1>6 DEF Publish
  <2>2. o.delivery = "NONE"
    BY <2>1 DEF SnapshotInv, OccasionsTrue
  <2>3. CASE r.status = "SUCCEEDED"
    <3> DEFINE s == [o EXCEPT !.status = "SENDING", !.delivery = "PENDING",
                              !.until = now + LinkSlots, !.link = TRUE]
    <3>1. s \in Occasion /\ s.run = o.run /\ s.status = "SENDING" /\ s.delivery = "PENDING" /\ s.link
      BY <1>3, PublishedRow
    <3>2. \A x \in runs : x.id = o.run => x.status = "SUCCEEDED"
      BY <2>1, <2>3 DEF SnapshotInv, RunsAreTrue
    <3>3. occasions' = (occasions \ {o}) \cup {s}
      BY <2>1, <2>3
    <3> HIDE DEF s
    <3>4. QED
      BY <1>5, <2>1, <2>2, <3>1, <3>2, <3>3
  <2>4. CASE r.status = "FAILED"
    <3> DEFINE s == [o EXCEPT !.status = "FAILED"]
    <3>1. s \in Occasion /\ s.run = o.run /\ s.status = "FAILED" /\ s.delivery = o.delivery
      BY <1>3 DEF Occasion
    <3>2. occasions' = (occasions \ {o}) \cup {s}
      BY <2>1, <2>4
    <3> HIDE DEF s
    <3>3. QED
      BY <1>5, <2>1, <2>2, <3>1, <3>2
  <2>5. QED
    BY <2>1, <2>3, <2>4
<1>7. CASE EndDelivery(o)
  <2>1. o.delivery = "PENDING"
    BY <1>7 DEF EndDelivery
  <2>2. \A r \in runs : r.id = o.run => r.status = "SUCCEEDED"
    BY <2>1 DEF SnapshotInv, OccasionsTrue, RunsAreTrue
  <2>3. CASE /\ occasions' = (occasions \ {o}) \cup
                   {[o EXCEPT !.status = "FAILED", !.delivery = "FAILED_PERMANENT"]}
             /\ promised' = promised
    <3> DEFINE s == [o EXCEPT !.status = "FAILED", !.delivery = "FAILED_PERMANENT"]
    <3>1. s \in Occasion /\ s.run = o.run /\ s.status = "FAILED" /\ s.delivery = "FAILED_PERMANENT"
      BY <1>3, EndedRow
    <3>2. occasions' = (occasions \ {o}) \cup {s} /\ promised' = promised
      BY <2>3
    <3> HIDE DEF s
    <3>3. QED
      BY <1>5, <2>1, <3>1, <3>2
  <2>4. CASE /\ occasions' = (occasions \ {o}) \cup
                   {[o EXCEPT !.status = "COMPLETED", !.delivery = "ACCEPTED"]}
             /\ promised' = promised \cup {[run |-> o.run, until |-> o.until]}
    <3> DEFINE s == [o EXCEPT !.status = "COMPLETED", !.delivery = "ACCEPTED"]
               new == [run |-> o.run, until |-> o.until]
    <3>1. /\ s \in Occasion /\ s.run = o.run /\ s.status = "COMPLETED" /\ s.delivery = "ACCEPTED"
          /\ s.until = o.until /\ s.link = o.link
      BY <1>3, EndedRow
    <3>2. occasions' = (occasions \ {o}) \cup {s} /\ promised' = promised \cup {new}
      BY <2>4
    <3>3. new \in [run : Nat, until : Nat] /\ new.run = o.run /\ new.until = o.until
      BY <1>3 DEF Occasion
    <3> HIDE DEF s, new
    <3>4. now < o.until => s.link
      BY <2>1, <3>1 DEF SnapshotInv, OccasionsTrue
    <3>5. /\ OccasionsTrue'
          /\ \A link \in promised : now < link.until =>
                \E x \in occasions' : /\ x.run = link.run /\ x.until = link.until
                                      /\ x.link /\ x.delivery = "ACCEPTED"
      BY <1>1, <2>1, <2>2, <3>1, <3>2, OccasionRewritten
    <3>6. now < new.until =>
             \E x \in occasions' : /\ x.run = new.run /\ x.until = new.until
                                   /\ x.link /\ x.delivery = "ACCEPTED"
      BY <3>1, <3>2, <3>3, <3>4
    <3>7. PromisesKept'
      BY <1>1, <3>2, <3>5, <3>6 DEF PromisesKept
    <3>8. promised' \subseteq [run : Nat, until : Nat]
      BY <1>3, <3>2, <3>3
    <3>9. QED
      BY <1>4, <3>1, <3>2, <3>5, <3>7, <3>8
  <2>5. QED
    BY <1>7, <2>3, <2>4 DEF EndDelivery
<1>8. QED
  BY <1>2, <1>6, <1>7

\* What a retention pass leaves of a run it keeps.
Retained(r) ==
    [r EXCEPT !.rows = @ /\ RowsKept(r),
              !.dashboard = @ /\ ~ (r.source = "SCHEDULE" /\ r.at + RetentionSlots <= now)]

\* It takes no rows and no dashboard before their time.
LEMMA RetainedIsTrue ==
    ASSUME NEW r \in Run, RunIsTrue(r), now \in Nat
    PROVE  /\ Retained(r) \in Run /\ SameRun(r, Retained(r)) /\ Retained(r).status = r.status
           /\ RunIsTrue(Retained(r))
<1> DEFINE rows == r.rows /\ RowsKept(r)
           dashboard == r.dashboard /\ ~ (r.source = "SCHEDULE" /\ r.at + RetentionSlots <= now)
           a == [r EXCEPT !.rows = rows]
           s == [a EXCEPT !.dashboard = dashboard]
<1>1. s = Retained(r)
  BY DEF Retained, Run
<1>2. rows \in BOOLEAN /\ dashboard \in BOOLEAN
  BY DEF Run, RowsKept
<1>3. /\ s \in Run /\ SameRun(r, s) /\ s.status = r.status /\ s.reads = r.reads /\ s.done = r.done
      /\ s.rows = rows /\ s.dashboard = dashboard
  <2> HIDE DEF rows, dashboard
  <2>1. /\ a \in Run /\ SameRun(r, a) /\ a.status = r.status /\ a.reads = r.reads
        /\ a.done = r.done /\ a.rows = rows
    BY <1>2 DEF Run, SameRun
  <2> HIDE DEF a
  <2>2. QED
    BY <1>2, <2>1 DEF Run, SameRun
<1>4. /\ r.at \in Nat /\ r.done \in Nat /\ RetentionSlots \in Nat /\ SlotsPerDay \in Nat
  BY CalendarConstants, SnapshotConstants DEF Run
<1>5. r.status = "SUCCEEDED" /\ (r.source # "SCHEDULE" \/ now < r.at + RetentionSlots) => dashboard
  BY <1>4 DEF RunIsTrue
<1>6. r.status = "SUCCEEDED" /\ r.source = "DASHBOARD" /\ r.kind = "DETAIL" /\ now < r.done + SlotsPerDay => rows
  BY <1>4 DEF RunIsTrue, RowsKept
<1> HIDE DEF s, rows, dashboard
<1>7. RunIsTrue(s)
  BY <1>3, <1>5, <1>6 DEF RunIsTrue, SameRun
<1>8. QED
  BY <1>1, <1>3, <1>7

\* A pass keeps a run or deletes it; what it keeps of it is the same run.
LEMMA RetentionRewrites ==
    ASSUME SnapshotInv, Retention
    PROVE  \A s \in runs' : \E r \in runs : s = Retained(r) /\ SameRun(r, s)
<1>1. \A r \in runs : SameRun(r, Retained(r))
  BY RetainedIsTrue DEF SnapshotInv, TypeOK, RunsAreTrue
<1>2. \A s \in runs' : \E r \in runs : s = Retained(r)
  BY DEF Retention, Retained
<1>3. QED
  BY <1>1, <1>2

\* The statements of a pass leave nothing dangling: a notification that stays
\* keeps its run, and a link that is not over keeps its delivery.
LEMMA RetentionKeeps == ASSUME SnapshotInv, Retention PROVE SnapshotInv'
<1> DEFINE linked(r) == \E o \in occasions' : o.run = r.id
           kept == {r \in runs : IF r.source = "SCHEDULE"
                                 THEN r.at + HistorySlots > now \/ linked(r)
                                 ELSE r.at + RetentionSlots > now}
<1>1. {now, version, serial} \subseteq Nat /\ runs \subseteq Run /\ occasions \subseteq Occasion
  BY TypeParts DEF SnapshotInv
<1>2. UNCHANGED <<now, version, edits, interval, serial, requests, asking, awaited, promised>>
  BY DEF Retention
<1>3. occasions' = {o \in {Expire(o) : o \in occasions} : OccasionKept(o)}
  BY DEF Retention
<1>4. runs' = {Retained(r) : r \in kept}
  BY DEF Retention, Retained
<1>5. \A r \in runs : /\ Retained(r) \in Run /\ SameRun(r, Retained(r)) /\ Retained(r).status = r.status
                      /\ RunIsTrue(Retained(r))
  BY <1>1, RetainedIsTrue DEF SnapshotInv, RunsAreTrue
<1>6. \A s \in runs' : \E r \in runs : s = Retained(r)
  BY RetentionRewrites
<1>7. runs' \subseteq Run
  BY <1>5, <1>6
<1>8. RunsAreTrue'
  <2>1. \A s \in Run : RunIsTrue(s)' <=> RunIsTrue(s)
    BY <1>2 DEF RunIsTrue
  <2>2. \A s \in runs' : RunIsTrue(s)'
    BY <1>5, <1>6, <1>7, <2>1
  <2>3. ASSUME NEW s \in runs', NEW t \in runs', s.id = t.id PROVE s = t
    <3>1. PICK r \in runs : s = Retained(r)
      BY <1>6
    <3>2. PICK x \in runs : t = Retained(x)
      BY <1>6
    <3>3. r.id = x.id
      BY <1>5, <2>3, <3>1, <3>2 DEF SameRun
    <3>4. r = x
      BY <3>3 DEF SnapshotInv, RunsAreTrue
    <3>5. QED
      BY <3>1, <3>2, <3>4
  <2>4. QED
    BY <2>2, <2>3 DEF RunsAreTrue
<1>9. AwaitedTrue'
  <2>1. \A s \in runs' : \E r \in runs : SameRun(r, s)
    BY RetentionRewrites
  <2>2. QED
    BY <1>1, <1>2, <2>1, AwaitedFrame
<1>10. ASSUME NEW s \in occasions'
       PROVE  /\ s \in Occasion
              /\ \E o \in occasions : s = Expire(o)
  BY <1>1, <1>3, ExpiredRow
<1>11. occasions' \subseteq Occasion
  BY <1>10
<1>12. OccasionsTrue'
  <2>1. ASSUME NEW s \in occasions'
        PROVE  /\ \E r \in runs' : /\ r.id = s.run /\ r.source = "SCHEDULE"
                                   /\ s.delivery \in {"PENDING", "ACCEPTED"} => r.status = "SUCCEEDED"
               /\ s.status = "COLLECTING" => s.delivery = "NONE"
               /\ s.delivery = "PENDING" /\ now < s.until => s.link
    <3>1. PICK o \in occasions : s = Expire(o)
      BY <1>10
    <3>2. /\ s.run = o.run /\ s.status = o.status /\ s.until = o.until
          /\ now < o.until => s.link = o.link /\ s.delivery = o.delivery
          /\ s.delivery \in {o.delivery, "NONE"}
      BY <1>1, <3>1, ExpiredRow
    <3>3. PICK r \in runs : /\ r.id = o.run /\ r.source = "SCHEDULE"
                            /\ o.delivery \in {"PENDING", "ACCEPTED"} => r.status = "SUCCEEDED"
      BY DEF SnapshotInv, OccasionsTrue
    <3>4. r \in kept /\ Retained(r) \in runs'
      BY <1>4, <2>1, <3>2, <3>3
    <3>5. Retained(r).id = s.run /\ Retained(r).source = "SCHEDULE" /\ Retained(r).status = r.status
      BY <1>5, <3>2, <3>3 DEF SameRun
    <3>6. s.delivery \in {"PENDING", "ACCEPTED"} => r.status = "SUCCEEDED"
      BY <3>2, <3>3
    <3>7. /\ s.status = "COLLECTING" => s.delivery = "NONE"
          /\ s.delivery = "PENDING" /\ now < s.until => s.link
      BY <3>2 DEF SnapshotInv, OccasionsTrue
    <3>8. QED
      BY <3>4, <3>5, <3>6, <3>7
  <2>2. QED
    BY <1>2, <2>1 DEF OccasionsTrue
<1>13. PromisesKept'
  <2>1. ASSUME NEW link \in promised, now < link.until
        PROVE  \E x \in occasions' : /\ x.run = link.run /\ x.until = link.until
                                     /\ x.link /\ x.delivery = "ACCEPTED"
    <3>1. PICK o \in occasions : /\ o.run = link.run /\ o.until = link.until
                                 /\ o.link /\ o.delivery = "ACCEPTED"
      BY <2>1 DEF SnapshotInv, PromisesKept
    <3>2. LET s == Expire(o) IN
          s.run = o.run /\ s.until = o.until /\ s.link = o.link /\ s.delivery = o.delivery
      BY <1>1, <2>1, <3>1, ExpiredRow
    <3>3. Expire(o) \in occasions'
      BY <1>3, <3>1, <3>2 DEF OccasionKept
    <3>4. QED
      BY <3>1, <3>2, <3>3
  <2>2. QED
    BY <1>2, <2>1 DEF PromisesKept
<1>14. TypeOK'
  BY <1>1, <1>2, <1>7, <1>11 DEF SnapshotInv, TypeOK, Occasion
<1>15. AskedTrue'
  BY <1>2 DEF SnapshotInv, AskedTrue
<1>16. QED
  BY <1>8, <1>9, <1>12, <1>13, <1>14, <1>15 DEF SnapshotInv

\* A changed connection makes labels older, and time only lets things expire.
LEMMA EnvironmentKeeps ==
    ASSUME SnapshotInv, PutConnection \/ PutRefreshPolicy \/ Tick PROVE SnapshotInv'
<1>1. {now, version, edits, serial} \subseteq Nat /\ runs \subseteq Run /\ occasions \subseteq Occasion
      /\ promised \subseteq [run : Nat, until : Nat]
  BY TypeParts DEF SnapshotInv
<1>2. /\ now' \in {now, now + 1} /\ version' \in {version, version + 1}
      /\ UNCHANGED <<runs, serial, requests, asking, awaited, occasions, promised>>
  BY DEF PutConnection, PutRefreshPolicy, Tick
<1>3. TypeOK'
  <2>1. edits' \in Nat /\ interval' \in Intervals \cup {None}
    BY <1>1 DEF PutConnection, PutRefreshPolicy, Tick, Edit, SnapshotInv, TypeOK
  <2>2. now' \in Nat /\ version' \in Nat
    BY <1>1, <1>2
  <2>3. QED
    BY <1>2, <2>1, <2>2 DEF SnapshotInv, TypeOK
<1>4. RunsAreTrue'
  <2>1. ASSUME NEW r \in runs PROVE RunIsTrue(r)'
    <3>1. RunIsTrue(r) /\ r.at \in Nat /\ r.done \in Nat /\ r.label \in Nat /\ r.reads \in Nat
      BY <1>1 DEF SnapshotInv, RunsAreTrue, Run
    <3>2. RetentionSlots \in Nat /\ SlotsPerDay \in Nat
      BY CalendarConstants, SnapshotConstants
    <3>3. /\ now < r.done + SlotsPerDay \/ ~ (now' < r.done + SlotsPerDay)
          /\ now < r.at + RetentionSlots \/ ~ (now' < r.at + RetentionSlots)
          /\ r.done <= now => r.done <= now'
          /\ r.label <= version => r.label <= version'
          /\ r.reads <= version => r.reads <= version'
      BY <1>1, <1>2, <3>1, <3>2
    <3>4. QED
      BY <1>2, <3>1, <3>3 DEF RunIsTrue
  <2>2. QED
    BY <1>2, <2>1 DEF SnapshotInv, RunsAreTrue
<1>5. AskedTrue'
  <2>1. ASSUME NEW v \in Viewer, asking[v] # None PROVE asking[v].version <= version'
    <3>1. asking[v].version \in Nat /\ asking[v].version <= version
      BY <2>1, TypeParts DEF SnapshotInv, AskedTrue, Ask
    <3>2. QED
      BY <1>1, <1>2, <3>1
  <2>2. QED
    BY <1>2, <2>1 DEF SnapshotInv, AskedTrue
<1>6. AwaitedTrue'
  BY <1>2 DEF SnapshotInv, AwaitedTrue
<1>7. \A n \in Nat : now' < n => now < n
  BY <1>1, <1>2
<1>8. OccasionsTrue'
  <2>1. \A o \in occasions : o.until \in Nat
    BY <1>1 DEF Occasion
  <2>2. QED
    BY <1>2, <1>7, <2>1 DEF SnapshotInv, OccasionsTrue
<1>9. PromisesKept'
  <2>1. \A link \in promised : link.until \in Nat
    BY <1>1
  <2>2. QED
    BY <1>2, <1>7, <2>1 DEF SnapshotInv, PromisesKept
<1>10. QED
  BY <1>3, <1>4, <1>5, <1>6, <1>8, <1>9 DEF SnapshotInv

\* SnapshotInv is an invariant of the store's viewers, workers, notifications,
\* retention passes and administrators.
THEOREM SnapshotInvariance == Spec => []SnapshotInv
<1>1. Init => SnapshotInv
  <2> SUFFICES ASSUME Init PROVE SnapshotInv
    OBVIOUS
  <2>1. TypeOK
    BY DEF Init, TypeOK
  <2>2. RunsAreTrue /\ AskedTrue /\ AwaitedTrue /\ OccasionsTrue /\ PromisesKept
    BY DEF Init, RunsAreTrue, AskedTrue, AwaitedTrue, OccasionsTrue, PromisesKept
  <2>3. QED
    BY <2>1, <2>2 DEF SnapshotInv
<1>2. SnapshotInv /\ [Next]_vars => SnapshotInv'
  <2> SUFFICES ASSUME SnapshotInv, [Next]_vars PROVE SnapshotInv'
    OBVIOUS
  <2>1. ASSUME NEW v \in Viewer, ViewerRequest(v) PROVE SnapshotInv'
    BY <2>1, RequestKeeps, DetailKeeps DEF ViewerRequest
  <2>2. ASSUME NEW v \in Viewer, ViewerAnswer(v) PROVE SnapshotInv'
    BY <2>2, AnswerKeeps
  <2>3. CASE MaterializeScheduled \/ Work \/ Notify \/ Retention
    BY <2>3, MaterializeKeeps, WorkKeeps, NotifyKeeps, RetentionKeeps
  <2>4. CASE PutConnection \/ PutRefreshPolicy \/ Tick
    BY <2>4, EnvironmentKeeps
  <2>5. CASE UNCHANGED vars
    <3>1. TypeOK'
      BY <2>5 DEF vars, SnapshotInv, TypeOK
    <3>2. AskedTrue' /\ AwaitedTrue' /\ OccasionsTrue' /\ PromisesKept'
      BY <2>5, OccasionsFrame DEF vars, SnapshotInv, AskedTrue, AwaitedTrue
    <3>3. QED
      BY <2>5, <3>1, <3>2, RunsFrame DEF vars, SnapshotInv
  <2>6. QED
    BY <2>1, <2>2, <2>3, <2>4, <2>5 DEF Next
<1>3. QED
  BY <1>1, <1>2, PTL DEF Spec

-----------------------------------------------------------------------------
(* What viewers are shown. *)

\* The columns of report_runs and of what hangs on them stay in their ranges
\* through every request, attempt, notification and retention pass.
THEOREM SnapshotTypeCorrect == Spec => []TypeOK
<1>1. SnapshotInv => TypeOK
  BY DEF SnapshotInv
<1>2. QED
  BY <1>1, SnapshotInvariance, PTL

\* A result with the label of the configured connection was read through it:
\* the version cannot have changed between the label and the worker's reading
\* without making the label an old one (Enqueue, openDataSource, PutConnection).
THEOREM ResultsAreOfCurrentSource == Spec => []SnapshotIsOfCurrentSource
<1>1. SnapshotInv => SnapshotIsOfCurrentSource
  <2> SUFFICES ASSUME SnapshotInv, NEW r \in runs, r \in Candidates(r.report, r.period)
               PROVE  r.reads = version
    BY DEF SnapshotIsOfCurrentSource
  <2>1. r.status = "SUCCEEDED" /\ r.label = version
    BY DEF Candidates
  <2>2. r.label <= r.reads /\ r.reads <= version
    BY <2>1 DEF SnapshotInv, RunsAreTrue, RunIsTrue
  <2>3. r.reads \in Nat /\ version \in Nat
    BY DEF SnapshotInv, TypeOK, Run
  <2>4. QED
    BY <2>1, <2>2, <2>3
<1>2. QED
  BY <1>1, SnapshotInvariance, PTL

\* Rows that a viewer was promised for a day after the run ended are there for
\* that day, and after it he is told that they expired (RetentionStore.Run).
THEOREM RowsStayADay == Spec => []DetailRowsStay
<1>1. SnapshotInv => DetailRowsStay
  <2> SUFFICES ASSUME SnapshotInv, NEW r \in runs,
                      r.status = "SUCCEEDED", r.source = "DASHBOARD", r.kind = "DETAIL"
               PROVE  ListRows(r) = IF now < r.done + SlotsPerDay THEN "ROWS" ELSE "EXPIRED"
    BY DEF DetailRowsStay
  <2>1. now \in Nat /\ r.done \in Nat /\ SlotsPerDay \in Nat
    BY CalendarConstants DEF SnapshotInv, TypeOK, Run
  <2>2. now < r.done + SlotsPerDay => r.rows
    BY DEF SnapshotInv, RunsAreTrue, RunIsTrue
  <2>3. (now >= SlotsPerDay + r.done) <=> ~ (now < r.done + SlotsPerDay)
    BY <2>1
  <2>4. QED
    BY <2>2, <2>3 DEF ListRows
<1>2. QED
  BY <1>1, SnapshotInvariance, PTL

\* The unique row of the idempotency key: the second viewer of an interval finds
\* the first one's run, whatever has become of it (Enqueue's replay).
THEOREM RefreshedOncePerInterval == Spec => []OneRefreshPerInterval
<1>1. Init => OneRefreshPerInterval
  BY DEF Init, OneRefreshPerInterval
<1>2. SnapshotInv /\ OneRefreshPerInterval /\ [Next]_vars => OneRefreshPerInterval'
  <2> SUFFICES ASSUME SnapshotInv, OneRefreshPerInterval, [Next]_vars PROVE OneRefreshPerInterval'
    OBVIOUS
  <2>1. ASSUME \A s, t \in runs' : s.id = t.id => s = t,
               \A s \in runs' : \E r \in runs : SameRun(r, s)
        PROVE  OneRefreshPerInterval'
    <3>1. ASSUME NEW s \in runs', NEW t \in runs', s.source = "BACKGROUND", t.source = "BACKGROUND",
                 s.key = t.key, s.bucket = t.bucket
          PROVE  s = t
      <4>1. PICK r \in runs : SameRun(r, s)
        BY <2>1
      <4>2. PICK x \in runs : SameRun(x, t)
        BY <2>1
      <4>3. r = x
        BY <3>1, <4>1, <4>2 DEF OneRefreshPerInterval, SameRun
      <4>4. QED
        BY <2>1, <4>1, <4>2, <4>3 DEF SameRun
    <3>2. QED
      BY <3>1 DEF OneRefreshPerInterval
  <2>2. ASSUME NEW r, runs' = runs \cup {r},
               r.source = "BACKGROUND" =>
                  \A x \in runs : ~ (x.source = "BACKGROUND" /\ x.key = r.key /\ x.bucket = r.bucket)
        PROVE  OneRefreshPerInterval'
    BY <2>2 DEF OneRefreshPerInterval
  <2>3. SnapshotInv => \A s, t \in runs : s.id = t.id => s = t
    BY DEF SnapshotInv, RunsAreTrue
  <2>4. ASSUME NEW v \in Viewer, ViewerAnswer(v) PROVE OneRefreshPerInterval'
    <3>1. CASE runs' = runs
      BY <3>1 DEF OneRefreshPerInterval
    <3>2. CASE runs' # runs
      <4>1. PICK r \in Run : /\ Created(r) /\ r.key = asking[v].key
                             /\ r.source = "BACKGROUND" =>
                                   r.bucket = asking[v].bucket /\ Replay(asking[v]) = {}
        BY <2>4, <3>2, AnswerStep
      <4>2. QED
        BY <2>2, <4>1 DEF Created, Replay
    <3>3. QED
      BY <3>1, <3>2
  <2>5. ASSUME NEW v \in Viewer, CreateDetail(v) PROVE OneRefreshPerInterval'
    <3>1. PICK report \in Report, preset \in presetsOf[v] :
             Add(NewRun("DASHBOARD", "DETAIL", report, ResolvePeriod(preset, Day(now)), None, None, v))
      BY <2>5 DEF CreateDetail
    <3> DEFINE r == NewRun("DASHBOARD", "DETAIL", report, ResolvePeriod(preset, Day(now)), None, None, v)
    <3>2. r.source = "DASHBOARD"
      BY DEF NewRun
    <3>3. runs' = runs \cup {r}
      BY <3>1 DEF Add
    <3> HIDE DEF r
    <3>4. QED
      BY <2>2, <3>2, <3>3
  <2>6. CASE MaterializeScheduled
    <3>1. PICK report \in Report, preset \in SchedulePresets :
             Add(NewRun("SCHEDULE", "SUMMARY", report,
                        ResolveEffectivePeriod(preset, modeOf[report], Day(now)), None, None, None))
      BY <2>6 DEF MaterializeScheduled
    <3> DEFINE r == NewRun("SCHEDULE", "SUMMARY", report,
                           ResolveEffectivePeriod(preset, modeOf[report], Day(now)), None, None, None)
    <3>2. r.source = "SCHEDULE"
      BY DEF NewRun
    <3>3. runs' = runs \cup {r}
      BY <3>1 DEF Add
    <3> HIDE DEF r
    <3>4. QED
      BY <2>2, <3>2, <3>3
  <2>7. CASE Work \/ Retention
    <3>1. \A s, t \in runs' : s.id = t.id => s = t
      BY <2>7, WorkKeeps, RetentionKeeps DEF SnapshotInv, RunsAreTrue
    <3>2. \A s \in runs' : \E r \in runs : SameRun(r, s)
      <4>1. CASE Work
        BY <4>1, WorkStep DEF SameRun
      <4>2. CASE Retention
        BY <4>2, RetentionRewrites
      <4>3. QED
        BY <2>7, <4>1, <4>2
    <3>3. QED
      BY <2>1, <3>1, <3>2
  <2>8. ASSUME runs' = runs PROVE OneRefreshPerInterval'
    BY <2>8 DEF OneRefreshPerInterval
  <2>9. ASSUME NEW v \in Viewer, BeginRevalidate(v) \/ BeginRefresh(v) PROVE runs' = runs
    BY <2>9 DEF BeginRevalidate, BeginRefresh
  <2>10. CASE Notify \/ PutConnection \/ PutRefreshPolicy \/ Tick \/ UNCHANGED vars
    BY <2>8, <2>10 DEF Notify, PutConnection, PutRefreshPolicy, Tick, vars
  <2>11. QED
    BY <2>4, <2>5, <2>6, <2>7, <2>8, <2>9, <2>10 DEF Next, ViewerRequest
<1>3. QED
  BY <1>1, <1>2, SnapshotInvariance, PTL DEF Spec

\* Among results there is a latest one, in the order in which the lookups sort
\* them: by the end of the run, then by its id.
LEMMA LatestExists ==
    ASSUME SnapshotInv, NEW S \in SUBSET runs, S # {}, \A r \in S : r.status = "SUCCEEDED"
    PROVE  \E r \in S : \A other \in S :
              other.done < r.done \/ (other.done = r.done /\ other.id <= r.id)
<1>1. now \in Nat /\ serial \in Nat
  BY DEF SnapshotInv, TypeOK
<1>2. ASSUME NEW r \in S
      PROVE  r.done \in Nat /\ r.id \in Nat /\ now - r.done \in Nat /\ serial - r.id \in Nat
  <2>1. r.done \in Nat /\ r.id \in Nat
    BY DEF SnapshotInv, TypeOK, Run
  <2>2. r.done <= now /\ r.id < serial
    BY DEF SnapshotInv, RunsAreTrue, RunIsTrue
  <2>3. QED
    BY <1>1, <2>1, <2>2
<1> DEFINE ages == {now - r.done : r \in S}
<1>3. ages \in SUBSET Nat /\ ages # {}
  BY <1>2
<1>4. PICK age \in ages : \A other \in ages : age <= other
  BY <1>3, LeastElement
<1>5. PICK newest \in S : age = now - newest.done
  BY <1>4
<1>6. ASSUME NEW other \in S PROVE other.done <= newest.done
  <2>1. now - newest.done <= now - other.done
    BY <1>4, <1>5
  <2>2. QED
    BY <1>1, <1>2, <2>1
<1> DEFINE tied == {r \in S : r.done = newest.done}
           ranks == {serial - r.id : r \in tied}
<1>7. ranks \in SUBSET Nat /\ ranks # {}
  BY <1>2
<1>8. PICK rank \in ranks : \A other \in ranks : rank <= other
  BY <1>7, LeastElement
<1>9. PICK r \in tied : rank = serial - r.id
  BY <1>8
<1>10. ASSUME NEW other \in S
       PROVE  other.done < r.done \/ (other.done = r.done /\ other.id <= r.id)
  <2>1. r \in S /\ r.done = newest.done
    BY <1>9
  <2>2. CASE other.done = newest.done
    <3>1. serial - r.id <= serial - other.id
      BY <1>8, <1>9, <2>2
    <3>2. other.id <= r.id
      BY <1>1, <1>2, <2>1, <3>1
    <3>3. QED
      BY <2>1, <2>2, <3>2
  <2>3. CASE other.done # newest.done
    BY <1>2, <1>6, <2>1, <2>3
  <2>4. QED
    BY <2>2, <2>3
<1>11. QED
  BY <1>9, <1>10

\* A result that is not a day old is shown in an overview of its period.
LEMMA YoungIsShown ==
    ASSUME SnapshotInv, NEW r \in Run, now < r.done + SlotsPerDay
    PROVE  Freshness(r) # "EXPIRED"
<1>1. now \in Nat /\ r.done \in Nat /\ SlotsPerDay \in Nat /\ RetentionSlots \in Nat
      /\ SlotsPerDay <= RetentionSlots
  BY CalendarConstants, SnapshotConstants DEF SnapshotInv, TypeOK, Run
<1>2. PICK span : span = IF r.period.to < Day(now) THEN RetentionSlots ELSE SlotsPerDay
  OBVIOUS
<1>3. ~ (now >= r.done + span)
  BY <1>1, <1>2
<1>4. QED
  BY <1>2, <1>3 DEF Freshness

\* The run a viewer waits for is a candidate of the lookups once it succeeds
\* under his version: its label is neither older nor newer than that version.
LEMMA AwaitedIsCandidate ==
    ASSUME SnapshotInv, NEW v \in Viewer, NEW r \in runs,
           awaited[v] # None, awaited[v].run = r.id,
           r.status = "SUCCEEDED", awaited[v].version = version
    PROVE  r \in Candidates(r.report, r.period)
<1>1. r.kind = "SUMMARY" /\ r.source # "SCHEDULE" /\ version <= r.label
  BY DEF SnapshotInv, AwaitedTrue
<1>2. r.label <= version /\ r.dashboard
  BY <1>1 DEF SnapshotInv, RunsAreTrue, RunIsTrue
<1>3. r.label \in Nat /\ version \in Nat
  BY DEF SnapshotInv, TypeOK, Run
<1>4. r.label = version
  BY <1>1, <1>2, <1>3
<1>5. QED
  BY <1>1, <1>2, <1>4 DEF Candidates

\* Each of the lookups shows a result at least as new as any candidate of it.
LEMMA LookupsShow ==
    ASSUME SnapshotInv, NEW r \in runs, r \in Candidates(r.report, r.period)
    PROVE  /\ \E shown \in GetExactSnapshot(r.report, r.period) :
                 shown.report = r.report /\ shown.done >= r.done
           /\ \E shown \in ExecutiveOverview : shown.report = r.report /\ shown.done >= r.done
<1>1. \A x \in runs : x.done \in Nat
  BY DEF SnapshotInv, TypeOK, Run
<1>2. \E shown \in GetExactSnapshot(r.report, r.period) :
         shown.report = r.report /\ shown.done >= r.done
  <2> DEFINE S == Candidates(r.report, r.period)
  <2>1. S \in SUBSET runs /\ \A x \in S : x.status = "SUCCEEDED" /\ x.report = r.report
    BY DEF Candidates
  <2> HIDE DEF S
  <2>2. r \in S
    BY DEF S
  <2>3. PICK shown \in S : \A other \in S :
           other.done < shown.done \/ (other.done = shown.done /\ other.id <= shown.id)
    BY <2>1, <2>2, LatestExists
  <2>4. shown \in GetExactSnapshot(r.report, r.period)
    BY <2>3 DEF GetExactSnapshot, S
  <2>5. shown.done >= r.done
    BY <1>1, <2>1, <2>2, <2>3
  <2>6. QED
    BY <2>1, <2>4, <2>5
<1>3. \E shown \in ExecutiveOverview : shown.report = r.report /\ shown.done >= r.done
  <2> DEFINE S == {x \in runs : x.report = r.report /\ x \in Candidates(r.report, x.period)}
  <2>1. S \in SUBSET runs /\ r \in S /\ \A x \in S : x.status = "SUCCEEDED"
    BY DEF Candidates
  <2>2. \A x \in runs : x \in S <=> x.report = r.report /\ x \in Candidates(r.report, x.period)
    OBVIOUS
  <2> HIDE DEF S
  <2>3. PICK shown \in S : \A other \in S :
           other.done < shown.done \/ (other.done = shown.done /\ other.id <= shown.id)
    BY <2>1, LatestExists
  <2>4. shown \in runs /\ shown.report = r.report /\ shown \in Candidates(shown.report, shown.period)
    BY <2>1, <2>2, <2>3
  <2>5. ASSUME NEW other \in runs, other.report = shown.report,
               other \in Candidates(shown.report, other.period)
        PROVE  other.done < shown.done \/ (other.done = shown.done /\ other.id <= shown.id)
    BY <2>2, <2>3, <2>4, <2>5
  <2>6. shown \in ExecutiveOverview
    BY <2>4, <2>5 DEF ExecutiveOverview
  <2>7. shown.done >= r.done
    BY <1>1, <2>1, <2>3
  <2>8. QED
    BY <2>4, <2>6, <2>7
<1>4. QED
  BY <1>2, <1>3

\* A viewer who was told to wait is served when his run has succeeded, by all of
\* the lookups: none of them prefers an older result, one of another version of
\* the connection, or one that is too old to be shown (GetExactSnapshot,
\* ExecutiveOverview, finalizeSnapshot).
THEOREM WaitingIsRewarded == Spec => []AwaitedRunIsServed
<1>1. SnapshotInv => AwaitedRunIsServed
  <2> SUFFICES ASSUME SnapshotInv, NEW v \in Viewer, NEW r \in runs,
                      awaited[v] # None, awaited[v].run = r.id,
                      r.status = "SUCCEEDED", awaited[v].version = version
               PROVE  /\ \E shown \in GetExactSnapshot(r.report, r.period) : shown.done >= r.done
                      /\ \E shown \in ExecutiveOverview :
                            shown.report = r.report /\ shown.done >= r.done
                      /\ \A preset \in Preset :
                            OverviewPeriod(r.report, preset) = r.period /\ now < r.done + SlotsPerDay
                            => \E shown \in ExactOverview(preset) :
                                  shown.report = r.report /\ shown.done >= r.done
    BY DEF AwaitedRunIsServed
  <2>1. r \in Candidates(r.report, r.period)
    BY AwaitedIsCandidate
  <2>2. \E shown \in ExecutiveOverview : shown.report = r.report /\ shown.done >= r.done
    BY <2>1, LookupsShow
  <2>3. PICK shown \in GetExactSnapshot(r.report, r.period) :
           shown.report = r.report /\ shown.done >= r.done
    BY <2>1, LookupsShow
  <2>4. ASSUME NEW preset \in Preset,
               OverviewPeriod(r.report, preset) = r.period, now < r.done + SlotsPerDay
        PROVE  shown \in ExactOverview(preset)
    <3>1. r \in Run /\ r.report \in Report /\ now \in Nat
      BY DEF SnapshotInv, TypeOK, Run
    <3>2. shown \in Run
      BY DEF GetExactSnapshot, Candidates, SnapshotInv, TypeOK
    <3>3. now < shown.done + SlotsPerDay
      <4>1. r.done \in Nat /\ shown.done \in Nat /\ SlotsPerDay \in Nat
        BY <3>1, <3>2, CalendarConstants DEF Run
      <4>2. QED
        BY <2>3, <2>4, <3>1, <4>1
    <3>4. Freshness(shown) # "EXPIRED"
      BY <3>2, <3>3, YoungIsShown
    <3>5. shown \in GetExactSnapshot(r.report, OverviewPeriod(r.report, preset))
      BY <2>4
    <3>6. QED
      BY <3>1, <3>4, <3>5 DEF ExactOverview
  <2>5. QED
    BY <2>2, <2>3, <2>4
<1>2. QED
  BY <1>1, SnapshotInvariance, PTL

\* The link of a delivered message finds its delivery, its notification and the
\* run behind them for as long as it is valid, whatever retention has taken in
\* the meantime, and the figures for the time of a snapshot (RetentionStore.Run,
\* loadDeliveryContext).
THEOREM LinksKeepWorking == Spec => []DeliveredLinkWorks
<1>1. SnapshotInv => DeliveredLinkWorks
  <2> SUFFICES ASSUME SnapshotInv, NEW link \in promised, now < link.until
               PROVE  /\ DeliveryContext(link) \in {"AVAILABLE", "EXPIRED"}
                      /\ (\A r \in runs : r.id = link.run => now < r.at + RetentionSlots)
                            => DeliveryContext(link) = "AVAILABLE"
    BY DEF DeliveredLinkWorks
  <2>1. now \in Nat /\ link.until \in Nat
    BY DEF SnapshotInv, TypeOK
  <2>2. PICK o \in occasions : /\ o.run = link.run /\ o.until = link.until
                               /\ o.link /\ o.delivery = "ACCEPTED"
    BY DEF SnapshotInv, PromisesKept
  <2>3. PICK r \in runs : r.id = o.run /\ r.source = "SCHEDULE" /\ r.status = "SUCCEEDED"
    BY <2>2 DEF SnapshotInv, OccasionsTrue
  <2>4. now < r.at + RetentionSlots => r.dashboard
    BY <2>3 DEF SnapshotInv, RunsAreTrue, RunIsTrue
  <2> DEFINE shown == {x \in runs : x.id = link.run /\
                          \E y \in occasions : /\ y.run = x.id /\ y.link /\ y.until > now
                                               /\ y.delivery = "ACCEPTED"}
  <2>5. r \in shown
    BY <2>1, <2>2, <2>3
  <2>6. \A x \in shown : x = r
    BY <2>2, <2>3 DEF SnapshotInv, RunsAreTrue
  <2> HIDE DEF shown
  <2>7. (CHOOSE x \in shown : TRUE) = r /\ shown # {}
    BY <2>5, <2>6
  <2>8. r.dashboard \in BOOLEAN
    BY DEF SnapshotInv, TypeOK, Run
  <2>9. DeliveryContext(link) = IF r.dashboard THEN "AVAILABLE" ELSE "EXPIRED"
    BY <2>3, <2>7, <2>8 DEF DeliveryContext, shown
  <2>10. QED
    BY <2>2, <2>3, <2>4, <2>9
<1>2. QED
  BY <1>1, SnapshotInvariance, PTL
=============================================================================
