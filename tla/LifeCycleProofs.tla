--------------------------- MODULE LifeCycleProofs ---------------------------
(***************************************************************************)
(* ReportRuns implements RunLifeCycle, and what else follows from the way  *)
(* rows, lanes and occurrences move together.  Every step is first put     *)
(* into one of nine moves (LEMMA StepMoves); each result is then proved   *)
(* move by move.                                                           *)
(***************************************************************************)
EXTENDS ReportRunsProofs

-----------------------------------------------------------------------------
(* The links of the generations. *)

\* A generation links runs that compute its reports.
LinksKeyed ==
    \A g \in Generation : \A r \in links[g] : executionKeyOf[r] \in request[g]

\* And one for every report, from the moment the refresh has read them.
LinksWhole ==
    \A g \in Generation : generation[g] # "none" =>
        \A k \in request[g] : \E r \in links[g] : executionKeyOf[r] = k

LinksInv == LinksKeyed /\ LinksWhole

\* BeginRefresh links a run for every report of the request.
LEMMA BeginLinks ==
    ASSUME TypeOK, LinksInv, NEW g \in Generation, BeginRefresh(g) PROVE LinksInv'
<1>1. PICK run \in [request[g] -> Run] :
         /\ \A k \in request[g] : executionKeyOf[run[k]] = k
         /\ links' = [links EXCEPT ![g] = {run[k] : k \in request[g]}]
  BY DEF BeginRefresh, PendingOn
<1>2. generation' = [generation EXCEPT ![g] = "drafting"]
  BY DEF BeginRefresh
<1>3. ASSUME NEW h \in Generation, h # g PROVE links'[h] = links[h] /\ generation'[h] = generation[h]
  BY <1>1, <1>2, <1>3 DEF TypeOK
<1>4. links'[g] = {run[k] : k \in request[g]}
  BY <1>1 DEF TypeOK
<1>5. LinksKeyed'
  BY <1>1, <1>3, <1>4 DEF LinksInv, LinksKeyed
<1>6. LinksWhole'
  BY <1>1, <1>3, <1>4 DEF LinksInv, LinksWhole
<1>7. QED
  BY <1>5, <1>6 DEF LinksInv

\* updateDashboardGenerationsForRun leaves the links alone and starts nothing.
LEMMA UpdateLinks ==
    ASSUME TypeOK, LinksInv, NEW changed, NEW after, UpdateGenerations(changed, after)
    PROVE  LinksInv'
BY DEF TypeOK, UpdateGenerations, GenerationAfter, LinksInv, LinksKeyed, LinksWhole

\* What a step may do to the generations.
DashMove ==
    \/ UNCHANGED dashVars
    \/ \E g \in Generation : BeginRefresh(g) \/ CommitRefresh(g)
    \/ \E changed \in SUBSET Run : UpdateGenerations(changed, status')

\* FailRuns recounts the generations of the runs that fail.
LEMMA FailRunsDash == ASSUME NEW dead \in SUBSET Run, FailRuns(dead) PROVE DashMove
BY DEF FailRuns, DashMove

\* Every step starts a refresh, recounts generations or leaves them alone.
LEMMA DashMoves == Typed /\ [Next]_vars => DashMove
<1> SUFFICES ASSUME Typed, [Next]_vars PROVE DashMove
  OBVIOUS
<1>1. UNCHANGED dashVars => DashMove
  BY DEF DashMove
<1>2. CASE Request
  <2>1. CASE \E g \in Generation : BeginRefresh(g) \/ CommitRefresh(g)
    BY <2>1 DEF DashMove
  <2>2. CASE \E r \in Run : EnqueueDashboard(r) \/ EnqueueBackground(r) \/ Cancel(r)
    BY <1>1, <2>2 DEF EnqueueDashboard, EnqueueBackground, Cancel, CancelQueued
  <2>3. CASE \E t \in Tenant : ArchiveTenant(t)
    BY <1>1, <2>3 DEF ArchiveTenant
  <2>4. QED
    BY <1>2, <2>1, <2>2, <2>3 DEF Request
<1>3. CASE \E l \in Lane : LaneStep(l) \/ \E r \in Run : Select(l, r)
  <2>1. PICK l \in Lane : LaneStep(l) \/ \E r \in Run : Select(l, r)
    BY <1>3
  <2>2. CASE \E r \in Run : Select(l, r)
    BY <1>1, <2>2 DEF Select
  <2>3. CASE Finish(l)
    <3>1. pc[l] = "deciding"
      BY <2>3 DEF Finish, FinishGuard, FailRemoteUnknown, RetryPreRequestFailure,
                  FailPreRequestFailure, Retry, Fail, Complete, FinishLost
    <3>2. job[l] \in Run
      BY <3>1 DEF Typed, JobTyped
    <3>3. CASE Complete(l)
      BY <3>2, <3>3 DEF Complete, DashMove
    <3>4. CASE FailRemoteUnknown(l) \/ FailPreRequestFailure(l) \/ Fail(l)
      BY <3>2, <3>4, FailRunsDash DEF FailRemoteUnknown, FailPreRequestFailure, Fail
    <3>5. CASE RetryPreRequestFailure(l) \/ Retry(l) \/ FinishLost(l)
      BY <1>1, <3>5 DEF RetryPreRequestFailure, Retry, FinishLost, RequeueRun
    <3>6. QED
      BY <2>3, <3>3, <3>4, <3>5 DEF Finish
  <2>4. CASE LaneStep(l) /\ ~Finish(l)
    BY <1>1, <2>4 DEF LaneStep, ClaimRun, ClaimAs, ClaimRefused, MarkRunning, MarkRunningLost,
                      Prepare, Send, Answer, LoseLease
  <2>5. QED
    BY <2>1, <2>2, <2>3, <2>4
<1>4. CASE Recover
  BY <1>4 DEF Recover, RecoverRuns, Expired, DashMove
<1>5. CASE (\E o \in Occurrence : Schedule(o)) \/ Clock \/ Failures
  BY <1>1, <1>5 DEF Schedule, ScheduleNears, Materialize, MaterializeBlocked, Clock, OrphanEnds,
                    CooldownEnds, HostCooldownEnds, RetryDelayPasses, AbandonedLeaseLapses,
                    Failures, StalledLeaseLapses, LeaseLapses, Abandon, Crash
<1>6. QED
  BY <1>1, <1>2, <1>3, <1>4, <1>5 DEF Next, vars

\* CommitRefresh, as far as the generations go: they are built or forgotten.
LEMMA CommitMoves ==
    ASSUME NEW g \in Generation, CommitRefresh(g)
    PROVE  \/ /\ links' = [links EXCEPT ![g] = {}]
              /\ generation' = [generation EXCEPT ![g] = "none"]
           \/ /\ generation[g] = "drafting" /\ UNCHANGED links
              /\ generation' = [generation EXCEPT ![g] = "BUILDING"]
BY DEF CommitRefresh

\* Every step keeps the links of the generations.
LEMMA LinksStep == ASSUME TypeOK, LinksInv, DashMove PROVE LinksInv'
<1>1. CASE UNCHANGED dashVars
  BY <1>1 DEF dashVars, LinksInv, LinksKeyed, LinksWhole
<1>2. CASE \E g \in Generation : BeginRefresh(g)
  BY <1>2, BeginLinks
<1>3. CASE \E g \in Generation : CommitRefresh(g)
  <2>1. PICK g \in Generation : CommitRefresh(g)
    BY <1>3
  <2>2. LinksKeyed'
    BY <2>1, CommitMoves DEF TypeOK, LinksInv, LinksKeyed
  <2>3. LinksWhole'
    BY <2>1, CommitMoves DEF TypeOK, LinksInv, LinksWhole
  <2>4. QED
    BY <2>2, <2>3 DEF LinksInv
<1>4. CASE \E changed \in SUBSET Run : UpdateGenerations(changed, status')
  BY <1>4, UpdateLinks
<1>5. QED
  BY <1>1, <1>2, <1>3, <1>4 DEF DashMove

-----------------------------------------------------------------------------
(* The moves. *)

AtWork == {"claimed"} \cup Executing

\* Lanes claim and start nothing; some may stop, or go on executing.
LanesKeep ==
    \A l \in Lane : pc'[l] \in AtWork =>
        /\ job'[l] = job[l] /\ seen'[l] = seen[l]
        /\ pc'[l] = "claimed" => pc[l] = "claimed"
        /\ pc'[l] \in Executing => pc[l] \in Executing

QuietMove ==
    /\ LanesKeep
    /\ UNCHANGED <<status, executions, attempt, archived>>
    /\ \A o \in Occurrence : \/ occurrence'[o] = occurrence[o]
                             \/ occurrence[o] \in Upcoming /\ occurrence'[o] \in Upcoming \cup {"FAILED"}

\* Absent runs are queued; those of an occurrence, all together.
InsertMove(new) ==
    /\ LanesKeep
    /\ \A r \in new : status[r] = "absent"
    /\ status' = [r \in Run |-> IF r \in new THEN "QUEUED" ELSE status[r]]
    /\ UNCHANGED <<executions, attempt, archived>>
    /\ \A o \in Occurrence :
          \/ occurrence'[o] = occurrence[o] /\ \A r \in new : occurrenceOf[r] # o
          \/ /\ occurrence[o] \in Upcoming /\ occurrence'[o] = "COLLECTING"

CancelMove(r) ==
    /\ LanesKeep
    /\ status[r] = "QUEUED" /\ source[r] = "DASHBOARD"
    /\ status' = [status EXCEPT ![r] = "CANCELLED"]
    /\ UNCHANGED <<executions, attempt, occurrence, archived>>

ClaimMove(l) ==
    /\ pc[l] = "selected" /\ job[l] \in Run /\ status[job[l]] = "QUEUED"
    /\ pc' = [pc EXCEPT ![l] = "claimed"]
    /\ seen' = [seen EXCEPT ![l] = attempt[job[l]] + 1]
    /\ status' = [status EXCEPT ![job[l]] = "CLAIMED"]
    /\ attempt' = [attempt EXCEPT ![job[l]] = @ + 1]
    /\ UNCHANGED <<job, executions, occurrence, archived>>

StartMove(l) ==
    /\ pc[l] = "claimed" /\ job[l] \in Run /\ status[job[l]] = "CLAIMED"
    /\ pc' = [pc EXCEPT ![l] = "running"]
    /\ status' = [status EXCEPT ![job[l]] = "RUNNING"]
    /\ executions' = [executions EXCEPT ![job[l]] = @ + 1]
    /\ UNCHANGED <<job, seen, attempt, occurrence, archived>>

\* A lane gives its run back after a failure that is certain.
RequeueMove(l) ==
    /\ LanesKeep
    /\ pc[l] = "deciding" /\ job[l] \in Run /\ status[job[l]] = "RUNNING"
    /\ result[l] \in {"unsent", "retryable", "unloaded"}
    /\ RetriesUnsent(l) \/ RetriesRetryable(l)
    /\ status' = [status EXCEPT ![job[l]] = "QUEUED"]
    /\ UNCHANGED <<executions, attempt, occurrence, archived>>

\* Running runs fail and claimed ones may go back to the queue.
FailMove(back, dead) ==
    /\ LanesKeep
    /\ \A r \in back : status[r] = "CLAIMED"
    /\ \A r \in dead : status[r] = "RUNNING"
    /\ status' = [r \in Run |-> IF r \in back THEN "QUEUED" ELSE StatusAfterFailure(dead)[r]]
    /\ occurrence' = [o \in Occurrence |-> IF o \in ClosedBy(dead) THEN "FAILED" ELSE occurrence[o]]
    /\ UNCHANGED <<executions, attempt, archived>>

CompleteMove(r) ==
    /\ LanesKeep
    /\ status[r] = "RUNNING"
    /\ status' = [status EXCEPT ![r] = "SUCCEEDED"]
    /\ UNCHANGED <<executions, attempt, occurrence, archived>>

\* A tenant is archived: its queued runs are cancelled, its schedules paused.
ArchiveMove(t) ==
    /\ LanesKeep
    /\ t \in Tenant \ archived
    /\ archived' = archived \cup {t}
    /\ status' = [r \in Run |-> IF tenantOf[r] = t /\ status[r] = "QUEUED" THEN "CANCELLED" ELSE status[r]]
    /\ \A o \in Occurrence : \/ occurrence'[o] = occurrence[o]
                             \/ occurrence[o] \in Upcoming /\ occurrence'[o] \in Upcoming
    /\ UNCHANGED <<executions, attempt>>

Move ==
    \/ QuietMove
    \/ \E runs \in SUBSET Run : InsertMove(runs) \/ \E back \in SUBSET Run : FailMove(back, runs)
    \/ \E r \in Run : CancelMove(r) \/ CompleteMove(r)
    \/ \E l \in Lane : ClaimMove(l) \/ StartMove(l) \/ RequeueMove(l)
    \/ \E t \in Tenant : ArchiveMove(t)

\* A lane that becomes idle keeps the others at their work.
LEMMA IdleKeeps == ASSUME LaneTyped, NEW l \in Lane, Idle(l) PROVE LanesKeep
BY DEF LaneTyped, Idle, LanesKeep, AtWork, Executing, InExecute

\* So do lanes that stop without a write.
LEMMA LeaveKeeps == ASSUME NEW ls \in SUBSET Lane, Leave(ls) PROVE LanesKeep
BY DEF Leave, LanesKeep, AtWork, Executing, InExecute

\* So does a step of the database or the clock.
LEMMA StillKeeps == UNCHANGED <<pc, job, seen>> => LanesKeep
BY DEF LanesKeep

\* The last write of ProcessOne requeues, fails or completes the run.
LEMMA FinishMoves == ASSUME NEW l \in Lane PROVE MutexInv /\ Finish(l) => Move
<1> SUFFICES ASSUME MutexInv, Finish(l) PROVE Move
  OBVIOUS
<1>1. Idle(l) /\ pc[l] = "deciding"
  BY DEF Finish, FinishGuard, FailRemoteUnknown, RetryPreRequestFailure,
         FailPreRequestFailure, Retry, Fail, Complete, FinishLost
<1>2. LaneTyped /\ job[l] \in Run
  BY <1>1, TypedParts DEF MutexInv, Typed, JobTyped, Parts
<1>3. LanesKeep
  BY <1>1, <1>2, IdleKeeps
<1>4. ASSUME Holds(l, Active) PROVE status[job[l]] = "RUNNING"
  BY <1>1, <1>4 DEF MutexInv, ExecutedIsRunning, Holds, Active, Executing
<1>5. CASE FinishLost(l)
  BY <1>3, <1>5 DEF FinishLost, rowVars, QuietMove, Move
<1>6. CASE FailRemoteUnknown(l) \/ FailPreRequestFailure(l) \/ Fail(l)
  <2>1. FailRuns({job[l]}) /\ Holds(l, Active) /\ UNCHANGED <<executions, attempt, archived>>
    BY <1>6 DEF FailRemoteUnknown, FailPreRequestFailure, Fail, FinishGuard
  <2>2. status' = [r \in Run |-> IF r \in {} THEN "QUEUED" ELSE StatusAfterFailure({job[l]})[r]]
    BY <2>1 DEF FailRuns, StatusAfterFailure
  <2>3. FailMove({}, {job[l]})
    BY <1>2, <1>3, <1>4, <2>1, <2>2 DEF FailRuns, FailMove
  <2>4. QED
    BY <1>2, <2>3 DEF Move
<1>7. CASE RetryPreRequestFailure(l) \/ Retry(l)
  <2>1. RequeueMove(l)
    BY <1>1, <1>2, <1>3, <1>4, <1>7
    DEF RetryPreRequestFailure, Retry, RequeueRun, FinishGuard, RequeueMove
  <2>2. QED
    BY <2>1 DEF Move
<1>8. CASE Complete(l)
  <2>1. CompleteMove(job[l])
    BY <1>1, <1>2, <1>3, <1>8 DEF Complete, FinishGuard, Holds, CompleteMove
  <2>2. QED
    BY <1>2, <2>1 DEF Move
<1>9. QED
  BY <1>5, <1>6, <1>7, <1>8 DEF Finish

\* Steps of a lane.
LEMMA LaneMoves == ASSUME NEW l \in Lane PROVE MutexInv /\ LaneStep(l) => Move
<1> SUFFICES ASSUME MutexInv, LaneStep(l) PROVE Move
  OBVIOUS
<1>1. LaneTyped /\ JobTyped
  BY TypedParts DEF MutexInv, Typed, Parts
<1>2. CASE ClaimRun(l)
  BY <1>1, <1>2 DEF ClaimRun, ClaimAs, MutexInv, SelectedIsQueued, JobTyped, ClaimMove, Move
<1>3. CASE MarkRunning(l)
  BY <1>1, <1>3 DEF MarkRunning, Holds, JobTyped, StartMove, Move
<1>4. CASE ClaimRefused(l) \/ MarkRunningLost(l)
  <2>1. LanesKeep
    BY <1>1, <1>4, IdleKeeps DEF ClaimRefused, MarkRunningLost
  <2>2. QED
    BY <1>4, <2>1 DEF ClaimRefused, MarkRunningLost, rowVars, QuietMove, Move
<1>5. CASE Prepare(l) \/ Send(l) \/ Answer(l)
  <2>1. /\ UNCHANGED <<rowVars, job, seen, occurrence, archived>> /\ pc[l] \in Executing
        /\ \E next \in Executing : pc' = [pc EXCEPT ![l] = next]
    BY <1>5 DEF Prepare, Send, Answer, Decide, Executing, InExecute
  <2>2. LanesKeep
    BY <1>1, <2>1 DEF LaneTyped, LanesKeep, AtWork, Executing, InExecute
  <2>3. QED
    BY <2>1, <2>2 DEF rowVars, QuietMove, Move
<1>6. CASE LoseLease(l)
  <2>1. LanesKeep
    BY <1>6, LeaveKeeps DEF LoseLease
  <2>2. QED
    BY <1>6, <2>1 DEF LoseLease, rowVars, QuietMove, Move
<1>7. CASE Finish(l)
  BY <1>7, FinishMoves
<1>8. QED
  BY <1>2, <1>3, <1>4, <1>5, <1>6, <1>7 DEF LaneStep

\* Requests queue runs, cancel one or archive a tenant.
LEMMA RequestMoves == MutexInv /\ LinksKeyed /\ Request => Move
<1> SUFFICES ASSUME MutexInv, LinksKeyed, Request PROVE Move
  OBVIOUS
<1>1. LanesKeep
  BY StillKeeps DEF Request, EnqueueDashboard, EnqueueBackground, Cancel, CancelQueued,
                    BeginRefresh, CommitRefresh, ArchiveTenant, laneVars
<1>2. CASE \E r \in Run : EnqueueDashboard(r) \/ EnqueueBackground(r)
  <2>1. PICK r \in Run : EnqueueDashboard(r) \/ EnqueueBackground(r)
    BY <1>2
  <2>2. occurrenceOf[r] = None
    BY <2>1, OccurrenceLinks DEF EnqueueDashboard, EnqueueBackground
  <2>3. InsertMove({r})
    BY <1>1, <2>1, <2>2, ConstantsTyped
    DEF EnqueueDashboard, EnqueueBackground, Insert, InsertMove
  <2>4. QED
    BY <2>3 DEF Move
<1>3. CASE \E r \in Run : Cancel(r)
  BY <1>1, <1>3 DEF Cancel, CancelQueued, CancelMove, Move
<1>4. CASE \E g \in Generation : BeginRefresh(g)
  BY <1>1, <1>4 DEF BeginRefresh, rowVars, QuietMove, Move
<1>5. CASE \E g \in Generation : CommitRefresh(g)
  <2>1. PICK g \in Generation : CommitRefresh(g)
    BY <1>5
  <2> DEFINE new == {r \in links[g] : status[r] = "absent"}
  <2>2. CASE UNCHANGED rowVars
    BY <1>1, <2>1, <2>2 DEF CommitRefresh, rowVars, QuietMove, Move
  <2>3. CASE Insert(new)
    <3>1. new \subseteq Run
      BY DEF MutexInv, Typed, TypeOK
    <3>2. \A r \in new : occurrenceOf[r] = None
      BY <3>1, OccurrenceLinks, ConstantsTyped DEF LinksKeyed
    <3>3. InsertMove(new)
      BY <1>1, <2>1, <2>3, <3>2, ConstantsTyped DEF CommitRefresh, Insert, InsertMove
    <3>4. QED
      BY <3>1, <3>3 DEF Move
  <2>4. QED
    BY <2>1, <2>2, <2>3 DEF CommitRefresh
<1>6. CASE \E t \in Tenant : ArchiveTenant(t)
  <2>1. PICK t \in Tenant : ArchiveTenant(t)
    BY <1>6
  <2>2. \A o \in Occurrence : \/ occurrence'[o] = occurrence[o]
                              \/ occurrence[o] \in Upcoming /\ occurrence'[o] \in Upcoming
    BY <2>1 DEF ArchiveTenant, Upcoming
  <2>3. ArchiveMove(t)
    BY <1>1, <2>1, <2>2 DEF ArchiveTenant, ArchiveMove
  <2>4. QED
    BY <2>3 DEF Move
<1>7. QED
  BY <1>2, <1>3, <1>4, <1>5, <1>6 DEF Request

\* RecoverExpiredLeases requeues claimed runs and fails running ones.
LEMMA RecoverMoves == Recover => Move
<1> SUFFICES ASSUME Recover PROVE Move
  OBVIOUS
<1>1. LanesKeep
  BY StillKeeps DEF Recover, RecoverRuns, laneVars
<1>2. FailMove(Expired("CLAIMED"), Expired("RUNNING"))
  BY <1>1 DEF Recover, RecoverRuns, FailMove, Expired
<1>3. QED
  BY <1>2 DEF Move, Expired

\* Schedules, the clock and the faults.
LEMMA EnvironmentMoves ==
    MutexInv /\ ((\E o \in Occurrence : Schedule(o)) \/ Clock \/ Failures) => Move
<1> SUFFICES ASSUME MutexInv, (\E o \in Occurrence : Schedule(o)) \/ Clock \/ Failures PROVE Move
  OBVIOUS
<1>1. occurrence \in [Occurrence -> OccurrenceState]
  BY DEF MutexInv, Typed, TypeOK
<1>2. CASE \E o \in Occurrence : Schedule(o)
  <2>1. PICK o \in Occurrence : Schedule(o)
    BY <1>2
  <2>2. LanesKeep
    BY <2>1, StillKeeps DEF Schedule, ScheduleNears, Materialize, MaterializeBlocked, laneVars
  <2>3. CASE ScheduleNears(o) \/ MaterializeBlocked(o)
    BY <1>1, <2>2, <2>3 DEF ScheduleNears, MaterializeBlocked, rowVars, Upcoming, QuietMove, Move
  <2>4. CASE Materialize(o)
    <3>1. InsertMove({r \in Run : occurrenceOf[r] = o /\ status[r] = "absent"})
      BY <1>1, <2>2, <2>4 DEF Materialize, Insert, Upcoming, InsertMove
    <3>2. QED
      BY <3>1 DEF Move
  <2>5. QED
    BY <2>1, <2>3, <2>4 DEF Schedule
<1>3. CASE Clock \/ \E r \in Run : StalledLeaseLapses(r)
  <2>1. /\ LanesKeep
        /\ UNCHANGED <<status, executions, attempt, occurrence, archived>>
    BY <1>3, StillKeeps
    DEF Clock, OrphanEnds, CooldownEnds, HostCooldownEnds, RetryDelayPasses,
        AbandonedLeaseLapses, StalledLeaseLapses, LeaseLapses, laneVars, rowVars
  <2>2. QED
    BY <2>1 DEF QuietMove, Move
<1>4. CASE \E ls \in SUBSET Lane : Leave(ls) /\ UNCHANGED <<rowVars, occurrence, archived>>
  BY <1>4, LeaveKeeps DEF rowVars, QuietMove, Move
<1>5. QED
  BY <1>2, <1>3, <1>4 DEF Failures, Abandon, Crash

\* Every step is one of the moves.
LEMMA StepMoves == MutexInv /\ LinksInv /\ [Next]_vars => Move
<1> SUFFICES ASSUME MutexInv, LinksInv, [Next]_vars PROVE Move
  OBVIOUS
<1>1. CASE UNCHANGED vars
  BY <1>1, StillKeeps DEF vars, rowVars, laneVars, QuietMove, Move
<1>2. CASE \E l \in Lane, r \in Run : Select(l, r)
  <2>1. PICK l \in Lane, r \in Run : Select(l, r)
    BY <1>2
  <2>2. LanesKeep
    BY <2>1, TypedParts DEF MutexInv, Parts, LaneTyped, Select, LanesKeep, AtWork, Executing, InExecute
  <2>3. QED
    BY <2>1, <2>2 DEF Select, rowVars, QuietMove, Move
<1>3. QED
  BY <1>1, <1>2, LaneMoves, RequestMoves, RecoverMoves, EnvironmentMoves DEF Next, LinksInv

-----------------------------------------------------------------------------
(* What has ended stays as it is. *)

\* No late write of a lane that lost its run, no recovery and no cancellation
\* changes a run that has ended.
LEMMA MoveKeepsEnded ==
    status \in [Run -> Status] /\ Move => \A r \in Run : status[r] \in Terminal => status'[r] = status[r]
<1> SUFFICES ASSUME status \in [Run -> Status], Move, NEW r \in Run, status[r] \in Terminal
             PROVE  status'[r] = status[r]
  OBVIOUS
<1> USE DEF Terminal
<1>1. CASE QuietMove
  BY <1>1 DEF QuietMove
<1>2. CASE \E runs \in SUBSET Run : InsertMove(runs) \/ \E back \in SUBSET Run : FailMove(back, runs)
  BY <1>2 DEF InsertMove, FailMove, StatusAfterFailure, SiblingsOf
<1>3. CASE \E s \in Run : CancelMove(s) \/ CompleteMove(s)
  BY <1>3 DEF CancelMove, CompleteMove
<1>4. CASE \E l \in Lane : ClaimMove(l) \/ StartMove(l) \/ RequeueMove(l)
  BY <1>4 DEF ClaimMove, StartMove, RequeueMove
<1>5. CASE \E t \in Tenant : ArchiveMove(t)
  BY <1>5 DEF ArchiveMove
<1>6. QED
  BY <1>1, <1>2, <1>3, <1>4, <1>5 DEF Move

-----------------------------------------------------------------------------
(* Occurrences. *)

\* An occurrence has no rows before it is materialised.
UpcomingHasNoRuns ==
    \A r \in Run : occurrenceOf[r] # None /\ occurrence[occurrenceOf[r]] \in Upcoming
                      => status[r] = "absent"

OccurrenceInv ==
    /\ FailedOccurrenceHasNoLiveWork
    /\ CollectingOccurrenceIsIntact
    /\ UpcomingHasNoRuns

\* The same, one run at a time.
SoundRun(r) ==
    occurrenceOf[r] # None =>
        /\ status[r] \in Pending => occurrence[occurrenceOf[r]] = "COLLECTING"
        /\ status[r] = "FAILED" => occurrence[occurrenceOf[r]] = "FAILED"
        /\ status[r] = "CANCELLED" =>
              occurrence[occurrenceOf[r]] = "FAILED" \/ tenantOf[r] \in archived
        /\ occurrence[occurrenceOf[r]] \in Upcoming => status[r] = "absent"

\* An occurrence is sound when all its runs are.
LEMMA SoundRuns ==
    /\ OccurrenceInv <=> \A r \in Run : SoundRun(r)
    /\ OccurrenceInv' <=> \A r \in Run : SoundRun(r)'
BY DEF OccurrenceInv, SoundRun, FailedOccurrenceHasNoLiveWork, CollectingOccurrenceIsIntact,
       UpcomingHasNoRuns

\* A running run keeps its queued siblings unclaimed: they are of its tenant.
LEMMA RunningSiblings ==
    ASSUME MutexInv, NEW d \in Run, status[d] = "RUNNING", occurrenceOf[d] # None,
           NEW r \in Run, r # d, occurrenceOf[r] = occurrenceOf[d]
    PROVE  status[r] \notin Active
<1>1. tenantOf[r] = tenantOf[d]
  BY OccurrenceLinks
<1>2. QED
  BY <1>1 DEF MutexInv, OneActivePerTenant, Active

\* Every move leaves every run sound.
LEMMA MoveOccurrence ==
    ASSUME MutexInv, OccurrenceInv, Move PROVE OccurrenceInv'
<1> SUFFICES ASSUME NEW r \in Run PROVE SoundRun(r)'
  BY SoundRuns
<1>1. \A s \in Run : SoundRun(s)
  BY SoundRuns
<1>2. /\ status \in [Run -> Status] /\ occurrence \in [Occurrence -> OccurrenceState]
      /\ occurrenceOf \in [Run -> Occurrence \cup {None}]
  BY ConstantsTyped DEF MutexInv, Typed, TypeOK
<1> SUFFICES ASSUME occurrenceOf[r] # None PROVE SoundRun(r)'
  BY DEF SoundRun
<1>3. occurrenceOf[r] \in Occurrence
  BY <1>2
<1>4. CASE QuietMove
  BY <1>1, <1>2, <1>3, <1>4 DEF QuietMove, SoundRun, Upcoming, Status, Pending, Active, Terminal
<1>5. CASE \E new \in SUBSET Run : InsertMove(new)
  BY <1>1, <1>2, <1>3, <1>5 DEF InsertMove, SoundRun, Upcoming, Status, Pending, Active, Terminal
<1>6. CASE \E s \in Run : CancelMove(s)
  BY <1>1, <1>2, <1>3, <1>6, OccurrenceLinks DEF CancelMove, SoundRun
<1>7. CASE \E s \in Run : CompleteMove(s)
  BY <1>1, <1>2, <1>3, <1>7 DEF CompleteMove, SoundRun, Upcoming, Pending, Active
<1>8. CASE \E l \in Lane : ClaimMove(l) \/ StartMove(l) \/ RequeueMove(l)
  BY <1>1, <1>2, <1>3, <1>8 DEF ClaimMove, StartMove, RequeueMove, SoundRun, Upcoming, Pending, Active
<1>9. CASE \E dead, back \in SUBSET Run : FailMove(back, dead)
  <2>1. PICK dead \in SUBSET Run, back \in SUBSET Run : FailMove(back, dead)
    BY <1>9
  <2>2. CASE occurrenceOf[r] \in ClosedBy(dead)
    <3>1. PICK d \in dead : occurrenceOf[d] = occurrenceOf[r]
      BY <2>2 DEF ClosedBy
    <3>2. occurrence'[occurrenceOf[r]] = "FAILED"
      BY <1>3, <2>1, <2>2 DEF FailMove
    <3>3. status[d] = "RUNNING"
      BY <2>1, <3>1 DEF FailMove
    <3>4. r \notin dead => status[r] \notin Active
      BY <3>1, <3>3, RunningSiblings
    <3>5. status'[r] \notin Pending
      BY <1>2, <2>1, <2>2, <3>4 DEF FailMove, StatusAfterFailure, SiblingsOf, Pending, Active, Status
    <3>6. QED
      BY <3>2, <3>5 DEF SoundRun, Upcoming
  <2>3. CASE occurrenceOf[r] \notin ClosedBy(dead)
    <3>1. r \notin dead
      BY <1>1, <1>3, <2>1, <2>3 DEF FailMove, ClosedBy, SoundRun, Pending, Active
    <3>2. status'[r] = status[r] \/ (status[r] = "CLAIMED" /\ status'[r] = "QUEUED")
      BY <2>1, <2>3, <3>1 DEF FailMove, StatusAfterFailure, SiblingsOf
    <3>3. occurrence'[occurrenceOf[r]] = occurrence[occurrenceOf[r]] /\ UNCHANGED archived
      BY <1>3, <2>1, <2>3 DEF FailMove
    <3>4. QED
      BY <1>1, <3>2, <3>3 DEF SoundRun, Pending, Active, Upcoming
  <2>4. QED
    BY <2>2, <2>3
<1>10. CASE \E t \in Tenant : ArchiveMove(t)
  BY <1>1, <1>2, <1>3, <1>10 DEF ArchiveMove, SoundRun, Upcoming, Status, Pending, Active, Terminal
<1>11. QED
  BY <1>4, <1>5, <1>6, <1>7, <1>8, <1>9, <1>10 DEF Move

-----------------------------------------------------------------------------
(* How often a run is executed. *)

Claimed(l, r) == pc[l] = "claimed" /\ job[l] = r

\* A lane knows the attempt of its own claim, and no two lanes the same one.
AttemptsKnown ==
    /\ \A l \in Lane : pc[l] \in AtWork => seen[l] \in 1..attempt[job[l]]
    /\ \A l, m \in Lane : /\ pc[l] \in AtWork /\ pc[m] \in AtWork /\ job[l] = job[m]
                          /\ seen[l] = seen[m]
                          => l = m

\* An attempt after which the run would be tried again: not yet claimed, or
\* claimed by a lane that has not started.
Open(r, k) == attempt[r] < k \/ \E l \in Lane : Claimed(l, r) /\ seen[l] = k

Left(r) == (IF Open(r, 1) THEN 1 ELSE 0) + (IF Open(r, 2) THEN 1 ELSE 0)

\* Whoever starts the run uses up one of its open attempts, or the last one.
Budget(r) ==
    IF source[r] = "BACKGROUND" THEN executions[r] = 0 ELSE executions[r] + Left(r) <= 2

ExecutionInv ==
    /\ AttemptsKnown
    /\ ExecutionsBounded
    /\ \A r \in Run : status[r] \in {"absent", "QUEUED", "CLAIMED"} => Budget(r)
    /\ \A l \in Lane, r \in Run : /\ pc[l] \in Executing /\ job[l] = r /\ status[r] = "RUNNING"
                                  /\ source[r] # "BACKGROUND" /\ seen[l] < maximumReportAttempts
                                  => Budget(r)

\* Lanes that claim and start nothing open no attempt.
LEMMA OpenShrinks ==
    ASSUME LanesKeep, UNCHANGED attempt, NEW r \in Run, NEW k, Open(r, k)'
    PROVE  Open(r, k)
BY DEF Open, Claimed, LanesKeep, AtWork

\* So a run that is not started keeps its budget.
LEMMA BudgetKept ==
    ASSUME MutexInv, LanesKeep, UNCHANGED <<attempt, executions>>, NEW r \in Run, Budget(r)
    PROVE  Budget(r)'
<1>1. Left(r)' <= Left(r) /\ Left(r) \in 0..2 /\ Left(r)' \in 0..2
  BY OpenShrinks DEF Left
<1>2. executions[r] \in Nat
  BY DEF MutexInv, Typed, TypeOK
<1>3. QED
  BY <1>1, <1>2 DEF Budget

\* And every lane knows its own attempt.
LEMMA AttemptsKept ==
    ASSUME AttemptsKnown, LanesKeep, UNCHANGED attempt PROVE AttemptsKnown'
<1>1. \A l \in Lane : pc'[l] \in AtWork =>
         pc[l] \in AtWork /\ job'[l] = job[l] /\ seen'[l] = seen[l]
  BY DEF LanesKeep, AtWork
<1>2. QED
  BY <1>1 DEF AttemptsKnown

\* A move without a claim or a start.
LEMMA ExecutionKept ==
    ASSUME MutexInv, ExecutionInv, LanesKeep, UNCHANGED <<attempt, executions>>,
           \A r \in Run : status'[r] \in {"absent", "QUEUED", "CLAIMED"} =>
               status[r] \in {"absent", "QUEUED", "CLAIMED"} \/ Budget(r),
           \A r \in Run : status'[r] = "RUNNING" => status[r] = "RUNNING"
    PROVE  ExecutionInv'
<1>1. AttemptsKnown'
  BY AttemptsKept DEF ExecutionInv
<1>2. ExecutionsBounded'
  BY DEF ExecutionInv, ExecutionsBounded
<1>3. ASSUME NEW r \in Run, status'[r] \in {"absent", "QUEUED", "CLAIMED"} PROVE Budget(r)'
  BY <1>3, BudgetKept DEF ExecutionInv
<1>4. ASSUME NEW l \in Lane, NEW r \in Run, pc'[l] \in Executing, job'[l] = r,
             status'[r] = "RUNNING", source[r] # "BACKGROUND", seen'[l] < maximumReportAttempts
      PROVE  Budget(r)'
  <2>1. /\ pc[l] \in Executing /\ job[l] = r /\ seen'[l] = seen[l]
    BY <1>4 DEF LanesKeep, AtWork
  <2>2. Budget(r)
    BY <1>4, <2>1 DEF ExecutionInv
  <2>3. QED
    BY <2>2, BudgetKept
<1>5. QED
  BY <1>1, <1>2, <1>3, <1>4 DEF ExecutionInv

\* A claim closes the attempt it counts and opens it for its lane.
LEMMA ClaimKept ==
    ASSUME MutexInv, ExecutionInv, NEW l \in Lane, ClaimMove(l) PROVE ExecutionInv'
<1> DEFINE r == job[l]
<1>1. /\ r \in Run /\ status[r] = "QUEUED" /\ attempt[r] \in Nat
      /\ LaneTyped /\ attempt \in [Run -> Nat] /\ status \in [Run -> Status]
      /\ executions \in [Run -> Nat]
  BY TypedParts DEF ClaimMove, MutexInv, Parts, RowTyped
<1>2. \A m \in Lane \ {l} : pc'[m] = pc[m] /\ job'[m] = job[m] /\ seen'[m] = seen[m]
  BY <1>1 DEF ClaimMove, LaneTyped
<1>3. /\ pc'[l] = "claimed" /\ job'[l] = r /\ seen'[l] = attempt[r] + 1
      /\ attempt'[r] = attempt[r] + 1
      /\ \A s \in Run \ {r} : attempt'[s] = attempt[s]
  BY <1>1 DEF ClaimMove, LaneTyped
<1>4. AttemptsKnown'
  <2>1. \A m \in Lane : pc[m] \in AtWork => job[m] \in Run /\ seen[m] \in 1..attempt[job[m]]
    BY DEF ExecutionInv, AttemptsKnown, MutexInv, Typed, JobTyped, AtWork, Executing, InExecute
  <2>2. \A m \in Lane : pc'[m] \in AtWork => seen'[m] \in 1..attempt'[job'[m]]
    BY <1>1, <1>2, <1>3, <2>1
  <2>3. \A m \in Lane \ {l} : pc'[m] \in AtWork /\ job'[m] = r => seen'[m] # seen'[l]
    BY <1>1, <1>2, <1>3, <2>1
  <2>4. QED
    BY <1>2, <1>3, <2>2, <2>3 DEF ExecutionInv, AttemptsKnown
<1>5. \A s \in Run, k \in {1, 2} : Open(s, k)' => Open(s, k)
  <2>1. ASSUME NEW s \in Run, NEW k \in {1, 2}, Open(s, k)' PROVE Open(s, k)
    <3>1. CASE attempt'[s] < k
      BY <1>1, <1>3, <3>1 DEF Open
    <3>2. CASE \E m \in Lane : Claimed(m, s)' /\ seen'[m] = k
      BY <1>1, <1>2, <1>3, <3>2 DEF Open, Claimed
    <3>3. QED
      BY <2>1, <3>1, <3>2 DEF Open
  <2>2. QED
    BY <2>1
<1>6. \A s \in Run : Budget(s) => Budget(s)'
  <2>1. \A s \in Run : Left(s)' <= Left(s) /\ Left(s) \in 0..2 /\ Left(s)' \in 0..2
    BY <1>5 DEF Left
  <2>2. UNCHANGED executions
    BY DEF ClaimMove
  <2>3. QED
    BY <1>1, <2>1, <2>2 DEF Budget
<1>7. \A s \in Run : status'[s] = status[s] \/ (s = r /\ status'[s] = "CLAIMED")
  BY <1>1 DEF ClaimMove
<1>8. ExecutionsBounded'
  BY DEF ClaimMove, ExecutionInv, ExecutionsBounded
<1>9. \A s \in Run : status'[s] \in {"absent", "QUEUED", "CLAIMED"} => Budget(s)'
  BY <1>1, <1>6, <1>7 DEF ExecutionInv
<1>10. ASSUME NEW m \in Lane, NEW s \in Run, pc'[m] \in Executing, job'[m] = s,
              status'[s] = "RUNNING", source[s] # "BACKGROUND", seen'[m] < maximumReportAttempts
       PROVE  Budget(s)'
  <2>1. m # l
    BY <1>3, <1>10 DEF Executing, InExecute
  <2>2. pc[m] \in Executing /\ job[m] = s /\ seen[m] < maximumReportAttempts /\ status[s] = "RUNNING"
    BY <1>2, <1>7, <1>10, <2>1
  <2>3. QED
    BY <1>6, <1>10, <2>2 DEF ExecutionInv
<1>11. QED
  BY <1>4, <1>8, <1>9, <1>10 DEF ExecutionInv

\* A start uses up the attempt that its lane kept open.
LEMMA StartKept ==
    ASSUME MutexInv, ExecutionInv, NEW l \in Lane, StartMove(l) PROVE ExecutionInv'
<1> DEFINE r == job[l]
<1>1. /\ r \in Run /\ status[r] = "CLAIMED" /\ pc[l] = "claimed"
      /\ LaneTyped /\ status \in [Run -> Status]
      /\ executions \in [Run -> Nat] /\ attempt \in [Run -> Nat]
      /\ UNCHANGED <<job, seen, attempt>>
  BY TypedParts DEF StartMove, MutexInv, Parts, RowTyped
<1>2. /\ pc'[l] = "running" /\ \A m \in Lane \ {l} : pc'[m] = pc[m]
      /\ status'[r] = "RUNNING" /\ \A s \in Run \ {r} : status'[s] = status[s]
      /\ executions'[r] = executions[r] + 1 /\ \A s \in Run \ {r} : executions'[s] = executions[s]
  BY <1>1 DEF StartMove, LaneTyped
<1>3. AttemptsKnown'
  <2>1. \A m \in Lane : pc'[m] \in AtWork => pc[m] \in AtWork
    BY <1>1, <1>2 DEF AtWork
  <2>2. QED
    BY <1>1, <2>1 DEF ExecutionInv, AttemptsKnown
<1>4. \A m \in Lane, s \in Run : Claimed(m, s)' => Claimed(m, s) /\ m # l
  BY <1>1, <1>2 DEF Claimed
<1>5. \A s \in Run, k \in {1, 2} : Open(s, k)' => Open(s, k)
  BY <1>1, <1>4 DEF Open
<1>6. \A s \in Run : Left(s)' <= Left(s) /\ Left(s) \in 0..2 /\ Left(s)' \in 0..2
  BY <1>5 DEF Left
<1>7. ASSUME seen[l] < maximumReportAttempts PROVE Left(r)' + 1 <= Left(r)
  <2>1. seen[l] \in {1, 2} /\ seen[l] <= attempt[r]
    BY <1>1, <1>7 DEF ExecutionInv, AttemptsKnown, AtWork, maximumReportAttempts
  <2>2. Open(r, seen[l])
    BY <1>1 DEF Open, Claimed
  <2>3. ~Open(r, seen[l])'
    <3>1. \A m \in Lane : Claimed(m, r)' => seen[m] # seen[l]
      BY <1>1, <1>4 DEF ExecutionInv, AttemptsKnown, AtWork, Claimed
    <3>2. ~(attempt[r] < seen[l])
      BY <1>1, <2>1
    <3>3. QED
      BY <1>1, <3>1, <3>2 DEF Open
  <2>4. CASE seen[l] = 1
    <3>1. Open(r, 1) /\ ~Open(r, 1)'
      BY <1>1, <2>2, <2>3, <2>4
    <3>2. QED
      BY <1>1, <1>5, <3>1 DEF Left
  <2>5. CASE seen[l] = 2
    <3>1. Open(r, 2) /\ ~Open(r, 2)'
      BY <1>1, <2>2, <2>3, <2>5
    <3>2. QED
      BY <1>1, <1>5, <3>1 DEF Left
  <2>6. QED
    BY <2>1, <2>4, <2>5
<1>8. Budget(r)
  BY <1>1 DEF ExecutionInv
<1>9. ExecutionsBounded'
  BY <1>1, <1>2, <1>6, <1>8 DEF Budget, ExecutionInv, ExecutionsBounded, maximumReportAttempts
<1>10. ASSUME NEW s \in Run, s # r, Budget(s) PROVE Budget(s)'
  BY <1>1, <1>2, <1>6, <1>10 DEF Budget
<1>11. \A s \in Run : status'[s] \in {"absent", "QUEUED", "CLAIMED"} => Budget(s)'
  BY <1>2, <1>10 DEF ExecutionInv
<1>12. ASSUME NEW m \in Lane, NEW s \in Run, pc'[m] \in Executing, job'[m] = s,
              status'[s] = "RUNNING", source[s] # "BACKGROUND", seen'[m] < maximumReportAttempts
       PROVE  Budget(s)'
  <2>1. CASE m = l
    <3>1. Left(r)' + 1 <= Left(r)
      BY <1>1, <1>7, <1>12, <2>1
    <3>2. s = r
      BY <1>1, <1>12, <2>1
    <3>3. QED
      BY <1>1, <1>2, <1>6, <1>8, <1>12, <3>1, <3>2 DEF Budget
  <2>2. CASE m # l
    <3>1. pc[m] \in Executing /\ job[m] = s /\ seen[m] < maximumReportAttempts
      BY <1>1, <1>2, <1>12, <2>2
    <3>2. s # r
      BY <1>1, <3>1 DEF MutexInv, ExecutedIsRunning
    <3>3. Budget(s)
      BY <1>2, <1>12, <3>1, <3>2 DEF ExecutionInv
    <3>4. QED
      BY <1>10, <3>2, <3>3
  <2>3. QED
    BY <2>1, <2>2
<1>13. QED
  BY <1>3, <1>9, <1>11, <1>12 DEF ExecutionInv

\* A lane that gives a run back has an attempt left for it.
LEMMA RequeueBudget ==
    ASSUME MutexInv, ExecutionInv, NEW l \in Lane, RequeueMove(l)
    PROVE  source[job[l]] # "BACKGROUND" /\ Budget(job[l])
<1>1. /\ job[l] \in Run /\ pc[l] \in Executing /\ status[job[l]] = "RUNNING"
      /\ source[job[l]] # "BACKGROUND"
  BY DEF RequeueMove, RetriesUnsent, RetriesRetryable, Executing
<1>2. seen[l] < maximumReportAttempts
  <2>1. seen[l] \in Nat
    BY DEF MutexInv, Typed, TypeOK
  <2>2. QED
    BY <2>1 DEF RequeueMove, RetriesUnsent, RetriesRetryable, maximumReportAttempts
<1>3. QED
  BY <1>1, <1>2 DEF ExecutionInv

\* Every move keeps the count of executions in bounds.
LEMMA MoveExecution == ASSUME MutexInv, ExecutionInv, Move PROVE ExecutionInv'
<1>1. status \in [Run -> Status]
  BY DEF MutexInv, Typed, TypeOK
<1>2. CASE QuietMove
  BY <1>2, ExecutionKept DEF QuietMove
<1>3. CASE \E new \in SUBSET Run : InsertMove(new)
  BY <1>3, ExecutionKept DEF InsertMove
<1>4. CASE \E back, dead \in SUBSET Run : FailMove(back, dead)
  <2>1. PICK back \in SUBSET Run, dead \in SUBSET Run : FailMove(back, dead)
    BY <1>4
  <2>2. \A r \in Run : /\ status'[r] \in {"absent", "QUEUED", "CLAIMED"}
                             => status[r] \in {"absent", "QUEUED", "CLAIMED"}
                       /\ status'[r] = "RUNNING" => status[r] = "RUNNING"
    BY <2>1 DEF FailMove, StatusAfterFailure
  <2>3. QED
    BY <2>1, <2>2, ExecutionKept DEF FailMove
<1>5. CASE \E r \in Run : CancelMove(r) \/ CompleteMove(r)
  BY <1>1, <1>5, ExecutionKept DEF CancelMove, CompleteMove
<1>6. CASE \E l \in Lane : ClaimMove(l) \/ StartMove(l)
  BY <1>6, ClaimKept, StartKept
<1>7. CASE \E l \in Lane : RequeueMove(l)
  <2>1. PICK l \in Lane : RequeueMove(l)
    BY <1>7
  <2>2. Budget(job[l])
    BY <2>1, RequeueBudget
  <2>3. QED
    BY <1>1, <2>1, <2>2, ExecutionKept DEF RequeueMove
<1>8. CASE \E t \in Tenant : ArchiveMove(t)
  BY <1>8, ExecutionKept DEF ArchiveMove
<1>9. QED
  BY <1>2, <1>3, <1>4, <1>5, <1>6, <1>7, <1>8 DEF Move

-----------------------------------------------------------------------------
(* Heads. *)

HeadInv ==
    /\ \A g \in Generation : generation[g] = "PUBLISHED" => \A r \in links[g] : status[r] = "SUCCEEDED"
    /\ \A k \in SUBSET ExecutionKey : head[k] # None =>
          /\ head[k] \in Generation /\ generation[head[k]] = "PUBLISHED"
          /\ request[head[k]] = k

\* A recount publishes a generation whose runs have all succeeded, and no other.
LEMMA RecountHeads ==
    ASSUME TypeOK, HeadInv, NEW changed \in SUBSET Run, UpdateGenerations(changed, status'),
           \A r \in Run : status[r] \in Terminal => status'[r] = status[r]
    PROVE  HeadInv'
<1>1. /\ \A g \in Generation : links[g] \subseteq Run
      /\ generation' = GenerationAfter(changed, status') /\ UNCHANGED links
      /\ head' = HeadAfter(changed, status')
  BY DEF TypeOK, UpdateGenerations
<1>2. \A g \in Generation : generation[g] = "PUBLISHED" => generation'[g] = "PUBLISHED"
  BY <1>1 DEF GenerationAfter
<1>3. ASSUME NEW g \in Generation, generation'[g] = "PUBLISHED", NEW r \in links'[g]
      PROVE  status'[r] = "SUCCEEDED"
  <2>1. CASE generation[g] = "PUBLISHED"
    BY <1>1, <1>3, <2>1 DEF HeadInv, Terminal
  <2>2. CASE generation[g] # "PUBLISHED"
    BY <1>1, <1>3, <2>2 DEF GenerationAfter
  <2>3. QED
    BY <2>1, <2>2
<1>4. ASSUME NEW k \in SUBSET ExecutionKey, head'[k] # None
      PROVE  head'[k] \in Generation /\ generation'[head'[k]] = "PUBLISHED" /\ request[head'[k]] = k
  <2>1. CASE Published(changed, status', k) = {}
    <3>1. head'[k] = head[k]
      BY <1>1, <2>1 DEF HeadAfter
    <3>2. QED
      BY <1>2, <1>4, <3>1 DEF HeadInv
  <2>2. CASE Published(changed, status', k) # {}
    <3>1. head'[k] \in Published(changed, status', k)
      BY <1>1, <2>2 DEF HeadAfter
    <3>2. QED
      BY <1>1, <3>1 DEF Published
  <2>3. QED
    BY <2>1, <2>2
<1>5. QED
  BY <1>3, <1>4 DEF HeadInv

\* Every step keeps the heads.
LEMMA HeadStep ==
    ASSUME TypeOK, HeadInv, DashMove, \A r \in Run : status[r] \in Terminal => status'[r] = status[r]
    PROVE  HeadInv'
<1>1. \A g \in Generation : links[g] \subseteq Run
  BY DEF TypeOK
<1>2. CASE UNCHANGED dashVars
  BY <1>1, <1>2 DEF dashVars, HeadInv, Terminal
<1>3. CASE \E g \in Generation : BeginRefresh(g) \/ CommitRefresh(g)
  <2>1. PICK g \in Generation : BeginRefresh(g) \/ CommitRefresh(g)
    BY <1>3
  <2>2. /\ generation[g] # "PUBLISHED" /\ generation'[g] # "PUBLISHED" /\ UNCHANGED head
        /\ \A h \in Generation \ {g} : generation'[h] = generation[h] /\ links'[h] = links[h]
    <3>1. CASE BeginRefresh(g)
      BY <3>1 DEF BeginRefresh, TypeOK
    <3>2. CASE CommitRefresh(g)
      BY <3>2 DEF CommitRefresh, TypeOK
    <3>3. QED
      BY <2>1, <3>1, <3>2
  <2>3. QED
    BY <1>1, <2>2 DEF HeadInv, Terminal
<1>4. CASE \E changed \in SUBSET Run : UpdateGenerations(changed, status')
  BY <1>4, RecountHeads
<1>5. QED
  BY <1>2, <1>3, <1>4 DEF DashMove

-----------------------------------------------------------------------------
(* The inductive invariant. *)

IInv == MutexInv /\ LinksInv /\ HeadInv /\ OccurrenceInv /\ ExecutionInv

\* It holds of the empty table.
LEMMA InitIInv == Init => IInv
<1> SUFFICES ASSUME Init PROVE IInv
  OBVIOUS
<1>1. LinksInv /\ HeadInv
  BY DEF Init, LinksInv, LinksKeyed, LinksWhole, HeadInv
<1>2. OccurrenceInv
  BY ConstantsTyped DEF Init, OccurrenceInv, FailedOccurrenceHasNoLiveWork,
     CollectingOccurrenceIsIntact, UpcomingHasNoRuns, Pending, Active
<1>3. AttemptsKnown
  BY DEF Init, AttemptsKnown, AtWork, Executing, InExecute
<1>4. \A r \in Run : executions[r] = 0 /\ Left(r) \in 0..2
  BY DEF Init, Left
<1>5. ExecutionInv
  BY <1>3, <1>4 DEF Init, ExecutionInv, ExecutionsBounded, maximumReportAttempts, Budget,
     Executing, InExecute
<1>6. QED
  BY <1>1, <1>2, <1>5, InitMutex DEF IInv

\* Every step keeps it.
LEMMA NextIInv == IInv /\ [Next]_vars => IInv'
<1> SUFFICES ASSUME IInv, [Next]_vars PROVE IInv'
  OBVIOUS
<1> USE DEF IInv
<1>1. MutexInv'
  BY NextMutex
<1>2. /\ Typed /\ TypeOK /\ status \in [Run -> Status]
  BY DEF MutexInv, Typed, TypeOK
<1>3. Move /\ DashMove
  BY <1>2, StepMoves, DashMoves
<1>4. LinksInv' /\ HeadInv'
  BY <1>2, <1>3, LinksStep, HeadStep, MoveKeepsEnded
<1>5. OccurrenceInv' /\ ExecutionInv'
  BY <1>3, MoveOccurrence, MoveExecution
<1>6. QED
  BY <1>1, <1>4, <1>5

\* It holds in every reachable state.
LEMMA Invariant == Spec => []IInv
BY InitIInv, NextIInv, PTL DEF Spec

-----------------------------------------------------------------------------
(* Theorems. *)

\* As soon as one report of an occurrence fails, nothing of the occurrence can
\* be claimed or executed any more (failScheduledOccurrenceTx).
THEOREM OccurrenceFailsWhole == Spec => []FailedOccurrenceHasNoLiveWork
<1>1. IInv => FailedOccurrenceHasNoLiveWork
  BY DEF IInv, OccurrenceInv
<1>2. QED
  BY <1>1, Invariant, PTL

\* A report that fails takes its occurrence with it, and only the archive of
\* its tenant withdraws a report from an occurrence that goes on collecting
\* (failScheduledOccurrenceTx, Cancel, TenantStore.Archive).
THEOREM OccurrenceIntact == Spec => []CollectingOccurrenceIsIntact
<1>1. IInv => CollectingOccurrenceIsIntact
  BY DEF IInv, OccurrenceInv
<1>2. QED
  BY <1>1, Invariant, PTL

\* However many lanes lose and regain a run, it is executed at most three
\* times, and a background refresh once (ProcessOne, RecoverExpiredLeases).
THEOREM ExecutionsLimited == Spec => []ExecutionsBounded
<1>1. IInv => ExecutionsBounded
  BY DEF IInv, ExecutionInv
<1>2. QED
  BY <1>1, Invariant, PTL

\* The head that the overview shows is a generation all of whose runs have
\* succeeded (updateDashboardGenerationsForRun).
THEOREM HeadComplete == Spec => []HeadIsComplete
<1>1. IInv => HeadIsComplete
  <2> SUFFICES ASSUME IInv, NEW k \in SUBSET ExecutionKey, head[k] # None
               PROVE  /\ generation[head[k]] = "PUBLISHED" /\ request[head[k]] = k
                      /\ {executionKeyOf[r] : r \in links[head[k]]} = k
                      /\ \A r \in links[head[k]] : status[r] = "SUCCEEDED"
    BY DEF HeadIsComplete
  <2>1. /\ head[k] \in Generation /\ generation[head[k]] = "PUBLISHED" /\ request[head[k]] = k
        /\ \A r \in links[head[k]] : status[r] = "SUCCEEDED"
    BY DEF IInv, HeadInv
  <2>2. {executionKeyOf[r] : r \in links[head[k]]} = k
    BY <2>1 DEF IInv, LinksInv, LinksKeyed, LinksWhole
  <2>3. QED
    BY <2>1, <2>2
<1>2. QED
  BY <1>1, Invariant, PTL

\* No late write, recovery or cancellation changes a run that has ended.
THEOREM EndIsFinal == Spec => TerminalIsFinal
<1>1. IInv /\ [Next]_vars =>
         [\A r \in Run : status[r] \in Terminal => status'[r] = status[r]]_vars
  <2> SUFFICES ASSUME IInv, [Next]_vars
               PROVE  \A r \in Run : status[r] \in Terminal => status'[r] = status[r]
    OBVIOUS
  <2>1. MutexInv /\ LinksInv /\ status \in [Run -> Status]
    BY DEF IInv, MutexInv, Typed, TypeOK
  <2>2. QED
    BY <2>1, StepMoves, MoveKeepsEnded
<1>2. QED
  BY <1>1, Invariant, PTL DEF Spec, TerminalIsFinal

\* A run that may have reached the customer's server is queued again only by
\* the lane that executed it and saw a failure that is certain.
THEOREM RequeueAfterDefiniteFailure == Spec => RequeuedOnlyAfterDefiniteFailure
<1> DEFINE Requeued ==
       \A r \in Run : status[r] = "RUNNING" /\ status'[r] = "QUEUED" =>
          /\ \E l \in Lane : job[l] = r /\ pc[l] = "deciding" /\ result[l] \in {"unsent", "retryable", "unloaded"}
          /\ \A l \in Lane : job[l] = r => pc[l] \notin InExecute
<1>1. IInv /\ [Next]_vars => Requeued
  <2> SUFFICES ASSUME IInv, [Next]_vars, NEW r \in Run, status[r] = "RUNNING", status'[r] = "QUEUED"
               PROVE  /\ \E l \in Lane : job[l] = r /\ pc[l] = "deciding" /\ result[l] \in {"unsent", "retryable", "unloaded"}
                      /\ \A l \in Lane : job[l] = r => pc[l] \notin InExecute
    OBVIOUS
  <2>1. /\ Move /\ status \in [Run -> Status] /\ OneExecutorPerRun
    BY StepMoves DEF IInv, MutexInv, Typed, TypeOK
  <2>2. PICK l \in Lane : RequeueMove(l) /\ job[l] = r
    <3>1. CASE QuietMove
      BY <3>1 DEF QuietMove
    <3>2. CASE \E runs \in SUBSET Run : InsertMove(runs) \/ \E back \in SUBSET Run : FailMove(back, runs)
      BY <3>2 DEF InsertMove, FailMove, StatusAfterFailure, SiblingsOf
    <3>3. CASE \E s \in Run : CancelMove(s) \/ CompleteMove(s)
      BY <2>1, <3>3 DEF CancelMove, CompleteMove
    <3>4. CASE \E l \in Lane : ClaimMove(l) \/ StartMove(l)
      BY <2>1, <3>4 DEF ClaimMove, StartMove
    <3>5. CASE \E l \in Lane : RequeueMove(l)
      BY <2>1, <3>5 DEF RequeueMove
    <3>6. CASE \E t \in Tenant : ArchiveMove(t)
      BY <3>6 DEF ArchiveMove
    <3>7. QED
      BY <2>1, <3>1, <3>2, <3>3, <3>4, <3>5, <3>6 DEF Move
  <2>3. pc[l] = "deciding" /\ result[l] \in {"unsent", "retryable", "unloaded"}
    BY <2>2 DEF RequeueMove
  <2>4. \A m \in Lane : job[m] = r => pc[m] \notin InExecute
    BY <2>1, <2>2, <2>3 DEF OneExecutorPerRun, Executing, InExecute
  <2>5. QED
    BY <2>2, <2>3, <2>4
<1>2. IInv /\ [Next]_vars => [Requeued]_vars
  BY <1>1
<1>3. QED
  BY <1>2, Invariant, PTL DEF Spec, RequeuedOnlyAfterDefiniteFailure

-----------------------------------------------------------------------------
(* ReportRuns implements RunLifeCycle. *)

\* The state that PromisedState gives a run.
LEMMA Promised ==
    ASSUME status \in [Run -> Status]
    PROVE  \A r \in Run :
              /\ PromisedState[r] = "absent" <=> status[r] = "absent"
              /\ PromisedState[r] = "waiting" <=> status[r] \in {"QUEUED", "CLAIMED"}
              /\ PromisedState[r] = "executing" <=> status[r] = "RUNNING"
              /\ status[r] \in Terminal => PromisedState[r] = status[r]
BY DEF PromisedState, Status, Pending, Active, Terminal

\* A claim is invisible to whoever asked for the run; a start is not.
LEMMA StartPromised ==
    ASSUME MutexInv, ExecutionInv, NEW l \in Lane, StartMove(l) PROVE LifeCycle!Start(job[l])
<1> DEFINE r == job[l]
<1>1. /\ r \in Run /\ status[r] = "CLAIMED" /\ status \in [Run -> Status]
      /\ executions \in [Run -> Nat]
      /\ status' = [status EXCEPT ![r] = "RUNNING"]
      /\ executions' = [executions EXCEPT ![r] = @ + 1]
      /\ UNCHANGED archived
  BY DEF StartMove, MutexInv, Typed, TypeOK
<1>2. Budget(r) /\ Left(r) \in 0..2
  BY <1>1 DEF ExecutionInv, Left
<1>3. executions[r] < ExecutionLimit[r]
  BY <1>1, <1>2 DEF Budget, ExecutionLimit, maximumReportAttempts
<1>4. PromisedState[r] = "waiting"
  BY <1>1, Promised
<1>5. PromisedState' = [PromisedState EXCEPT ![r] = "executing"]
  BY <1>1 DEF PromisedState
<1>6. QED
  BY <1>1, <1>3, <1>4, <1>5 DEF LifeCycle!Start

\* A run goes back to the queue with an execution left.
LEMMA RequeuePromised ==
    ASSUME MutexInv, ExecutionInv, NEW l \in Lane, RequeueMove(l) PROVE LifeCycle!Return(job[l])
<1> DEFINE r == job[l]
<1>1. /\ r \in Run /\ status[r] = "RUNNING" /\ status \in [Run -> Status]
      /\ executions \in [Run -> Nat] /\ UNCHANGED <<executions, archived>>
      /\ status' = [status EXCEPT ![r] = "QUEUED"]
  BY DEF RequeueMove, MutexInv, Typed, TypeOK
<1>2. Budget(r) /\ source[r] # "BACKGROUND" /\ Left(r) \in 0..2
  BY RequeueBudget DEF Left
<1>3. executions[r] < ExecutionLimit[r]
  BY <1>1, <1>2 DEF Budget, ExecutionLimit, maximumReportAttempts
<1>4. PromisedState[r] = "executing"
  BY <1>1, Promised
<1>5. PromisedState' = [PromisedState EXCEPT ![r] = "waiting"]
  BY <1>1 DEF PromisedState
<1>6. QED
  BY <1>1, <1>3, <1>4, <1>5 DEF LifeCycle!Return

\* A failure takes the other runs of the occurrence with it.
LEMMA FailPromised ==
    ASSUME MutexInv, OccurrenceInv, NEW back \in SUBSET Run, NEW dead \in SUBSET Run,
           FailMove(back, dead)
    PROVE  LifeCycle!Fail(dead)
<1> DEFINE lost == {r \in Run \ dead : /\ PromisedState[r] \in {"waiting", "executing"}
                                       /\ occurrenceOf[r] # None
                                       /\ \E d \in dead : occurrenceOf[d] = occurrenceOf[r]}
<1>1. /\ status \in [Run -> Status] /\ UNCHANGED <<executions, archived>>
      /\ \A r \in dead : status[r] = "RUNNING"
      /\ \A r \in back : status[r] = "CLAIMED"
  BY DEF FailMove, MutexInv, Typed, TypeOK
<1>2. \A r \in dead : PromisedState[r] = "executing"
  BY <1>1, Promised
<1>3. lost = SiblingsOf(dead)
  <2>1. ASSUME NEW r \in lost PROVE r \in SiblingsOf(dead)
    <3>1. PICK d \in dead : occurrenceOf[d] = occurrenceOf[r]
      OBVIOUS
    <3>2. status[r] \in Pending /\ status[r] \notin Active
      BY <1>1, <3>1, Promised, RunningSiblings DEF Pending, Active
    <3>3. SoundRun(d) /\ occurrenceOf[d] \in Occurrence
      BY <3>1, SoundRuns, ConstantsTyped
    <3>4. occurrence[occurrenceOf[d]] = "COLLECTING"
      BY <1>1, <3>1, <3>3 DEF SoundRun, Pending, Active
    <3>5. QED
      BY <3>1, <3>2, <3>3, <3>4 DEF SiblingsOf, ClosedBy, Pending
  <2>2. ASSUME NEW r \in SiblingsOf(dead) PROVE r \in lost
    <3>1. r \in Run \ dead /\ status[r] = "QUEUED" /\ occurrenceOf[r] \in Occurrence
      BY DEF SiblingsOf, ClosedBy
    <3>2. \E d \in dead : occurrenceOf[d] = occurrenceOf[r]
      BY DEF SiblingsOf, ClosedBy
    <3>3. QED
      BY <1>1, <3>1, <3>2, Promised, ConstantsTyped
  <2>3. QED
    BY <2>1, <2>2
<1>4. \A r \in lost : PromisedState[r] = "waiting"
  BY <1>1, <1>3, Promised DEF SiblingsOf
<1>5. PromisedState' = [r \in Run |-> IF r \in dead THEN "FAILED"
                                      ELSE IF r \in lost THEN "CANCELLED" ELSE PromisedState[r]]
  <2>1. \A r \in Run : status'[r] = IF r \in back THEN "QUEUED"
                                    ELSE IF r \in dead THEN "FAILED"
                                    ELSE IF r \in lost THEN "CANCELLED" ELSE status[r]
    BY <1>3 DEF FailMove, StatusAfterFailure
  <2>2. \A r \in back : r \notin dead /\ r \notin lost
    BY <1>1, <1>3 DEF SiblingsOf
  <2> HIDE DEF lost
  <2>3. QED
    BY <1>1, <2>1, <2>2 DEF PromisedState
<1>6. QED
  BY <1>1, <1>2, <1>4, <1>5 DEF LifeCycle!Fail

\* The archive of a tenant closes its store and withdraws what is queued.
LEMMA ArchivePromised ==
    ASSUME status \in [Run -> Status], NEW t \in Tenant, ArchiveMove(t)
    PROVE  \E s \in Tenant, withdrawn \in SUBSET Run : LifeCycle!Close(s, withdrawn)
<1> DEFINE withdrawn == {r \in Run : tenantOf[r] = t /\ status[r] = "QUEUED"}
<1>1. \A r \in withdrawn : PromisedState[r] = "waiting" /\ tenantOf[r] = t
  BY Promised
<1>2. PromisedState' = [r \in Run |-> IF r \in withdrawn THEN "CANCELLED" ELSE PromisedState[r]]
  BY DEF ArchiveMove, PromisedState
<1>3. LifeCycle!Close(t, withdrawn)
  BY <1>1, <1>2 DEF ArchiveMove, LifeCycle!Close
<1>4. withdrawn \in SUBSET Run
  OBVIOUS
<1>5. QED
  BY <1>3, <1>4

\* Every move is a step of the promise, or invisible.
LEMMA MovePromised ==
    ASSUME MutexInv, OccurrenceInv, ExecutionInv, Move
    PROVE  LifeCycle!Next \/ UNCHANGED LifeCycle!promise
<1>1. status \in [Run -> Status] /\ occurrenceOf \in [Run -> Occurrence \cup {None}]
  BY ConstantsTyped DEF MutexInv, Typed, TypeOK
<1>2. CASE QuietMove
  BY <1>2 DEF QuietMove, PromisedState, LifeCycle!promise
<1>3. CASE \E new \in SUBSET Run : InsertMove(new)
  <2>1. PICK new \in SUBSET Run : InsertMove(new)
    BY <1>3
  <2>2. LifeCycle!Accept(new)
    BY <1>1, <2>1 DEF InsertMove, PromisedState, LifeCycle!Accept
  <2>3. QED
    BY <2>2 DEF LifeCycle!Next
<1>4. CASE \E r \in Run : CancelMove(r)
  <2>1. PICK r \in Run : CancelMove(r)
    BY <1>4
  <2>2. occurrenceOf[r] = None
    BY <2>1, OccurrenceLinks DEF CancelMove
  <2>3. LifeCycle!Withdraw(r)
    BY <1>1, <2>1, <2>2 DEF CancelMove, PromisedState, LifeCycle!Withdraw
  <2>4. QED
    BY <2>3 DEF LifeCycle!Next
<1>5. CASE \E r \in Run : CompleteMove(r)
  <2>1. PICK r \in Run : CompleteMove(r)
    BY <1>5
  <2>2. LifeCycle!Succeed(r)
    BY <1>1, <2>1 DEF CompleteMove, PromisedState, LifeCycle!Succeed
  <2>3. QED
    BY <2>2 DEF LifeCycle!Next
<1>6. CASE \E l \in Lane : ClaimMove(l)
  BY <1>1, <1>6 DEF ClaimMove, PromisedState, LifeCycle!promise
<1>7. CASE \E l \in Lane : StartMove(l)
  BY <1>7, StartPromised DEF StartMove, LifeCycle!Next
<1>8. CASE \E l \in Lane : RequeueMove(l)
  BY <1>8, RequeuePromised DEF RequeueMove, LifeCycle!Next
<1>9. CASE \E dead, back \in SUBSET Run : FailMove(back, dead)
  BY <1>9, FailPromised DEF LifeCycle!Next
<1>10. CASE \E t \in Tenant : ArchiveMove(t)
  BY <1>1, <1>10, ArchivePromised DEF LifeCycle!Next
<1>11. QED
  BY <1>2, <1>3, <1>4, <1>5, <1>6, <1>7, <1>8, <1>9, <1>10 DEF Move

\* Leases, lanes, crashes and recoveries are invisible to whoever asked for a
\* run: the table keeps the promise of RunLifeCycle.
THEOREM LifeCycleImplemented == Spec => LifeCycleKept
<1>1. Init => LifeCycle!Init
  BY DEF Init, PromisedState, LifeCycle!Init
<1>2. IInv /\ [Next]_vars => [LifeCycle!Next]_(LifeCycle!promise)
  <2> SUFFICES ASSUME IInv, [Next]_vars PROVE LifeCycle!Next \/ UNCHANGED LifeCycle!promise
    OBVIOUS
  <2>1. Move
    BY StepMoves DEF IInv
  <2>2. QED
    BY <2>1, MovePromised DEF IInv
<1>3. QED
  BY <1>1, <1>2, Invariant, PTL DEF Spec, LifeCycleKept, LifeCycle!Spec
=============================================================================
