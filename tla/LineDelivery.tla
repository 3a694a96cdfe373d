---------------------------- MODULE LineDelivery ----------------------------
(***************************************************************************)
(* From a collected occurrence of a schedule to messages in LINE chats.    *)
(*                                                                         *)
(* The notifier of a worker process claims a COLLECTING notification run,  *)
(* and defers it, fails it, or publishes one delivery per eligible         *)
(* recipient.  Dispatcher lanes claim deliveries under a lease, push them  *)
(* to LINE with the delivery's retry key, and accept, retry or fail them;  *)
(* the write that ends the last delivery also ends the notification run.   *)
(*                                                                         *)
(* Each transaction is one action, except Accept and Fail of a delivery:   *)
(* they count the other deliveries of the run (finalizeNotificationRun)    *)
(* before they commit, with only their own rows locked, so another one may *)
(* commit in between.                                                      *)
(*                                                                         *)
(* The lease tests of Publish and of a delivery's writes compare with the  *)
(* clock of the claim, so whoever owns the row passes; they are left out.  *)
(***************************************************************************)
EXTENDS Naturals, FiniteSets

CONSTANTS
    Occurrence, Recipient, Proc, Lane,
    None,           \* stands for null
    procOf,         \* [Lane -> Proc]: lanes of a process share claimed_by
    PushAttempts,   \* attempts after which a retryable push is given up
    MaxFaults       \* bound on crashes, abandoned claims and stalls

ASSUME DeliveryConstants ==
    /\ procOf \in [Lane -> Proc]
    /\ None \notin Occurrence \cup Proc \cup (Occurrence \X Recipient)
    /\ PushAttempts \in Nat \ {0} /\ MaxFaults \in Nat

VARIABLES
    reports,          \* the report runs of the occurrence, together
    eligible,         \* recipients whose membership and permissions are in order
    occurrence,       \* notification_runs.status
    runOwner,         \* notification_runs.claimed_by
    runLease,         \* notification_runs.lease_expires_at
    runDue,           \* notification_runs.next_attempt_at <= now
    work,             \* the run a notifier has claimed
    found,            \* the reports as it loaded them
    targets,          \* the recipients as it loaded them
    status,           \* line_deliveries.status, "absent" before publication
    owner,            \* line_delivery_outbox.claimed_by
    lease,            \* line_delivery_outbox.lease_expires_at
    due,              \* line_delivery_outbox.available_at <= now
    attempt,          \* line_deliveries.attempt
    retryKey,         \* line_deliveries.retry_key: a fresh key is a new number
    pc, job, seen,    \* where a lane is, its delivery and the attempt it read
    answer,           \* outcome of its push
    verdict,          \* final status of the run it is about to commit, or "open"
    known,            \* keys LINE has accepted for the delivery
    inbox,            \* messages of the delivery in the recipient's chat
    locallyAccepted,  \* line_monthly_quota.locally_accepted
    faults

runVars      == <<occurrence, runOwner, runLease, runDue>>
notifierVars == <<work, found, targets>>
rowVars      == <<status, owner, lease, due, attempt, retryKey>>
laneVars     == <<pc, job, seen, answer, verdict>>
lineVars     == <<known, inbox>>
vars == <<reports, eligible, runVars, notifierVars, rowVars, laneVars, lineVars,
          locallyAccepted, faults>>

Delivery == Occurrence \X Recipient
Of(o)    == {o} \X Recipient

\* "expired": a snapshot has outlived its retention or the archive of the store
\* has withdrawn a queued report, so the set is incomplete.
Reports   == {"pending", "complete", "failed", "expired"}
Undecided == {"PENDING", "SENDING", "RETRY_WAIT", "UNCERTAIN"}
Decided   == {"ACCEPTED", "FAILED_PERMANENT"}
Ended     == {"COMPLETED", "PARTIAL_FAILED", "FAILED"}
Answer    == {"accepted", "uncertain", "retryable", "permanent"}
Lease     == {"none", "live", "lapsed"}

TypeOK ==
    /\ reports \in [Occurrence -> Reports] /\ eligible \subseteq Recipient
    /\ occurrence \in [Occurrence -> {"COLLECTING", "SENDING"} \cup Ended]
    /\ runOwner \in [Occurrence -> Proc \cup {None}]
    /\ runLease \in [Occurrence -> Lease] /\ runDue \in [Occurrence -> BOOLEAN]
    /\ work \in [Proc -> Occurrence \cup {None}] /\ found \in [Proc -> Reports]
    /\ targets \in [Proc -> SUBSET Recipient]
    /\ status \in [Delivery -> {"absent"} \cup Undecided \cup Decided]
    /\ owner \in [Delivery -> Proc \cup {None}]
    /\ lease \in [Delivery -> Lease] /\ due \in [Delivery -> BOOLEAN]
    /\ attempt \in [Delivery -> Nat] /\ retryKey \in [Delivery -> Nat]
    /\ pc \in [Lane -> {"idle", "claimed", "pushed", "finishing"}]
    /\ job \in [Lane -> Delivery \cup {None}] /\ seen \in [Lane -> Nat]
    /\ answer \in [Lane -> Answer \cup {"none"}]
    /\ verdict \in [Lane -> {"open"} \cup Ended]
    /\ known \in [Delivery -> SUBSET Nat] /\ inbox \in [Delivery -> Nat]
    /\ locallyAccepted \in Nat /\ faults \in Nat

Init ==
    /\ reports = [o \in Occurrence |-> "pending"] /\ eligible = Recipient
    /\ occurrence = [o \in Occurrence |-> "COLLECTING"]
    /\ runOwner = [o \in Occurrence |-> None]
    /\ runLease = [o \in Occurrence |-> "none"] /\ runDue = [o \in Occurrence |-> TRUE]
    /\ work = [p \in Proc |-> None] /\ found = [p \in Proc |-> "pending"]
    /\ targets = [p \in Proc |-> {}]
    /\ status = [d \in Delivery |-> "absent"] /\ owner = [d \in Delivery |-> None]
    /\ lease = [d \in Delivery |-> "none"] /\ due = [d \in Delivery |-> FALSE]
    /\ attempt = [d \in Delivery |-> 0] /\ retryKey = [d \in Delivery |-> 0]
    /\ pc = [l \in Lane |-> "idle"] /\ job = [l \in Lane |-> None]
    /\ seen = [l \in Lane |-> 0] /\ answer = [l \in Lane |-> "none"]
    /\ verdict = [l \in Lane |-> "open"]
    /\ known = [d \in Delivery |-> {}] /\ inbox = [d \in Delivery |-> 0]
    /\ locallyAccepted = 0 /\ faults = 0

-----------------------------------------------------------------------------
(* The notifier. *)

NotifierIdle(p) ==
    /\ work' = [work EXCEPT ![p] = None]
    /\ found' = [found EXCEPT ![p] = "pending"]
    /\ targets' = [targets EXCEPT ![p] = {}]

\* NotificationStore.Claim with loadNotificationWork.
ClaimRun(p, o) ==
    /\ work[p] = None
    /\ occurrence[o] = "COLLECTING" /\ runDue[o]
    /\ runOwner[o] = None \/ runLease[o] = "lapsed"
    /\ runOwner' = [runOwner EXCEPT ![o] = p]
    /\ runLease' = [runLease EXCEPT ![o] = "live"]
    /\ work' = [work EXCEPT ![p] = o]
    /\ found' = [found EXCEPT ![p] = reports[o]]
    /\ targets' = [targets EXCEPT ![p] = IF reports[o] = "complete" THEN eligible ELSE {}]
    /\ UNCHANGED <<reports, eligible, occurrence, runDue, rowVars, laneVars, lineVars,
                   locallyAccepted, faults>>

\* Mutation of OwnsRun: the write names the run only by its id.
OwnsById(p) == TRUE
OwnsRun(p) == runOwner[work[p]] = p /\ occurrence[work[p]] = "COLLECTING"

ReleaseRun(p) ==
    /\ runOwner' = [runOwner EXCEPT ![work[p]] = None]
    /\ runLease' = [runLease EXCEPT ![work[p]] = "none"]

EndPreparation(p) ==
    /\ NotifierIdle(p)
    /\ UNCHANGED <<reports, eligible, laneVars, lineVars, locallyAccepted, faults>>

Defer(p) ==
    /\ work[p] # None /\ OwnsRun(p)
    /\ found[p] = "pending"
    /\ ReleaseRun(p)
    /\ runDue' = [runDue EXCEPT ![work[p]] = FALSE]
    /\ EndPreparation(p)
    /\ UNCHANGED <<occurrence, rowVars>>

\* An incomplete set, no recipient, or a message that cannot be rendered.
FailRun(p) ==
    /\ work[p] # None /\ OwnsRun(p)
    /\ found[p] # "pending"
    /\ ReleaseRun(p)
    /\ occurrence' = [occurrence EXCEPT ![work[p]] = "FAILED"]
    /\ EndPreparation(p)
    /\ UNCHANGED <<runDue, rowVars>>

\* uuid.New(): a key that LINE has not seen for the delivery.
FreshKey(d) == retryKey[d] + 1

\* Eligibility is checked again; a delivery is inserted for those who remain.
Publish(p) ==
    LET new == {work[p]} \X (targets[p] \cap eligible) IN
    /\ work[p] # None /\ OwnsRun(p)
    /\ found[p] = "complete" /\ targets[p] # {}
    /\ status' = [d \in Delivery |-> IF d \in new THEN "PENDING" ELSE status[d]]
    /\ due' = [d \in Delivery |-> due[d] \/ d \in new]
    /\ retryKey' = [d \in Delivery |-> IF d \in new THEN FreshKey(d) ELSE retryKey[d]]
    /\ occurrence' = [occurrence EXCEPT ![work[p]] = IF new = {} THEN "FAILED" ELSE "SENDING"]
    /\ ReleaseRun(p)
    /\ EndPreparation(p)
    /\ UNCHANGED <<runDue, owner, lease, attempt>>

NotifierLost(p) ==
    /\ work[p] # None /\ ~OwnsRun(p)
    /\ EndPreparation(p)
    /\ UNCHANGED <<runVars, rowVars>>

-----------------------------------------------------------------------------
(* A dispatcher lane. *)

Finishing(d) == \E l \in Lane : pc[l] = "finishing" /\ job[l] = d

LaneIdle(ls) ==
    /\ pc' = [l \in Lane |-> IF l \in ls THEN "idle" ELSE pc[l]]
    /\ job' = [l \in Lane |-> IF l \in ls THEN None ELSE job[l]]
    /\ seen' = [l \in Lane |-> IF l \in ls THEN 0 ELSE seen[l]]
    /\ answer' = [l \in Lane |-> IF l \in ls THEN "none" ELSE answer[l]]
    /\ verdict' = [l \in Lane |-> IF l \in ls THEN "open" ELSE verdict[l]]

\* DeliveryStore.Claim, which skips a row that a finishing lane has locked.
Claim(l, d) ==
    /\ pc[l] = "idle"
    /\ status[d] \in Undecided /\ due[d]
    /\ owner[d] = None \/ lease[d] = "lapsed"
    /\ ~Finishing(d)
    /\ status' = [status EXCEPT ![d] = "SENDING"]
    /\ owner' = [owner EXCEPT ![d] = procOf[l]]
    /\ lease' = [lease EXCEPT ![d] = "live"]
    /\ attempt' = [attempt EXCEPT ![d] = @ + 1]
    /\ pc' = [pc EXCEPT ![l] = "claimed"]
    /\ job' = [job EXCEPT ![l] = d]
    /\ seen' = [seen EXCEPT ![l] = attempt[d] + 1]
    /\ UNCHANGED <<reports, eligible, runVars, notifierVars, due, retryKey, answer, verdict,
                   lineVars, locallyAccepted, faults>>

\* What may come back from LINE, and whether the message reaches the chat: a
\* known key is answered 409; a request that ends in an error or in 429 or 5xx
\* may have been taken; "4xx" also stands for a tenant or a recipient that is no
\* longer active, when nothing is sent.
Outcomes(isKnown) ==
    IF isKnown THEN {"409", "error", "5xx", "4xx"} \X {FALSE}
    ELSE ({"2xx"} \X {TRUE}) \cup ({"4xx"} \X {FALSE}) \cup ({"error", "5xx"} \X BOOLEAN)

\* Mutation of Interpret: a transport error is taken for success.
InterpretAsSent(response) ==
    IF response \in {"2xx", "409", "error"} THEN "accepted"
    ELSE IF response = "5xx" THEN "retryable" ELSE "permanent"

Interpret(response) ==
    IF response \in {"2xx", "409"} THEN "accepted"
    ELSE IF response = "error" THEN "uncertain"
    ELSE IF response = "5xx" THEN "retryable" ELSE "permanent"

Push(l) ==
    /\ pc[l] = "claimed"
    /\ \E o \in Outcomes(retryKey[job[l]] \in known[job[l]]) :
          /\ answer' = [answer EXCEPT ![l] = Interpret(o[1])]
          /\ known' = [known EXCEPT ![job[l]] = IF o[2] THEN @ \cup {retryKey[job[l]]} ELSE @]
          /\ inbox' = [inbox EXCEPT ![job[l]] = IF o[2] THEN @ + 1 ELSE @]
    /\ pc' = [pc EXCEPT ![l] = "pushed"]
    /\ UNCHANGED <<reports, eligible, runVars, notifierVars, rowVars, job, seen, verdict,
                   locallyAccepted, faults>>

\* Mutation of Held: an outbox row that is already completed can be finished again.
HeldByOwner(l) == owner[job[l]] = procOf[l]
\* lockDeliveryOutbox.
Held(l) == owner[job[l]] = procOf[l] /\ status[job[l]] = "SENDING"

\* The writes wait for a lane that has the rows locked.
Writes(l, answers) == /\ pc[l] = "pushed" /\ answer[l] \in answers
                      /\ Held(l) /\ ~Finishing(job[l])

\* KeyOfRetry: Claim returns delivery.retry_key and nothing updates it.
\* FreshKey, as its mutation: a retry is a new push.
KeyOfRetry(d) == retryKey[d]

Retry(l) ==
    /\ Writes(l, {"uncertain", "retryable"}) /\ seen[l] < PushAttempts
    /\ status' = [status EXCEPT ![job[l]] = IF answer[l] = "uncertain" THEN "UNCERTAIN" ELSE "RETRY_WAIT"]
    /\ owner' = [owner EXCEPT ![job[l]] = None]
    /\ lease' = [lease EXCEPT ![job[l]] = "none"]
    /\ due' = [due EXCEPT ![job[l]] = FALSE]
    /\ retryKey' = [retryKey EXCEPT ![job[l]] = KeyOfRetry(job[l])]
    /\ LaneIdle({l})
    /\ UNCHANGED <<reports, eligible, runVars, notifierVars, attempt, lineVars,
                   locallyAccepted, faults>>

\* Mutations of FinalStatus: one acceptance makes the run a success; a delivery's
\* status is written to the run.
FinalStatusOptimistic(ss) == IF "ACCEPTED" \in ss THEN "COMPLETED" ELSE "FAILED"
FinalStatusOfDelivery(ss) == IF ss = {"ACCEPTED"} THEN "COMPLETED" ELSE "FAILED_PERMANENT"
FinalStatus(ss) ==
    IF "FAILED_PERMANENT" \notin ss THEN "COMPLETED"
    ELSE IF "ACCEPTED" \in ss THEN "PARTIAL_FAILED" ELSE "FAILED"

\* Mutation of Count: the count is taken before the delivery's own update.
CountBeforeUpdate(l, s) ==
    LET ss == {status[d] : d \in Of(job[l][1])} \ {"absent"}
    IN  IF ss \cap Undecided # {} THEN "open" ELSE FinalStatus(ss)

\* finalizeNotificationRun as it counts when this delivery ends with status s.
Count(l, s) ==
    LET run == job[l][1]
        ss == ({s} \cup {status[d] : d \in Of(run) \ {job[l]}}) \ {"absent"}
    IN  IF ss \cap Undecided # {} THEN "open" ELSE FinalStatus(ss)

Begin(l, s) ==
    /\ pc' = [pc EXCEPT ![l] = "finishing"]
    /\ verdict' = [verdict EXCEPT ![l] = Count(l, s)]
    /\ UNCHANGED <<reports, eligible, runVars, notifierVars, rowVars, job, seen, answer,
                   lineVars, locallyAccepted, faults>>

Accepting(l) == pc[l] = "finishing" /\ answer[l] = "accepted"

\* Accept up to its count; the row of line_monthly_quota, locked before the
\* count, makes two acceptances wait for each other.
BeginAccept(l) ==
    /\ Writes(l, {"accepted"})
    /\ \A m \in Lane : ~Accepting(m)
    /\ Begin(l, "ACCEPTED")

BeginFail(l) ==
    /\ Writes(l, {"permanent", "uncertain", "retryable"})
    /\ answer[l] # "permanent" => seen[l] >= PushAttempts
    /\ Begin(l, "FAILED_PERMANENT")

Commit(l) ==
    /\ pc[l] = "finishing"
    /\ status' = [status EXCEPT ![job[l]] = IF Accepting(l) THEN "ACCEPTED" ELSE "FAILED_PERMANENT"]
    /\ lease' = [lease EXCEPT ![job[l]] = "none"]
    /\ locallyAccepted' = locallyAccepted + (IF Accepting(l) THEN 1 ELSE 0)
    /\ occurrence' = [occurrence EXCEPT ![job[l][1]] = IF verdict[l] = "open" THEN @ ELSE verdict[l]]
    /\ LaneIdle({l})
    /\ UNCHANGED <<reports, eligible, runOwner, runLease, runDue, notifierVars, owner, due,
                   attempt, retryKey, lineVars, faults>>

Lost(l) ==
    /\ pc[l] = "pushed" /\ ~Held(l) /\ ~Finishing(job[l])
    /\ LaneIdle({l})
    /\ UNCHANGED <<reports, eligible, runVars, notifierVars, rowVars, lineVars,
                   locallyAccepted, faults>>

-----------------------------------------------------------------------------
(* The report runs, the administrators and the clock. *)

ReportsEnd(o) ==
    /\ reports[o] = "pending"
    /\ reports' = [reports EXCEPT ![o] = "complete"]
    /\ UNCHANGED <<eligible, runVars, notifierVars, rowVars, laneVars, lineVars, locallyAccepted, faults>>

\* failScheduledOccurrenceTx leaves claimed_by in place.
ReportFails(o) ==
    LET closes == occurrence[o] = "COLLECTING" IN
    /\ reports[o] = "pending"
    /\ reports' = [reports EXCEPT ![o] = "failed"]
    /\ occurrence' = [occurrence EXCEPT ![o] = IF closes THEN "FAILED" ELSE @]
    /\ runLease' = [runLease EXCEPT ![o] = IF closes THEN "none" ELSE @]
    /\ UNCHANGED <<eligible, runOwner, runDue, notifierVars, rowVars, laneVars, lineVars,
                   locallyAccepted, faults>>

\* The set becomes incomplete without anybody closing the occurrence, which the
\* notifier's next look does.
SnapshotExpires(o) ==
    /\ reports[o] \in {"pending", "complete"}
    /\ reports' = [reports EXCEPT ![o] = "expired"]
    /\ UNCHANGED <<eligible, runVars, notifierVars, rowVars, laneVars, lineVars, locallyAccepted, faults>>

SetEligible(r) ==
    /\ eligible' = IF r \in eligible THEN eligible \ {r} ELSE eligible \cup {r}
    /\ UNCHANGED <<reports, runVars, notifierVars, rowVars, laneVars, lineVars, locallyAccepted, faults>>

RunDue(o) ==
    /\ ~runDue[o]
    /\ runDue' = [runDue EXCEPT ![o] = TRUE]
    /\ UNCHANGED <<reports, eligible, occurrence, runOwner, runLease, notifierVars, rowVars, laneVars,
                   lineVars, locallyAccepted, faults>>

DeliveryDue(d) ==
    /\ status[d] \in {"RETRY_WAIT", "UNCERTAIN"} /\ ~due[d]
    /\ due' = [due EXCEPT ![d] = TRUE]
    /\ UNCHANGED <<reports, eligible, runVars, notifierVars, status, owner, lease, attempt, retryKey,
                   laneVars, lineVars, locallyAccepted, faults>>

Fault == faults < MaxFaults /\ faults' = faults + 1

\* A lease passes freely when nobody works on the row, and as a fault when the
\* notifier or the lane stands still for a minute.
RunLeaseLapses(o) ==
    /\ runLease[o] = "live"
    /\ IF \E p \in Proc : work[p] = o /\ runOwner[o] = p THEN Fault ELSE UNCHANGED faults
    /\ runLease' = [runLease EXCEPT ![o] = "lapsed"]
    /\ UNCHANGED <<reports, eligible, occurrence, runOwner, runDue, notifierVars, rowVars, laneVars,
                   lineVars, locallyAccepted>>

LeaseLapses(d) ==
    /\ lease[d] = "live"
    /\ IF \E l \in Lane : job[l] = d /\ procOf[l] = owner[d] THEN Fault ELSE UNCHANGED faults
    /\ lease' = [lease EXCEPT ![d] = "lapsed"]
    /\ UNCHANGED <<reports, eligible, runVars, notifierVars, status, owner, due, attempt, retryKey,
                   laneVars, lineVars, locallyAccepted>>

-----------------------------------------------------------------------------
(* Faults. *)

\* ProcessOne returns on an error of the database or of the payload check.
AbandonRun(p) ==
    /\ Fault /\ work[p] # None
    /\ NotifierIdle(p)
    /\ UNCHANGED <<reports, eligible, runVars, rowVars, laneVars, lineVars, locallyAccepted>>

AbandonDelivery(l) ==
    /\ Fault /\ pc[l] # "idle"
    /\ LaneIdle({l})
    /\ UNCHANGED <<reports, eligible, runVars, notifierVars, rowVars, lineVars, locallyAccepted>>

\* A process dies, with the transactions it had open, and starts again.
Crash(p) ==
    /\ Fault
    /\ work[p] # None \/ \E l \in Lane : procOf[l] = p /\ pc[l] # "idle"
    /\ NotifierIdle(p)
    /\ LaneIdle({l \in Lane : procOf[l] = p})
    /\ UNCHANGED <<reports, eligible, runVars, rowVars, lineVars, locallyAccepted>>

-----------------------------------------------------------------------------
Notify(p) == Defer(p) \/ FailRun(p) \/ Publish(p) \/ NotifierLost(p)

Dispatch(l) == Push(l) \/ Retry(l) \/ BeginAccept(l) \/ BeginFail(l) \/ Commit(l) \/ Lost(l)

Environment ==
    \/ \E o \in Occurrence : ReportsEnd(o) \/ ReportFails(o) \/ SnapshotExpires(o) \/ RunDue(o)
    \/ \E r \in Recipient : SetEligible(r)
    \/ \E d \in Delivery : DeliveryDue(d)

Failures ==
    \/ \E o \in Occurrence : RunLeaseLapses(o)
    \/ \E d \in Delivery : LeaseLapses(d)
    \/ \E l \in Lane : AbandonDelivery(l)
    \/ \E p \in Proc : AbandonRun(p) \/ Crash(p)

Next ==
    \/ \E p \in Proc : Notify(p) \/ \E o \in Occurrence : ClaimRun(p, o)
    \/ \E l \in Lane : Dispatch(l) \/ \E d \in Delivery : Claim(l, d)
    \/ Environment
    \/ Failures

Spec == Init /\ [][Next]_vars

\* The loops of cmd/worker run, a push times out, the report runs settle (which
\* is EveryRunSettles of ReportRuns), and time passes.
FairSpec ==
    /\ Spec
    /\ \A p \in Proc : WF_vars(Notify(p)) /\ WF_vars(\E o \in Occurrence : ClaimRun(p, o))
    /\ \A l \in Lane : WF_vars(Dispatch(l)) /\ WF_vars(\E d \in Delivery : Claim(l, d))
    /\ \A o \in Occurrence : /\ WF_vars(ReportsEnd(o) \/ ReportFails(o)) /\ WF_vars(RunDue(o))
                             /\ WF_vars(RunLeaseLapses(o) /\ UNCHANGED faults)
    /\ \A d \in Delivery : /\ WF_vars(DeliveryDue(d))
                           /\ WF_vars(LeaseLapses(d) /\ UNCHANGED faults)

-----------------------------------------------------------------------------
\* However pushes are lost, answered late, retried or repeated by a lane that
\* lost its claim, no recipient gets the message of an occurrence twice: the
\* retry key is stored once, by Publish, and every push of the delivery uses it.
NoDuplicateMessage == \A d \in Delivery : inbox[d] <= 1

\* A delivery recorded as accepted did reach the chat, even when the lane that
\* recorded it was not the one whose push went through.
AcceptedWasReceived == \A d \in Delivery : status[d] = "ACCEPTED" => inbox[d] = 1

\* locally_accepted counts every accepted delivery exactly once, however many
\* lanes saw LINE accept it.
QuotaCountsAccepted == locallyAccepted = Cardinality({d \in Delivery : status[d] = "ACCEPTED"})

\* A notification run never leaves its final status: not by the write of a
\* notifier whose claim another one took over, nor by that of a lane which lost
\* its delivery (the guards of Defer, Fail, Publish and lockDeliveryOutbox).
OccurrenceEndsOnce ==
    [][\A o \in Occurrence : occurrence[o] \in Ended => occurrence'[o] = occurrence[o]]_vars

\* The final status of a run agrees with its deliveries, and no delivery is left
\* in flight behind it, although it is computed from rows other lanes change.
FinalStatusAgrees ==
    \A o \in Occurrence : occurrence[o] \in Ended =>
        LET ss == {status[d] : d \in Of(o)} \ {"absent"} IN
        /\ ss \cap Undecided = {}
        /\ occurrence[o] = "COMPLETED" <=> ss = {"ACCEPTED"}
        /\ occurrence[o] = "PARTIAL_FAILED" <=> ss = Decided

\* A run that is sending still has a delivery to send.
SendingHasWork ==
    \A o \in Occurrence : occurrence[o] = "SENDING" => \E d \in Of(o) : status[d] \in Undecided

\* With one dispatcher lane, every occurrence ends, whatever LINE answers.
EveryOccurrenceEnds == \A o \in Occurrence : occurrence[o] = "COLLECTING" ~> occurrence[o] \in Ended
-----------------------------------------------------------------------------
(* The promise behind the tables. *)

\* A delivery is due however it is claimed, tried or retried.
PromisedMessage == [d \in Delivery |-> IF status[d] \in Undecided THEN "due" ELSE status[d]]

Promise == INSTANCE Announcement WITH
    outcome <- occurrence, message <- PromisedMessage, received <- inbox, counted <- locallyAccepted

\* Claims, leases, lost answers, retries and crashes are invisible to those an
\* occurrence addresses: each of them gets one message at most, what is recorded
\* of it stands, and the quota and the occurrence's end are computed from those
\* records (Publish, Push, Accept, Fail and finalizeNotificationRun together).
AnnouncementKept == Promise!Spec
=============================================================================
