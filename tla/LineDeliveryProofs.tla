------------------------- MODULE LineDeliveryProofs -------------------------
(***************************************************************************)
(* Theorems about LineDelivery, for every value of its constants.          *)
(***************************************************************************)
EXTENDS LineDelivery, FiniteSetTheorems, TLAPS

-----------------------------------------------------------------------------
(* Types. *)

\* A lane that is not idle has a delivery.
JobTyped == \A l \in Lane : pc[l] # "idle" => job[l] \in Delivery

LaneTyped ==
    /\ pc \in [Lane -> {"idle", "claimed", "pushed", "finishing"}]
    /\ job \in [Lane -> Delivery \cup {None}] /\ seen \in [Lane -> Nat]
    /\ answer \in [Lane -> Answer \cup {"none"}]
    /\ verdict \in [Lane -> {"open"} \cup Ended]
    /\ JobTyped

NotifierTyped ==
    /\ work \in [Proc -> Occurrence \cup {None}] /\ found \in [Proc -> Reports]
    /\ targets \in [Proc -> SUBSET Recipient]

RunTyped ==
    /\ occurrence \in [Occurrence -> {"COLLECTING", "SENDING"} \cup Ended]
    /\ runOwner \in [Occurrence -> Proc \cup {None}]
    /\ runLease \in [Occurrence -> Lease] /\ runDue \in [Occurrence -> BOOLEAN]

RowTyped ==
    /\ status \in [Delivery -> {"absent"} \cup Undecided \cup Decided]
    /\ owner \in [Delivery -> Proc \cup {None}]
    /\ lease \in [Delivery -> Lease] /\ due \in [Delivery -> BOOLEAN]
    /\ attempt \in [Delivery -> Nat] /\ retryKey \in [Delivery -> Nat]

RestTyped ==
    /\ reports \in [Occurrence -> Reports] /\ eligible \subseteq Recipient
    /\ known \in [Delivery -> SUBSET Nat] /\ inbox \in [Delivery -> Nat]
    /\ locallyAccepted \in Nat /\ faults \in Nat

\* The type invariant in the parts that actions disturb separately.
Typed == LaneTyped /\ NotifierTyped /\ RunTyped /\ RowTyped /\ RestTyped

\* Its parts are the columns of the tables, the workers and LINE.
LEMMA TypedIsTypeOK == Typed => TypeOK
BY DEF Typed, TypeOK, LaneTyped, NotifierTyped, RunTyped, RowTyped, RestTyped

\* Lanes that return to idle leave the lanes typed (the end of ProcessOne).
LEMMA LaneIdleTyped ==
    ASSUME LaneTyped, NEW ls \in SUBSET Lane, LaneIdle(ls) PROVE LaneTyped'
BY DEF LaneTyped, JobTyped, LaneIdle

\* So does a notifier that returns to idle.
LEMMA NotifierIdleTyped ==
    ASSUME NotifierTyped, NEW p \in Proc, NotifierIdle(p) PROVE NotifierTyped'
BY DEF NotifierTyped, NotifierIdle, Reports

\* The final status computed by finalizeNotificationRun is one, or open.
LEMMA CountTyped ==
    ASSUME NEW l \in Lane, NEW s PROVE Count(l, s) \in {"open"} \cup Ended
BY DEF Count, FinalStatus, Ended

\* The steps of the notifier keep the types (internal/notification/worker.go).
LEMMA NotifierStepTyped ==
    ASSUME Typed, NEW p \in Proc, Notify(p) \/ \E o \in Occurrence : ClaimRun(p, o)
    PROVE  Typed'
<1> USE DEF Typed
<1>1. ASSUME NEW o \in Occurrence, ClaimRun(p, o) PROVE Typed'
  <2>1. NotifierTyped'
    BY <1>1 DEF ClaimRun, NotifierTyped, RestTyped
  <2>2. RunTyped'
    BY <1>1 DEF ClaimRun, RunTyped, Lease
  <2>3. LaneTyped' /\ RowTyped' /\ RestTyped'
    BY <1>1 DEF ClaimRun, rowVars, laneVars, lineVars, LaneTyped, JobTyped, RowTyped, RestTyped
  <2>4. QED BY <2>1, <2>2, <2>3
<1>2. CASE Defer(p)
  <2>1. NotifierTyped'
    BY <1>2, NotifierIdleTyped DEF Defer, EndPreparation
  <2>2. RunTyped'
    BY <1>2 DEF Defer, ReleaseRun, RunTyped, NotifierTyped, Lease
  <2>3. LaneTyped' /\ RowTyped' /\ RestTyped'
    BY <1>2 DEF Defer, EndPreparation, rowVars, laneVars, lineVars, LaneTyped, JobTyped, RowTyped, RestTyped
  <2>4. QED BY <2>1, <2>2, <2>3
<1>3. CASE FailRun(p)
  <2>1. NotifierTyped'
    BY <1>3, NotifierIdleTyped DEF FailRun, EndPreparation
  <2>2. RunTyped'
    BY <1>3 DEF FailRun, ReleaseRun, RunTyped, NotifierTyped, Lease, Ended
  <2>3. LaneTyped' /\ RowTyped' /\ RestTyped'
    BY <1>3 DEF FailRun, EndPreparation, rowVars, laneVars, lineVars, LaneTyped, JobTyped, RowTyped, RestTyped
  <2>4. QED BY <2>1, <2>2, <2>3
<1>4. CASE Publish(p)
  <2>1. NotifierTyped'
    BY <1>4, NotifierIdleTyped DEF Publish, EndPreparation
  <2>2. RunTyped'
    BY <1>4 DEF Publish, ReleaseRun, RunTyped, NotifierTyped, Lease, Ended
  <2>3. RowTyped'
    BY <1>4 DEF Publish, RowTyped, Undecided, FreshKey
  <2>4. LaneTyped' /\ RestTyped'
    BY <1>4 DEF Publish, EndPreparation, laneVars, lineVars, LaneTyped, JobTyped, RestTyped
  <2>5. QED BY <2>1, <2>2, <2>3, <2>4
<1>5. CASE NotifierLost(p)
  <2>1. NotifierTyped'
    BY <1>5, NotifierIdleTyped DEF NotifierLost, EndPreparation
  <2>2. LaneTyped' /\ RunTyped' /\ RowTyped' /\ RestTyped'
    BY <1>5 DEF NotifierLost, EndPreparation, runVars, rowVars, laneVars, lineVars, LaneTyped, JobTyped,
                RunTyped, RowTyped, RestTyped
  <2>3. QED BY <2>1, <2>2
<1>6. QED
  BY <1>1, <1>2, <1>3, <1>4, <1>5 DEF Notify

\* What LINE sends back is understood as an answer; a message is sent only for
\* a new key, and "accepted" is concluded only of a message sent now or before.
LEMMA OutcomesTyped ==
    ASSUME NEW isKnown \in BOOLEAN, NEW o \in Outcomes(isKnown)
    PROVE  /\ Interpret(o[1]) \in Answer /\ o[2] \in BOOLEAN
           /\ isKnown => ~o[2]
           /\ Interpret(o[1]) = "accepted" => o[2] \/ isKnown
<1>1. Interpret(o[1]) \in Answer
  BY DEF Interpret, Answer
<1>2. CASE isKnown
  <2>1. o \in {"409", "error", "5xx", "4xx"} \X {FALSE}
    BY <1>2 DEF Outcomes
  <2>2. o[2] \in BOOLEAN /\ ~o[2]
    BY <2>1
  <2>3. QED
    BY <1>1, <1>2, <2>2
<1>3. CASE ~isKnown
  <2>1. o \in {"2xx"} \X {TRUE} \/ o \in {"4xx"} \X {FALSE} \/ o \in {"error", "5xx"} \X BOOLEAN
    BY <1>3 DEF Outcomes
  <2>2. o[1] \in {"2xx", "4xx", "error", "5xx"} /\ o[2] \in BOOLEAN /\ (o[1] = "2xx" => o[2])
    BY <2>1
  <2>3. Interpret(o[1]) = "accepted" => o[1] = "2xx"
    BY <2>2 DEF Interpret
  <2>4. QED
    BY <1>1, <1>3, <2>2, <2>3
<1>4. QED
  BY <1>2, <1>3

\* The steps of a dispatcher lane keep the types (internal/delivery/worker.go).
LEMMA LaneStepTyped ==
    ASSUME Typed, NEW l \in Lane, Dispatch(l) \/ \E d \in Delivery : Claim(l, d)
    PROVE  Typed'
<1> USE DEF Typed
<1>1. ASSUME NEW d \in Delivery, Claim(l, d) PROVE Typed'
  <2>1. procOf[l] \in Proc
    BY DeliveryConstants
  <2>2. LaneTyped'
    BY <1>1 DEF Claim, LaneTyped, JobTyped, RowTyped
  <2>3. RowTyped'
    BY <1>1, <2>1 DEF Claim, RowTyped, Undecided, Lease
  <2>4. NotifierTyped' /\ RunTyped' /\ RestTyped'
    BY <1>1 DEF Claim, runVars, notifierVars, lineVars, NotifierTyped, RunTyped, RestTyped
  <2>5. QED BY <2>2, <2>3, <2>4
<1>2. CASE Push(l)
  <2>1. PICK o \in Outcomes(retryKey[job[l]] \in known[job[l]]) :
           /\ answer' = [answer EXCEPT ![l] = Interpret(o[1])]
           /\ known' = [known EXCEPT ![job[l]] = IF o[2] THEN @ \cup {retryKey[job[l]]} ELSE @]
           /\ inbox' = [inbox EXCEPT ![job[l]] = IF o[2] THEN @ + 1 ELSE @]
    BY <1>2 DEF Push
  <2>2. Interpret(o[1]) \in Answer
    <3>1. (retryKey[job[l]] \in known[job[l]]) \in BOOLEAN
      OBVIOUS
    <3>2. QED
      BY <3>1, OutcomesTyped
  <2>3. job[l] \in Delivery
    BY <1>2 DEF Push, LaneTyped, JobTyped
  <2>4. LaneTyped'
    <3>1. answer' \in [Lane -> Answer \cup {"none"}]
      BY <2>1, <2>2 DEF LaneTyped
    <3>2. QED
      BY <1>2, <3>1 DEF Push, LaneTyped, JobTyped
  <2>5. RestTyped'
    <3>1. retryKey[job[l]] \in Nat
      BY <2>3 DEF RowTyped
    <3>2. known' \in [Delivery -> SUBSET Nat]
      BY <2>1, <2>3, <3>1 DEF RestTyped
    <3>3. inbox' \in [Delivery -> Nat]
      BY <2>1, <2>3 DEF RestTyped
    <3>4. QED
      BY <1>2, <3>2, <3>3 DEF Push, RestTyped
  <2>6. NotifierTyped' /\ RunTyped' /\ RowTyped'
    BY <1>2 DEF Push, runVars, notifierVars, rowVars, NotifierTyped, RunTyped, RowTyped
  <2>7. QED BY <2>4, <2>5, <2>6
<1>3. CASE Retry(l)
  <2>1. LaneTyped'
    BY <1>3, LaneIdleTyped DEF Retry
  <2>2. RowTyped'
    BY <1>3 DEF Retry, RowTyped, Undecided, Lease, KeyOfRetry
  <2>3. NotifierTyped' /\ RunTyped' /\ RestTyped'
    BY <1>3 DEF Retry, runVars, notifierVars, lineVars, NotifierTyped, RunTyped, RestTyped
  <2>4. QED BY <2>1, <2>2, <2>3
<1>4. ASSUME NEW s, pc[l] = "pushed", Begin(l, s) PROVE Typed'
  <2>1. LaneTyped'
    BY <1>4, CountTyped DEF Begin, LaneTyped, JobTyped
  <2>2. NotifierTyped' /\ RunTyped' /\ RowTyped' /\ RestTyped'
    BY <1>4 DEF Begin, runVars, notifierVars, rowVars, lineVars, NotifierTyped, RunTyped, RowTyped, RestTyped
  <2>3. QED BY <2>1, <2>2
<1>5. CASE BeginAccept(l) \/ BeginFail(l)
  BY <1>4, <1>5 DEF BeginAccept, BeginFail, Writes
<1>6. CASE Commit(l)
  <2>1. LaneTyped'
    BY <1>6, LaneIdleTyped DEF Commit
  <2>2. RowTyped'
    BY <1>6 DEF Commit, RowTyped, Decided, Lease
  <2>3. RunTyped'
    <3>1. verdict[l] \in {"open"} \cup Ended
      BY DEF LaneTyped
    <3>2. QED
      BY <1>6, <3>1 DEF Commit, RunTyped
  <2>4. NotifierTyped' /\ RestTyped'
    BY <1>6 DEF Commit, notifierVars, lineVars, NotifierTyped, RestTyped
  <2>5. QED BY <2>1, <2>2, <2>3, <2>4
<1>7. CASE Lost(l)
  <2>1. LaneTyped'
    BY <1>7, LaneIdleTyped DEF Lost
  <2>2. NotifierTyped' /\ RunTyped' /\ RowTyped' /\ RestTyped'
    BY <1>7 DEF Lost, runVars, notifierVars, rowVars, lineVars, NotifierTyped, RunTyped, RowTyped, RestTyped
  <2>3. QED BY <2>1, <2>2
<1>8. QED
  BY <1>1, <1>2, <1>3, <1>5, <1>6, <1>7 DEF Dispatch

\* The reports, the administrators, the clock and faults keep the types.
LEMMA EnvironmentTyped ==
    ASSUME Typed, Environment \/ Failures PROVE Typed'
<1> USE DEF Typed
<1>1. ASSUME NEW o \in Occurrence,
             ReportsEnd(o) \/ ReportFails(o) \/ SnapshotExpires(o) \/ RunDue(o) \/ RunLeaseLapses(o)
      PROVE  Typed'
  <2>1. LaneTyped' /\ NotifierTyped' /\ RowTyped'
    BY <1>1 DEF ReportsEnd, ReportFails, SnapshotExpires, RunDue, RunLeaseLapses, notifierVars, rowVars,
                laneVars, LaneTyped, JobTyped, NotifierTyped, RowTyped
  <2>2. RunTyped'
    BY <1>1 DEF ReportsEnd, ReportFails, SnapshotExpires, RunDue, RunLeaseLapses, runVars, RunTyped,
                Lease, Ended
  <2>3. (reports \in [Occurrence -> Reports])'
    BY <1>1 DEF ReportsEnd, ReportFails, SnapshotExpires, RunDue, RunLeaseLapses, RestTyped, Reports
  <2>4. faults' \in Nat
    BY <1>1 DEF ReportsEnd, ReportFails, SnapshotExpires, RunDue, RunLeaseLapses, RestTyped, Fault
  <2>5. RestTyped'
    BY <1>1, <2>3, <2>4 DEF ReportsEnd, ReportFails, SnapshotExpires, RunDue, RunLeaseLapses, lineVars, RestTyped
  <2>6. QED
    BY <2>1, <2>2, <2>5
<1>2. ASSUME NEW r \in Recipient, SetEligible(r) PROVE Typed'
  BY <1>2 DEF SetEligible, runVars, notifierVars, rowVars, laneVars, lineVars, LaneTyped, JobTyped,
              NotifierTyped, RunTyped, RowTyped, RestTyped
<1>3. ASSUME NEW d \in Delivery, DeliveryDue(d) \/ LeaseLapses(d) PROVE Typed'
  <2>1. RowTyped'
    BY <1>3 DEF DeliveryDue, LeaseLapses, RowTyped, Lease
  <2>2. RestTyped'
    BY <1>3 DEF DeliveryDue, LeaseLapses, Fault, lineVars, RestTyped
  <2>3. LaneTyped' /\ NotifierTyped' /\ RunTyped'
    BY <1>3 DEF DeliveryDue, LeaseLapses, runVars, notifierVars, laneVars, LaneTyped, JobTyped,
                NotifierTyped, RunTyped
  <2>4. QED
    BY <2>1, <2>2, <2>3
<1>4. ASSUME NEW p \in Proc, AbandonRun(p) PROVE Typed'
  <2>1. NotifierTyped'
    BY <1>4, NotifierIdleTyped DEF AbandonRun
  <2>2. LaneTyped' /\ RunTyped' /\ RowTyped' /\ RestTyped'
    BY <1>4 DEF AbandonRun, Fault, runVars, rowVars, laneVars, lineVars, LaneTyped, JobTyped, RunTyped,
                RowTyped, RestTyped
  <2>3. QED
    BY <2>1, <2>2
<1>5. ASSUME NEW l \in Lane, AbandonDelivery(l) PROVE Typed'
  <2>1. LaneTyped'
    BY <1>5, LaneIdleTyped DEF AbandonDelivery
  <2>2. NotifierTyped' /\ RunTyped' /\ RowTyped' /\ RestTyped'
    BY <1>5 DEF AbandonDelivery, Fault, runVars, notifierVars, rowVars, lineVars, NotifierTyped,
                RunTyped, RowTyped, RestTyped
  <2>3. QED
    BY <2>1, <2>2
<1>6. ASSUME NEW p \in Proc, Crash(p) PROVE Typed'
  <2>1. LaneTyped'
    BY <1>6, LaneIdleTyped DEF Crash
  <2>2. NotifierTyped'
    BY <1>6, NotifierIdleTyped DEF Crash
  <2>3. RunTyped' /\ RowTyped' /\ RestTyped'
    BY <1>6 DEF Crash, Fault, runVars, rowVars, lineVars, RunTyped, RowTyped, RestTyped
  <2>4. QED
    BY <2>1, <2>2, <2>3
<1>7. QED
  BY <1>1, <1>2, <1>3, <1>4, <1>5, <1>6 DEF Environment, Failures

\* Every transaction of the notifier and of the dispatcher keeps the columns of
\* notification_runs and line_deliveries in their declared ranges.
THEOREM DeliveryTypeCorrect == Spec => []TypeOK
<1>1. Init => Typed
  BY DEF Init, Typed, LaneTyped, JobTyped, NotifierTyped, RunTyped, RowTyped, RestTyped, Reports, Lease
<1>2. Typed /\ [Next]_vars => Typed'
  <2>1. CASE Next
    BY <2>1, NotifierStepTyped, LaneStepTyped, EnvironmentTyped DEF Next
  <2>2. CASE UNCHANGED vars
    BY <2>2 DEF vars, runVars, notifierVars, rowVars, laneVars, lineVars, Typed, LaneTyped, JobTyped,
                NotifierTyped, RunTyped, RowTyped, RestTyped
  <2>3. QED
    BY <2>1, <2>2
<1>3. QED
  BY <1>1, <1>2, TypedIsTypeOK, PTL DEF Spec

-----------------------------------------------------------------------------
(* One message per delivery. *)

\* What makes one retry key enough: a run that still collects has published
\* nothing, an unpublished delivery is unknown to LINE and to every lane, LINE
\* knows a delivery by its stored key only, and who says "accepted" is right.
CollectingIsUnpublished ==
    \A d \in Delivery : occurrence[d[1]] = "COLLECTING" => status[d] = "absent"

UnpublishedIsUnknown ==
    /\ \A d \in Delivery : status[d] = "absent" => known[d] = {} /\ inbox[d] = 0
    /\ \A l \in Lane : pc[l] # "idle" => status[job[l]] # "absent"

KnownByItsKey ==
    \A d \in Delivery : /\ known[d] \subseteq {retryKey[d]}
                        /\ inbox[d] = IF known[d] = {} THEN 0 ELSE 1

AnswersAreTrue ==
    \A l \in Lane : pc[l] \in {"pushed", "finishing"} /\ answer[l] = "accepted" => inbox[job[l]] = 1

MessageInv ==
    /\ Typed
    /\ CollectingIsUnpublished
    /\ UnpublishedIsUnknown
    /\ KnownByItsKey
    /\ AnswersAreTrue
    /\ AcceptedWasReceived

\* What MessageInv says of a step that leaves deliveries, LINE and lanes alone.
LEMMA MessageInvFrame ==
    ASSUME MessageInv, Typed', UNCHANGED <<status, retryKey, known, inbox, pc, job, answer>>,
           \A o \in Occurrence : occurrence'[o] = "COLLECTING" => occurrence[o] = "COLLECTING"
    PROVE  MessageInv'
<1>1. \A d \in Delivery : d[1] \in Occurrence
  BY DEF Delivery
<1>2. CollectingIsUnpublished'
  BY <1>1 DEF MessageInv, CollectingIsUnpublished
<1>3. UnpublishedIsUnknown' /\ KnownByItsKey' /\ AnswersAreTrue' /\ AcceptedWasReceived'
  BY DEF MessageInv, UnpublishedIsUnknown, KnownByItsKey, AnswersAreTrue, AcceptedWasReceived
<1>4. QED
  BY <1>2, <1>3 DEF MessageInv

\* Lanes that return to idle with nothing written keep it, too.
LEMMA MessageInvIdle ==
    ASSUME MessageInv, Typed', NEW ls \in SUBSET Lane, LaneIdle(ls),
           UNCHANGED <<occurrence, status, retryKey, known, inbox>>
    PROVE  MessageInv'
<1> USE DEF MessageInv
<1>1. \A l \in Lane : pc'[l] # "idle" => pc'[l] = pc[l] /\ job'[l] = job[l] /\ answer'[l] = answer[l]
  BY DEF LaneIdle, Typed, LaneTyped
<1>2. UnpublishedIsUnknown' /\ AnswersAreTrue'
  BY <1>1 DEF UnpublishedIsUnknown, AnswersAreTrue
<1>3. CollectingIsUnpublished' /\ KnownByItsKey' /\ AcceptedWasReceived'
  BY DEF CollectingIsUnpublished, KnownByItsKey, AcceptedWasReceived
<1>4. QED
  BY <1>2, <1>3

\* Publish gives a fresh key only to deliveries that LINE has never seen: the
\* run is still collecting, so none of its deliveries was published before.
LEMMA PublishMessageInv ==
    ASSUME MessageInv, Typed', NEW p \in Proc, Publish(p) PROVE MessageInv'
<1> DEFINE new == {work[p]} \X (targets[p] \cap eligible)
<1> USE DEF MessageInv
<1>1. /\ status' = [d \in Delivery |-> IF d \in new THEN "PENDING" ELSE status[d]]
      /\ retryKey' = [d \in Delivery |-> IF d \in new THEN FreshKey(d) ELSE retryKey[d]]
      /\ occurrence' = [occurrence EXCEPT ![work[p]] = IF new = {} THEN "FAILED" ELSE "SENDING"]
      /\ UNCHANGED <<known, inbox, pc, job, answer>>
  BY DEF Publish, EndPreparation, laneVars, lineVars
<1>2. work[p] \in Occurrence /\ occurrence[work[p]] = "COLLECTING"
  BY DEF Publish, OwnsRun, Typed, NotifierTyped
<1>3. \A d \in new : d[1] = work[p]
  OBVIOUS
<1>4. \A d \in Delivery : d \in new => status[d] = "absent" /\ known[d] = {} /\ inbox[d] = 0
  BY <1>2, <1>3 DEF CollectingIsUnpublished, UnpublishedIsUnknown
<1>5. CollectingIsUnpublished'
  <2>1. ASSUME NEW d \in Delivery, occurrence'[d[1]] = "COLLECTING" PROVE status'[d] = "absent"
    <3>1. d[1] \in Occurrence /\ d[1] # work[p]
      BY <1>1, <1>2, <2>1 DEF Delivery, Typed, RunTyped
    <3>2. occurrence[d[1]] = "COLLECTING" /\ d \notin new
      BY <1>1, <1>3, <2>1, <3>1 DEF Typed, RunTyped
    <3>3. QED
      BY <1>1, <3>2 DEF CollectingIsUnpublished
  <2>2. QED
    BY <2>1 DEF CollectingIsUnpublished
<1>6. UnpublishedIsUnknown'
  <2>1. ASSUME NEW d \in Delivery, status'[d] = "absent" PROVE known'[d] = {} /\ inbox'[d] = 0
    BY <1>1, <2>1 DEF UnpublishedIsUnknown
  <2>2. ASSUME NEW l \in Lane, pc'[l] # "idle" PROVE status'[job'[l]] # "absent"
    BY <1>1, <2>2 DEF UnpublishedIsUnknown, Typed, LaneTyped, JobTyped
  <2>3. QED
    BY <2>1, <2>2 DEF UnpublishedIsUnknown
<1>7. KnownByItsKey'
  BY <1>1, <1>4 DEF KnownByItsKey
<1>8. AnswersAreTrue'
  BY <1>1 DEF AnswersAreTrue
<1>9. AcceptedWasReceived'
  BY <1>1 DEF AcceptedWasReceived
<1>10. QED
  BY <1>5, <1>6, <1>7, <1>8, <1>9

\* Push sends a second message for no key LINE knows, and every answer that
\* counts as accepted means the message is in the chat.
LEMMA PushMessageInv ==
    ASSUME MessageInv, Typed', NEW l \in Lane, Push(l) PROVE MessageInv'
<1> USE DEF MessageInv
<1> DEFINE d == job[l]
<1>1. PICK o \in Outcomes(retryKey[d] \in known[d]) :
         /\ answer' = [answer EXCEPT ![l] = Interpret(o[1])]
         /\ known' = [known EXCEPT ![d] = IF o[2] THEN @ \cup {retryKey[d]} ELSE @]
         /\ inbox' = [inbox EXCEPT ![d] = IF o[2] THEN @ + 1 ELSE @]
  BY DEF Push
<1>2. /\ pc[l] = "claimed" /\ pc' = [pc EXCEPT ![l] = "pushed"] /\ job' = job
      /\ UNCHANGED <<occurrence, status, retryKey>>
  BY DEF Push, runVars, rowVars
<1>3. d \in Delivery /\ status[d] # "absent"
  BY <1>2 DEF Typed, LaneTyped, JobTyped, UnpublishedIsUnknown
<1>4. /\ o[2] \in BOOLEAN
      /\ retryKey[d] \in known[d] => ~o[2]
      /\ Interpret(o[1]) = "accepted" => o[2] \/ retryKey[d] \in known[d]
  <2>1. (retryKey[d] \in known[d]) \in BOOLEAN
    OBVIOUS
  <2>2. QED
    BY <2>1, OutcomesTyped
<1>5. known[d] = {} \/ retryKey[d] \in known[d]
  BY <1>3 DEF KnownByItsKey
<1>6. known[d] = {} <=> inbox[d] = 0
  BY <1>3 DEF KnownByItsKey
<1>7. /\ known'[d] \subseteq {retryKey[d]}
      /\ inbox'[d] = IF known'[d] = {} THEN 0 ELSE 1
  <2>1. CASE o[2]
    <3>1. known[d] = {} /\ inbox[d] = 0
      BY <1>4, <1>5, <1>6, <2>1
    <3>2. known'[d] = {retryKey[d]} /\ inbox'[d] = 1
      BY <1>1, <1>3, <2>1, <3>1 DEF Typed, RestTyped
    <3>3. QED
      BY <3>2
  <2>2. CASE ~o[2]
    BY <1>1, <1>3, <2>2 DEF KnownByItsKey, Typed, RestTyped
  <2>3. QED
    BY <2>1, <2>2, <1>4
<1>8. Interpret(o[1]) = "accepted" => inbox'[d] = 1
  <2>1. ASSUME Interpret(o[1]) = "accepted" PROVE known'[d] # {}
    BY <1>1, <1>3, <1>4, <2>1 DEF Typed, RestTyped
  <2>2. QED
    BY <1>7, <2>1
<1>9. inbox[d] = 1 => inbox'[d] = 1
  <2>1. ASSUME inbox[d] = 1 PROVE known'[d] # {}
    BY <1>1, <1>3, <1>6, <2>1 DEF Typed, RestTyped
  <2>2. QED
    BY <1>7, <2>1
<1>10. \A e \in Delivery \ {d} : known'[e] = known[e] /\ inbox'[e] = inbox[e]
  BY <1>1 DEF Typed, RestTyped
<1>11. CollectingIsUnpublished'
  BY <1>2 DEF CollectingIsUnpublished
<1>12. UnpublishedIsUnknown'
  BY <1>2, <1>3, <1>10 DEF UnpublishedIsUnknown, Typed, LaneTyped
<1>13. KnownByItsKey'
  BY <1>2, <1>7, <1>10 DEF KnownByItsKey
<1>14. AnswersAreTrue'
  <2>1. ASSUME NEW m \in Lane, pc'[m] \in {"pushed", "finishing"}, answer'[m] = "accepted"
        PROVE  inbox'[job'[m]] = 1
    <3>1. CASE m = l
      BY <1>1, <1>2, <1>8, <2>1, <3>1 DEF Typed, LaneTyped
    <3>2. CASE m # l
      <4>1. inbox[job[m]] = 1 /\ job[m] \in Delivery
        BY <1>1, <1>2, <2>1, <3>2 DEF AnswersAreTrue, Typed, LaneTyped, JobTyped
      <4>2. QED
        BY <1>2, <1>9, <1>10, <4>1
    <3>3. QED
      BY <3>1, <3>2
  <2>2. QED
    BY <2>1 DEF AnswersAreTrue
<1>15. AcceptedWasReceived'
  BY <1>2, <1>9, <1>10 DEF AcceptedWasReceived
<1>16. QED
  BY <1>11, <1>12, <1>13, <1>14, <1>15

\* The database steps of a lane change a delivery that was published, and write
\* "accepted" only on a true answer.
LEMMA LaneMessageInv ==
    ASSUME MessageInv, Typed', NEW l \in Lane,
           Retry(l) \/ BeginAccept(l) \/ BeginFail(l) \/ Commit(l) \/ \E d \in Delivery : Claim(l, d)
    PROVE  MessageInv'
<1> USE DEF MessageInv
<1>1. ASSUME NEW d \in Delivery, Claim(l, d) PROVE MessageInv'
  <2>1. /\ status[d] # "absent" /\ status' = [status EXCEPT ![d] = "SENDING"]
        /\ pc' = [pc EXCEPT ![l] = "claimed"] /\ job' = [job EXCEPT ![l] = d]
        /\ UNCHANGED <<occurrence, retryKey, known, inbox, answer>>
    BY <1>1 DEF Claim, Undecided, runVars, lineVars
  <2>2. CollectingIsUnpublished'
    BY <2>1 DEF CollectingIsUnpublished, Typed, RowTyped
  <2>3. UnpublishedIsUnknown'
    BY <2>1 DEF UnpublishedIsUnknown, Typed, RowTyped, LaneTyped, JobTyped
  <2>4. KnownByItsKey' /\ AcceptedWasReceived'
    BY <2>1 DEF KnownByItsKey, AcceptedWasReceived, Typed, RowTyped
  <2>5. AnswersAreTrue'
    BY <2>1 DEF AnswersAreTrue, Typed, LaneTyped
  <2>6. QED
    BY <2>2, <2>3, <2>4, <2>5
<1>2. CASE Retry(l)
  <2>1. job[l] \in Delivery /\ status[job[l]] # "absent"
    BY <1>2 DEF Retry, Writes, UnpublishedIsUnknown, Typed, LaneTyped, JobTyped
  <2>2. PICK s \in {"UNCERTAIN", "RETRY_WAIT"} : status' = [status EXCEPT ![job[l]] = s]
    BY <1>2 DEF Retry
  <2>3. retryKey' = retryKey
    BY <1>2 DEF Retry, KeyOfRetry, Typed, RowTyped
  <2>4. UNCHANGED <<occurrence, known, inbox>> /\ LaneIdle({l})
    BY <1>2 DEF Retry, runVars, lineVars
  <2>5. \A m \in Lane : pc'[m] # "idle" => pc'[m] = pc[m] /\ job'[m] = job[m] /\ answer'[m] = answer[m]
    BY <2>4 DEF LaneIdle, Typed, LaneTyped
  <2>6. CollectingIsUnpublished'
    BY <2>1, <2>2, <2>4 DEF CollectingIsUnpublished, Typed, RowTyped
  <2>7. UnpublishedIsUnknown'
    BY <2>1, <2>2, <2>4, <2>5 DEF UnpublishedIsUnknown, Typed, RowTyped, LaneTyped, JobTyped
  <2>8. KnownByItsKey' /\ AcceptedWasReceived'
    BY <2>1, <2>2, <2>3, <2>4 DEF KnownByItsKey, AcceptedWasReceived, Typed, RowTyped
  <2>9. AnswersAreTrue'
    BY <2>4, <2>5 DEF AnswersAreTrue
  <2>10. QED
    BY <2>6, <2>7, <2>8, <2>9
<1>3. ASSUME NEW s, pc[l] = "pushed", Begin(l, s) PROVE MessageInv'
  <2>1. /\ pc' = [pc EXCEPT ![l] = "finishing"]
        /\ UNCHANGED <<occurrence, status, retryKey, known, inbox, job, answer>>
    BY <1>3 DEF Begin, runVars, rowVars, lineVars
  <2>2. UnpublishedIsUnknown' /\ AnswersAreTrue'
    BY <1>3, <2>1 DEF UnpublishedIsUnknown, AnswersAreTrue, Typed, LaneTyped
  <2>3. CollectingIsUnpublished' /\ KnownByItsKey' /\ AcceptedWasReceived'
    BY <2>1 DEF CollectingIsUnpublished, KnownByItsKey, AcceptedWasReceived
  <2>4. QED
    BY <2>2, <2>3
<1>4. CASE BeginAccept(l) \/ BeginFail(l)
  BY <1>3, <1>4 DEF BeginAccept, BeginFail, Writes
<1>5. CASE Commit(l)
  <2>1. job[l] \in Delivery /\ status[job[l]] # "absent"
    BY <1>5 DEF Commit, UnpublishedIsUnknown, Typed, LaneTyped, JobTyped
  <2>2. PICK s \in Decided : /\ status' = [status EXCEPT ![job[l]] = s]
                             /\ s = "ACCEPTED" => answer[l] = "accepted"
    BY <1>5 DEF Commit, Decided, Accepting
  <2>3. s = "ACCEPTED" => inbox[job[l]] = 1
    BY <1>5, <2>2 DEF Commit, AnswersAreTrue
  <2>4. UNCHANGED <<retryKey, known, inbox>> /\ LaneIdle({l})
    BY <1>5 DEF Commit, lineVars
  <2>5. \A m \in Lane : pc'[m] # "idle" => pc'[m] = pc[m] /\ job'[m] = job[m] /\ answer'[m] = answer[m]
    BY <2>4 DEF LaneIdle, Typed, LaneTyped
  <2>6. \A o \in Occurrence : occurrence'[o] = "COLLECTING" => occurrence[o] = "COLLECTING"
    BY <1>5 DEF Commit, Typed, LaneTyped, RunTyped, Ended
  <2>7. CollectingIsUnpublished'
    BY <2>1, <2>2, <2>6 DEF CollectingIsUnpublished, Delivery, Typed, RowTyped
  <2>8. UnpublishedIsUnknown'
    BY <2>1, <2>2, <2>4, <2>5 DEF UnpublishedIsUnknown, Decided, Typed, RowTyped, LaneTyped, JobTyped
  <2>9. KnownByItsKey' /\ AcceptedWasReceived'
    BY <2>1, <2>2, <2>3, <2>4 DEF KnownByItsKey, AcceptedWasReceived, Typed, RowTyped
  <2>10. AnswersAreTrue'
    BY <2>4, <2>5 DEF AnswersAreTrue
  <2>11. QED
    BY <2>7, <2>8, <2>9, <2>10
<1>6. QED
  BY <1>1, <1>2, <1>4, <1>5

\* MessageInv is an invariant: it holds of the empty outbox and every step of
\* the notifier, the dispatcher and their environment keeps it.
THEOREM MessageInvariance == Spec => []MessageInv
<1>1. Init => MessageInv
  <2>1. ASSUME Init PROVE Typed
    BY <2>1 DEF Init, Typed, LaneTyped, JobTyped, NotifierTyped, RunTyped, RowTyped, RestTyped, Reports, Lease
  <2>2. QED
    BY <2>1 DEF Init, MessageInv, CollectingIsUnpublished, UnpublishedIsUnknown, KnownByItsKey,
                AnswersAreTrue, AcceptedWasReceived
<1>2. MessageInv /\ [Next]_vars => MessageInv'
  <2> SUFFICES ASSUME MessageInv, [Next]_vars PROVE MessageInv'
    OBVIOUS
  <2>1. Typed'
    <3>1. CASE Next
      BY <3>1, NotifierStepTyped, LaneStepTyped, EnvironmentTyped DEF Next, MessageInv
    <3>2. CASE UNCHANGED vars
      BY <3>2 DEF vars, runVars, notifierVars, rowVars, laneVars, lineVars, MessageInv, Typed, LaneTyped,
                  JobTyped, NotifierTyped, RunTyped, RowTyped, RestTyped
    <3>3. QED
      BY <3>1, <3>2
  <2>2. ASSUME NEW p \in Proc, NEW o \in Occurrence, ClaimRun(p, o) PROVE MessageInv'
    BY <2>1, <2>2, MessageInvFrame DEF ClaimRun, rowVars, laneVars, lineVars
  <2>3. ASSUME NEW p \in Proc, Defer(p) \/ NotifierLost(p) PROVE MessageInv'
    BY <2>1, <2>3, MessageInvFrame DEF Defer, NotifierLost, EndPreparation, runVars, rowVars, laneVars, lineVars
  <2>4. ASSUME NEW p \in Proc, FailRun(p) PROVE MessageInv'
    <3>1. \A o \in Occurrence : occurrence'[o] = "COLLECTING" => occurrence[o] = "COLLECTING"
      BY <2>4 DEF FailRun, MessageInv, Typed, RunTyped
    <3>2. QED
      BY <2>1, <2>4, <3>1, MessageInvFrame DEF FailRun, EndPreparation, rowVars, laneVars, lineVars
  <2>5. ASSUME NEW p \in Proc, Publish(p) PROVE MessageInv'
    BY <2>1, <2>5, PublishMessageInv
  <2>6. ASSUME NEW l \in Lane, Dispatch(l) \/ \E d \in Delivery : Claim(l, d) PROVE MessageInv'
    <3>1. CASE Push(l)
      BY <2>1, <3>1, PushMessageInv
    <3>2. CASE Lost(l)
      BY <2>1, <3>2, MessageInvIdle DEF Lost, runVars, rowVars, lineVars
    <3>3. QED
      BY <2>1, <2>6, <3>1, <3>2, LaneMessageInv DEF Dispatch
  <2>7. CASE Environment
    <3>1. ASSUME NEW o \in Occurrence, ReportFails(o) PROVE MessageInv'
      <4>1. \A x \in Occurrence : occurrence'[x] = "COLLECTING" => occurrence[x] = "COLLECTING"
        BY <3>1 DEF ReportFails, MessageInv, Typed, RunTyped
      <4>2. QED
        BY <2>1, <3>1, <4>1, MessageInvFrame DEF ReportFails, rowVars, laneVars, lineVars
    <3>2. ASSUME NEW o \in Occurrence, ReportsEnd(o) \/ SnapshotExpires(o) \/ RunDue(o) PROVE MessageInv'
      BY <2>1, <3>2, MessageInvFrame DEF ReportsEnd, SnapshotExpires, RunDue, runVars, rowVars, laneVars, lineVars
    <3>3. ASSUME NEW r \in Recipient, SetEligible(r) PROVE MessageInv'
      BY <2>1, <3>3, MessageInvFrame DEF SetEligible, runVars, rowVars, laneVars, lineVars
    <3>4. ASSUME NEW d \in Delivery, DeliveryDue(d) PROVE MessageInv'
      BY <2>1, <3>4, MessageInvFrame DEF DeliveryDue, runVars, laneVars, lineVars
    <3>5. QED
      BY <2>7, <3>1, <3>2, <3>3, <3>4 DEF Environment
  <2>8. CASE Failures
    <3>1. ASSUME NEW o \in Occurrence, RunLeaseLapses(o) PROVE MessageInv'
      BY <2>1, <3>1, MessageInvFrame DEF RunLeaseLapses, rowVars, laneVars, lineVars
    <3>2. ASSUME NEW d \in Delivery, LeaseLapses(d) PROVE MessageInv'
      BY <2>1, <3>2, MessageInvFrame DEF LeaseLapses, runVars, laneVars, lineVars
    <3>3. ASSUME NEW l \in Lane, AbandonDelivery(l) PROVE MessageInv'
      BY <2>1, <3>3, MessageInvIdle DEF AbandonDelivery, runVars, rowVars, lineVars
    <3>4. ASSUME NEW p \in Proc, AbandonRun(p) PROVE MessageInv'
      BY <2>1, <3>4, MessageInvFrame DEF AbandonRun, runVars, rowVars, laneVars, lineVars
    <3>5. ASSUME NEW p \in Proc, Crash(p) PROVE MessageInv'
      BY <2>1, <3>5, MessageInvIdle DEF Crash, runVars, rowVars, lineVars
    <3>6. QED
      BY <2>8, <3>1, <3>2, <3>3, <3>4, <3>5 DEF Failures
  <2>9. CASE UNCHANGED vars
    BY <2>1, <2>9, MessageInvFrame DEF vars, runVars, rowVars, laneVars, lineVars
  <2>10. QED
    BY <2>2, <2>3, <2>4, <2>5, <2>6, <2>7, <2>8, <2>9 DEF Next, Notify
<1>3. QED
  BY <1>1, <1>2, PTL DEF Spec

\* No recipient gets the message of an occurrence twice, whatever crashes, lost
\* answers and claims by several lanes do (Publish, Claim, Push).
THEOREM MessageSentOnce == Spec => []NoDuplicateMessage
<1>1. MessageInv => NoDuplicateMessage
  BY DEF MessageInv, KnownByItsKey, NoDuplicateMessage
<1>2. QED
  BY <1>1, MessageInvariance, PTL

\* What line_deliveries calls ACCEPTED has reached the chat (Push, Accept).
THEOREM AcceptanceIsTrue == Spec => []AcceptedWasReceived
<1>1. MessageInv => AcceptedWasReceived
  BY DEF MessageInv
<1>2. QED
  BY <1>1, MessageInvariance, PTL

-----------------------------------------------------------------------------
(* The end of a notification run. *)

\* What the transaction of a finishing lane will write to its delivery.
OutcomeOf(l) == IF Accepting(l) THEN "ACCEPTED" ELSE "FAILED_PERMANENT"

\* A lane that has counted still holds the row it counted for, alone.
FinishersHoldTheirRow ==
    /\ \A l \in Lane : pc[l] = "finishing" => status[job[l]] = "SENDING"
    /\ \A l, m \in Lane : pc[l] = "finishing" /\ pc[m] = "finishing" /\ job[l] = job[m] => l = m

\* The count may have grown stale in one way only: it says "open", and the
\* delivery that kept the run open has been decided since.
VerdictIsTrue ==
    \A l \in Lane : pc[l] = "finishing" => verdict[l] \in {"open", Count(l, OutcomeOf(l))}

AcceptedDeliveries == {d \in Delivery : status[d] = "ACCEPTED"}

SettledInv ==
    /\ FinishersHoldTheirRow
    /\ VerdictIsTrue
    /\ FinalStatusAgrees
    /\ IsFiniteSet(AcceptedDeliveries)
    /\ QuotaCountsAccepted

\* finalizeNotificationRun reads the run's other deliveries, and nothing else.
LEMMA CountReadsTheOthers ==
    ASSUME NEW l \in Lane, NEW s, job'[l] = job[l],
           \A d \in Of(job[l][1]) \ {job[l]} : status'[d] = status[d]
    PROVE  Count(l, s)' = Count(l, s)
<1> DEFINE others == Of(job[l][1]) \ {job[l]}
<1>1. {status'[d] : d \in others} = {status[d] : d \in others}
  OBVIOUS
<1>2. (Of(job[l][1]) \ {job[l]})' = others
  BY DEF Of
<1>3. QED
  BY <1>1, <1>2 DEF Count, FinalStatus, Undecided, Of

\* It closes the run only when every other delivery is decided, and then with
\* the final status of their outcomes and its own.
LEMMA ClosingCount ==
    ASSUME NEW l \in Lane, NEW s \in Decided, Count(l, s) # "open"
    PROVE  LET ss == ({s} \cup {status[d] : d \in Of(job[l][1]) \ {job[l]}}) \ {"absent"}
           IN  ss \cap Undecided = {} /\ Count(l, s) = FinalStatus(ss)
BY DEF Count

\* Only the count of a delivery can be a final status.
LEMMA OpenIsNotFinal ==
    ASSUME NEW ss PROVE FinalStatus(ss) # "open" /\ FinalStatus(ss) \in Ended
BY DEF FinalStatus, Ended

\* A run's final status speaks of that run's deliveries only.
LEMMA FinalStatusFrame ==
    ASSUME NEW o \in Occurrence, occurrence'[o] = occurrence[o],
           \A d \in Of(o) : status'[d] = status[d],
           FinalStatusAgrees, occurrence'[o] \in Ended
    PROVE  LET ss == {status'[d] : d \in Of(o)} \ {"absent"} IN
           /\ ss \cap Undecided = {}
           /\ occurrence'[o] = "COMPLETED" <=> ss = {"ACCEPTED"}
           /\ occurrence'[o] = "PARTIAL_FAILED" <=> ss = Decided
<1>1. {status'[d] : d \in Of(o)} = {status[d] : d \in Of(o)}
  OBVIOUS
<1>2. QED
  BY <1>1 DEF FinalStatusAgrees

\* A run that has ended has no delivery in flight, and a lane that has counted
\* works for a run that is sending.
LEMMA EndedIsDecided ==
    ASSUME MessageInv, SettledInv
    PROVE  /\ \A d \in Delivery : occurrence[d[1]] \in Ended => status[d] \notin Undecided
           /\ \A d \in Delivery : status[d] \in Undecided => occurrence[d[1]] = "SENDING"
           /\ \A l \in Lane : pc[l] = "finishing" =>
                 /\ job[l] \in Delivery /\ job[l][1] \in Occurrence
                 /\ occurrence[job[l][1]] = "SENDING"
<1>1. ASSUME NEW d \in Delivery, occurrence[d[1]] \in Ended PROVE status[d] \notin Undecided
  <2>1. d[1] \in Occurrence /\ d \in Of(d[1])
    BY DEF Delivery, Of
  <2>2. ({status[e] : e \in Of(d[1])} \ {"absent"}) \cap Undecided = {}
    BY <1>1, <2>1 DEF SettledInv, FinalStatusAgrees
  <2>3. "absent" \notin Undecided
    BY DEF Undecided
  <2>4. QED
    BY <2>1, <2>2, <2>3
<1>2. ASSUME NEW d \in Delivery, status[d] \in Undecided PROVE occurrence[d[1]] = "SENDING"
  <2>1. d[1] \in Occurrence /\ status[d] # "absent"
    BY <1>2 DEF Delivery, Undecided
  <2>2. occurrence[d[1]] # "COLLECTING" /\ occurrence[d[1]] \notin Ended
    BY <1>1, <1>2, <2>1 DEF MessageInv, CollectingIsUnpublished
  <2>3. QED
    BY <2>1, <2>2 DEF MessageInv, Typed, RunTyped
<1>3. ASSUME NEW l \in Lane, pc[l] = "finishing"
      PROVE  job[l] \in Delivery /\ job[l][1] \in Occurrence /\ occurrence[job[l][1]] = "SENDING"
  <2>1. job[l] \in Delivery
    BY <1>3 DEF MessageInv, Typed, LaneTyped, JobTyped
  <2>2. status[job[l]] \in Undecided
    BY <1>3 DEF SettledInv, FinishersHoldTheirRow, Undecided
  <2>3. QED
    BY <1>2, <2>1, <2>2 DEF Delivery
<1>4. QED
  BY <1>1, <1>2, <1>3

\* Claims, retries, pushes and lanes that stop change no verdict: they leave
\* alone what is decided and what a finishing lane holds.
LEMMA WorkKeepsSettled ==
    ASSUME MessageInv, SettledInv, UNCHANGED <<occurrence, locallyAccepted>>,
           \A d \in Delivery : \/ status'[d] = status[d]
                               \/ status[d] \in Undecided /\ status'[d] \in Undecided /\ ~Finishing(d),
           \A m \in Lane : pc'[m] = "finishing" =>
               /\ pc[m] = "finishing" /\ job'[m] = job[m]
               /\ answer'[m] = answer[m] /\ verdict'[m] = verdict[m]
    PROVE  SettledInv'
<1> USE DEF SettledInv
<1>1. FinishersHoldTheirRow'
  BY EndedIsDecided DEF FinishersHoldTheirRow, Finishing
<1>2. VerdictIsTrue'
  <2>1. ASSUME NEW m \in Lane, pc'[m] = "finishing", verdict'[m] # "open"
        PROVE  verdict'[m] = Count(m, OutcomeOf(m))'
    <3>1. /\ pc[m] = "finishing" /\ job'[m] = job[m] /\ OutcomeOf(m)' = OutcomeOf(m)
          /\ verdict[m] # "open" /\ verdict'[m] = Count(m, OutcomeOf(m))
          /\ OutcomeOf(m) \in Decided
      BY <2>1 DEF VerdictIsTrue, OutcomeOf, Accepting, Decided
    <3>2. \A d \in Of(job[m][1]) \ {job[m]} : d \in Delivery
      BY <3>1, EndedIsDecided DEF Of, Delivery
    <3>3. \A d \in Of(job[m][1]) \ {job[m]} : status[d] \notin Undecided
      <4>1. (({OutcomeOf(m)} \cup {status[d] : d \in Of(job[m][1]) \ {job[m]}}) \ {"absent"}) \cap Undecided = {}
        BY <2>1, <3>1, ClosingCount
      <4>2. "absent" \notin Undecided
        BY DEF Undecided
      <4>3. QED
        BY <4>1, <4>2
    <3>4. \A d \in Of(job[m][1]) \ {job[m]} : status'[d] = status[d]
      BY <3>2, <3>3
    <3>5. Count(m, OutcomeOf(m))' = Count(m, OutcomeOf(m))
      BY <3>1, <3>4, CountReadsTheOthers
    <3>6. QED
      BY <3>1, <3>5
  <2>2. QED
    BY <2>1 DEF VerdictIsTrue
<1>3. FinalStatusAgrees'
  <2>1. ASSUME NEW o \in Occurrence, occurrence'[o] \in Ended
        PROVE  \A d \in Of(o) : status'[d] = status[d]
    BY <2>1, EndedIsDecided DEF Of, Delivery
  <2>2. QED
    BY <2>1, FinalStatusFrame DEF FinalStatusAgrees, Of
<1>4. AcceptedDeliveries' = AcceptedDeliveries
  BY DEF AcceptedDeliveries, Undecided
<1>5. IsFiniteSet(AcceptedDeliveries)' /\ QuotaCountsAccepted'
  BY <1>4 DEF QuotaCountsAccepted, AcceptedDeliveries
<1>6. QED
  BY <1>1, <1>2, <1>3, <1>5

\* Publish, Fail and a failed report touch a run that is still collecting, so no
\* lane has counted its deliveries and none of them was decided.
LEMMA ClosingKeepsSettled ==
    ASSUME MessageInv, SettledInv, UNCHANGED <<pc, job, answer, verdict, locallyAccepted>>,
           NEW o \in Occurrence, occurrence[o] = "COLLECTING", occurrence'[o] \in {"FAILED", "SENDING"},
           \A x \in Occurrence \ {o} : occurrence'[x] = occurrence[x],
           \A d \in Delivery : \/ status'[d] = status[d]
                               \/ d[1] = o /\ status'[d] = "PENDING" /\ occurrence'[o] = "SENDING"
    PROVE  SettledInv'
<1> USE DEF SettledInv
<1>1. \A m \in Lane : pc[m] = "finishing" => job[m] \in Delivery /\ job[m][1] \in Occurrence \ {o}
  BY EndedIsDecided
<1>2. FinishersHoldTheirRow'
  BY <1>1 DEF FinishersHoldTheirRow
<1>3. VerdictIsTrue'
  <2>1. ASSUME NEW m \in Lane, pc[m] = "finishing"
        PROVE  Count(m, OutcomeOf(m))' = Count(m, OutcomeOf(m))
    <3>1. OutcomeOf(m)' = OutcomeOf(m)
      BY DEF OutcomeOf, Accepting
    <3>2. \A d \in Of(job[m][1]) \ {job[m]} : status'[d] = status[d]
      BY <1>1, <2>1 DEF Of, Delivery
    <3>3. QED
      BY <3>1, <3>2, CountReadsTheOthers
  <2>2. QED
    BY <2>1 DEF VerdictIsTrue
<1>4. FinalStatusAgrees'
  <2>1. ASSUME NEW x \in Occurrence, occurrence'[x] \in Ended
        PROVE  LET ss == {status'[d] : d \in Of(x)} \ {"absent"} IN
               /\ ss \cap Undecided = {}
               /\ occurrence'[x] = "COMPLETED" <=> ss = {"ACCEPTED"}
               /\ occurrence'[x] = "PARTIAL_FAILED" <=> ss = Decided
    <3>1. CASE x = o
      <4>1. occurrence'[o] = "FAILED"
        BY <2>1, <3>1 DEF Ended
      <4>2. \A d \in Of(o) : status'[d] = "absent"
        BY <4>1 DEF MessageInv, CollectingIsUnpublished, Of, Delivery
      <4>3. {status'[d] : d \in Of(o)} \ {"absent"} = {}
        BY <4>2
      <4>4. QED
        BY <3>1, <4>1, <4>3 DEF Decided
    <3>2. CASE x # o
      <4>1. \A d \in Of(x) : d \in Delivery /\ status'[d] = status[d]
        BY <3>2 DEF Of, Delivery
      <4>2. QED
        BY <2>1, <3>2, <4>1, FinalStatusFrame
    <3>3. QED
      BY <3>1, <3>2
  <2>2. QED
    BY <2>1 DEF FinalStatusAgrees, Of
<1>5. AcceptedDeliveries' = AcceptedDeliveries
  BY DEF AcceptedDeliveries, MessageInv, CollectingIsUnpublished
<1>6. IsFiniteSet(AcceptedDeliveries)' /\ QuotaCountsAccepted'
  BY <1>5 DEF QuotaCountsAccepted, AcceptedDeliveries
<1>7. QED
  BY <1>2, <1>3, <1>4, <1>6

\* Accept and Fail up to their count: the row is held, by no one else.
LEMMA BeginKeepsSettled ==
    ASSUME MessageInv, SettledInv, NEW l \in Lane, BeginAccept(l) \/ BeginFail(l)
    PROVE  SettledInv'
<1> USE DEF SettledInv
<1>1. PICK s \in Decided : /\ Begin(l, s) /\ pc[l] = "pushed" /\ Held(l) /\ ~Finishing(job[l])
                           /\ s = "ACCEPTED" <=> answer[l] = "accepted"
  <2>1. CASE BeginAccept(l)
    BY <2>1 DEF BeginAccept, Writes, Decided
  <2>2. CASE BeginFail(l)
    BY <2>2 DEF BeginFail, Writes, Decided
  <2>3. QED
    BY <2>1, <2>2
<1>2. /\ pc' = [pc EXCEPT ![l] = "finishing"] /\ verdict' = [verdict EXCEPT ![l] = Count(l, s)]
      /\ UNCHANGED <<occurrence, status, job, answer, locallyAccepted>>
  BY <1>1 DEF Begin, runVars, rowVars
<1>3. pc'[l] = "finishing" /\ verdict'[l] = Count(l, s)
  BY <1>2 DEF MessageInv, Typed, LaneTyped
<1>4. \A m \in Lane \ {l} : pc'[m] = pc[m] /\ verdict'[m] = verdict[m]
  BY <1>2 DEF MessageInv, Typed, LaneTyped
<1>5. status[job[l]] = "SENDING" /\ \A m \in Lane : pc[m] = "finishing" => job[m] # job[l]
  BY <1>1 DEF Held, Finishing
<1>6. FinishersHoldTheirRow'
  BY <1>2, <1>3, <1>4, <1>5 DEF FinishersHoldTheirRow
<1>7. OutcomeOf(l)' = s
  BY <1>1, <1>2, <1>3 DEF OutcomeOf, Accepting, Decided
<1>8. \A m \in Lane \ {l} : OutcomeOf(m)' = OutcomeOf(m)
  BY <1>2, <1>4 DEF OutcomeOf, Accepting
<1>9. VerdictIsTrue'
  <2>1. Count(l, OutcomeOf(l))' = verdict'[l]
    BY <1>2, <1>3, <1>7 DEF Count, Of
  <2>2. ASSUME NEW m \in Lane \ {l}, pc'[m] = "finishing"
        PROVE  verdict'[m] \in {"open", Count(m, OutcomeOf(m))'}
    <3>1. Count(m, OutcomeOf(m))' = Count(m, OutcomeOf(m))
      BY <1>2, <1>8 DEF Count, Of
    <3>2. QED
      BY <1>4, <2>2, <3>1 DEF VerdictIsTrue
  <2>3. QED
    BY <2>1, <2>2 DEF VerdictIsTrue
<1>10. FinalStatusAgrees' /\ IsFiniteSet(AcceptedDeliveries)' /\ QuotaCountsAccepted'
  BY <1>2 DEF FinalStatusAgrees, AcceptedDeliveries, QuotaCountsAccepted
<1>11. QED
  BY <1>6, <1>9, <1>10

\* Commit: the delivery was undecided, so it is counted for the first time; when
\* the verdict closes the run, it is the status of the outcomes now recorded.
LEMMA CommitKeepsSettled ==
    ASSUME MessageInv, SettledInv, NEW l \in Lane, Commit(l)
    PROVE  SettledInv'
<1> DEFINE d == job[l]
           o == job[l][1]
           s == OutcomeOf(l)
<1> USE DEF SettledInv
<1>1. /\ pc[l] = "finishing" /\ status' = [status EXCEPT ![d] = s] /\ LaneIdle({l})
      /\ occurrence' = [occurrence EXCEPT ![o] = IF verdict[l] = "open" THEN @ ELSE verdict[l]]
      /\ locallyAccepted' = locallyAccepted + (IF Accepting(l) THEN 1 ELSE 0)
  BY DEF Commit, OutcomeOf
<1>2. d \in Delivery /\ o \in Occurrence /\ occurrence[o] = "SENDING" /\ d \in Of(o)
  BY <1>1, EndedIsDecided DEF Of, Delivery
<1>3. status[d] = "SENDING"
  BY <1>1 DEF FinishersHoldTheirRow
<1>4. s \in Decided /\ (s = "ACCEPTED" <=> Accepting(l))
  BY DEF OutcomeOf, Decided
<1>5. status'[d] = s /\ \A e \in Delivery \ {d} : status'[e] = status[e]
  BY <1>1, <1>2 DEF MessageInv, Typed, RowTyped
<1>6. /\ occurrence'[o] = IF verdict[l] = "open" THEN "SENDING" ELSE verdict[l]
      /\ \A x \in Occurrence \ {o} : occurrence'[x] = occurrence[x]
  BY <1>1, <1>2 DEF MessageInv, Typed, RunTyped
<1>7. \A m \in Lane : pc'[m] = "finishing" =>
         /\ m # l /\ pc[m] = "finishing" /\ job'[m] = job[m] /\ job[m] # d /\ verdict'[m] = verdict[m]
         /\ OutcomeOf(m)' = OutcomeOf(m)
  BY <1>1 DEF LaneIdle, FinishersHoldTheirRow, OutcomeOf, Accepting
<1>8. FinishersHoldTheirRow'
  BY <1>5, <1>7, EndedIsDecided DEF FinishersHoldTheirRow
<1>9. VerdictIsTrue'
  <2>1. ASSUME NEW m \in Lane, pc'[m] = "finishing"
        PROVE  verdict'[m] \in {"open", Count(m, OutcomeOf(m))'}
    <3>1. CASE job[m][1] = o
      <4>1. d \in Of(job[m][1]) \ {job[m]}
        BY <1>2, <1>7, <2>1, <3>1
      <4>2. "SENDING" \in ({OutcomeOf(m)} \cup {status[e] : e \in Of(job[m][1]) \ {job[m]}}) \ {"absent"}
        BY <1>3, <4>1
      <4>3. Count(m, OutcomeOf(m)) = "open"
        BY <4>2 DEF Count, Undecided
      <4>4. QED
        BY <1>7, <2>1, <4>3 DEF VerdictIsTrue
    <3>2. CASE job[m][1] # o
      <4>1. \A e \in Of(job[m][1]) \ {job[m]} : status'[e] = status[e]
        BY <1>5, <1>7, <2>1, <3>2, EndedIsDecided DEF Of, Delivery
      <4>2. Count(m, OutcomeOf(m))' = Count(m, OutcomeOf(m))
        BY <1>7, <2>1, <4>1, CountReadsTheOthers
      <4>3. QED
        BY <1>7, <2>1, <4>2 DEF VerdictIsTrue
    <3>3. QED
      BY <3>1, <3>2
  <2>2. QED
    BY <2>1 DEF VerdictIsTrue
<1>10. FinalStatusAgrees'
  <2>1. ASSUME NEW x \in Occurrence, occurrence'[x] \in Ended
        PROVE  LET ss == {status'[e] : e \in Of(x)} \ {"absent"} IN
               /\ ss \cap Undecided = {}
               /\ occurrence'[x] = "COMPLETED" <=> ss = {"ACCEPTED"}
               /\ occurrence'[x] = "PARTIAL_FAILED" <=> ss = Decided
    <3>1. CASE x # o
      <4>1. \A e \in Of(x) : status'[e] = status[e]
        BY <1>2, <1>5, <3>1 DEF Of, Delivery
      <4>2. QED
        BY <1>6, <2>1, <3>1, <4>1, FinalStatusFrame
    <3>2. CASE x = o
      <4> DEFINE before == ({s} \cup {status[e] : e \in Of(o) \ {d}}) \ {"absent"}
                 after  == {status'[e] : e \in Of(o)} \ {"absent"}
      <4>1. verdict[l] # "open" /\ occurrence'[o] = Count(l, s) /\ Count(l, s) # "open"
        BY <1>1, <1>6, <2>1, <3>2 DEF VerdictIsTrue, Ended
      <4>2. before \cap Undecided = {} /\ Count(l, s) = FinalStatus(before)
        BY <1>4, <4>1, ClosingCount
      <4>3. after = before
        BY <1>2, <1>5 DEF Of, Delivery
      <4>4. after \subseteq Decided /\ after # {}
        <5>1. s \in before
          BY <1>4 DEF Decided
        <5>2. \A e \in Of(o) \ {d} : status[e] \in {"absent"} \cup Undecided \cup Decided
          BY <1>2 DEF Of, Delivery, MessageInv, Typed, RowTyped
        <5>3. before \subseteq Decided
          BY <1>4, <4>2, <5>2
        <5>4. QED
          BY <4>3, <5>1, <5>3
      <4>5. occurrence'[o] = FinalStatus(after) /\ after \cap Undecided = {}
        BY <4>1, <4>2, <4>3
      <4> HIDE DEF before, after
      <4>6. /\ FinalStatus(after) = "COMPLETED" <=> after = {"ACCEPTED"}
            /\ FinalStatus(after) = "PARTIAL_FAILED" <=> after = Decided
        BY <4>4 DEF FinalStatus, Decided
      <4>7. QED
        BY <3>2, <4>5, <4>6 DEF after
    <3>3. QED
      BY <3>1, <3>2
  <2>2. QED
    BY <2>1 DEF FinalStatusAgrees, Of
<1>11. IsFiniteSet(AcceptedDeliveries)' /\ QuotaCountsAccepted'
  <2>1. d \notin AcceptedDeliveries
    BY <1>3 DEF AcceptedDeliveries
  <2>2. locallyAccepted = Cardinality(AcceptedDeliveries)
    BY DEF QuotaCountsAccepted, AcceptedDeliveries
  <2>3. CASE Accepting(l)
    <3>1. AcceptedDeliveries' = AcceptedDeliveries \cup {d}
      BY <1>2, <1>4, <1>5, <2>3 DEF AcceptedDeliveries, Delivery
    <3>2. /\ IsFiniteSet(AcceptedDeliveries \cup {d})
          /\ Cardinality(AcceptedDeliveries \cup {d}) = Cardinality(AcceptedDeliveries) + 1
      BY <2>1, FS_AddElement
    <3>3. QED
      BY <1>1, <2>2, <2>3, <3>1, <3>2 DEF QuotaCountsAccepted, AcceptedDeliveries
  <2>4. CASE ~Accepting(l)
    <3>1. AcceptedDeliveries' = AcceptedDeliveries
      BY <1>4, <1>5, <2>1, <2>4 DEF AcceptedDeliveries, Delivery
    <3>2. locallyAccepted' = locallyAccepted
      BY <1>1, <2>4 DEF MessageInv, Typed, RestTyped
    <3>3. QED
      BY <2>2, <3>1, <3>2 DEF QuotaCountsAccepted, AcceptedDeliveries
  <2>5. QED
    BY <2>3, <2>4
<1>12. QED
  BY <1>8, <1>9, <1>10, <1>11

\* Publish, the failures of a notification run and a failed report close runs
\* that collect; nothing else but Commit writes notification_runs.status.
LEMMA RunWritesKeepSettled ==
    ASSUME MessageInv, SettledInv,
           \/ \E p \in Proc : FailRun(p) \/ Publish(p)
           \/ \E o \in Occurrence : ReportFails(o)
    PROVE  SettledInv'
<1> USE DEF MessageInv
<1>1. ASSUME NEW p \in Proc, FailRun(p) PROVE SettledInv'
  <2>1. /\ work[p] \in Occurrence /\ occurrence[work[p]] = "COLLECTING"
        /\ occurrence' = [occurrence EXCEPT ![work[p]] = "FAILED"]
        /\ UNCHANGED <<status, pc, job, answer, verdict, locallyAccepted>>
    BY <1>1 DEF FailRun, OwnsRun, EndPreparation, rowVars, laneVars, Typed, NotifierTyped
  <2>2. /\ occurrence'[work[p]] = "FAILED"
        /\ \A x \in Occurrence \ {work[p]} : occurrence'[x] = occurrence[x]
    BY <2>1 DEF Typed, RunTyped
  <2>3. QED
    BY <2>1, <2>2, ClosingKeepsSettled
<1>2. ASSUME NEW p \in Proc, Publish(p) PROVE SettledInv'
  <2> DEFINE new == {work[p]} \X (targets[p] \cap eligible)
  <2>1. /\ work[p] \in Occurrence /\ occurrence[work[p]] = "COLLECTING"
        /\ occurrence' = [occurrence EXCEPT ![work[p]] = IF new = {} THEN "FAILED" ELSE "SENDING"]
        /\ status' = [d \in Delivery |-> IF d \in new THEN "PENDING" ELSE status[d]]
        /\ UNCHANGED <<pc, job, answer, verdict, locallyAccepted>>
    BY <1>2 DEF Publish, OwnsRun, EndPreparation, laneVars, Typed, NotifierTyped
  <2>2. /\ occurrence'[work[p]] = IF new = {} THEN "FAILED" ELSE "SENDING"
        /\ \A x \in Occurrence \ {work[p]} : occurrence'[x] = occurrence[x]
    BY <2>1 DEF Typed, RunTyped
  <2>3. \A d \in new : d[1] = work[p]
    OBVIOUS
  <2>4. \A d \in Delivery : \/ status'[d] = status[d]
                            \/ d[1] = work[p] /\ status'[d] = "PENDING" /\ occurrence'[work[p]] = "SENDING"
    BY <2>1, <2>2, <2>3
  <2>5. QED
    BY <2>1, <2>2, <2>4, ClosingKeepsSettled
<1>3. ASSUME NEW o \in Occurrence, ReportFails(o) PROVE SettledInv'
  <2>1. UNCHANGED <<status, pc, job, answer, verdict, locallyAccepted>>
    BY <1>3 DEF ReportFails, rowVars, laneVars
  <2>2. CASE occurrence[o] = "COLLECTING"
    <3>1. occurrence'[o] = "FAILED" /\ \A x \in Occurrence \ {o} : occurrence'[x] = occurrence[x]
      BY <1>3, <2>2 DEF ReportFails, Typed, RunTyped
    <3>2. QED
      BY <2>1, <2>2, <3>1, ClosingKeepsSettled
  <2>3. CASE occurrence[o] # "COLLECTING"
    <3>1. occurrence' = occurrence
      BY <1>3, <2>3 DEF ReportFails, Typed, RunTyped
    <3>2. QED
      BY <2>1, <3>1, WorkKeepsSettled
  <2>4. QED
    BY <2>2, <2>3
<1>4. QED
  BY <1>1, <1>2, <1>3

\* Claim and Retry move undecided deliveries that no lane is finishing; the rest
\* of a lane's steps but its two last ones leave the rows alone.
LEMMA LaneWorkKeepsSettled ==
    ASSUME MessageInv, SettledInv, NEW l \in Lane,
           Push(l) \/ Retry(l) \/ Lost(l) \/ \E d \in Delivery : Claim(l, d)
    PROVE  SettledInv'
<1> USE DEF MessageInv
<1>1. ASSUME NEW d \in Delivery, Claim(l, d) PROVE SettledInv'
  <2>1. /\ status[d] \in Undecided /\ ~Finishing(d) /\ status' = [status EXCEPT ![d] = "SENDING"]
        /\ pc' = [pc EXCEPT ![l] = "claimed"] /\ job' = [job EXCEPT ![l] = d]
        /\ UNCHANGED <<occurrence, answer, verdict, locallyAccepted>>
    BY <1>1 DEF Claim, runVars
  <2>2. status'[d] \in Undecided /\ \A e \in Delivery \ {d} : status'[e] = status[e]
    BY <2>1 DEF Typed, RowTyped, Undecided
  <2>3. \A m \in Lane : pc'[m] = "finishing" => pc[m] = "finishing" /\ job'[m] = job[m]
    BY <2>1 DEF Typed, LaneTyped
  <2>4. QED
    BY <2>1, <2>2, <2>3, WorkKeepsSettled
<1>2. CASE Push(l)
  <2>1. /\ pc' = [pc EXCEPT ![l] = "pushed"] /\ \E a : answer' = [answer EXCEPT ![l] = a]
        /\ UNCHANGED <<occurrence, status, job, verdict, locallyAccepted>>
    BY <1>2 DEF Push, runVars, rowVars
  <2>2. \A m \in Lane : pc'[m] = "finishing" => pc[m] = "finishing" /\ answer'[m] = answer[m]
    BY <2>1 DEF Typed, LaneTyped
  <2>3. QED
    BY <2>1, <2>2, WorkKeepsSettled
<1>3. CASE Retry(l)
  <2>1. /\ job[l] \in Delivery /\ status[job[l]] = "SENDING" /\ ~Finishing(job[l]) /\ LaneIdle({l})
        /\ UNCHANGED <<occurrence, locallyAccepted>>
    BY <1>3 DEF Retry, Writes, Held, runVars, Typed, LaneTyped, JobTyped
  <2>2. PICK s \in {"UNCERTAIN", "RETRY_WAIT"} : status' = [status EXCEPT ![job[l]] = s]
    BY <1>3 DEF Retry
  <2>3. /\ status[job[l]] \in Undecided /\ status'[job[l]] \in Undecided
        /\ \A e \in Delivery \ {job[l]} : status'[e] = status[e]
    BY <2>1, <2>2 DEF Typed, RowTyped, Undecided
  <2>4. \A m \in Lane : pc'[m] = "finishing" =>
           pc[m] = "finishing" /\ job'[m] = job[m] /\ answer'[m] = answer[m] /\ verdict'[m] = verdict[m]
    BY <2>1 DEF LaneIdle
  <2>5. QED
    BY <2>1, <2>3, <2>4, WorkKeepsSettled
<1>4. CASE Lost(l)
  <2>1. LaneIdle({l}) /\ UNCHANGED <<occurrence, status, locallyAccepted>>
    BY <1>4 DEF Lost, runVars, rowVars
  <2>2. \A m \in Lane : pc'[m] = "finishing" =>
           pc[m] = "finishing" /\ job'[m] = job[m] /\ answer'[m] = answer[m] /\ verdict'[m] = verdict[m]
    BY <2>1 DEF LaneIdle
  <2>3. QED
    BY <2>1, <2>2, WorkKeepsSettled
<1>5. QED
  BY <1>1, <1>2, <1>3, <1>4

\* A step that writes neither a run's status nor a delivery's, and at most makes
\* lanes idle: the clock, the administrators, the other claims and the faults.
Quiet ==
    /\ UNCHANGED <<occurrence, status, locallyAccepted>>
    /\ \A m \in Lane : pc'[m] = "finishing" =>
          pc[m] = "finishing" /\ job'[m] = job[m] /\ answer'[m] = answer[m] /\ verdict'[m] = verdict[m]

\* What a step may be, for the rows of runs and deliveries.
LEMMA DeliveryStep ==
    ASSUME [Next]_vars
    PROVE  \/ (\E p \in Proc : FailRun(p) \/ Publish(p)) \/ (\E o \in Occurrence : ReportFails(o))
           \/ \E l \in Lane : \/ Push(l) \/ Retry(l) \/ Lost(l) \/ \E d \in Delivery : Claim(l, d)
                              \/ BeginAccept(l) \/ BeginFail(l) \/ Commit(l)
           \/ Quiet
<1>1. ASSUME NEW p \in Proc, Defer(p) \/ NotifierLost(p) \/ \E o \in Occurrence : ClaimRun(p, o)
      PROVE  Quiet
  BY <1>1 DEF Defer, NotifierLost, ClaimRun, EndPreparation, runVars, rowVars, laneVars, Quiet
<1>2. ASSUME NEW o \in Occurrence,
             ReportsEnd(o) \/ SnapshotExpires(o) \/ RunDue(o) \/ RunLeaseLapses(o)
      PROVE  Quiet
  BY <1>2 DEF ReportsEnd, SnapshotExpires, RunDue, RunLeaseLapses, runVars, rowVars, laneVars, Quiet
<1>3. ASSUME NEW r \in Recipient, SetEligible(r) PROVE Quiet
  BY <1>3 DEF SetEligible, runVars, rowVars, laneVars, Quiet
<1>4. ASSUME NEW d \in Delivery, DeliveryDue(d) \/ LeaseLapses(d) PROVE Quiet
  BY <1>4 DEF DeliveryDue, LeaseLapses, runVars, laneVars, Quiet
<1>5. ASSUME NEW p \in Proc, AbandonRun(p) PROVE Quiet
  BY <1>5 DEF AbandonRun, runVars, rowVars, laneVars, Quiet
<1>6. ASSUME NEW ls \in SUBSET Lane, LaneIdle(ls), UNCHANGED <<runVars, rowVars, locallyAccepted>>
      PROVE  Quiet
  BY <1>6 DEF LaneIdle, runVars, rowVars, Quiet
<1>7. ASSUME NEW l \in Lane, AbandonDelivery(l) PROVE Quiet
  BY <1>6, <1>7 DEF AbandonDelivery
<1>8. ASSUME NEW p \in Proc, Crash(p) PROVE Quiet
  BY <1>6, <1>8 DEF Crash
<1>9. CASE Next
  <2>1. CASE Environment \/ Failures
    BY <1>2, <1>3, <1>4, <1>5, <1>7, <1>8, <2>1 DEF Environment, Failures
  <2>2. QED
    BY <1>1, <1>9, <2>1 DEF Next, Notify, Dispatch
<1>10. CASE UNCHANGED vars
  BY <1>10 DEF vars, runVars, rowVars, laneVars, Quiet
<1>11. QED
  BY <1>9, <1>10

\* However the steps of notifiers and lanes interleave, an ended run keeps the
\* status its deliveries give it and every acceptance is counted once.
THEOREM SettledInvariance == Spec => []SettledInv
<1>1. Init => SettledInv
  <2> SUFFICES ASSUME Init PROVE SettledInv
    OBVIOUS
  <2>1. FinishersHoldTheirRow /\ VerdictIsTrue
    BY DEF Init, FinishersHoldTheirRow, VerdictIsTrue
  <2>2. FinalStatusAgrees
    BY DEF Init, FinalStatusAgrees, Ended
  <2>3. AcceptedDeliveries = {}
    BY DEF Init, AcceptedDeliveries
  <2>4. IsFiniteSet(AcceptedDeliveries) /\ QuotaCountsAccepted
    BY <2>3, FS_EmptySet DEF Init, QuotaCountsAccepted, AcceptedDeliveries
  <2>5. QED
    BY <2>1, <2>2, <2>4 DEF SettledInv
<1>2. MessageInv /\ SettledInv /\ [Next]_vars => SettledInv'
  <2> SUFFICES ASSUME MessageInv, SettledInv, [Next]_vars PROVE SettledInv'
    OBVIOUS
  <2>1. CASE (\E p \in Proc : FailRun(p) \/ Publish(p)) \/ (\E o \in Occurrence : ReportFails(o))
    BY <2>1, RunWritesKeepSettled
  <2>2. ASSUME NEW l \in Lane, Push(l) \/ Retry(l) \/ Lost(l) \/ \E d \in Delivery : Claim(l, d)
        PROVE  SettledInv'
    BY <2>2, LaneWorkKeepsSettled
  <2>3. ASSUME NEW l \in Lane, BeginAccept(l) \/ BeginFail(l) \/ Commit(l) PROVE SettledInv'
    BY <2>3, BeginKeepsSettled, CommitKeepsSettled
  <2>4. CASE Quiet
    BY <2>4, WorkKeepsSettled DEF Quiet
  <2>5. QED
    BY <2>1, <2>2, <2>3, <2>4, DeliveryStep
<1>3. QED
  BY <1>1, <1>2, MessageInvariance, PTL DEF Spec

\* locally_accepted, the quota's own count, misses no acceptance and counts none
\* twice, although several lanes may see LINE accept a delivery (Accept).
THEOREM QuotaIsExact == Spec => []QuotaCountsAccepted
<1>1. SettledInv => QuotaCountsAccepted
  BY DEF SettledInv
<1>2. QED
  BY <1>1, SettledInvariance, PTL

\* finalizeNotificationRun counts rows other lanes are about to change, and yet
\* the status it gives a run is that of its deliveries, all of them decided.
THEOREM FinalStatusIsTrue == Spec => []FinalStatusAgrees
<1>1. SettledInv => FinalStatusAgrees
  BY DEF SettledInv
<1>2. QED
  BY <1>1, SettledInvariance, PTL

\* No late writer reopens a run or changes how it ended: neither a notifier that
\* lost its claim, nor a lane with a stale count, nor a report that fails.
THEOREM RunEndsOnce == Spec => OccurrenceEndsOnce
<1> DEFINE A == \A o \in Occurrence : occurrence[o] \in Ended => occurrence'[o] = occurrence[o]
<1>1. MessageInv /\ SettledInv /\ [Next]_vars => A
  <2> SUFFICES ASSUME MessageInv, SettledInv, [Next]_vars, NEW o \in Occurrence, occurrence[o] \in Ended
               PROVE  occurrence'[o] = occurrence[o]
    OBVIOUS
  <2> USE DEF MessageInv, Typed, RunTyped, Ended
  <2>1. ASSUME NEW p \in Proc, FailRun(p) \/ Publish(p) PROVE occurrence'[o] = occurrence[o]
    <3>1. /\ work[p] \in Occurrence /\ occurrence[work[p]] = "COLLECTING"
          /\ \E s : occurrence' = [occurrence EXCEPT ![work[p]] = s]
      BY <2>1 DEF FailRun, Publish, OwnsRun, NotifierTyped
    <3>2. QED
      BY <3>1
  <2>2. ASSUME NEW x \in Occurrence, ReportFails(x) PROVE occurrence'[o] = occurrence[o]
    BY <2>2 DEF ReportFails
  <2>3. ASSUME NEW l \in Lane, Commit(l) PROVE occurrence'[o] = occurrence[o]
    <3>1. occurrence[job[l][1]] = "SENDING"
      BY <2>3, EndedIsDecided DEF Commit
    <3>2. \E s : occurrence' = [occurrence EXCEPT ![job[l][1]] = s]
      BY <2>3 DEF Commit
    <3>3. QED
      BY <3>1, <3>2
  <2>4. ASSUME NEW l \in Lane,
               \/ Push(l) \/ Retry(l) \/ Lost(l) \/ \E d \in Delivery : Claim(l, d)
               \/ BeginAccept(l) \/ BeginFail(l)
        PROVE  occurrence'[o] = occurrence[o]
    BY <2>4 DEF Push, Retry, Lost, Claim, BeginAccept, BeginFail, Begin, runVars
  <2>5. CASE Quiet
    BY <2>5 DEF Quiet
  <2>6. QED
    BY <2>1, <2>2, <2>3, <2>4, <2>5, DeliveryStep
<1>2. OccurrenceEndsOnce <=> [][A]_vars
  BY DEF OccurrenceEndsOnce
<1> HIDE DEF A
<1>3. QED
  BY <1>1, <1>2, MessageInvariance, SettledInvariance, PTL DEF Spec

-----------------------------------------------------------------------------
(* LineDelivery implements Announcement. *)

\* Steps that leave the records, the chats and the quota alone are invisible to
\* those an occurrence addresses.
LEMMA Unseen ==
    ASSUME UNCHANGED <<occurrence, inbox, locallyAccepted>>,
           \A d \in Delivery : \/ status'[d] = status[d]
                               \/ status[d] \in Undecided /\ status'[d] \in Undecided
    PROVE  UNCHANGED Promise!promise
<1>1. PromisedMessage' = PromisedMessage
  BY DEF PromisedMessage
<1>2. QED
  BY <1>1 DEF Promise!promise

\* A run fails before anything of it is published (Fail of the notifier, and
\* failScheduledOccurrenceTx, which closes a collecting run only).
LEMMA FailurePromised ==
    ASSUME MessageInv, \/ \E p \in Proc : FailRun(p)
                       \/ \E o \in Occurrence : ReportFails(o)
    PROVE  Promise!Next \/ UNCHANGED Promise!promise
<1>1. /\ work \in [Proc -> Occurrence \cup {None}]
      /\ occurrence \in [Occurrence -> {"COLLECTING", "SENDING"} \cup Ended]
  BY DEF MessageInv, Typed, NotifierTyped, RunTyped
<1>2. ASSUME NEW o \in Occurrence, occurrence[o] = "COLLECTING",
             occurrence' = [occurrence EXCEPT ![o] = "FAILED"],
             UNCHANGED <<status, inbox, locallyAccepted>>
      PROVE  Promise!Next
  <2>1. UNCHANGED PromisedMessage
    BY <1>2 DEF PromisedMessage
  <2>2. QED
    BY <1>2, <2>1 DEF Promise!Next, Promise!GiveUp
<1>3. CASE \E p \in Proc : FailRun(p)
  <2>1. PICK p \in Proc : FailRun(p)
    BY <1>3
  <2>2. /\ work[p] \in Occurrence /\ occurrence[work[p]] = "COLLECTING"
        /\ occurrence' = [occurrence EXCEPT ![work[p]] = "FAILED"]
        /\ UNCHANGED <<status, inbox, locallyAccepted>>
    BY <1>1, <2>1 DEF FailRun, OwnsRun, EndPreparation, rowVars, lineVars
  <2>3. QED
    BY <1>2, <2>2
<1>4. CASE \E o \in Occurrence : ReportFails(o)
  <2>1. PICK o \in Occurrence : ReportFails(o)
    BY <1>4
  <2>2. UNCHANGED <<status, inbox, locallyAccepted>>
    BY <2>1 DEF ReportFails, rowVars, lineVars
  <2>3. CASE occurrence[o] = "COLLECTING"
    BY <1>2, <2>1, <2>2, <2>3 DEF ReportFails
  <2>4. CASE occurrence[o] # "COLLECTING"
    <3>1. UNCHANGED occurrence
      BY <1>1, <2>1, <2>4 DEF ReportFails
    <3>2. QED
      BY <2>2, <3>1, Unseen
  <2>5. QED
    BY <2>3, <2>4
<1>5. QED
  BY <1>3, <1>4

\* Publish announces the occurrence to those who are still eligible, or to nobody.
LEMMA PublishPromised ==
    ASSUME MessageInv, NEW p \in Proc, Publish(p) PROVE Promise!Next
<1> DEFINE o == work[p]
           audience == targets[p] \cap eligible
           new == {o} \X audience
<1>1. /\ o \in Occurrence /\ occurrence[o] = "COLLECTING" /\ audience \in SUBSET Recipient
      /\ status' = [d \in Delivery |-> IF d \in new THEN "PENDING" ELSE status[d]]
      /\ occurrence' = [occurrence EXCEPT ![o] = IF new = {} THEN "FAILED" ELSE "SENDING"]
      /\ UNCHANGED <<inbox, locallyAccepted>>
  BY DEF Publish, OwnsRun, EndPreparation, lineVars, MessageInv, Typed, NotifierTyped, RestTyped
<1> HIDE DEF o, audience
<1>2. \A r \in audience : status[<<o, r>>] = "absent"
  BY <1>1 DEF MessageInv, CollectingIsUnpublished, Delivery
<1>3. \A r \in audience : PromisedMessage[<<o, r>>] = "absent"
  BY <1>1, <1>2 DEF PromisedMessage, Delivery, Undecided
<1>4. PromisedMessage' = [d \in Delivery |-> IF d \in new THEN "due" ELSE PromisedMessage[d]]
  BY <1>1 DEF PromisedMessage, Undecided
<1>5. CASE audience = {}
  <2>1. new = {}
    BY <1>5
  <2>2. UNCHANGED PromisedMessage
    BY <1>4, <2>1 DEF PromisedMessage
  <2>3. QED
    BY <1>1, <2>1, <2>2 DEF Promise!Next, Promise!GiveUp
<1>6. CASE audience # {}
  <2>1. new # {}
    <3>1. PICK r \in audience : TRUE
      BY <1>6
    <3>2. <<o, r>> \in new
      OBVIOUS
    <3>3. QED
      BY <3>2
  <2>2. Promise!Announce(o, audience)
    BY <1>1, <1>3, <1>4, <1>6, <2>1 DEF Promise!Announce, Promise!Message, Delivery
  <2>3. QED
    BY <1>1, <2>2 DEF Promise!Next
<1>7. QED
  BY <1>5, <1>6

\* A push puts the message into the chat, if it is not there yet.
LEMMA PushPromised ==
    ASSUME MessageInv, NEW l \in Lane, Push(l)
    PROVE  Promise!Next \/ UNCHANGED Promise!promise
<1> DEFINE d == job[l]
<1>1. d \in Delivery /\ pc[l] = "claimed"
  BY DEF Push, MessageInv, Typed, LaneTyped, JobTyped
<1>2. PICK o \in Outcomes(retryKey[d] \in known[d]) :
         inbox' = [inbox EXCEPT ![d] = IF o[2] THEN @ + 1 ELSE @]
  BY DEF Push
<1>3. /\ UNCHANGED <<occurrence, status, locallyAccepted>>
      /\ inbox \in [Delivery -> Nat] /\ status \in [Delivery -> {"absent"} \cup Undecided \cup Decided]
  BY DEF Push, runVars, rowVars, MessageInv, Typed, RowTyped, RestTyped
<1>4. UNCHANGED PromisedMessage
  BY <1>3 DEF PromisedMessage
<1>5. CASE ~o[2]
  <2>1. inbox' = inbox
    BY <1>2, <1>3, <1>5
  <2>2. QED
    BY <1>3, <1>4, <2>1 DEF Promise!promise
<1>6. CASE o[2]
  <2>1. retryKey[d] \notin known[d]
    BY <1>2, <1>6 DEF Outcomes
  <2>2. inbox[d] = 0
    BY <1>1, <2>1 DEF MessageInv, KnownByItsKey
  <2>3. status[d] # "absent" /\ status[d] # "ACCEPTED"
    BY <1>1, <2>2 DEF MessageInv, UnpublishedIsUnknown, AcceptedWasReceived
  <2>4. PromisedMessage[d] \in {"due", "FAILED_PERMANENT"}
    BY <1>1, <1>3, <2>3 DEF PromisedMessage, Decided
  <2>5. inbox' = [inbox EXCEPT ![d] = 1]
    BY <1>1, <1>2, <1>3, <1>6, <2>2
  <2>6. Promise!Arrive(d)
    BY <1>3, <1>4, <2>2, <2>4, <2>5 DEF Promise!Arrive
  <2>7. QED
    BY <1>1, <2>6 DEF Promise!Next, Promise!Message, Delivery
<1>7. QED
  BY <1>5, <1>6

\* The commit of a finishing lane records a delivery that was still due, and the
\* run ends with it only as the records say.
LEMMA CommitPromised ==
    ASSUME MessageInv, SettledInv, NEW l \in Lane, Commit(l) PROVE Promise!Next
<1> DEFINE d == job[l]
           o == job[l][1]
           fate == OutcomeOf(l)
<1>1. /\ pc[l] = "finishing" /\ status' = [status EXCEPT ![d] = fate]
      /\ occurrence' = [occurrence EXCEPT ![o] = IF verdict[l] = "open" THEN @ ELSE verdict[l]]
      /\ locallyAccepted' = locallyAccepted + (IF Accepting(l) THEN 1 ELSE 0)
      /\ UNCHANGED inbox
  BY DEF Commit, OutcomeOf, lineVars
<1>2. /\ d \in Delivery /\ o \in Occurrence /\ occurrence[o] = "SENDING"
      /\ status[d] = "SENDING" /\ locallyAccepted \in Nat
      /\ status \in [Delivery -> {"absent"} \cup Undecided \cup Decided]
      /\ occurrence \in [Occurrence -> {"COLLECTING", "SENDING"} \cup Ended]
      /\ verdict[l] \in {"open"} \cup Ended
  BY <1>1, EndedIsDecided
  DEF SettledInv, FinishersHoldTheirRow, MessageInv, Typed, RowTyped, RunTyped, RestTyped, LaneTyped
<1>3. fate \in Decided /\ (fate = "ACCEPTED" <=> Accepting(l))
  BY DEF OutcomeOf, Decided
<1>4. fate = "ACCEPTED" => inbox[d] = 1
  BY <1>1, <1>3 DEF Accepting, MessageInv, AnswersAreTrue
<1> HIDE DEF fate
<1>5. PromisedMessage[d] = "due"
  BY <1>2 DEF PromisedMessage, Undecided
<1>6. PromisedMessage' = [PromisedMessage EXCEPT ![d] = fate]
  BY <1>1, <1>2, <1>3 DEF PromisedMessage, Undecided, Decided
<1>7. locallyAccepted' = IF fate = "ACCEPTED" THEN locallyAccepted + 1 ELSE locallyAccepted
  BY <1>1, <1>2, <1>3
<1> DEFINE fates == {PromisedMessage'[<<o, r>>] : r \in Recipient} \ {"absent"}
<1>8. UNCHANGED occurrence \/ ("due" \notin fates /\ occurrence' = [occurrence EXCEPT ![o] = Promise!Summary(fates)])
  <2>1. CASE verdict[l] = "open"
    BY <1>1, <1>2, <2>1
  <2>2. CASE verdict[l] # "open"
    <3> DEFINE ss == {status'[e] : e \in Of(o)} \ {"absent"}
    <3>1. occurrence'[o] \in Ended /\ occurrence' = [occurrence EXCEPT ![o] = occurrence'[o]]
      BY <1>1, <1>2, <2>2
    <3>2. /\ ss \cap Undecided = {}
          /\ occurrence'[o] = "COMPLETED" <=> ss = {"ACCEPTED"}
          /\ occurrence'[o] = "PARTIAL_FAILED" <=> ss = Decided
      BY <1>2, <3>1, CommitKeepsSettled DEF SettledInv, FinalStatusAgrees, Of
    <3>3. \A r \in Recipient : <<o, r>> \in Delivery /\ <<o, r>> \in Of(o)
      BY <1>2 DEF Delivery, Of
    <3>4. status' \in [Delivery -> {"absent"} \cup Undecided \cup Decided]
      BY <1>1, <1>2, <1>3
    <3>5. \A r \in Recipient : status'[<<o, r>>] \notin Undecided
      BY <3>2, <3>3 DEF Undecided
    <3>6. \A r \in Recipient : PromisedMessage'[<<o, r>>] = status'[<<o, r>>]
      BY <3>3, <3>5 DEF PromisedMessage
    <3>7. fates = ss
      <4>1. {PromisedMessage'[<<o, r>>] : r \in Recipient} = {status'[<<o, r>>] : r \in Recipient}
        BY <3>6
      <4>2. {status'[<<o, r>>] : r \in Recipient} = {status'[e] : e \in Of(o)}
        <5>1. \A e \in Of(o) : \E r \in Recipient : e = <<o, r>>
          BY DEF Of
        <5>2. QED
          BY <3>3, <5>1
      <4>3. QED
        BY <4>1, <4>2
    <3>8. ss \subseteq Decided
      BY <3>2, <3>4, <1>2 DEF Of, Delivery
    <3>9. "due" \notin ss
      BY <3>8 DEF Decided
    <3> HIDE DEF ss, fates
    <3>10. occurrence'[o] = Promise!Summary(ss)
      BY <3>1, <3>2, <3>8 DEF Promise!Summary, Decided, Ended
    <3>11. QED
      BY <3>1, <3>7, <3>9, <3>10
  <2>3. QED
    BY <2>1, <2>2
<1>9. Promise!Record(d, fate)
  BY <1>1, <1>2, <1>4, <1>5, <1>6, <1>7, <1>8 DEF Promise!Record
<1>10. QED
  BY <1>2, <1>3, <1>9 DEF Promise!Next, Promise!Message, Delivery, Decided

\* What is promised of an occurrence is kept by every step of the notifiers, the
\* lanes, their faults and the environment: each is a step of Announcement or
\* invisible in it.
THEOREM AnnouncementImplemented == Spec => AnnouncementKept
<1>1. Init => Promise!Init
  BY DEF Init, Promise!Init, Promise!Message, PromisedMessage, Delivery, Undecided
<1>2. MessageInv /\ SettledInv /\ [Next]_vars => [Promise!Next]_(Promise!promise)
  <2> SUFFICES ASSUME MessageInv, SettledInv, [Next]_vars
               PROVE  Promise!Next \/ UNCHANGED Promise!promise
    OBVIOUS
  <2>1. ASSUME NEW l \in Lane, \/ Retry(l) \/ Lost(l) \/ \E d \in Delivery : Claim(l, d)
                               \/ BeginAccept(l) \/ BeginFail(l)
        PROVE  UNCHANGED Promise!promise
    <3>1. /\ UNCHANGED <<occurrence, inbox, locallyAccepted>>
          /\ status \in [Delivery -> {"absent"} \cup Undecided \cup Decided]
      BY <2>1 DEF Retry, Lost, Claim, BeginAccept, BeginFail, Begin, runVars, lineVars,
                  MessageInv, Typed, RowTyped
    <3>2. \A d \in Delivery : \/ status'[d] = status[d]
                              \/ status[d] \in Undecided /\ status'[d] \in Undecided
      BY <2>1, <3>1 DEF Retry, Lost, Claim, BeginAccept, BeginFail, Begin, rowVars,
                        Writes, Held, Undecided
    <3>3. QED
      BY <3>1, <3>2, Unseen
  <2>2. CASE Quiet /\ UNCHANGED inbox
    BY <2>2, Unseen DEF Quiet
  <2>3. Quiet => UNCHANGED inbox \/ \E l \in Lane : Push(l)
    BY DEF Next, Notify, Dispatch, Environment, Failures, Defer, FailRun, Publish, NotifierLost,
           ClaimRun, Claim, Retry, BeginAccept, BeginFail, Begin, Commit, Lost, ReportsEnd,
           ReportFails, SnapshotExpires, RunDue, SetEligible, DeliveryDue, RunLeaseLapses,
           LeaseLapses, AbandonDelivery, AbandonRun, Crash, EndPreparation, lineVars, vars
  <2>4. QED
    BY <2>1, <2>2, <2>3, DeliveryStep, FailurePromised, PublishPromised, PushPromised, CommitPromised
<1>3. QED
  BY <1>1, <1>2, MessageInvariance, SettledInvariance, PTL DEF Spec, AnnouncementKept, Promise!Spec

-----------------------------------------------------------------------------
(* Runs that no lane would ever end. *)

\* With one lane a count is not overtaken between BeginAccept or BeginFail and
\* Commit, so a run whose last delivery is decided has been ended.
OneLaneInv ==
    /\ \A l \in Lane : pc[l] = "finishing" => verdict[l] = Count(l, OutcomeOf(l))
    /\ SendingHasWork

\* Publication starts a run with work to do; a run that ends needs none.
LEMMA RunWritesKeepWork ==
    ASSUME MessageInv, SettledInv, OneLaneInv,
           \/ \E p \in Proc : FailRun(p) \/ Publish(p)
           \/ \E o \in Occurrence : ReportFails(o)
    PROVE  OneLaneInv'
<1> USE DEF MessageInv, OneLaneInv
<1>1. UNCHANGED <<pc, job, answer, verdict>>
  BY DEF FailRun, Publish, ReportFails, EndPreparation, laneVars
<1>2. \A d \in Delivery : occurrence[d[1]] # "COLLECTING" => status'[d] = status[d]
  BY DEF FailRun, Publish, ReportFails, OwnsRun, EndPreparation, rowVars
<1>3. ASSUME NEW l \in Lane, pc'[l] = "finishing" PROVE verdict'[l] = Count(l, OutcomeOf(l))'
  <2>1. \A d \in Of(job[l][1]) \ {job[l]} : status'[d] = status[d]
    BY <1>1, <1>2, <1>3, EndedIsDecided DEF Of, Delivery
  <2>2. OutcomeOf(l)' = OutcomeOf(l)
    BY <1>1 DEF OutcomeOf, Accepting
  <2>3. QED
    BY <1>1, <1>3, <2>1, <2>2, CountReadsTheOthers
<1>4. ASSUME NEW o \in Occurrence, occurrence'[o] = "SENDING"
      PROVE  \E d \in Of(o) : status'[d] \in Undecided
  <2>1. CASE occurrence[o] = "SENDING"
    <3>1. PICK d \in Of(o) : status[d] \in Undecided
      BY <2>1 DEF SendingHasWork
    <3>2. status'[d] = status[d]
      BY <1>2, <2>1, <3>1 DEF Of, Delivery
    <3>3. QED
      BY <3>1, <3>2
  <2>2. CASE occurrence[o] # "SENDING"
    <3>1. PICK p \in Proc : Publish(p) /\ o = work[p]
      <4>1. ASSUME NEW p \in Proc, FailRun(p) PROVE FALSE
        BY <1>4, <2>2, <4>1 DEF FailRun, Typed, RunTyped
      <4>2. ASSUME NEW x \in Occurrence, ReportFails(x) PROVE FALSE
        BY <1>4, <2>2, <4>2 DEF ReportFails, Typed, RunTyped
      <4>3. PICK p \in Proc : Publish(p)
        BY <4>1, <4>2
      <4>4. o = work[p]
        BY <1>4, <2>2, <4>3 DEF Publish, Typed, RunTyped
      <4>5. QED
        BY <4>3, <4>4
    <3> DEFINE new == {work[p]} \X (targets[p] \cap eligible)
    <3>2. status' = [d \in Delivery |-> IF d \in new THEN "PENDING" ELSE status[d]]
      BY <3>1 DEF Publish
    <3>3. new # {}
      BY <1>4, <3>1 DEF Publish, Typed, RunTyped
    <3>4. PICK d \in new : d \in Of(o) /\ d \in Delivery
      BY <3>1, <3>3 DEF Of, Delivery, Typed, RestTyped
    <3>5. status'[d] = "PENDING"
      BY <3>2, <3>4
    <3>6. QED
      BY <3>4, <3>5 DEF Undecided
  <2>3. QED
    BY <2>1, <2>2
<1>5. SendingHasWork'
  BY <1>4 DEF SendingHasWork, Of
<1>6. QED
  BY <1>3, <1>5

\* The one lane decides a run's last delivery and ends the run in the same
\* transaction; every other step leaves undecided deliveries undecided.
LEMMA LaneStepsKeepWork ==
    ASSUME MessageInv, SettledInv, OneLaneInv, \A k, m \in Lane : k = m, NEW l \in Lane,
           \/ Push(l) \/ Retry(l) \/ Lost(l) \/ \E d \in Delivery : Claim(l, d)
           \/ BeginAccept(l) \/ BeginFail(l) \/ Commit(l)
    PROVE  OneLaneInv'
<1> USE DEF MessageInv, OneLaneInv
<1>1. ASSUME occurrence' = occurrence,
             \A d \in Delivery : status[d] \in Undecided => status'[d] \in Undecided
      PROVE  SendingHasWork'
  BY <1>1 DEF SendingHasWork, Of, Delivery
<1>2. CASE Commit(l)
  <2> DEFINE o == job[l][1]
             s == OutcomeOf(l)
  <2>1. /\ pc[l] = "finishing" /\ status' = [status EXCEPT ![job[l]] = s] /\ LaneIdle({l})
        /\ occurrence' = [occurrence EXCEPT ![o] = IF verdict[l] = "open" THEN @ ELSE verdict[l]]
    BY <1>2 DEF Commit, OutcomeOf
  <2>2. \A m \in Lane : pc'[m] = "idle"
    BY <2>1 DEF LaneIdle
  <2>3. job[l] \in Delivery /\ o \in Occurrence /\ verdict[l] = Count(l, s)
    BY <2>1, EndedIsDecided
  <2>4. ASSUME NEW x \in Occurrence, occurrence'[x] = "SENDING"
        PROVE  \E d \in Of(x) : status'[d] \in Undecided
    <3>1. CASE x = o
      <4>1. Count(l, s) = "open"
        BY <2>1, <2>3, <2>4, <3>1 DEF Typed, RunTyped, LaneTyped, Ended
      <4>2. (({s} \cup {status[d] : d \in Of(o) \ {job[l]}}) \ {"absent"}) \cap Undecided # {}
        BY <4>1, OpenIsNotFinal DEF Count
      <4>3. s \notin Undecided
        BY DEF OutcomeOf, Undecided
      <4>4. PICK d \in Of(o) \ {job[l]} : status[d] \in Undecided
        BY <4>2, <4>3
      <4>5. status'[d] = status[d]
        BY <2>1, <2>3, <4>4 DEF Of, Delivery, Typed, RowTyped
      <4>6. QED
        BY <3>1, <4>4, <4>5
    <3>2. CASE x # o
      <4>1. occurrence[x] = "SENDING"
        BY <2>1, <2>4, <3>2 DEF Typed, RunTyped
      <4>2. PICK d \in Of(x) : status[d] \in Undecided
        BY <4>1 DEF SendingHasWork
      <4>3. status'[d] = status[d]
        BY <2>1, <3>2, <4>2 DEF Of, Delivery, Typed, RowTyped
      <4>4. QED
        BY <4>2, <4>3
    <3>3. QED
      BY <3>1, <3>2
  <2>5. QED
    BY <2>2, <2>4 DEF SendingHasWork, Of
<1>3. CASE BeginAccept(l) \/ BeginFail(l)
  <2>1. PICK s \in Decided : Begin(l, s) /\ (s = "ACCEPTED" <=> answer[l] = "accepted")
    BY <1>3 DEF BeginAccept, BeginFail, Writes, Decided
  <2>2. /\ UNCHANGED <<occurrence, status, job, answer>>
        /\ pc'[l] = "finishing" /\ verdict'[l] = Count(l, s)
    BY <2>1 DEF Begin, runVars, rowVars, Typed, LaneTyped
  <2>3. OutcomeOf(l)' = s
    BY <2>1, <2>2 DEF OutcomeOf, Accepting, Decided
  <2>4. verdict'[l] = Count(l, OutcomeOf(l))'
    BY <2>2, <2>3 DEF Count, Of
  <2>5. QED
    BY <1>1, <2>2, <2>4
<1>4. CASE Push(l) \/ Retry(l) \/ Lost(l) \/ \E d \in Delivery : Claim(l, d)
  <2>1. pc'[l] # "finishing" /\ occurrence' = occurrence
    BY <1>4 DEF Push, Retry, Lost, Claim, LaneIdle, runVars, Typed, LaneTyped
  <2>2. \A d \in Delivery : status[d] \in Undecided => status'[d] \in Undecided
    BY <1>4 DEF Push, Retry, Lost, Claim, rowVars, Undecided, Typed, RowTyped
  <2>3. QED
    BY <1>1, <2>1, <2>2
<1>5. QED
  BY <1>2, <1>3, <1>4

\* A deployment with one dispatcher lane strands no notification run: while it is
\* SENDING, a delivery of it is still to be claimed (finalizeNotificationRun).
\* Two lanes that decide the last two deliveries together do strand it.
THEOREM OneLaneStrandsNothing ==
    ASSUME \A k, m \in Lane : k = m PROVE Spec => []SendingHasWork
<1>1. Init => OneLaneInv
  BY DEF Init, OneLaneInv, SendingHasWork
<1>2. MessageInv /\ SettledInv /\ OneLaneInv /\ [Next]_vars => OneLaneInv'
  <2> SUFFICES ASSUME MessageInv, SettledInv, OneLaneInv, [Next]_vars PROVE OneLaneInv'
    OBVIOUS
  <2>1. CASE (\E p \in Proc : FailRun(p) \/ Publish(p)) \/ (\E o \in Occurrence : ReportFails(o))
    BY <2>1, RunWritesKeepWork
  <2>2. ASSUME NEW l \in Lane, \/ Push(l) \/ Retry(l) \/ Lost(l) \/ \E d \in Delivery : Claim(l, d)
                               \/ BeginAccept(l) \/ BeginFail(l) \/ Commit(l)
        PROVE  OneLaneInv'
    BY <2>2, LaneStepsKeepWork
  <2>3. CASE Quiet
    <3>1. SendingHasWork'
      BY <2>3 DEF Quiet, OneLaneInv, SendingHasWork, Of
    <3>2. ASSUME NEW m \in Lane, pc'[m] = "finishing" PROVE verdict'[m] = Count(m, OutcomeOf(m))'
      <4>1. /\ pc[m] = "finishing" /\ job'[m] = job[m] /\ verdict'[m] = verdict[m] /\ status' = status
            /\ OutcomeOf(m)' = OutcomeOf(m)
        BY <2>3, <3>2 DEF Quiet, OutcomeOf, Accepting
      <4>2. Count(m, OutcomeOf(m))' = Count(m, OutcomeOf(m))
        BY <4>1, CountReadsTheOthers
      <4>3. QED
        BY <4>1, <4>2 DEF OneLaneInv
    <3>3. QED
      BY <3>1, <3>2 DEF OneLaneInv
  <2>4. QED
    BY <2>1, <2>2, <2>3, DeliveryStep
<1>3. OneLaneInv => SendingHasWork
  BY DEF OneLaneInv
<1>4. QED
  BY <1>1, <1>2, <1>3, MessageInvariance, SettledInvariance, PTL DEF Spec
=============================================================================
