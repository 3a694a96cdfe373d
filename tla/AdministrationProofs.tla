------------------------ MODULE AdministrationProofs ------------------------
(***************************************************************************)
(* The safety properties of Administration, for every value of its         *)
(* constants: versions, the catching up of schedules, the consistency of   *)
(* recipients, and what an ACTIVE schedule can rely on.                    *)
(***************************************************************************)
EXTENDS AdministrationTypes

-----------------------------------------------------------------------------
(* Versions.                                                               *)

\* A store's row changes under another version only.
LEMMA TenantVersions ==
    ASSUME Typed, [Next]_vars, NEW t \in Tenant
    PROVE  tenant'[t].version = tenant[t].version => tenant'[t] = tenant[t]
<1>1. /\ TenantsTyped /\ tenant[t] \in TenantRow /\ tenant[t].version \in Nat
      /\ DOMAIN tenant = Tenant
  BY DEF Typed, DirectoryTyped, TenantsTyped, TenantRow
<1>2. CASE UNCHANGED tenant
  BY <1>2
<1>3. ASSUME NEW u \in Tenant, CreateTenant(u) \/ UpdateTenant(u) \/ ArchiveDirectory(u)
      PROVE  tenant'[u].version = tenant[u].version + 1
             /\ \A other \in Tenant \ {u} : tenant'[other] = tenant[other]
  <2>1. tenant[u] \in TenantRow /\ tenant[u].version \in Nat
    BY <1>1 DEF TenantsTyped, TenantRow
  <2>2. PICK v \in Nat : v = tenant[u].version + 1
    BY <2>1
  <2>3. CASE CreateTenant(u)
    <3>1. v = 1
      BY <2>1, <2>2, <2>3 DEF CreateTenant, Exists
    <3>2. QED
      BY <1>1, <2>2, <2>3, <3>1 DEF CreateTenant
  <2>4. CASE UpdateTenant(u)
    <3>1. PICK row : /\ tenant' = [tenant EXCEPT ![u] = row] /\ row.version = v
      <4>1. ASSUME NEW status \in StoredStatus,
                   tenant' = [tenant EXCEPT ![u].status = status, ![u].version = @ + 1]
            PROVE  \E row : tenant' = [tenant EXCEPT ![u] = row] /\ row.version = v
        <5> DEFINE new == [tenant[u] EXCEPT !.status = status, !.version = v]
        <5>1. tenant' = [tenant EXCEPT ![u] = new] /\ new.version = v
          BY <1>1, <2>1, <2>2, <4>1 DEF TenantsTyped, TenantRow
        <5>2. QED
          BY <5>1
      <4>2. ASSUME NEW end \in AccessEnds,
                   tenant' = [tenant EXCEPT ![u].ends = end, ![u].version = @ + 1]
            PROVE  \E row : tenant' = [tenant EXCEPT ![u] = row] /\ row.version = v
        <5> DEFINE new == [tenant[u] EXCEPT !.ends = end, !.version = v]
        <5>1. tenant' = [tenant EXCEPT ![u] = new] /\ new.version = v
          BY <1>1, <2>1, <2>2, <4>2 DEF TenantsTyped, TenantRow
        <5>2. QED
          BY <5>1
      <4>3. QED
        BY <2>4, <4>1, <4>2 DEF UpdateTenant
    <3>2. QED
      BY <1>1, <2>2, <3>1
  <2>5. CASE ArchiveDirectory(u)
    <3> DEFINE new == [tenant[u] EXCEPT !.status = "DISABLED", !.archived = TRUE, !.version = v]
    <3>1. tenant' = [tenant EXCEPT ![u] = new] /\ new.version = v
      BY <1>1, <2>1, <2>2, <2>5 DEF TenantsTyped, TenantRow, ArchiveDirectory
    <3> HIDE DEF new
    <3>2. QED
      BY <1>1, <2>2, <3>1
  <2>6. QED
    BY <1>3, <2>3, <2>4, <2>5
<1>4. ASSUME NEW u \in Tenant, CreateTenant(u) \/ UpdateTenant(u) \/ ArchiveDirectory(u)
      PROVE  tenant'[t].version = tenant[t].version => tenant'[t] = tenant[t]
  BY <1>1, <1>3, <1>4
<1>5. \/ UNCHANGED tenant
      \/ \E u \in Tenant : CreateTenant(u) \/ UpdateTenant(u) \/ ArchiveDirectory(u)
  <2>1. ASSUME UNCHANGED directoryVars PROVE UNCHANGED tenant
    BY <2>1 DEF directoryVars
  <2>2. CASE Edit
    BY <2>1, <2>2 DEF Edit, EditStores, EditConnections, EditRecipients, EditSchedules,
       ArchiveTenant, ReplacePermissions, Revoke, PutConnection, StartTest, CreateInvitation,
       ReissueInvitation, BeginRedeem, ReplaceKeys, RevokeMember
  <2>3. CASE Proceed
    BY <2>1, <2>3 DEF Proceed, MarkTested, RedeemInvitation
  <2>4. CASE Tick \/ UNCHANGED vars
    BY <2>1, <2>4 DEF Tick, vars
  <2>5. QED
    BY <2>2, <2>3, <2>4 DEF Next
<1>6. QED
  BY <1>2, <1>4, <1>5

\* A schedule's status and plan change under another version only.
LEMMA ScheduleVersions ==
    ASSUME Typed, ScheduleStep, NEW s \in Schedule
    PROVE  schedule'[s].version = schedule[s].version =>
               schedule'[s].status = schedule[s].status /\ schedule'[s].plan = schedule[s].plan
<1>1. SchedulesTyped /\ RowsTyped /\ schedule[s].version \in Nat /\ DOMAIN schedule = Schedule
  BY RowKinds DEF Typed, SchedulesTyped, RowsTyped
<1>2. CASE UNCHANGED schedule
  BY <1>2
<1>3. CASE \E x \in Schedule : Shelved(x)
  <2>1. PICK x \in Schedule, row \in GoodRow :
           schedule' = [schedule EXCEPT ![x] = row] /\ row.version = schedule[x].version + 1
    BY <1>3 DEF Shelved
  <2>2. QED
    BY <1>1, <2>1
<1>4. CASE \E x \in Schedule : Activated(x) \/ Materialized(x)
  BY <1>1, <1>4 DEF Activated, Materialized
<1>5. CASE \E t \in Tenant : ArchiveTenant(t)
  <2>1. PICK t \in Tenant : ArchiveSchedulesOf(t)
    BY <1>5 DEF ArchiveTenant
  <2>2. schedule'[s] = schedule[s] \/ schedule'[s].version = schedule[s].version + 1
    BY <1>1, <2>1, SchedulesArchived
  <2>3. QED
    BY <1>1, <2>2
<1>6. QED
  BY <1>2, <1>3, <1>4, <1>5 DEF ScheduleStep

\* Optimistic concurrency is sound: what an administrator has read under a
\* version is what is stored as long as that version is.
THEOREM VersionsStandForContent == Spec => VersionStandsForContent
<1> DEFINE A == /\ \A t \in Tenant :
                      tenant'[t].version = tenant[t].version => tenant'[t] = tenant[t]
                /\ \A s \in Schedule :
                      schedule'[s].version = schedule[s].version =>
                          /\ schedule'[s].status = schedule[s].status
                          /\ schedule'[s].plan = schedule[s].plan
<1>1. Typed /\ [Next]_vars => A
  BY TenantVersions, ScheduleVersions, StepTyped
<1>2. Typed /\ [Next]_vars => Typed'
  BY StepTyped
<1>3. VersionStandsForContent <=> [][A]_vars
  BY DEF VersionStandsForContent
<1> HIDE DEF A
<1>4. QED
  BY <1>1, <1>2, <1>3, InitTyped, PTL DEF Spec

-----------------------------------------------------------------------------
(* Catching up.  An activation under way knows the version it has read: as *)
(* long as that is the stored one its next occurrence is the plan's, and   *)
(* while the schedule rests no occurrence is younger than the activation.  *)

ActivationFits(s) ==
    activating[s] # None =>
        /\ activating[s].at <= now
        /\ activating[s].version <= schedule[s].version
        /\ activating[s].version = schedule[s].version =>
              /\ activating[s].next = NextOccurrence(schedule[s].plan, activating[s].at)
              /\ schedule[s].status \in {"DRAFT", "PAUSED"} =>
                    \A slot \in Slots(s) : slot <= activating[s].at

SlotsPast(s) == \A slot \in Slots(s) : slot <= now

CaughtUp(s) ==
    schedule[s].status = "ACTIVE" /\ since[s] # None =>
        /\ Allowed(schedule[s].plan, schedule[s].next)
        /\ \A slot \in Slots(s) : slot < schedule[s].next
        /\ \A slot \in (since[s] + 1) .. (schedule[s].next - 1) :
              Allowed(schedule[s].plan, slot) => slot \in Slots(s)

Catching == \A s \in Schedule : ActivationFits(s) /\ SlotsPast(s) /\ CaughtUp(s)

\* What the types say of a schedule, in numbers.
LEMMA ScheduleNumbers ==
    ASSUME SchedulesTyped, NEW s \in Schedule
    PROVE  /\ schedule[s].version \in Nat /\ Slots(s) \subseteq Nat
           /\ since[s] \in Nat \cup {None}
           /\ schedule[s].status = "ACTIVE" => schedule[s] \in GoodRow /\ schedule[s].next \in Nat
           /\ activating[s] # None =>
                 /\ schedule[s] \in GoodRow
                 /\ activating[s].next \in Nat /\ activating[s].at \in Nat
                 /\ activating[s].version \in Nat
<1>1. /\ schedule[s].version \in Nat /\ (schedule[s] \in GoodRow <=> schedule[s].status # "ABSENT")
  BY RowKinds DEF SchedulesTyped
<1>2. Slots(s) \subseteq Nat
  BY DEF Slots, Scheduled, SchedulesTyped, OccurrencesTyped, GoodOccurrence
<1>3. activating[s] # None => /\ schedule[s] \in GoodRow
                              /\ activating[s].next \in Nat /\ activating[s].at \in Nat
                              /\ activating[s].version \in Nat
  BY DEF SchedulesTyped, ActivatingTyped, Activation
<1>4. QED
  BY <1>1, <1>2, <1>3 DEF SchedulesTyped, GoodRow

\* A schedule that the step writes nothing of.
LEMMA StaysCaughtUp ==
    ASSUME SchedulesTyped, now \in Nat, now' \in Nat, now <= now', NEW s \in Schedule,
           ActivationFits(s), SlotsPast(s), CaughtUp(s),
           schedule'[s] = schedule[s], since'[s] = since[s], Slots(s)' = Slots(s),
           activating'[s] = activating[s] \/ activating'[s] = None
    PROVE  (ActivationFits(s) /\ SlotsPast(s) /\ CaughtUp(s))'
<1>1. SlotsPast(s)'
  BY ScheduleNumbers DEF SlotsPast
<1>2. CaughtUp(s)'
  BY DEF CaughtUp
<1>3. ActivationFits(s)'
  BY ScheduleNumbers DEF ActivationFits
<1>4. QED
  BY <1>1, <1>2, <1>3

\* A schedule that the step moves to another version and leaves inactive.
LEMMA ShelvedCaughtUp ==
    ASSUME SchedulesTyped, now \in Nat, now' \in Nat, now <= now', NEW s \in Schedule,
           ActivationFits(s), SlotsPast(s), CaughtUp(s),
           schedule'[s].status # "ACTIVE", schedule'[s].version = schedule[s].version + 1,
           Slots(s)' = Slots(s), activating'[s] = activating[s]
    PROVE  (ActivationFits(s) /\ SlotsPast(s) /\ CaughtUp(s))'
<1>1. SlotsPast(s)' /\ CaughtUp(s)'
  BY ScheduleNumbers DEF SlotsPast, CaughtUp
<1>2. ActivationFits(s)'
  BY ScheduleNumbers DEF ActivationFits
<1>3. QED
  BY <1>1, <1>2

\* The two halves of an activation.
LEMMA ActivatedCaughtUp ==
    ASSUME SchedulesTyped, now \in Nat, now' \in Nat, now <= now', NEW s \in Schedule,
           ActivationFits(s), SlotsPast(s), CaughtUp(s),
           \/ BeginActivate(s) /\ UNCHANGED <<schedule, since, occurrences>>
           \/ Activate(s) /\ Activated(s)
    PROVE  (ActivationFits(s) /\ SlotsPast(s) /\ CaughtUp(s))'
<1>1. CASE BeginActivate(s) /\ UNCHANGED <<schedule, since, occurrences>>
  <2>1. Slots(s)' = Slots(s)
    BY <1>1 DEF Slots, Scheduled
  <2>2. activating'[s] = [next |-> NextOccurrence(schedule[s].plan, now), at |-> now,
                          version |-> schedule[s].version]
    BY <1>1 DEF BeginActivate, SchedulesTyped, ActivatingTyped
  <2>3. /\ activating'[s].next = NextOccurrence(schedule[s].plan, now)
        /\ activating'[s].at = now /\ activating'[s].version = schedule[s].version
    BY <2>2
  <2>4. ActivationFits(s)'
    BY <1>1, <2>1, <2>3, ScheduleNumbers DEF ActivationFits, SlotsPast
  <2>5. SlotsPast(s)' /\ CaughtUp(s)'
    BY <1>1, <2>1, ScheduleNumbers DEF SlotsPast, CaughtUp
  <2>6. QED
    BY <2>4, <2>5
<1>2. CASE Activate(s) /\ Activated(s)
  <2>1. Slots(s)' = Slots(s)
    BY <1>2 DEF Activate, Slots, Scheduled
  <2>2. activating[s] # None /\ activating'[s] = None
    BY <1>2 DEF Activate, SchedulesTyped, ActivatingTyped
  <2>3. ActivationFits(s)' /\ SlotsPast(s)'
    BY <2>1, <2>2, ScheduleNumbers DEF ActivationFits, SlotsPast
  <2>4. CASE since'[s] # None
    <3>1. /\ activating[s].version = schedule[s].version /\ since'[s] = activating[s].at
          /\ schedule[s].status \in {"DRAFT", "PAUSED"} /\ schedule[s] \in GoodRow
          /\ schedule'[s].plan = schedule[s].plan /\ schedule'[s].next = activating[s].next
      BY <1>2, <2>4 DEF Activated
    <3>2. PICK at \in Nat : at = activating[s].at
      BY <2>2, ScheduleNumbers
    <3>3. /\ schedule'[s].next = NextOccurrence(schedule[s].plan, at)
          /\ \A slot \in Slots(s) : slot <= at
      BY <2>2, <3>1, <3>2 DEF ActivationFits
    <3>4. PICK next \in Nat : next = NextOccurrence(schedule[s].plan, at)
      BY <3>1, <3>2, NextOfPlan
    <3>5. /\ next > at /\ Allowed(schedule[s].plan, next)
          /\ \A k \in (at + 1) .. (next - 1) : ~ Allowed(schedule[s].plan, k)
      BY <3>1, <3>2, <3>4, NextOfPlan
    <3>6. \A slot \in Slots(s) : slot < next
      BY <3>3, <3>5, ScheduleNumbers
    <3>7. QED
      BY <2>1, <2>3, <3>1, <3>2, <3>3, <3>4, <3>5, <3>6 DEF CaughtUp
  <2>5. QED
    BY <2>3, <2>4 DEF CaughtUp
<1>3. QED
  BY <1>1, <1>2

\* A due occurrence is materialized.
LEMMA MaterializedCaughtUp ==
    ASSUME SchedulesTyped, now \in Nat, now' \in Nat, now <= now', NEW s \in Schedule,
           ActivationFits(s), SlotsPast(s), CaughtUp(s), Materialized(s)
    PROVE  (ActivationFits(s) /\ SlotsPast(s) /\ CaughtUp(s))'
<1>1. PICK slot \in Nat : slot = schedule[s].next
  BY ScheduleNumbers DEF Materialized
<1>2. /\ slot <= now /\ Slots(s)' = Slots(s) \cup {slot} /\ schedule[s] \in GoodRow
      /\ schedule[s].status = "ACTIVE" /\ schedule'[s].plan = schedule[s].plan
      /\ activating'[s] = activating[s] /\ since'[s] = since[s]
  BY <1>1 DEF Materialized
<1>3. SlotsPast(s)'
  BY <1>2, ScheduleNumbers DEF SlotsPast
<1>4. CASE schedule'[s].status = "PAUSED" /\ schedule'[s].version = schedule[s].version + 1
  BY <1>2, <1>3, <1>4, ScheduleNumbers DEF ActivationFits, CaughtUp
<1>5. CASE /\ schedule'[s].status = "ACTIVE" /\ schedule'[s].version = schedule[s].version
           /\ schedule'[s].next = NextOccurrence(schedule[s].plan, slot)
  <2>1. ActivationFits(s)'
    BY <1>2, <1>5, ScheduleNumbers DEF ActivationFits
  <2>2. PICK next \in Nat : next = NextOccurrence(schedule[s].plan, slot)
    BY <1>2, NextOfPlan
  <2>3. /\ next > slot /\ Allowed(schedule[s].plan, next)
        /\ \A k \in (slot + 1) .. (next - 1) : ~ Allowed(schedule[s].plan, k)
    BY <1>2, <2>2, NextOfPlan
  <2>4. ASSUME since[s] # None PROVE CaughtUp(s)'
    <3>1. /\ since[s] \in Nat /\ Slots(s) \subseteq Nat
      BY <2>4, ScheduleNumbers
    <3>2. /\ \A k \in Slots(s) : k < slot
          /\ \A k \in (since[s] + 1) .. (slot - 1) : Allowed(schedule[s].plan, k) => k \in Slots(s)
      BY <1>1, <1>2, <2>4 DEF CaughtUp
    <3>3. \A k \in Slots(s)' : k < next
      BY <1>2, <2>3, <3>1, <3>2
    <3>4. ASSUME NEW k \in (since[s] + 1) .. (next - 1), Allowed(schedule[s].plan, k)
          PROVE  k \in Slots(s)'
      <4>1. k <= slot
        BY <2>3, <3>1, <3>4
      <4>2. QED
        BY <1>2, <3>1, <3>2, <3>4, <4>1
    <3>5. QED
      BY <1>2, <1>5, <2>2, <2>3, <3>3, <3>4 DEF CaughtUp
  <2>5. QED
    BY <1>2, <1>3, <2>1, <2>4 DEF CaughtUp
<1>6. QED
  BY <1>1, <1>4, <1>5 DEF Materialized

\* The clock never goes back.
LEMMA ClockRuns == Typed /\ [Next]_vars => now \in Nat /\ now' \in Nat /\ now <= now'
BY DEF Typed, DirectoryTyped, Next, Edit, Proceed, Tick, vars

\* Every step keeps all schedules caught up.
LEMMA StepCaughtUp ==
    ASSUME Typed, Catching, ScheduleStep, now \in Nat, now' \in Nat, now <= now'
    PROVE  Catching'
<1> SUFFICES ASSUME NEW s \in Schedule
             PROVE  (ActivationFits(s) /\ SlotsPast(s) /\ CaughtUp(s))'
  BY DEF Catching
<1>1. /\ SchedulesTyped /\ ActivationFits(s) /\ SlotsPast(s) /\ CaughtUp(s)
      /\ DOMAIN schedule = Schedule /\ DOMAIN since = Schedule /\ DOMAIN activating = Schedule
  BY DEF Typed, Catching, SchedulesTyped, RowsTyped, ActivatingTyped
<1>2. ASSUME UNCHANGED <<schedule, activating, since>>, Slots(s)' = Slots(s)
      PROVE  (ActivationFits(s) /\ SlotsPast(s) /\ CaughtUp(s))'
  BY <1>1, <1>2, StaysCaughtUp
<1>3. ASSUME NEW x \in Schedule, Shelved(x)
      PROVE  (ActivationFits(s) /\ SlotsPast(s) /\ CaughtUp(s))'
  <2>1. PICK row \in GoodRow : /\ schedule' = [schedule EXCEPT ![x] = row]
                               /\ row.status # "ACTIVE" /\ row.version = schedule[x].version + 1
    BY <1>3 DEF Shelved
  <2>2. Slots(s)' = Slots(s) /\ UNCHANGED <<activating, since>>
    BY <1>3 DEF Shelved, Slots, Scheduled
  <2>3. CASE s = x
    BY <1>1, <2>1, <2>2, <2>3, ShelvedCaughtUp
  <2>4. CASE s # x
    <3>1. schedule'[s] = schedule[s]
      BY <1>1, <2>1, <2>4
    <3>2. QED
      BY <1>1, <2>2, <3>1, StaysCaughtUp
  <2>5. QED
    BY <2>3, <2>4
<1>4. ASSUME NEW x \in Schedule, \/ BeginActivate(x) /\ UNCHANGED schedule
                                 \/ Activate(x) /\ UNCHANGED <<schedule, since>>
                                 \/ Activate(x) /\ Activated(x)
      PROVE  (ActivationFits(s) /\ SlotsPast(s) /\ CaughtUp(s))'
  <2>1. UNCHANGED occurrences /\ Slots(s)' = Slots(s)
    BY <1>4 DEF BeginActivate, Activate, Slots, Scheduled
  <2>2. CASE s # x
    <3>1. activating'[s] = activating[s]
      BY <1>1, <1>4, <2>2 DEF BeginActivate, Activate
    <3>2. schedule'[s] = schedule[s] /\ since'[s] = since[s]
      BY <1>4, <2>2 DEF BeginActivate, Activated
    <3>3. QED
      BY <1>1, <2>1, <3>1, <3>2, StaysCaughtUp
  <2>3. CASE s = x /\ BeginActivate(x) /\ UNCHANGED schedule
    BY <1>1, <2>1, <2>3, ActivatedCaughtUp DEF BeginActivate
  <2>4. CASE s = x /\ Activate(x) /\ UNCHANGED <<schedule, since>>
    <3>1. activating'[s] = None
      BY <1>1, <2>4 DEF Activate
    <3>2. QED
      BY <1>1, <2>1, <2>4, <3>1, StaysCaughtUp
  <2>5. CASE s = x /\ Activate(x) /\ Activated(x)
    BY <1>1, <2>5, ActivatedCaughtUp
  <2>6. QED
    BY <1>4, <2>2, <2>3, <2>4, <2>5
<1>5. ASSUME NEW x \in Schedule, Materialized(x)
      PROVE  (ActivationFits(s) /\ SlotsPast(s) /\ CaughtUp(s))'
  <2>1. CASE s = x
    BY <1>1, <1>5, <2>1, MaterializedCaughtUp
  <2>2. CASE s # x
    BY <1>1, <1>5, <2>2, StaysCaughtUp DEF Materialized
  <2>3. QED
    BY <2>1, <2>2
<1>6. ASSUME NEW t \in Tenant, ArchiveTenant(t)
      PROVE  (ActivationFits(s) /\ SlotsPast(s) /\ CaughtUp(s))'
  <2>1. ArchiveSchedulesOf(t) /\ UNCHANGED <<activating, since>>
    BY <1>6 DEF ArchiveTenant, ArchiveSchedulesOf
  <2>2. /\ Slots(s)' = Slots(s)
        /\ \/ schedule'[s] = schedule[s]
           \/ schedule'[s].status = "PAUSED" /\ schedule'[s].version = schedule[s].version + 1
    BY <1>1, <2>1, SchedulesArchived
  <2>3. CASE schedule'[s] = schedule[s]
    BY <1>1, <2>1, <2>2, <2>3, StaysCaughtUp
  <2>4. CASE schedule'[s].status = "PAUSED" /\ schedule'[s].version = schedule[s].version + 1
    BY <1>1, <2>1, <2>2, <2>4, ShelvedCaughtUp
  <2>5. QED
    BY <2>2, <2>3, <2>4
<1>7. QED
  BY <1>2, <1>3, <1>4, <1>5, <1>6 DEF ScheduleStep

\* Catching up is an invariant.
LEMMA AlwaysCatching == Spec => [](Typed /\ Catching)
<1>1. Init => Catching
  BY DEF Init, SchedulesInit, Catching, ActivationFits, SlotsPast, CaughtUp, Slots, Scheduled
<1>2. Typed /\ Catching /\ [Next]_vars => Typed' /\ Catching'
  BY StepTyped, StepCaughtUp, ClockRuns
<1>3. QED
  BY <1>1, <1>2, InitTyped, PTL DEF Spec

\* However long the scheduler was down: no allowed slot between an activation
\* and the occurrence the schedule waits for is passed over.
THEOREM NothingSkipped == Spec => []NoOccurrenceSkipped
<1>1. Typed /\ Catching => NoOccurrenceSkipped
  BY DEF Catching, CaughtUp, NoOccurrenceSkipped, Slots
<1>2. QED
  BY <1>1, AlwaysCatching, PTL

\* What a schedule waits for is allowed and has not happened, so the unique
\* index on occurrences never refuses it.
THEOREM NextIsNew == Spec => []NextOccurrenceIsNew
<1>1. Typed /\ Catching => NextOccurrenceIsNew
  BY DEF Catching, CaughtUp, NextOccurrenceIsNew, Slots
<1>2. QED
  BY <1>1, AlwaysCatching, PTL

-----------------------------------------------------------------------------
(* Recipients.  What the two properties about them need: an identity that  *)
(* was never invited has no membership, one that waits is a member only of *)
(* the store that invited it, and only one that waits or was withdrawn has *)
(* an unused invitation.                                                   *)

Waiting(r) ==
    /\ identity[r].line # None <=> identity[r].status = "ACTIVE"
    /\ ~ invitation[r].used => identity[r].status \in {"PENDING", "REVOKED"}
    /\ identity[r].status = "ABSENT" => \A t \in Tenant : member[t][r].status = "NONE"
    /\ identity[r].status = "PENDING" =>
          \A t \in Tenant : member[t][r].status # "NONE" => invitation[r].of = t

OpenWaits(r) ==
    ~ invitation[r].used /\ invitation[r].until > now =>
        /\ identity[r].status = "PENDING"
        /\ member[invitation[r].of][r].status = "PENDING"

Consistent == \A r \in Recipient : Waiting(r) /\ OpenWaits(r)

\* Rows of the recipient tables.
LEMMA RecipientRows ==
    ASSUME DirectoryTyped, NEW r \in Recipient
    PROVE  /\ identity[r] \in IdentityRow /\ identity[r].status \in IdentityStatus
           /\ invitation[r] \in InvitationRow /\ invitation[r].until \in Nat
           /\ ~ invitation[r].used => invitation[r].of \in Tenant
           /\ invitation[r].used \in BOOLEAN
           /\ \A t \in Tenant : member[t][r] \in MemberRow /\ member[t][r].status \in MembershipStatus
           /\ now \in Nat
BY DEF DirectoryTyped, IdentitiesTyped, InvitationsTyped, MembersTyped, IdentityRow,
   InvitationRow, MemberRow

\* A recipient the step does not touch.
LEMMA Untouched ==
    ASSUME DirectoryTyped, now' \in Nat, now <= now', NEW r \in Recipient,
           Waiting(r), OpenWaits(r),
           identity'[r] = identity[r], invitation'[r] = invitation[r],
           \A t \in Tenant : member'[t][r].status = member[t][r].status
    PROVE  (Waiting(r) /\ OpenWaits(r))'
<1>1. Waiting(r)'
  BY DEF Waiting
<1>2. OpenWaits(r)'
  BY RecipientRows DEF OpenWaits
<1>3. QED
  BY <1>1, <1>2

\* Invitations, new and renewed.
LEMMA InvitingConsistent ==
    ASSUME DirectoryTyped, now' = now, Consistent, NEW t \in Tenant, NEW r \in Recipient,
           CreateInvitation(t, r) \/ ReissueInvitation(t, r)
    PROVE  Consistent'
<1> SUFFICES ASSUME NEW x \in Recipient PROVE (Waiting(x) /\ OpenWaits(x))'
  BY DEF Consistent
<1>1. /\ Waiting(x) /\ OpenWaits(x) /\ now \in Nat
      /\ identity \in [Recipient -> IdentityRow] /\ invitation \in [Recipient -> InvitationRow]
      /\ member \in [Tenant -> [Recipient -> MemberRow]]
  BY DEF Consistent, DirectoryTyped, IdentitiesTyped, InvitationsTyped, MembersTyped
<1>2. CASE x # r
  <2>1. /\ identity'[x] = identity[x] /\ invitation'[x] = invitation[x]
        /\ \A u \in Tenant : member'[u][x] = member[u][x]
    BY <1>1, <1>2 DEF CreateInvitation, ReissueInvitation
  <2>2. QED
    BY <1>1, <2>1, Untouched
<1>3. CASE x = r /\ CreateInvitation(t, r)
  <2>1. /\ identity'[r] = [identity[r] EXCEPT !.status = "PENDING"]
        /\ invitation'[r] = [issue |-> 1, of |-> t, until |-> now + InvitationSlots, used |-> FALSE]
        /\ member'[t][r] = [status |-> "PENDING", version |-> 1, keys |-> {}]
        /\ \A u \in Tenant \ {t} : member'[u][r] = member[u][r]
    BY <1>1, <1>3 DEF CreateInvitation
  <2>2. /\ identity'[r].status = "PENDING" /\ identity'[r].line = identity[r].line
        /\ invitation'[r].of = t /\ member'[t][r].status = "PENDING"
    BY <1>1, <2>1 DEF IdentityRow
  <2>3. identity[r].status = "ABSENT"
    BY <1>3 DEF CreateInvitation
  <2>4. QED
    BY <1>1, <1>3, <2>1, <2>2, <2>3 DEF Waiting, OpenWaits
<1>4. CASE x = r /\ ReissueInvitation(t, r)
  <2>1. /\ invitation'[r].of = t /\ invitation'[r].used = FALSE
        /\ identity' = identity /\ member' = member /\ invitation[r].of = t
        /\ identity[r].status = "PENDING" /\ member[t][r].status = "PENDING"
    BY <1>1, <1>4 DEF ReissueInvitation
  <2>2. QED
    BY <1>1, <1>4, <2>1 DEF Waiting, OpenWaits
<1>5. QED
  BY <1>2, <1>3, <1>4

\* Permissions and revocation.
LEMMA PermittingConsistent ==
    ASSUME DirectoryTyped, now' = now, Consistent, NEW t \in Tenant, NEW r \in Recipient,
           RevokeMember(t, r) \/ \E keys \in PermissionSets : ReplaceKeys(t, r, keys)
    PROVE  Consistent'
<1> SUFFICES ASSUME NEW x \in Recipient PROVE (Waiting(x) /\ OpenWaits(x))'
  BY DEF Consistent
<1>1. /\ Waiting(x) /\ OpenWaits(x) /\ now \in Nat
      /\ identity \in [Recipient -> IdentityRow] /\ invitation \in [Recipient -> InvitationRow]
      /\ member \in [Tenant -> [Recipient -> MemberRow]]
  BY DEF Consistent, DirectoryTyped, IdentitiesTyped, InvitationsTyped, MembersTyped
<1>2. ASSUME NEW keys \in PermissionSets, ReplaceKeys(t, r, keys)
      PROVE  (Waiting(x) /\ OpenWaits(x))'
  <2>1. \A u \in Tenant : member'[u][x].status = member[u][x].status
    BY <1>1, <1>2 DEF ReplaceKeys
  <2>2. QED
    BY <1>1, <1>2, <2>1, Untouched DEF ReplaceKeys
<1>3. CASE RevokeMember(t, r) /\ x # r
  <2>1. /\ identity'[x] = identity[x] /\ invitation'[x] = invitation[x]
        /\ \A u \in Tenant : member'[u][x] = member[u][x]
    BY <1>1, <1>3 DEF RevokeMember
  <2>2. QED
    BY <1>1, <2>1, Untouched
<1>4. CASE RevokeMember(t, r) /\ x = r
  <2>1. /\ identity'[r] = [identity[r] EXCEPT !.status =
              IF member[t][r].status = "PENDING" /\ @ = "PENDING" THEN "REVOKED" ELSE @]
        /\ invitation'[r] = [invitation[r] EXCEPT !.until =
              IF invitation[r].of = t /\ ~ invitation[r].used /\ now < @ THEN now ELSE @]
        /\ member'[t][r].status = "REVOKED" /\ member[t][r].status # "NONE"
        /\ \A u \in Tenant \ {t} : member'[u][r] = member[u][r]
    BY <1>1, <1>4 DEF RevokeMember
  <2>2. /\ identity'[r].line = identity[r].line
        /\ identity'[r].status \in {identity[r].status, "REVOKED"}
        /\ identity'[r].status # identity[r].status => identity[r].status = "PENDING"
    BY <1>1, <2>1 DEF IdentityRow
  <2>3. /\ invitation'[r].of = invitation[r].of /\ invitation'[r].used = invitation[r].used
        /\ invitation'[r].until =
              IF invitation[r].of = t /\ ~ invitation[r].used /\ now < invitation[r].until
              THEN now ELSE invitation[r].until
    BY <1>1, <2>1 DEF InvitationRow
  <2>4. invitation[r].until \in Nat
    BY RecipientRows
  <2>5. Waiting(r)'
    BY <1>1, <1>4, <2>1, <2>2, <2>3 DEF Waiting
  <2>6. OpenWaits(r)'
    <3>1. SUFFICES ASSUME ~ invitation'[r].used, invitation'[r].until > now PROVE FALSE
      BY DEF OpenWaits
    <3>2. invitation[r].of # t /\ invitation[r].until > now /\ ~ invitation[r].used
      BY <1>1, <2>3, <2>4, <3>1
    <3>3. identity[r].status = "PENDING"
      BY <1>1, <1>4, <3>2 DEF OpenWaits
    <3>4. QED
      BY <1>1, <1>4, <2>1, <3>2, <3>3 DEF Waiting
  <2>7. QED
    BY <1>4, <2>5, <2>6
<1>5. QED
  BY <1>2, <1>3, <1>4

\* The archive of a store.
LEMMA ArchivingConsistent ==
    ASSUME DirectoryTyped, now' = now, Consistent, NEW t \in Tenant, ArchiveDirectory(t)
    PROVE  Consistent'
<1> SUFFICES ASSUME NEW r \in Recipient PROVE (Waiting(r) /\ OpenWaits(r))'
  BY DEF Consistent
<1>1. /\ Waiting(r) /\ OpenWaits(r) /\ now \in Nat
      /\ identity[r] \in IdentityRow /\ invitation[r] \in InvitationRow
      /\ \A u \in Tenant : member[u][r] \in MemberRow
      /\ member \in [Tenant -> [Recipient -> MemberRow]]
  BY DEF Consistent, DirectoryTyped, IdentitiesTyped, InvitationsTyped, MembersTyped
<1>2. /\ identity'[r].line = identity[r].line
      /\ identity'[r].status = IF identity[r].status = "PENDING" /\ member[t][r].status # "NONE"
                               THEN "REVOKED" ELSE identity[r].status
  BY <1>1 DEF ArchiveDirectory, IdentityRow
<1>3. /\ invitation'[r].of = invitation[r].of /\ invitation'[r].until = invitation[r].until
      /\ invitation'[r].used = (invitation[r].of = t \/ invitation[r].used)
  BY <1>1 DEF ArchiveDirectory, InvitationRow
<1>4. /\ member'[t][r].status = IF member[t][r].status = "NONE" THEN "NONE" ELSE "REVOKED"
      /\ \A u \in Tenant \ {t} : member'[u][r] = member[u][r]
  BY <1>1 DEF ArchiveDirectory, MemberRow
<1>5. Waiting(r)'
  BY <1>1, <1>2, <1>3, <1>4 DEF Waiting
<1>6. OpenWaits(r)'
  <2>1. SUFFICES ASSUME ~ invitation'[r].used, invitation'[r].until > now
                 PROVE  /\ identity'[r].status = "PENDING"
                        /\ member'[invitation'[r].of][r].status = "PENDING"
    BY DEF OpenWaits
  <2>2. invitation[r].of # t /\ ~ invitation[r].used /\ invitation[r].until > now
    BY <1>3, <2>1
  <2>3. /\ identity[r].status = "PENDING" /\ member[invitation[r].of][r].status = "PENDING"
        /\ invitation[r].of \in Tenant
    BY <1>1, <2>2, RecipientRows DEF OpenWaits
  <2>4. member[t][r].status = "NONE"
    BY <1>1, <2>2, <2>3 DEF Waiting
  <2>5. QED
    BY <1>2, <1>3, <1>4, <2>2, <2>3, <2>4
<1>7. QED
  BY <1>5, <1>6

\* A redemption in the rows of the recipients: the pending one is withdrawn in
\* favour of one that is bound already, whose membership becomes ACTIVE and who
\* loses no permission, or it is bound itself.
LEMMA RedeemedRows ==
    ASSUME DirectoryTyped, NEW u \in LineUser, NEW pending, NEW t, Redeemed(u, pending, t)
    PROVE  /\ pending \in Recipient /\ t \in Tenant /\ ~ invitation[pending].used
           /\ invitation'[pending].used
           /\ \A r \in Recipient \ {pending} :
                 identity'[r] = identity[r] /\ invitation'[r] = invitation[r]
           /\ \A r \in Recipient, x \in Tenant :
                 r # pending => \/ member'[x][r] = member[x][r]
                                \/ /\ identity[r].status = "ACTIVE" /\ x = t
                                   /\ member'[x][r].status = "ACTIVE"
                                   /\ member[x][r].keys \subseteq member'[x][r].keys
           /\ \/ /\ identity'[pending].status = "REVOKED"
                 /\ identity'[pending].line = identity[pending].line
              \/ identity'[pending].status = "ACTIVE" /\ identity'[pending].line = u
<1>1. /\ pending \in Recipient /\ t \in Tenant /\ ~ invitation[pending].used
      /\ identity[pending] \in IdentityRow /\ invitation[pending] \in InvitationRow
      /\ identity \in [Recipient -> IdentityRow] /\ invitation \in [Recipient -> InvitationRow]
      /\ member \in [Tenant -> [Recipient -> MemberRow]]
  BY DEF Redeemed, DirectoryTyped, IdentitiesTyped, InvitationsTyped, MembersTyped
<1>2. /\ invitation'[pending].used
      /\ \A r \in Recipient \ {pending} : invitation'[r] = invitation[r]
  BY <1>1 DEF Redeemed, InvitationRow
<1>3. ASSUME NEW known \in BoundTo(u) \ {pending}, MergeRecipient(t, pending, known)
      PROVE  /\ identity'[pending].status = "REVOKED"
             /\ identity'[pending].line = identity[pending].line
             /\ \A r \in Recipient \ {pending} : identity'[r] = identity[r]
             /\ \A r \in Recipient, x \in Tenant :
                   r # pending => \/ member'[x][r] = member[x][r]
                                  \/ /\ identity[r].status = "ACTIVE" /\ x = t
                                     /\ member'[x][r].status = "ACTIVE"
                                     /\ member[x][r].keys \subseteq member'[x][r].keys
  <2>1. known \in Recipient /\ known # pending /\ identity[known].status = "ACTIVE"
    BY <1>3 DEF BoundTo
  <2>2. /\ identity'[pending] = [identity[pending] EXCEPT !.status = "REVOKED"]
        /\ \A r \in Recipient \ {pending} : identity'[r] = identity[r]
    BY <1>1, <1>3 DEF MergeRecipient
  <2> DEFINE row == [status  |-> "ACTIVE",
                     version |-> IF member[t][known].status = "NONE" THEN 1
                                 ELSE member[t][known].version,
                     keys    |-> member[t][known].keys \cup member[t][pending].keys]
  <2>3. row.status = "ACTIVE" /\ member[t][known].keys \subseteq row.keys
    OBVIOUS
  <2>4. member' = [member EXCEPT ![t][known] = row, ![t][pending].status = "REVOKED"]
    BY <1>1, <1>3, <2>1 DEF MergeRecipient
  <2> HIDE DEF row
  <2>5. /\ member'[t][known] = row
        /\ \A r \in Recipient, x \in Tenant :
              r # pending /\ ~ (r = known /\ x = t) => member'[x][r] = member[x][r]
    BY <1>1, <2>1, <2>4
  <2>6. QED
    BY <1>1, <2>1, <2>2, <2>3, <2>5 DEF IdentityRow
<1>4. ASSUME BindRecipient(t, pending, u)
      PROVE  /\ identity'[pending].status = "ACTIVE" /\ identity'[pending].line = u
             /\ \A r \in Recipient \ {pending} : identity'[r] = identity[r]
             /\ \A r \in Recipient, x \in Tenant : r # pending => member'[x][r] = member[x][r]
  BY <1>1, <1>4 DEF BindRecipient
<1>5. \/ \E known \in BoundTo(u) \ {pending} : MergeRecipient(t, pending, known)
      \/ BindRecipient(t, pending, u)
  BY Zenon DEF Redeemed
<1>6. QED
  BY <1>1, <1>2, <1>3, <1>4, <1>5

\* Redemptions.
LEMMA RedeemingConsistent ==
    ASSUME DirectoryTyped, now' = now, Consistent, NEW u \in LineUser,
           (\E r \in Recipient : BeginRedeem(u, r)) \/ RedeemInvitation(u)
    PROVE  Consistent'
<1> SUFFICES ASSUME NEW r \in Recipient PROVE (Waiting(r) /\ OpenWaits(r))'
  BY DEF Consistent
<1>1. Waiting(r) /\ OpenWaits(r) /\ now \in Nat
  BY DEF Consistent, DirectoryTyped
<1>2. ASSUME UNCHANGED <<identity, member, invitation>> PROVE (Waiting(r) /\ OpenWaits(r))'
  BY <1>1, <1>2, Untouched
<1>3. ASSUME NEW pending, NEW t, Redeemed(u, pending, t) PROVE (Waiting(r) /\ OpenWaits(r))'
  <2>1. pending \in Recipient /\ Waiting(pending) /\ ~ invitation[pending].used
    BY <1>3 DEF Redeemed, Consistent
  <2>2. identity[pending].line = None /\ u # None
    BY <2>1, DirectoryConstants DEF Waiting
  <2>3. CASE r = pending
    BY <1>1, <1>3, <2>2, <2>3, RedeemedRows DEF Waiting, OpenWaits
  <2>4. CASE r # pending /\ identity[r].status # "ACTIVE"
    <3>1. /\ identity'[r] = identity[r] /\ invitation'[r] = invitation[r]
          /\ \A x \in Tenant : member'[x][r] = member[x][r]
      BY <1>3, <2>4, RedeemedRows
    <3>2. QED
      BY <1>1, <3>1, Untouched
  <2>5. CASE r # pending /\ identity[r].status = "ACTIVE"
    <3>1. identity'[r] = identity[r] /\ invitation'[r] = invitation[r]
      BY <1>3, <2>5, RedeemedRows
    <3>2. QED
      BY <1>1, <2>5, <3>1 DEF Waiting, OpenWaits
  <2>6. QED
    BY <2>3, <2>4, <2>5
<1>4. QED
  BY <1>2, <1>3, RedeemCases DEF BeginRedeem

\* Every step keeps the recipients consistent.
LEMMA StepConsistent == Typed /\ Consistent /\ [Next]_vars => Consistent'
<1> SUFFICES ASSUME Typed, Consistent, [Next]_vars PROVE Consistent'
  OBVIOUS
<1>1. DirectoryTyped /\ now \in Nat /\ now' \in Nat /\ now <= now'
  BY ClockRuns DEF Typed
<1>2. ASSUME UNCHANGED <<identity, member, invitation>> PROVE Consistent'
  BY <1>1, <1>2, Untouched DEF Consistent
<1>3. CASE Edit
  <2>1. now' = now
    BY <1>3 DEF Edit
  <2>2. CASE EditStores \/ EditConnections \/ EditSchedules
    BY <1>2, <2>2 DEF EditStores, EditConnections, EditSchedules, directoryVars, CreateTenant,
       UpdateTenant, PutConnection, StartTest
  <2>3. CASE EditRecipients
    BY <1>1, <2>1, <2>3, InvitingConsistent, RedeemingConsistent DEF EditRecipients
  <2>4. CASE \E t \in Tenant : ArchiveTenant(t)
    BY <1>1, <2>1, <2>4, ArchivingConsistent DEF ArchiveTenant
  <2>5. CASE \E t \in Tenant, r \in Recipient : ReplacePermissions(t, r) \/ Revoke(t, r)
    BY <1>1, <2>1, <2>5, PermittingConsistent DEF ReplacePermissions, Revoke
  <2>6. QED
    BY <1>3, <2>2, <2>3, <2>4, <2>5 DEF Edit
<1>4. CASE Proceed
  BY <1>1, <1>2, <1>4, RedeemingConsistent DEF Proceed, MarkTested, directoryVars
<1>5. CASE Tick \/ UNCHANGED vars
  BY <1>2, <1>5 DEF Tick, vars, directoryVars
<1>6. QED
  BY <1>3, <1>4, <1>5 DEF Next

\* The recipients' consistency is an invariant.
LEMMA AlwaysConsistent == Spec => [](Typed /\ Consistent)
<1>1. Init => Consistent
  BY DEF Init, DirectoryInit, Consistent, Waiting, OpenWaits, NoInvitation, NoMember
<1>2. QED
  BY <1>1, InitTyped, StepTyped, StepConsistent, PTL DEF Spec

\* Neither revocation nor archiving withdraws an identity that a LINE account
\* is bound to.
THEOREM BoundIdentitiesStay == Spec => []BoundIdentityStaysActive
<1>1. Typed /\ Consistent => BoundIdentityStaysActive
  BY DEF Consistent, Waiting, BoundIdentityStaysActive
<1>2. QED
  BY <1>1, AlwaysConsistent, PTL

\* Whoever can redeem an invitation is still waiting in the store it is of.
THEOREM OpenInvitationsWait == Spec => []OpenInvitationIsPending
<1>1. Typed /\ Consistent => OpenInvitationIsPending
  BY DEF Consistent, OpenWaits, OpenInvitationIsPending
<1>2. QED
  BY <1>1, AlwaysConsistent, PTL

-----------------------------------------------------------------------------
(* Recipients, stores and schedules together.                              *)

\* A recipient serves reports in a store: bound, a member, and permitted.
Serves(t, r, reports) == RecipientActive(t, r) /\ reports \subseteq member[t][r].keys

Servable(s) ==
    schedule[s].status = "ACTIVE" =>
        \A r \in schedule[s].plan.recipients : Serves(storeOf[s], r, schedule[s].plan.reports)

Quiet(t) ==
    tenant[t].archived =>
        /\ tenant[t].status = "DISABLED"
        /\ \A s \in Schedule : storeOf[s] = t => schedule[s].status # "ACTIVE"

Sound == (\A s \in Schedule : Servable(s)) /\ (\A t \in Tenant : Quiet(t))

\* Apart from an archive, a step writes schedules or the directory, not both.
LEMMA OneSide ==
    ASSUME [Next]_vars
    PROVE  \/ UNCHANGED schedule
           \/ UNCHANGED <<tenant, identity, member>> /\ now' = now
           \/ \E t \in Tenant : ArchiveTenant(t)
BY DEF Next, Edit, Proceed, Tick, EditStores, EditConnections, EditRecipients, EditSchedules,
   ReplacePermissions, Revoke, directoryVars, scheduleVars, vars

\* A step on schedules: what becomes ACTIVE is ready, what stays so keeps its
\* plan.
LEMMA SchedulesSound ==
    ASSUME Typed, Sound, ScheduleStep, UNCHANGED <<tenant, identity, member>>,
           ~ \E t \in Tenant : ArchiveTenant(t)
    PROVE  Sound'
<1>1. SchedulesTyped /\ DOMAIN schedule = Schedule
  BY DEF Typed, SchedulesTyped, RowsTyped
<1>2. ASSUME NEW s \in Schedule
      PROVE  \/ schedule'[s].status # "ACTIVE"
             \/ schedule[s].status = "ACTIVE" /\ schedule'[s].plan = schedule[s].plan
             \/ Ready(s) /\ schedule'[s].plan = schedule[s].plan
  <2>1. CASE \E x \in Schedule : Shelved(x)
    <3>1. PICK x \in Schedule, row \in GoodRow :
             schedule' = [schedule EXCEPT ![x] = row] /\ row.status # "ACTIVE"
      BY <2>1 DEF Shelved
    <3>2. QED
      BY <1>1, <3>1
  <2>2. CASE \E x \in Schedule : Activated(x) \/ Materialized(x)
    BY <2>2 DEF Activated, Materialized
  <2>3. CASE UNCHANGED schedule
    BY <2>3
  <2>4. QED
    BY <2>1, <2>2, <2>3 DEF ScheduleStep
<1>3. ASSUME NEW s \in Schedule PROVE Servable(s)'
  BY <1>2, <1>3 DEF Servable, Serves, RecipientActive, Ready, HasPermissions, Sound
<1>4. ASSUME NEW t \in Tenant PROVE Quiet(t)'
  BY <1>2, <1>4 DEF Quiet, Ready, TenantActive, Sound
<1>5. QED
  BY <1>3, <1>4 DEF Sound

\* The archive of a store: its schedules rest, and the identities it withdraws
\* serve nobody's.
LEMMA ArchiveSound ==
    ASSUME Typed, Sound, NEW t \in Tenant, ArchiveTenant(t)
    PROVE  Sound'
<1>1. /\ DirectoryTyped /\ SchedulesTyped /\ ArchiveDirectory(t) /\ ArchiveSchedulesOf(t)
      /\ tenant \in [Tenant -> TenantRow]
      /\ identity \in [Recipient -> IdentityRow]
      /\ member \in [Tenant -> [Recipient -> MemberRow]]
  BY DEF Typed, ArchiveTenant, DirectoryTyped, TenantsTyped, IdentitiesTyped, MembersTyped
<1>2. /\ tenant'[t].status = "DISABLED"
      /\ \A u \in Tenant \ {t} : tenant'[u] = tenant[u]
  BY <1>1 DEF ArchiveDirectory, TenantRow
<1>3. ASSUME NEW s \in Schedule
      PROVE  \/ schedule'[s].status # "ACTIVE"
             \/ schedule'[s] = schedule[s] /\ storeOf[s] # t
  BY <1>1, <1>3, SchedulesArchived
<1>4. ASSUME NEW u \in Tenant \ {t}, NEW r \in Recipient, RecipientActive(u, r)
      PROVE  member'[u][r] = member[u][r] /\ identity'[r] = identity[r]
  BY <1>1, <1>4 DEF ArchiveDirectory, RecipientActive
<1>5. ASSUME NEW s \in Schedule PROVE Servable(s)'
  <2>1. SUFFICES ASSUME schedule'[s].status = "ACTIVE" PROVE Servable(s)'
    BY DEF Servable
  <2>2. schedule'[s] = schedule[s] /\ storeOf[s] \in Tenant \ {t} /\ schedule[s] \in GoodRow
    BY <1>1, <1>3, <2>1, ScheduleConstants, ScheduleNumbers
  <2>3. ASSUME NEW r \in schedule[s].plan.recipients
        PROVE  Serves(storeOf[s], r, schedule[s].plan.reports)'
    <3>1. r \in Recipient
      BY <2>2, PlansTimed DEF GoodRow
    <3>2. Serves(storeOf[s], r, schedule[s].plan.reports)
      BY <2>1, <2>2 DEF Sound, Servable
    <3>3. QED
      BY <1>4, <2>2, <3>1, <3>2 DEF Serves, RecipientActive
  <2>4. QED
    BY <2>2, <2>3 DEF Servable, Serves, RecipientActive
<1>6. ASSUME NEW u \in Tenant PROVE Quiet(u)'
  BY <1>2, <1>3, <1>6 DEF Quiet, Sound
<1>7. QED
  BY <1>5, <1>6 DEF Sound

\* Nobody who serves loses anything when stores are edited, and when recipients
\* are invited or redeem.
LEMMA NobodyLoses ==
    ASSUME Typed, Consistent, NEW t \in Tenant, NEW r \in Recipient, RecipientActive(t, r),
           \/ UNCHANGED <<identity, member>>
           \/ \E x \in Tenant, y \in Recipient : CreateInvitation(x, y)
           \/ \E u \in LineUser : RedeemInvitation(u)
    PROVE  RecipientActive(t, r)' /\ member[t][r].keys \subseteq member'[t][r].keys
<1>1. /\ DirectoryTyped /\ identity \in [Recipient -> IdentityRow]
      /\ member \in [Tenant -> [Recipient -> MemberRow]]
  BY DEF Typed, DirectoryTyped, IdentitiesTyped, MembersTyped
<1>2. CASE UNCHANGED <<identity, member>>
  BY <1>2 DEF RecipientActive
<1>3. CASE \E x \in Tenant, y \in Recipient : CreateInvitation(x, y)
  <2>1. PICK x \in Tenant, y \in Recipient : CreateInvitation(x, y)
    BY <1>3
  <2>2. y # r
    BY <2>1 DEF CreateInvitation, RecipientActive
  <2>3. identity'[r] = identity[r] /\ member'[t][r] = member[t][r]
    BY <1>1, <2>1, <2>2 DEF CreateInvitation
  <2>4. QED
    BY <2>3 DEF RecipientActive
<1>4. ASSUME NEW u \in LineUser, NEW pending, NEW x, Redeemed(u, pending, x)
      PROVE  RecipientActive(t, r)' /\ member[t][r].keys \subseteq member'[t][r].keys
  <2>1. r # pending
    BY <1>4 DEF Redeemed, Consistent, Waiting, RecipientActive
  <2>2. /\ identity'[r] = identity[r]
        /\ \/ member'[t][r] = member[t][r]
           \/ member'[t][r].status = "ACTIVE" /\ member[t][r].keys \subseteq member'[t][r].keys
    BY <1>1, <1>4, <2>1, RedeemedRows
  <2>3. QED
    BY <2>2 DEF RecipientActive
<1>5. CASE \E u \in LineUser : RedeemInvitation(u)
  BY <1>1, <1>2, <1>4, <1>5, RedeemCases
<1>6. QED
  BY <1>2, <1>3, <1>5

\* Permission changes and revocation spare whoever serves an ACTIVE schedule:
\* that is what the dependency query of both is for.
LEMMA NobodyNeededLoses ==
    ASSUME Typed, Sound, NEW t \in Tenant, NEW r \in Recipient,
           \/ \E keys \in PermissionSets : NotNeeded(t, r, keys) /\ ReplaceKeys(t, r, keys)
           \/ NotNeeded(t, r, {}) /\ RevokeMember(t, r),
           NEW s \in Schedule, schedule[s].status = "ACTIVE",
           NEW x \in schedule[s].plan.recipients
    PROVE  /\ RecipientActive(storeOf[s], x)'
           /\ schedule[s].plan.reports \subseteq member'[storeOf[s]][x].keys
<1>1. /\ identity \in [Recipient -> IdentityRow] /\ member \in [Tenant -> [Recipient -> MemberRow]]
      /\ SchedulesTyped
  BY DEF Typed, DirectoryTyped, IdentitiesTyped, MembersTyped
<1>2. /\ storeOf[s] \in Tenant /\ x \in Recipient
      /\ schedule[s].plan.reports # {}
  BY <1>1, ScheduleNumbers, ScheduleConstants, PlansTimed DEF GoodRow
<1>3. /\ identity[x].status = "ACTIVE" /\ member[storeOf[s]][x].status = "ACTIVE"
      /\ schedule[s].plan.reports \subseteq member[storeOf[s]][x].keys
  BY DEF Sound, Servable, Serves, RecipientActive
<1>4. ASSUME NEW keys \in PermissionSets, NotNeeded(t, r, keys), ReplaceKeys(t, r, keys)
      PROVE  /\ RecipientActive(storeOf[s], x)'
             /\ schedule[s].plan.reports \subseteq member'[storeOf[s]][x].keys
  <2>1. CASE storeOf[s] = t /\ x = r
    <3>1. schedule[s].plan.reports \subseteq keys
      BY <1>4, <2>1 DEF NotNeeded
    <3>2. member'[t][r].status = member[t][r].status /\ member'[t][r].keys = keys
      BY <1>1, <1>4 DEF ReplaceKeys
    <3>3. QED
      BY <1>3, <1>4, <2>1, <3>1, <3>2 DEF ReplaceKeys, RecipientActive
  <2>2. CASE ~ (storeOf[s] = t /\ x = r)
    <3>1. member'[storeOf[s]][x] = member[storeOf[s]][x]
      BY <1>1, <1>2, <1>4, <2>2 DEF ReplaceKeys
    <3>2. QED
      BY <1>3, <1>4, <3>1 DEF ReplaceKeys, RecipientActive
  <2>3. QED
    BY <2>1, <2>2
<1>5. CASE NotNeeded(t, r, {}) /\ RevokeMember(t, r)
  <2>1. ~ (storeOf[s] = t /\ x = r)
    BY <1>2, <1>5 DEF NotNeeded
  <2>2. member'[storeOf[s]][x] = member[storeOf[s]][x]
    BY <1>1, <1>2, <1>5, <2>1 DEF RevokeMember
  <2>3. identity'[x].status = identity[x].status
    BY <1>1, <1>2, <1>3, <1>5 DEF RevokeMember, IdentityRow
  <2>4. QED
    BY <1>3, <2>2, <2>3 DEF RecipientActive
<1>6. QED
  BY <1>4, <1>5

\* A step on the directory.
LEMMA DirectorySound ==
    ASSUME Typed, Consistent, Sound, [Next]_vars, UNCHANGED schedule,
           ~ \E t \in Tenant : ArchiveTenant(t)
    PROVE  Sound'
<1>1. /\ SchedulesTyped /\ tenant \in [Tenant -> TenantRow]
  BY DEF Typed, DirectoryTyped, TenantsTyped
<1>2. \/ UNCHANGED <<identity, member>>
      \/ \E x \in Tenant, y \in Recipient : CreateInvitation(x, y)
      \/ \E u \in LineUser : RedeemInvitation(u)
      \/ \E t \in Tenant, r \in Recipient : ReplacePermissions(t, r) \/ Revoke(t, r)
  BY DEF Next, Edit, Proceed, Tick, EditStores, EditConnections, EditRecipients, EditSchedules,
     directoryVars, vars, CreateTenant, UpdateTenant, PutConnection, StartTest, MarkTested,
     ReissueInvitation, BeginRedeem
<1>3. \/ UNCHANGED tenant
      \/ \E t \in Tenant : CreateTenant(t) \/ UpdateTenant(t)
  BY DEF Next, Edit, Proceed, Tick, EditStores, EditConnections, EditRecipients, EditSchedules,
     directoryVars, vars, PutConnection, StartTest, MarkTested, CreateInvitation,
     ReissueInvitation, BeginRedeem, RedeemInvitation, ReplacePermissions, Revoke, ReplaceKeys,
     RevokeMember
<1>4. ASSUME NEW s \in Schedule, schedule[s].status = "ACTIVE",
             NEW r \in schedule[s].plan.recipients
      PROVE  /\ RecipientActive(storeOf[s], r)'
             /\ schedule[s].plan.reports \subseteq member'[storeOf[s]][r].keys
  <2>1. storeOf[s] \in Tenant /\ r \in Recipient
    BY <1>1, <1>4, ScheduleNumbers, ScheduleConstants, PlansTimed DEF GoodRow
  <2>2. /\ RecipientActive(storeOf[s], r)
        /\ schedule[s].plan.reports \subseteq member[storeOf[s]][r].keys
    BY <1>4 DEF Sound, Servable, Serves
  <2>3. CASE \E t \in Tenant, x \in Recipient : ReplacePermissions(t, x) \/ Revoke(t, x)
    BY <1>4, <2>3, NobodyNeededLoses DEF ReplacePermissions, Revoke
  <2>4. QED
    BY <1>2, <2>1, <2>2, <2>3, NobodyLoses
<1>5. ASSUME NEW s \in Schedule PROVE Servable(s)'
  BY <1>4, <1>5 DEF Servable, Serves, RecipientActive
<1>6. ASSUME NEW t \in Tenant, CreateTenant(t) \/ UpdateTenant(t), NEW u \in Tenant,
             tenant'[u].archived
      PROVE  tenant'[u] = tenant[u]
  <2>1. CASE u # t
    BY <1>1, <1>6, <2>1 DEF CreateTenant, UpdateTenant
  <2>2. CASE u = t
    <3>1. tenant[t] \in TenantRow
      BY <1>1
    <3>2. ~ tenant'[t].archived
      <4>1. CASE CreateTenant(t)
        BY <1>1, <4>1 DEF CreateTenant
      <4>2. ASSUME UpdateTenant(t) PROVE ~ tenant'[t].archived
        <5>1. PICK v \in Nat : v = tenant[t].version + 1
          BY <3>1 DEF TenantRow
        <5>2. \/ \E status \in StoredStatus :
                    tenant'[t] = [tenant[t] EXCEPT !.status = status, !.version = v]
              \/ \E end \in AccessEnds :
                    tenant'[t] = [tenant[t] EXCEPT !.ends = end, !.version = v]
          BY <1>1, <4>2, <5>1 DEF UpdateTenant
        <5>3. tenant'[t].archived = tenant[t].archived
          BY <3>1, <5>2 DEF TenantRow
        <5>4. QED
          BY <4>2, <5>3 DEF UpdateTenant
      <4>3. QED
        BY <1>6, <4>1, <4>2
    <3>3. QED
      BY <1>6, <2>2, <3>2
  <2>3. QED
    BY <2>1, <2>2
<1>7. ASSUME NEW u \in Tenant PROVE Quiet(u)'
  BY <1>3, <1>6, <1>7 DEF Quiet, Sound
<1>8. QED
  BY <1>5, <1>7 DEF Sound

\* Soundness is an invariant.
LEMMA AlwaysSound == Spec => [](Typed /\ Consistent /\ Sound)
<1>1. Init => Sound
  BY DEF Init, DirectoryInit, SchedulesInit, Sound, Servable, Quiet, NoSchedule, NoTenant
<1>2. Typed /\ Consistent /\ Sound /\ [Next]_vars => Sound'
  <2> SUFFICES ASSUME Typed, Consistent, Sound, [Next]_vars PROVE Sound'
    OBVIOUS
  <2>1. ScheduleStep
    BY StepTyped
  <2>2. QED
    BY <2>1, OneSide, SchedulesSound, DirectorySound, ArchiveSound
<1>3. QED
  BY <1>1, <1>2, InitTyped, StepTyped, StepConsistent, AlwaysConsistent, PTL DEF Spec

\* Nothing is taken from a recipient that an ACTIVE schedule needs.
THEOREM ActiveSchedulesServable == Spec => []ActiveScheduleIsServable
<1>1. Sound => ActiveScheduleIsServable
  BY DEF Sound, Servable, Serves, ActiveScheduleIsServable
<1>2. QED
  BY <1>1, AlwaysSound, PTL

\* An archived store stays quiet, whatever was under way when it was archived.
THEOREM ArchivedStoresQuiet == Spec => []ArchivedTenantStaysQuiet
<1>1. Sound => ArchivedTenantStaysQuiet
  BY DEF Sound, Quiet, ArchivedTenantStaysQuiet
<1>2. QED
  BY <1>1, AlwaysSound, PTL
=============================================================================
