--------------------------- MODULE Administration ---------------------------
(***************************************************************************)
(* The administrator's configuration as a whole: stores, connections,      *)
(* recipients and schedules change while invitations are redeemed,         *)
(* occurrences come due and are carried out.                               *)
(***************************************************************************)
EXTENDS Schedules

CONSTANTS
    MaxEdits,   \* bound on the requests that change the configuration
    LastSlot    \* bound on the clock

ASSUME AdministrationBounds == MaxEdits \in Nat /\ LastSlot \in Nat

VARIABLE edits  \* requests so far

vars == <<now, directoryVars, scheduleVars, edits>>

TypeOK == DirectoryTypeOK /\ SchedulesTypeOK /\ edits \in Nat

Init == DirectoryInit /\ SchedulesInit /\ edits = 0

-----------------------------------------------------------------------------
ArchiveTenant(t) == ArchiveDirectory(t) /\ ArchiveSchedulesOf(t)

ReplacePermissions(t, r) ==
    /\ \E keys \in PermissionSets : NotNeeded(t, r, keys) /\ ReplaceKeys(t, r, keys)
    /\ UNCHANGED scheduleVars

\* A recipient of an ACTIVE schedule stays; plans have at least one report.
Revoke(t, r) ==
    /\ NotNeeded(t, r, {})
    /\ RevokeMember(t, r)
    /\ UNCHANGED scheduleVars

EditStores ==
    /\ \E t \in Tenant : CreateTenant(t) \/ UpdateTenant(t)
    /\ UNCHANGED scheduleVars

EditConnections ==
    /\ \E t \in Tenant : PutConnection(t) \/ StartTest(t)
    /\ UNCHANGED scheduleVars

EditRecipients ==
    /\ \E r \in Recipient :
          \/ \E t \in Tenant : CreateInvitation(t, r) \/ ReissueInvitation(t, r)
          \/ \E u \in LineUser : BeginRedeem(u, r)
    /\ UNCHANGED scheduleVars

EditSchedules ==
    /\ \E s \in Schedule :
          \/ CreateSchedule(s) \/ UpdateSchedule(s) \/ BeginActivate(s)
          \/ PauseSchedule(s) \/ ArchiveSchedule(s) \/ RestoreSchedule(s)
          \/ MaterializeTest(s)
    /\ UNCHANGED directoryVars

\* Requests of administrators and LINE users ...
Edit ==
    /\ edits < MaxEdits /\ edits' = edits + 1
    /\ \/ EditStores \/ EditConnections \/ EditRecipients
       \/ EditSchedules
       \/ \E t \in Tenant : ArchiveTenant(t)
       \/ \E t \in Tenant, r \in Recipient : ReplacePermissions(t, r) \/ Revoke(t, r)
    /\ UNCHANGED now

\* ... the second halves of those under way, and the workers.
Proceed ==
    /\ \/ /\ \/ \E t \in Tenant : MarkTested(t)
             \/ \E u \in LineUser : RedeemInvitation(u)
          /\ UNCHANGED scheduleVars
       \/ /\ \/ \E s \in Schedule : Activate(s) \/ MaterializeDue(s)
             \/ \E o \in occurrences : ExecuteRuns(o) \/ Prepare(o)
          /\ UNCHANGED directoryVars
    /\ UNCHANGED <<now, edits>>

Tick ==
    /\ now < LastSlot
    /\ now' = now + 1
    /\ UNCHANGED <<directoryVars, scheduleVars, edits>>

Next == Edit \/ Proceed \/ Tick

Spec == Init /\ [][Next]_vars

-----------------------------------------------------------------------------
(* Safety                                                                  *)

\* A LINE user who was bound once stays reachable: Revoke and Archive withdraw
\* pending identities and memberships, never an identity somebody's account is
\* bound to, whichever store invited him first; otherwise the unique index on
\* the LINE user would refuse him in every store.
BoundIdentityStaysActive ==
    \A r \in Recipient : identity[r].line # None <=> identity[r].status = "ACTIVE"

\* Whatever administrators do at the same time, an invitation that can still be
\* redeemed belongs to a recipient who is still waiting in that store.
OpenInvitationIsPending ==
    \A r \in Recipient :
        ~ invitation[r].used /\ invitation[r].until > now
            => /\ identity[r].status = "PENDING"
               /\ member[invitation[r].of][r].status = "PENDING"

\* While a schedule is ACTIVE all its recipients are bound members of the store
\* with a permission for each of its reports: revocation, permission changes,
\* merges and archiving cannot take one away underneath it.
ActiveScheduleIsServable ==
    \A s \in Schedule : schedule[s].status = "ACTIVE" =>
        \A r \in schedule[s].plan.recipients :
            /\ RecipientActive(storeOf[s], r)
            /\ schedule[s].plan.reports \subseteq member[storeOf[s]][r].keys

\* An archived store is over for good: it never becomes ACTIVE again and none
\* of its schedules does, even by an activation that was already under way.
ArchivedTenantStaysQuiet ==
    \A t \in Tenant : tenant[t].archived =>
        /\ tenant[t].status = "DISABLED"
        /\ \A s \in Schedule : storeOf[s] = t => schedule[s].status # "ACTIVE"

\* A scheduler that was down catches up: between the activation in force and
\* the next occurrence every allowed slot has its occurrence.  Activations that
\* another change of the schedule overtook are excepted.
NoOccurrenceSkipped ==
    \A s \in Schedule : schedule[s].status = "ACTIVE" /\ since[s] # None =>
        \A slot \in (since[s] + 1) .. (schedule[s].next - 1) :
            Allowed(schedule[s].plan, slot) => \E o \in Scheduled(s) : o.slot = slot

\* The occurrence a schedule waits for is an allowed slot that has not had its
\* occurrence: MaterializeDue cannot run into the unique index, which would
\* block the queue of due schedules for good.  Same exception.
NextOccurrenceIsNew ==
    \A s \in Schedule : schedule[s].status = "ACTIVE" /\ since[s] # None =>
        /\ Allowed(schedule[s].plan, schedule[s].next)
        /\ \A o \in Scheduled(s) : o.slot < schedule[s].next

\* Optimistic concurrency: as long as a version number stands, so does what an
\* administrator read under it.
VersionStandsForContent ==
    [][/\ \A t \in Tenant :
             tenant'[t].version = tenant[t].version => tenant'[t] = tenant[t]
       /\ \A s \in Schedule :
             schedule'[s].version = schedule[s].version =>
                 /\ schedule'[s].status = schedule[s].status
                 /\ schedule'[s].plan = schedule[s].plan]_vars
=============================================================================
