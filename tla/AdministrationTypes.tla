------------------------- MODULE AdministrationTypes ------------------------
(***************************************************************************)
(* Type correctness of Administration, for every value of its constants,   *)
(* and the kinds of step its schedules take.                               *)
(***************************************************************************)
EXTENDS Administration, CalendarProofs, FiniteSetTheorems

-----------------------------------------------------------------------------
(* Types, one part per variable.  TypeOK is not inductive by itself: an    *)
(* unused invitation has a store, a schedule that exists has a plan and,   *)
(* when it is ACTIVE, a next occurrence.                                   *)

TenantRow     == [status : StoredStatus, ends : Nat, archived : BOOLEAN, version : Nat]
ConnectionRow == [version : Nat, readiness : {"UNTESTED", "READY", "FAILED"}]
IdentityRow   == [status : IdentityStatus, line : LineUser \cup {None}]
MemberRow     == [status : MembershipStatus, version : Nat, keys : SUBSET Report]
InvitationRow == [issue : Nat, of : Tenant \cup {None}, until : Nat, used : BOOLEAN]
RedeemRequest == [ref : Recipient, issue : Nat, at : Nat]

TenantsTyped     == tenant \in [Tenant -> TenantRow]
ConnectionsTyped == connection \in [Tenant -> ConnectionRow] /\ testing \in [Tenant -> BOOLEAN]
IdentitiesTyped  == identity \in [Recipient -> IdentityRow]
MembersTyped     == member \in [Tenant -> [Recipient -> MemberRow]]
InvitationsTyped ==
    /\ invitation \in [Recipient -> InvitationRow]
    /\ \A r \in Recipient : ~ invitation[r].used => invitation[r].of \in Tenant
RedeemingTyped   == redeeming \in [LineUser -> {None} \cup RedeemRequest]

DirectoryTyped ==
    /\ now \in Nat
    /\ TenantsTyped /\ ConnectionsTyped /\ IdentitiesTyped
    /\ MembersTyped /\ InvitationsTyped /\ RedeemingTyped

\* The parts together are the type invariant of Directory.
LEMMA DirectoryTypedIsTypeOK == DirectoryTyped => DirectoryTypeOK
BY DEF DirectoryTyped, DirectoryTypeOK, TenantsTyped, ConnectionsTyped, IdentitiesTyped,
   MembersTyped, InvitationsTyped, RedeemingTyped, TenantRow, ConnectionRow, IdentityRow,
   MemberRow, InvitationRow, RedeemRequest

\* CreateTenant and UpdateTenant write a row of tenants.
LEMMA TenantWritten ==
    ASSUME TenantsTyped, NEW t \in Tenant, CreateTenant(t) \/ UpdateTenant(t)
    PROVE  TenantsTyped'
<1>1. tenant[t] \in TenantRow
  BY DEF TenantsTyped
<1>2. CASE CreateTenant(t)
  <2>1. PICK end \in AccessEnds :
           tenant' = [tenant EXCEPT ![t] =
              [status |-> "DISABLED", ends |-> end, archived |-> FALSE, version |-> 1]]
    BY <1>2 DEF CreateTenant
  <2>2. [status |-> "DISABLED", ends |-> end, archived |-> FALSE, version |-> 1] \in TenantRow
    BY DirectoryConstants DEF TenantRow, StoredStatus
  <2>3. QED
    BY <2>1, <2>2 DEF TenantsTyped
<1>3. ASSUME NEW status \in StoredStatus,
             tenant' = [tenant EXCEPT ![t].status = status, ![t].version = @ + 1]
      PROVE  TenantsTyped'
  <2>1. PICK v \in Nat : v = tenant[t].version + 1
    BY <1>1 DEF TenantRow
  <2>2. tenant' = [tenant EXCEPT ![t] = [tenant[t] EXCEPT !.status = status, !.version = v]]
    BY <1>3, <2>1 DEF TenantsTyped
  <2>3. [tenant[t] EXCEPT !.status = status, !.version = v] \in TenantRow
    BY <1>1 DEF TenantRow
  <2>4. QED
    BY <2>2, <2>3 DEF TenantsTyped
<1>4. ASSUME NEW end \in AccessEnds,
             tenant' = [tenant EXCEPT ![t].ends = end, ![t].version = @ + 1]
      PROVE  TenantsTyped'
  <2>1. PICK v \in Nat : v = tenant[t].version + 1
    BY <1>1 DEF TenantRow
  <2>2. tenant' = [tenant EXCEPT ![t] = [tenant[t] EXCEPT !.ends = end, !.version = v]]
    BY <1>4, <2>1 DEF TenantsTyped
  <2>3. [tenant[t] EXCEPT !.ends = end, !.version = v] \in TenantRow
    BY <1>1, DirectoryConstants DEF TenantRow
  <2>4. QED
    BY <2>2, <2>3 DEF TenantsTyped
<1>5. QED
  BY <1>2, <1>3, <1>4 DEF UpdateTenant

\* PutConnection, StartTest and MarkTested write a connection.
LEMMA ConnectionWritten ==
    ASSUME ConnectionsTyped, NEW t \in Tenant, PutConnection(t) \/ StartTest(t) \/ MarkTested(t)
    PROVE  ConnectionsTyped'
<1>1. connection[t] \in ConnectionRow
  BY DEF ConnectionsTyped
<1>2. CASE PutConnection(t)
  <2>1. [version |-> connection[t].version + 1, readiness |-> "UNTESTED"] \in ConnectionRow
    BY <1>1 DEF ConnectionRow
  <2>2. QED
    BY <1>2, <2>1 DEF PutConnection, ConnectionsTyped
<1>3. CASE StartTest(t)
  BY <1>3 DEF StartTest, ConnectionsTyped
<1>4. CASE MarkTested(t)
  <2>1. PICK readiness \in {"READY", "FAILED"} :
           connection' = [connection EXCEPT ![t].readiness = readiness]
    BY <1>4 DEF MarkTested
  <2>2. [connection[t] EXCEPT !.readiness = readiness] \in ConnectionRow
    BY <1>1 DEF ConnectionRow
  <2>3. QED
    BY <1>4, <2>1, <2>2 DEF MarkTested, ConnectionsTyped
<1>5. QED
  BY <1>2, <1>3, <1>4

\* So the actions on stores keep the types.
LEMMA StoresTyped ==
    ASSUME DirectoryTyped, now' = now, NEW t \in Tenant,
           CreateTenant(t) \/ UpdateTenant(t) \/ PutConnection(t) \/ StartTest(t) \/ MarkTested(t)
    PROVE  DirectoryTyped'
<1>1. CASE CreateTenant(t) \/ UpdateTenant(t)
  <2>1. TenantsTyped'
    BY <1>1, TenantWritten DEF DirectoryTyped
  <2>2. UNCHANGED <<connection, testing, identity, member, invitation, redeeming>>
    BY <1>1 DEF CreateTenant, UpdateTenant
  <2>3. QED
    BY <2>1, <2>2 DEF DirectoryTyped, ConnectionsTyped, IdentitiesTyped, MembersTyped,
       InvitationsTyped, RedeemingTyped
<1>2. CASE PutConnection(t) \/ StartTest(t) \/ MarkTested(t)
  <2>1. ConnectionsTyped'
    BY <1>2, ConnectionWritten DEF DirectoryTyped
  <2>2. UNCHANGED <<tenant, identity, member, invitation, redeeming>>
    BY <1>2 DEF PutConnection, StartTest, MarkTested
  <2>3. QED
    BY <2>1, <2>2 DEF DirectoryTyped, TenantsTyped, IdentitiesTyped, MembersTyped,
       InvitationsTyped, RedeemingTyped
<1>3. QED
  BY <1>1, <1>2

-----------------------------------------------------------------------------
\* Writing one row of a table of recipients.
LEMMA RowWritten ==
    ASSUME NEW r \in Recipient
    PROVE  /\ \A row \in IdentityRow :
                 IdentitiesTyped /\ identity' = [identity EXCEPT ![r] = row] => IdentitiesTyped'
           /\ \A t \in Tenant, row \in MemberRow :
                 MembersTyped /\ member' = [member EXCEPT ![t][r] = row] => MembersTyped'
           /\ \A row \in InvitationRow :
                 /\ InvitationsTyped /\ invitation' = [invitation EXCEPT ![r] = row]
                 /\ ~ row.used => row.of \in Tenant
                 => InvitationsTyped'
BY DEF IdentitiesTyped, MembersTyped, InvitationsTyped

\* CreateInvitation and ReissueInvitation.
LEMMA InvitingTyped ==
    ASSUME DirectoryTyped, now' = now, NEW t \in Tenant, NEW r \in Recipient,
           CreateInvitation(t, r) \/ ReissueInvitation(t, r)
    PROVE  DirectoryTyped'
<1>1. identity[r] \in IdentityRow /\ invitation[r] \in InvitationRow /\ now + InvitationSlots \in Nat
  BY DirectoryConstants DEF DirectoryTyped, IdentitiesTyped, InvitationsTyped
<1>2. TenantsTyped' /\ ConnectionsTyped' /\ RedeemingTyped' /\ now' \in Nat
  BY DEF DirectoryTyped, CreateInvitation, ReissueInvitation, TenantsTyped, ConnectionsTyped,
     RedeemingTyped
<1>3. CASE CreateInvitation(t, r)
  <2>1. [identity[r] EXCEPT !.status = "PENDING"] \in IdentityRow
    BY <1>1 DEF IdentityRow, IdentityStatus
  <2>2. [status |-> "PENDING", version |-> 1, keys |-> {}] \in MemberRow
    BY DEF MemberRow, MembershipStatus
  <2>3. [issue |-> 1, of |-> t, until |-> now + InvitationSlots, used |-> FALSE] \in InvitationRow
    BY <1>1 DEF InvitationRow
  <2>4. IdentitiesTyped'
    <3>1. identity' = [identity EXCEPT ![r] = [identity[r] EXCEPT !.status = "PENDING"]]
      BY <1>3 DEF CreateInvitation, DirectoryTyped, IdentitiesTyped
    <3>2. QED
      BY <2>1, <3>1, RowWritten DEF DirectoryTyped
  <2>5. MembersTyped' /\ InvitationsTyped'
    BY <1>3, <2>2, <2>3, RowWritten DEF CreateInvitation, DirectoryTyped
  <2>6. QED
    BY <1>2, <2>4, <2>5 DEF DirectoryTyped
<1>4. CASE ReissueInvitation(t, r)
  <2>1. PICK n \in Nat : n = invitation[r].issue + 1
    BY <1>1 DEF InvitationRow
  <2>2. [issue |-> n, of |-> t, until |-> now + InvitationSlots, used |-> FALSE] \in InvitationRow
    BY <1>1 DEF InvitationRow
  <2>3. invitation' = [invitation EXCEPT ![r] =
           [issue |-> n, of |-> t, until |-> now + InvitationSlots, used |-> FALSE]]
    BY <1>4, <2>1 DEF ReissueInvitation
  <2>4. InvitationsTyped'
    BY <2>2, <2>3, RowWritten DEF DirectoryTyped
  <2>5. QED
    BY <1>2, <1>4, <2>4 DEF ReissueInvitation, DirectoryTyped, IdentitiesTyped, MembersTyped
<1>5. QED
  BY <1>3, <1>4

\* ReplaceKeys and RevokeMember.
LEMMA PermittingTyped ==
    ASSUME DirectoryTyped, now' = now, NEW t \in Tenant, NEW r \in Recipient,
           RevokeMember(t, r) \/ \E keys \in PermissionSets : ReplaceKeys(t, r, keys)
    PROVE  DirectoryTyped'
<1>1. /\ identity[r] \in IdentityRow /\ invitation[r] \in InvitationRow
      /\ member[t][r] \in MemberRow /\ now \in Nat
  BY DEF DirectoryTyped, IdentitiesTyped, InvitationsTyped, MembersTyped
<1>2. TenantsTyped' /\ ConnectionsTyped' /\ RedeemingTyped' /\ now' \in Nat
  BY DEF DirectoryTyped, RevokeMember, ReplaceKeys, TenantsTyped, ConnectionsTyped,
     RedeemingTyped
<1>3. PICK v \in Nat : v = member[t][r].version + 1
  BY <1>1 DEF MemberRow
<1>4. ASSUME NEW keys \in PermissionSets, ReplaceKeys(t, r, keys) PROVE DirectoryTyped'
  <2>1. [status |-> member[t][r].status, version |-> v, keys |-> keys] \in MemberRow
    BY <1>1, DirectoryConstants DEF MemberRow
  <2>2. member' = [member EXCEPT ![t][r] =
           [status |-> member[t][r].status, version |-> v, keys |-> keys]]
    BY <1>3, <1>4 DEF ReplaceKeys, DirectoryTyped, MembersTyped
  <2>3. MembersTyped'
    BY <2>1, <2>2, RowWritten DEF DirectoryTyped
  <2>4. QED
    BY <1>2, <1>4, <2>3 DEF ReplaceKeys, DirectoryTyped, IdentitiesTyped, InvitationsTyped
<1>5. CASE RevokeMember(t, r)
  <2>1. [status |-> "REVOKED", version |-> v, keys |-> {}] \in MemberRow
    BY DEF MemberRow, MembershipStatus
  <2>2. member' = [member EXCEPT ![t][r] = [status |-> "REVOKED", version |-> v, keys |-> {}]]
    BY <1>3, <1>5 DEF RevokeMember, DirectoryTyped, MembersTyped
  <2>3. PICK status \in IdentityStatus :
           identity' = [identity EXCEPT ![r] = [identity[r] EXCEPT !.status = status]]
    BY <1>1, <1>5 DEF RevokeMember, DirectoryTyped, IdentitiesTyped, IdentityRow, IdentityStatus
  <2>4. PICK until \in Nat :
           invitation' = [invitation EXCEPT ![r] = [invitation[r] EXCEPT !.until = until]]
    BY <1>1, <1>5 DEF RevokeMember, DirectoryTyped, InvitationsTyped, InvitationRow
  <2>5. /\ [identity[r] EXCEPT !.status = status] \in IdentityRow
        /\ [invitation[r] EXCEPT !.until = until] \in InvitationRow
    BY <1>1 DEF IdentityRow, InvitationRow
  <2>6. ~ [invitation[r] EXCEPT !.until = until].used
           => [invitation[r] EXCEPT !.until = until].of \in Tenant
    BY <1>1 DEF InvitationRow, DirectoryTyped, InvitationsTyped
  <2>7. MembersTyped' /\ IdentitiesTyped' /\ InvitationsTyped'
    BY <2>1, <2>2, <2>3, <2>4, <2>5, <2>6, RowWritten DEF DirectoryTyped
  <2>8. QED
    BY <1>2, <2>7 DEF DirectoryTyped
<1>6. QED
  BY <1>4, <1>5

\* The directory's part of an archive.
LEMMA ArchivingTyped ==
    ASSUME DirectoryTyped, now' = now, NEW t \in Tenant, ArchiveDirectory(t)
    PROVE  DirectoryTyped'
<1>1. /\ \A r \in Recipient : /\ identity[r] \in IdentityRow
                              /\ invitation[r] \in InvitationRow
                              /\ ~ invitation[r].used => invitation[r].of \in Tenant
                              /\ member[t][r] \in MemberRow
      /\ tenant[t] \in TenantRow
  BY DEF DirectoryTyped, IdentitiesTyped, InvitationsTyped, MembersTyped, TenantsTyped
<1>2. ConnectionsTyped' /\ RedeemingTyped' /\ now' \in Nat
  BY DEF DirectoryTyped, ArchiveDirectory, ConnectionsTyped, RedeemingTyped
<1>3. \A r \in Recipient : [identity[r] EXCEPT !.status = "REVOKED"] \in IdentityRow
  BY <1>1 DEF IdentityRow, IdentityStatus
<1>4. \A r \in Recipient : [invitation[r] EXCEPT !.used = TRUE] \in InvitationRow
  BY <1>1 DEF InvitationRow
<1>5. \A r \in Recipient : [member[t][r] EXCEPT !.status = "REVOKED"] \in MemberRow
  BY <1>1 DEF MemberRow, MembershipStatus
<1>6. IdentitiesTyped'
  BY <1>1, <1>3 DEF ArchiveDirectory, IdentitiesTyped
<1>7. MembersTyped'
  <2>1. PICK row \in [Recipient -> MemberRow] : member' = [member EXCEPT ![t] = row]
    BY <1>1, <1>5 DEF ArchiveDirectory, DirectoryTyped, MembersTyped
  <2>2. QED
    BY <2>1 DEF DirectoryTyped, MembersTyped
<1>8. \A r \in Recipient : [invitation[r] EXCEPT !.used = TRUE].used
  BY <1>1 DEF InvitationRow
<1>9. InvitationsTyped'
  BY <1>1, <1>4, <1>8 DEF ArchiveDirectory, InvitationsTyped
<1>10. TenantsTyped'
  <2>1. PICK v \in Nat : v = tenant[t].version + 1
    BY <1>1 DEF TenantRow
  <2>2. [tenant[t] EXCEPT !.status = "DISABLED", !.archived = TRUE, !.version = v] \in TenantRow
    BY <1>1 DEF TenantRow, StoredStatus
  <2>3. tenant' = [tenant EXCEPT ![t] =
           [tenant[t] EXCEPT !.status = "DISABLED", !.archived = TRUE, !.version = v]]
    BY <2>1 DEF ArchiveDirectory, DirectoryTyped, TenantsTyped
  <2>4. QED
    BY <2>2, <2>3 DEF DirectoryTyped, TenantsTyped
<1>11. QED
  BY <1>2, <1>6, <1>7, <1>9, <1>10 DEF DirectoryTyped

\* What a redemption does to the tables: nothing, or it merges the pending
\* recipient into one that is bound to the LINE user, or it binds it.
Redeemed(u, pending, t) ==
    /\ pending \in Recipient /\ t \in Tenant
    /\ t = invitation[pending].of /\ ~ invitation[pending].used
    /\ invitation' = [invitation EXCEPT ![pending].used = TRUE]
    /\ \/ \E known \in BoundTo(u) \ {pending} : MergeRecipient(t, pending, known)
       \/ BindRecipient(t, pending, u)

\* RedeemInvitation either refuses and changes no table, or is a Redeemed step.
LEMMA RedeemCases ==
    ASSUME DirectoryTyped, NEW u \in LineUser, RedeemInvitation(u)
    PROVE  /\ UNCHANGED <<tenant, connection, testing>>
           /\ RedeemingTyped'
           /\ \/ UNCHANGED <<identity, member, invitation>>
              \/ \E pending, t : Redeemed(u, pending, t)
<1>1. redeeming[u] \in RedeemRequest
  BY DEF RedeemInvitation, DirectoryTyped, RedeemingTyped
<1>2. RedeemingTyped'
  BY DEF RedeemInvitation, DirectoryTyped, RedeemingTyped
<1>3. redeeming[u].ref \in Recipient
  BY <1>1 DEF RedeemRequest
<1>4. CASE Redeemable(redeeming[u])
  <2>1. ~ invitation[redeeming[u].ref].used /\ invitation[redeeming[u].ref].of \in Tenant
    BY <1>3, <1>4 DEF Redeemable, DirectoryTyped, InvitationsTyped
  <2>2. Redeemed(u, redeeming[u].ref, invitation[redeeming[u].ref].of)
    BY <1>3, <1>4, <2>1 DEF RedeemInvitation, Redeemed
  <2>3. QED
    BY <1>2, <2>2 DEF RedeemInvitation
<1>5. CASE ~ Redeemable(redeeming[u])
  BY <1>2, <1>5 DEF RedeemInvitation
<1>6. QED
  BY <1>4, <1>5

\* Both halves of a redemption keep the types.
LEMMA RedeemingTypes ==
    ASSUME DirectoryTyped, now' = now, NEW u \in LineUser,
           (\E r \in Recipient : BeginRedeem(u, r)) \/ RedeemInvitation(u)
    PROVE  DirectoryTyped'
<1>1. ASSUME NEW r \in Recipient, BeginRedeem(u, r) PROVE DirectoryTyped'
  <2>1. invitation[r].issue \in Nat /\ now \in Nat
    BY DEF DirectoryTyped, InvitationsTyped, InvitationRow
  <2>2. [ref |-> r, issue |-> invitation[r].issue, at |-> now] \in RedeemRequest
    BY <2>1 DEF RedeemRequest
  <2>3. RedeemingTyped'
    BY <1>1, <2>2 DEF BeginRedeem, DirectoryTyped, RedeemingTyped
  <2>4. QED
    BY <1>1, <2>3 DEF BeginRedeem, DirectoryTyped, TenantsTyped, ConnectionsTyped,
       IdentitiesTyped, MembersTyped, InvitationsTyped
<1>2. CASE RedeemInvitation(u)
  <2>1. TenantsTyped' /\ ConnectionsTyped' /\ RedeemingTyped' /\ now' \in Nat
    BY <1>2, RedeemCases DEF DirectoryTyped, TenantsTyped, ConnectionsTyped
  <2>2. CASE UNCHANGED <<identity, member, invitation>>
    BY <2>1, <2>2 DEF DirectoryTyped, IdentitiesTyped, MembersTyped, InvitationsTyped
  <2>3. ASSUME NEW pending, NEW t, Redeemed(u, pending, t) PROVE DirectoryTyped'
    <3>1. pending \in Recipient /\ t \in Tenant
      BY <2>3 DEF Redeemed
    <3>2. /\ identity[pending] \in IdentityRow /\ invitation[pending] \in InvitationRow
          /\ member \in [Tenant -> [Recipient -> MemberRow]]
      BY <3>1 DEF DirectoryTyped, IdentitiesTyped, InvitationsTyped, MembersTyped
    <3>3. InvitationsTyped'
      <4>1. /\ [invitation[pending] EXCEPT !.used = TRUE] \in InvitationRow
            /\ [invitation[pending] EXCEPT !.used = TRUE].used
        BY <3>2 DEF InvitationRow
      <4>2. invitation' = [invitation EXCEPT ![pending] = [invitation[pending] EXCEPT !.used = TRUE]]
        BY <2>3 DEF Redeemed
      <4>3. QED
        BY <3>1, <4>1, <4>2, RowWritten DEF DirectoryTyped
    <3>4. ASSUME NEW known \in BoundTo(u) \ {pending}, MergeRecipient(t, pending, known)
          PROVE  IdentitiesTyped' /\ MembersTyped'
      <4>1. [identity[pending] EXCEPT !.status = "REVOKED"] \in IdentityRow
        BY <3>2 DEF IdentityRow, IdentityStatus
      <4>2. identity' = [identity EXCEPT ![pending] = [identity[pending] EXCEPT !.status = "REVOKED"]]
        BY <3>4 DEF MergeRecipient
      <4>3. IdentitiesTyped'
        BY <3>1, <4>1, <4>2, RowWritten DEF DirectoryTyped
      <4>4. known \in Recipient /\ known # pending
        BY <3>4 DEF BoundTo
      <4>5. member[t][known] \in MemberRow /\ member[t][pending] \in MemberRow
        BY <3>1, <3>2, <4>4
      <4>6. PICK row \in MemberRow :
               member' = [member EXCEPT ![t][known] = row, ![t][pending].status = "REVOKED"]
        <5>1. [status |-> "ACTIVE",
               version |-> IF member[t][known].status = "NONE" THEN 1 ELSE member[t][known].version,
               keys |-> member[t][known].keys \cup member[t][pending].keys] \in MemberRow
          BY <4>5 DEF MemberRow, MembershipStatus
        <5>2. QED
          BY <5>1, <3>4, <3>1, <3>2, <4>4 DEF MergeRecipient
      <4>7. [member[t][pending] EXCEPT !.status = "REVOKED"] \in MemberRow
        BY <4>5 DEF MemberRow, MembershipStatus
      <4>8. member' = [member EXCEPT ![t] = [member[t] EXCEPT ![known] = row,
                          ![pending] = [member[t][pending] EXCEPT !.status = "REVOKED"]]]
        BY <3>1, <3>2, <4>4, <4>6
      <4>9. QED
        BY <3>1, <3>2, <4>3, <4>7, <4>8 DEF MembersTyped
    <3>5. ASSUME BindRecipient(t, pending, u) PROVE IdentitiesTyped' /\ MembersTyped'
      <4>1. [status |-> "ACTIVE", line |-> u] \in IdentityRow
        BY DEF IdentityRow, IdentityStatus
      <4>2. [member[t][pending] EXCEPT !.status = "ACTIVE"] \in MemberRow
        <5>1. member[t][pending] \in MemberRow
          BY <3>1, <3>2
        <5>2. QED
          BY <5>1 DEF MemberRow, MembershipStatus
      <4>3. member' = [member EXCEPT ![t][pending] = [member[t][pending] EXCEPT !.status = "ACTIVE"]]
        BY <3>1, <3>2, <3>5 DEF BindRecipient
      <4>4. identity' = [identity EXCEPT ![pending] = [status |-> "ACTIVE", line |-> u]]
        BY <3>5 DEF BindRecipient
      <4>5. IdentitiesTyped'
        BY <3>1, <4>1, <4>4, RowWritten DEF DirectoryTyped
      <4>6. MembersTyped'
        BY <3>1, <4>2, <4>3, RowWritten DEF DirectoryTyped
      <4>7. QED
        BY <4>5, <4>6
    <3>6. IdentitiesTyped' /\ MembersTyped'
      <4>1. \/ \E known \in BoundTo(u) \ {pending} : MergeRecipient(t, pending, known)
            \/ BindRecipient(t, pending, u)
        BY <2>3, Zenon DEF Redeemed
      <4>2. QED
        BY <4>1, <3>4, <3>5
    <3>7. QED
      BY <2>1, <3>3, <3>6 DEF DirectoryTyped
  <2>4. QED
    BY <1>2, <2>2, <2>3, RedeemCases
<1>3. QED
  BY <1>1, <1>2

-----------------------------------------------------------------------------
(* The same for schedules and occurrences.                                 *)

ScheduleRow == [status : ScheduleStatus, plan : Plans \cup {None},
                next : Nat \cup {None}, version : Nat]
\* A row that exists.
GoodRow == {row \in ScheduleRow : /\ row.status # "ABSENT" /\ row.plan \in Plans
                                  /\ row.status = "ACTIVE" => row.next \in Nat}
Activation == [next : Nat, at : Nat, version : Nat]

GoodOccurrence(o) ==
    /\ o = [schedule |-> o.schedule, slot |-> o.slot, test |-> o.test, status |-> o.status,
            work |-> o.work, periods |-> o.periods, to |-> o.to]
    /\ o.schedule \in Schedule /\ o.slot \in Nat /\ o.test \in Nat
    /\ o.status \in OccurrenceStatus /\ o.work \in WorkStatus
    /\ DOMAIN o.periods \subseteq Report
    /\ o.to \subseteq Recipient

RowsTyped == schedule \in [Schedule -> {NoSchedule} \cup GoodRow]
ActivatingTyped ==
    /\ activating \in [Schedule -> {None} \cup Activation]
    /\ \A s \in Schedule : activating[s] # None => schedule[s] \in GoodRow
OccurrencesTyped ==
    /\ IsFiniteSet(occurrences)
    /\ \A o \in occurrences : GoodOccurrence(o) /\ schedule[o.schedule] \in GoodRow

SchedulesTyped ==
    /\ RowsTyped /\ ActivatingTyped /\ OccurrencesTyped
    /\ since \in [Schedule -> Nat \cup {None}]

\* The parts together are the type invariant of Schedules.
LEMMA SchedulesTypedIsTypeOK == SchedulesTyped => SchedulesTypeOK
<1> SUFFICES ASSUME SchedulesTyped PROVE SchedulesTypeOK
  OBVIOUS
<1>1. NoSchedule \in ScheduleRow
  BY DEF NoSchedule, ScheduleRow, ScheduleStatus
<1>2. schedule \in [Schedule -> ScheduleRow]
  BY <1>1 DEF SchedulesTyped, RowsTyped, GoodRow
<1>3. QED
  BY <1>2 DEF SchedulesTypeOK, SchedulesTyped, ActivatingTyped, OccurrencesTyped, GoodOccurrence,
     ScheduleRow, Activation

\* A plan has what Validate accepts.
LEMMA PlansTimed ==
    ASSUME NEW plan \in Plans
    PROVE  /\ Timed(plan) /\ plan.reports # {} /\ plan.reports \subseteq Report
           /\ plan.recipients \subseteq Recipient
BY ScheduleConstants DEF Timed

\* A schedule exists or is still the row NoSchedule, of version 0.
LEMMA RowKinds ==
    ASSUME RowsTyped, NEW s \in Schedule
    PROVE  /\ schedule[s] \in GoodRow <=> schedule[s].status # "ABSENT"
           /\ schedule[s].version \in Nat
           /\ schedule[s].status \in ScheduleStatus
           /\ schedule[s].status = "ABSENT" => schedule[s] = NoSchedule
<1>1. schedule[s] \in {NoSchedule} \cup GoodRow
  BY DEF RowsTyped
<1>2. NoSchedule.status = "ABSENT" /\ NoSchedule.version = 0
  BY DEF NoSchedule
<1>3. QED
  BY <1>1, <1>2 DEF GoodRow, ScheduleRow, ScheduleStatus

\* The rows that the actions of the administrator write.
LEMMA GoodRows ==
    ASSUME NEW row \in GoodRow
    PROVE  /\ \A status \in {"DRAFT", "PAUSED", "ARCHIVED"} :
                 /\ Stopped(row, status) \in GoodRow
                 /\ Stopped(row, status).status = status
                 /\ Stopped(row, status).version = row.version + 1
                 /\ Stopped(row, status).plan = row.plan
           /\ row.version + 1 \in Nat
<1>1. row \in ScheduleRow /\ row.version \in Nat
  BY DEF GoodRow, ScheduleRow
<1>2. PICK v \in Nat : v = row.version + 1
  BY <1>1
<1>3. ASSUME NEW status \in {"DRAFT", "PAUSED", "ARCHIVED"}
      PROVE  /\ Stopped(row, status) \in GoodRow
             /\ Stopped(row, status).status = status
             /\ Stopped(row, status).version = row.version + 1
             /\ Stopped(row, status).plan = row.plan
  <2> DEFINE new == [row EXCEPT !.status = status, !.next = None, !.version = v]
  <2>1. Stopped(row, status) = new
    BY <1>2 DEF Stopped
  <2>2. new \in ScheduleRow /\ new.status = status /\ new.version = v /\ new.plan = row.plan
    BY <1>1 DEF ScheduleRow, ScheduleStatus
  <2> HIDE DEF new
  <2>3. new \in GoodRow
    BY <2>2 DEF GoodRow
  <2>4. QED
    BY <1>2, <2>1, <2>2, <2>3
<1>4. QED
  BY <1>2, <1>3

\* Create, Update, Pause, Archive and Restore of a schedule: another version of
\* its row that is not ACTIVE.
Shelved(s) ==
    /\ \E row \in GoodRow :
          /\ schedule' = [schedule EXCEPT ![s] = row]
          /\ row.status # "ACTIVE" /\ row.version = schedule[s].version + 1
    /\ UNCHANGED <<activating, since, occurrences>>

\* The five requests are Shelved steps.
LEMMA ShelvedCases ==
    ASSUME RowsTyped, NEW s \in Schedule,
           \/ CreateSchedule(s) \/ UpdateSchedule(s) \/ PauseSchedule(s)
           \/ ArchiveSchedule(s) \/ RestoreSchedule(s)
    PROVE  Shelved(s)
<1>1. CASE CreateSchedule(s)
  <2>1. PICK plan \in Plans : schedule' = [schedule EXCEPT ![s] =
               [status |-> "DRAFT", plan |-> plan, next |-> None, version |-> 1]]
    BY <1>1 DEF CreateSchedule
  <2> DEFINE row == [status |-> "DRAFT", plan |-> plan, next |-> None, version |-> 1]
  <2>2. row \in GoodRow /\ row.status = "DRAFT" /\ row.version = 1
    BY DEF GoodRow, ScheduleRow, ScheduleStatus
  <2>3. schedule[s].version = 0
    BY <1>1, RowKinds DEF CreateSchedule, NoSchedule
  <2>4. schedule' = [schedule EXCEPT ![s] = row] /\ UNCHANGED <<activating, since, occurrences>>
    BY <1>1, <2>1 DEF CreateSchedule
  <2> HIDE DEF row
  <2>5. row.status # "ACTIVE" /\ row.version = schedule[s].version + 1
    BY <2>2, <2>3
  <2>6. QED
    BY <2>2, <2>4, <2>5 DEF Shelved
<1>2. CASE UpdateSchedule(s)
  <2>1. PICK plan \in Plans :
           schedule' = [schedule EXCEPT ![s].plan = plan, ![s].version = @ + 1]
    BY <1>2 DEF UpdateSchedule
  <2>2. schedule[s] \in GoodRow /\ schedule[s].status \in {"DRAFT", "PAUSED"}
    BY <1>2, RowKinds DEF UpdateSchedule
  <2>3. PICK v \in Nat : v = schedule[s].version + 1
    BY <2>2, GoodRows
  <2> DEFINE row == [schedule[s] EXCEPT !.plan = plan, !.version = v]
  <2>4. schedule' = [schedule EXCEPT ![s] = row]
    BY <2>1, <2>3 DEF RowsTyped
  <2>5. row \in ScheduleRow /\ row.status = schedule[s].status /\ row.version = v /\ row.plan = plan
    BY <2>2 DEF GoodRow, ScheduleRow
  <2> HIDE DEF row
  <2>6. row \in GoodRow
    BY <2>2, <2>5 DEF GoodRow
  <2>7. QED
    BY <1>2, <2>2, <2>3, <2>4, <2>5, <2>6 DEF UpdateSchedule, Shelved
<1>3. ASSUME NEW status \in {"DRAFT", "PAUSED", "ARCHIVED"}, schedule[s].status # "ABSENT",
             schedule' = [schedule EXCEPT ![s] = Stopped(@, status)],
             UNCHANGED <<activating, since, occurrences>>
      PROVE  Shelved(s)
  <2>1. schedule[s] \in GoodRow
    BY <1>3, RowKinds
  <2>2. QED
    BY <1>3, <2>1, GoodRows DEF Shelved
<1>4. QED
  BY <1>1, <1>2, <1>3 DEF PauseSchedule, ArchiveSchedule, RestoreSchedule

-----------------------------------------------------------------------------
(* Occurrences: which steps add one, and which only move one along.        *)

\* Rows that exist go on existing.
RowsStay == \A s \in Schedule : schedule[s] \in GoodRow => schedule'[s] \in GoodRow

\* Occurrences of an unchanged table keep their types.
LEMMA OccurrencesStay ==
    ASSUME OccurrencesTyped, RowsStay, UNCHANGED occurrences PROVE OccurrencesTyped'
BY DEF OccurrencesTyped, GoodOccurrence, RowsStay

\* Adding an occurrence of a schedule that exists keeps the types.
LEMMA OccurrenceAdded ==
    ASSUME OccurrencesTyped, RowsStay, NEW o, GoodOccurrence(o), schedule[o.schedule] \in GoodRow,
           occurrences' = occurrences \cup {o}
    PROVE  OccurrencesTyped'
<1>1. IsFiniteSet(occurrences')
  BY FS_AddElement DEF OccurrencesTyped
<1>2. QED
  BY <1>1 DEF OccurrencesTyped, GoodOccurrence, RowsStay

\* The slots that scheduled occurrences have.
Slots(s) == {o.slot : o \in Scheduled(s)}

\* An occurrence that is moved along keeps its slot.
LEMMA Carried ==
    ASSUME OccurrencesTyped, UNCHANGED schedule, NEW o \in occurrences,
           ExecuteRuns(o) \/ Prepare(o)
    PROVE  OccurrencesTyped' /\ \A s \in Schedule : Slots(s)' = Slots(s)
<1>1. GoodOccurrence(o) /\ schedule[o.schedule] \in GoodRow
  BY DEF OccurrencesTyped
<1>2. Targets(o) \subseteq Recipient
  BY <1>1, PlansTimed DEF Targets, GoodRow
<1>3. \E new : /\ occurrences' = (occurrences \ {o}) \cup {new} /\ GoodOccurrence(new)
               /\ new.schedule = o.schedule /\ new.slot = o.slot /\ new.test = o.test
  <2>1. CASE ExecuteRuns(o)
    <3> DEFINE new == [o EXCEPT !.work = "DONE"]
    <3>1. GoodOccurrence(new) /\ new.schedule = o.schedule /\ new.slot = o.slot /\ new.test = o.test
      BY <1>1 DEF GoodOccurrence, WorkStatus
    <3>2. QED
      BY <2>1, <3>1 DEF ExecuteRuns, Replace
  <2>2. CASE occurrences' = (occurrences \ {o}) \cup {[o EXCEPT !.status = "FAILED"]}
    <3> DEFINE new == [o EXCEPT !.status = "FAILED"]
    <3>1. GoodOccurrence(new) /\ new.schedule = o.schedule /\ new.slot = o.slot /\ new.test = o.test
      BY <1>1 DEF GoodOccurrence, OccurrenceStatus
    <3>2. QED
      BY <2>2, <3>1
  <2>3. CASE occurrences' = (occurrences \ {o}) \cup {[o EXCEPT !.status = "SENT", !.to = Targets(o)]}
    <3>1. PICK to \in SUBSET Recipient : to = Targets(o)
      BY <1>2
    <3> DEFINE sent == [o EXCEPT !.status = "SENT"]
               new  == [sent EXCEPT !.to = to]
    <3>2. GoodOccurrence(sent) /\ sent.schedule = o.schedule /\ sent.slot = o.slot /\ sent.test = o.test
      BY <1>1 DEF GoodOccurrence, OccurrenceStatus
    <3>3. [o EXCEPT !.status = "SENT", !.to = to] = new
      OBVIOUS
    <3> HIDE DEF sent
    <3>4. GoodOccurrence(new) /\ new.schedule = o.schedule /\ new.slot = o.slot /\ new.test = o.test
      BY <3>2 DEF GoodOccurrence
    <3>5. QED
      BY <2>3, <3>1, <3>3, <3>4
  <2>4. QED
    BY <2>1, <2>2, <2>3 DEF Prepare, Replace
<1>4. PICK new : /\ occurrences' = (occurrences \ {o}) \cup {new} /\ GoodOccurrence(new)
                 /\ new.schedule = o.schedule /\ new.slot = o.slot /\ new.test = o.test
  BY <1>3
<1>5. IsFiniteSet(occurrences')
  BY <1>4, FS_AddElement, FS_RemoveElement DEF OccurrencesTyped
<1>6. OccurrencesTyped'
  BY <1>1, <1>4, <1>5 DEF OccurrencesTyped, GoodOccurrence
<1>7. ASSUME NEW s \in Schedule PROVE Slots(s)' = Slots(s)
  BY <1>4 DEF Slots, Scheduled
<1>8. QED
  BY <1>6, <1>7

\* So does one whose queued runs the archive of its store cancels; the rows of
\* that store are stopped.
LEMMA SchedulesArchived ==
    ASSUME SchedulesTyped, NEW t \in Tenant, ArchiveSchedulesOf(t)
    PROVE  /\ RowsTyped' /\ RowsStay /\ OccurrencesTyped'
           /\ \A s \in Schedule : Slots(s)' = Slots(s)
           /\ \A s \in Schedule :
                 \/ schedule'[s] = schedule[s] /\ ~ (storeOf[s] = t /\ schedule[s].status = "ACTIVE")
                 \/ /\ schedule[s] \in GoodRow
                    /\ schedule'[s].status = "PAUSED" /\ schedule'[s].version = schedule[s].version + 1
<1>1. \A s \in Schedule : schedule[s] \in {NoSchedule} \cup GoodRow
  BY DEF SchedulesTyped, RowsTyped
<1>2. \A s \in Schedule : schedule[s].status = "ACTIVE" => schedule[s] \in GoodRow
  BY <1>1 DEF NoSchedule
<1>3. RowsTyped' /\ RowsStay
  BY <1>1, <1>2, GoodRows DEF ArchiveSchedulesOf, RowsTyped, RowsStay
<1>4. ASSUME NEW s \in Schedule
      PROVE  \/ schedule'[s] = schedule[s] /\ ~ (storeOf[s] = t /\ schedule[s].status = "ACTIVE")
             \/ /\ schedule[s] \in GoodRow
                /\ schedule'[s].status = "PAUSED" /\ schedule'[s].version = schedule[s].version + 1
  BY <1>2, GoodRows DEF ArchiveSchedulesOf
<1> DEFINE f == [o \in occurrences |-> IF storeOf[o.schedule] = t /\ o.work = "QUEUED"
                                       THEN [o EXCEPT !.work = "CANCELLED"] ELSE o]
<1>5. occurrences' = {f[o] : o \in occurrences}
  BY DEF ArchiveSchedulesOf
<1>6. f \in Surjection(occurrences, occurrences')
  BY <1>5 DEF Surjection
<1>7. IsFiniteSet(occurrences')
  BY <1>6, FS_Surjection DEF SchedulesTyped, OccurrencesTyped
<1>8. ASSUME NEW o \in occurrences
      PROVE  /\ GoodOccurrence(f[o]) /\ schedule[f[o].schedule] \in GoodRow
             /\ f[o].schedule = o.schedule /\ f[o].slot = o.slot /\ f[o].test = o.test
  <2>1. GoodOccurrence(o) /\ schedule[o.schedule] \in GoodRow
    BY DEF SchedulesTyped, OccurrencesTyped
  <2> DEFINE new == [o EXCEPT !.work = "CANCELLED"]
  <2>2. GoodOccurrence(new) /\ new.schedule = o.schedule /\ new.slot = o.slot /\ new.test = o.test
    BY <2>1 DEF GoodOccurrence, WorkStatus
  <2>3. f[o] = o \/ f[o] = new
    OBVIOUS
  <2> HIDE DEF f, new
  <2>4. QED
    BY <2>1, <2>2, <2>3
<1> HIDE DEF f
<1>9. OccurrencesTyped'
  <2>1. ASSUME NEW o \in occurrences' PROVE (GoodOccurrence(o) /\ schedule[o.schedule] \in GoodRow)'
    <3>1. PICK old \in occurrences : o = f[old]
      BY <1>5, <2>1
    <3>2. GoodOccurrence(o) /\ schedule[o.schedule] \in GoodRow
      BY <1>8, <3>1
    <3>3. QED
      BY <1>3, <3>2 DEF RowsStay, GoodOccurrence
  <2>2. QED
    BY <1>7, <2>1 DEF OccurrencesTyped
<1>10. ASSUME NEW s \in Schedule PROVE Slots(s)' = Slots(s)
  BY <1>5, <1>8 DEF Slots, Scheduled
<1>11. QED
  BY <1>3, <1>4, <1>9, <1>10

-----------------------------------------------------------------------------
(* Types are kept by the actions on one schedule.                          *)

\* The next occurrence of a schedule that exists.
LEMMA NextOfPlan ==
    ASSUME NEW row \in GoodRow, NEW after \in Nat
    PROVE  /\ NextOccurrence(row.plan, after) \in Nat
           /\ NextOccurrence(row.plan, after) > after
           /\ Allowed(row.plan, NextOccurrence(row.plan, after))
           /\ \A k \in (after + 1) .. (NextOccurrence(row.plan, after) - 1) : ~ Allowed(row.plan, k)
<1>1. Timed(row.plan)
  BY PlansTimed DEF GoodRow
<1>2. QED
  BY <1>1, NextOccurrenceIsNext

\* Shelved steps keep the types.
LEMMA ShelvedTyped ==
    ASSUME SchedulesTyped, NEW s \in Schedule, Shelved(s)
    PROVE  SchedulesTyped'
<1>1. RowsTyped' /\ RowsStay
  BY DEF SchedulesTyped, Shelved, RowsTyped, RowsStay
<1>2. OccurrencesTyped'
  BY <1>1, OccurrencesStay DEF SchedulesTyped, Shelved
<1>3. QED
  BY <1>1, <1>2 DEF SchedulesTyped, Shelved, RowsStay, ActivatingTyped

\* Both halves of an activation.  The second one makes the schedule ACTIVE with
\* what the first has computed, or does nothing.
Activated(s) ==
    /\ schedule[s].status \in {"DRAFT", "PAUSED"} /\ Ready(s)
    /\ schedule[s] \in GoodRow
    /\ schedule'[s].plan = schedule[s].plan /\ schedule'[s].status = "ACTIVE"
    /\ schedule'[s].next = activating[s].next
    /\ schedule'[s].version = schedule[s].version + 1
    /\ \A other \in Schedule \ {s} : schedule'[other] = schedule[other]
    /\ \A other \in Schedule \ {s} : since'[other] = since[other]
    /\ since'[s] = IF activating[s].version = schedule[s].version THEN activating[s].at ELSE None

\* BeginActivate and Activate keep the types; Activate is an Activated step
\* or leaves the schedule as it is.
LEMMA ActivatingTypes ==
    ASSUME SchedulesTyped, now \in Nat, NEW s \in Schedule, BeginActivate(s) \/ Activate(s)
    PROVE  /\ SchedulesTyped' /\ UNCHANGED occurrences
           /\ \/ BeginActivate(s) /\ UNCHANGED schedule
              \/ Activate(s) /\ UNCHANGED <<schedule, since>>
              \/ Activate(s) /\ Activated(s)
<1>1. CASE BeginActivate(s)
  <2>1. schedule[s] \in GoodRow /\ schedule[s].version \in Nat
    BY <1>1, RowKinds DEF BeginActivate, SchedulesTyped
  <2>2. [next |-> NextOccurrence(schedule[s].plan, now), at |-> now,
         version |-> schedule[s].version] \in Activation
    BY <2>1, NextOfPlan DEF Activation
  <2>3. ActivatingTyped'
    BY <1>1, <2>1, <2>2 DEF BeginActivate, SchedulesTyped, ActivatingTyped
  <2>4. OccurrencesTyped' /\ RowsTyped'
    BY <1>1, OccurrencesStay DEF BeginActivate, SchedulesTyped, RowsTyped, RowsStay
  <2>5. QED
    BY <1>1, <2>3, <2>4 DEF BeginActivate, SchedulesTyped
<1>2. CASE Activate(s) /\ UNCHANGED <<schedule, since>>
  <2>1. ActivatingTyped'
    BY <1>2 DEF Activate, SchedulesTyped, ActivatingTyped
  <2>2. OccurrencesTyped' /\ RowsTyped'
    BY <1>2, OccurrencesStay DEF Activate, SchedulesTyped, RowsTyped, RowsStay
  <2>3. QED
    BY <1>2, <2>1, <2>2 DEF Activate, SchedulesTyped
<1>3. ASSUME Activate(s), schedule[s].status \in {"DRAFT", "PAUSED"}, Ready(s),
             schedule' = [schedule EXCEPT ![s].status = "ACTIVE",
                                          ![s].next = activating[s].next,
                                          ![s].version = @ + 1],
             since' = [since EXCEPT ![s] =
                IF activating[s].version = schedule[s].version THEN activating[s].at ELSE None]
      PROVE  SchedulesTyped' /\ Activated(s)
  <2>1. activating[s] \in Activation /\ schedule[s] \in GoodRow
    BY <1>3 DEF Activate, SchedulesTyped, ActivatingTyped
  <2>2. activating[s].next \in Nat /\ activating[s].at \in Nat
    BY <2>1 DEF Activation
  <2>3. PICK v \in Nat : v = schedule[s].version + 1
    BY <2>1, GoodRows
  <2>4. PICK n \in Nat : n = activating[s].next
    BY <2>2
  <2> DEFINE row == [schedule[s] EXCEPT !.status = "ACTIVE", !.next = n, !.version = v]
  <2>5. schedule' = [schedule EXCEPT ![s] = row]
    BY <1>3, <2>3, <2>4 DEF SchedulesTyped, RowsTyped
  <2>6. /\ row \in ScheduleRow /\ row.status = "ACTIVE" /\ row.next = n
        /\ row.version = v /\ row.plan = schedule[s].plan
    BY <2>1 DEF GoodRow, ScheduleRow, ScheduleStatus
  <2> HIDE DEF row
  <2>7. row \in GoodRow
    BY <2>1, <2>6 DEF GoodRow
  <2>8. RowsTyped' /\ RowsStay
    BY <2>5, <2>7 DEF SchedulesTyped, RowsTyped, RowsStay
  <2>9. OccurrencesTyped'
    BY <1>3, <2>8, OccurrencesStay DEF Activate, SchedulesTyped
  <2>10. ActivatingTyped'
    BY <1>3, <2>8 DEF Activate, SchedulesTyped, ActivatingTyped, RowsStay
  <2>11. since' \in [Schedule -> Nat \cup {None}]
    BY <1>3, <2>2 DEF SchedulesTyped
  <2>12. schedule'[s] = row /\ \A other \in Schedule \ {s} : schedule'[other] = schedule[other]
    BY <2>5 DEF SchedulesTyped, RowsTyped
  <2>13. /\ since'[s] = IF activating[s].version = schedule[s].version
                        THEN activating[s].at ELSE None
         /\ \A other \in Schedule \ {s} : since'[other] = since[other]
    BY <1>3 DEF SchedulesTyped
  <2>14. Activated(s)
    BY <1>3, <2>1, <2>3, <2>4, <2>6, <2>12, <2>13 DEF Activated
  <2>15. QED
    BY <2>8, <2>9, <2>10, <2>11, <2>14 DEF SchedulesTyped
<1>4. QED
  BY <1>1, <1>2, <1>3 DEF BeginActivate, Activate

\* MaterializeTest adds an occurrence that is not a scheduled one.
LEMMA TestTypes ==
    ASSUME SchedulesTyped, now \in Nat, NEW s \in Schedule, MaterializeTest(s)
    PROVE  SchedulesTyped' /\ \A other \in Schedule : Slots(other)' = Slots(other)
<1>1. schedule[s] \in GoodRow
  BY RowKinds DEF MaterializeTest, SchedulesTyped
<1>2. Cardinality(TestsOf(s)) + 1 \in Nat \ {0}
  <2>1. IsFiniteSet(TestsOf(s))
    BY FS_Subset DEF TestsOf, SchedulesTyped, OccurrencesTyped
  <2>2. QED
    BY <2>1, FS_CardinalityType
<1> DEFINE n == Cardinality(TestsOf(s)) + 1
           o == Collecting(s, now, n)
<1> HIDE DEF n
<1>3. DOMAIN PeriodsOf(schedule[s].plan, now) \subseteq Report
  BY <1>1, PlansTimed DEF PeriodsOf, GoodRow
<1>4. GoodOccurrence(o) /\ o.schedule = s /\ o.test = n /\ n \in Nat \ {0}
  BY <1>2, <1>3 DEF n, Collecting, GoodOccurrence, OccurrenceStatus, WorkStatus
<1>5. occurrences' = occurrences \cup {o} /\ UNCHANGED <<schedule, activating, since>>
  BY DEF MaterializeTest, n
<1> HIDE DEF o
<1>6. RowsStay /\ RowsTyped'
  BY <1>5 DEF RowsStay, SchedulesTyped, RowsTyped
<1>7. OccurrencesTyped'
  BY <1>1, <1>4, <1>5, <1>6, OccurrenceAdded DEF SchedulesTyped
<1>8. \A other \in Schedule : Slots(other)' = Slots(other)
  BY <1>4, <1>5 DEF Slots, Scheduled
<1>9. QED
  BY <1>5, <1>6, <1>7, <1>8 DEF SchedulesTyped, ActivatingTyped

\* MaterializeDue adds the occurrence of the slot, and moves the schedule on or
\* pauses it.
Materialized(s) ==
    /\ schedule[s] \in GoodRow /\ schedule[s].status = "ACTIVE" /\ schedule[s].next <= now
    /\ Slots(s)' = Slots(s) \cup {schedule[s].next}
    /\ \A other \in Schedule \ {s} :
          schedule'[other] = schedule[other] /\ Slots(other)' = Slots(other)
    /\ schedule'[s].plan = schedule[s].plan
    /\ \/ /\ schedule'[s].status = "ACTIVE" /\ schedule'[s].version = schedule[s].version
          /\ schedule'[s].next = NextOccurrence(schedule[s].plan, schedule[s].next)
       \/ schedule'[s].status = "PAUSED" /\ schedule'[s].version = schedule[s].version + 1
    /\ UNCHANGED <<activating, since>>

\* MaterializeDue keeps the types and is a Materialized step.
LEMMA DueTypes ==
    ASSUME SchedulesTyped, now \in Nat, NEW s \in Schedule, MaterializeDue(s)
    PROVE  SchedulesTyped' /\ Materialized(s)
<1>1. schedule[s] \in GoodRow /\ schedule[s].status = "ACTIVE" /\ schedule[s].next <= now
  BY RowKinds DEF MaterializeDue, IsDue, SchedulesTyped
<1>2. PICK slot \in Nat : slot = schedule[s].next
  BY <1>1 DEF GoodRow
<1>3. \E row \in GoodRow, o \in occurrences' :
         /\ schedule' = [schedule EXCEPT ![s] = row] /\ row.plan = schedule[s].plan
         /\ \/ /\ row.status = "ACTIVE" /\ row.version = schedule[s].version
               /\ row.next = NextOccurrence(schedule[s].plan, slot)
            \/ row.status = "PAUSED" /\ row.version = schedule[s].version + 1
         /\ GoodOccurrence(o) /\ o.schedule = s /\ o.slot = slot /\ o.test = 0
         /\ occurrences' = occurrences \cup {o}
  <2>1. CASE /\ occurrences' = occurrences \cup {Collecting(s, slot, 0)}
             /\ schedule' = [schedule EXCEPT ![s].next = NextOccurrence(schedule[s].plan, slot)]
    <3>1. PICK n \in Nat : n = NextOccurrence(schedule[s].plan, slot)
      BY <1>1, NextOfPlan
    <3> DEFINE row == [schedule[s] EXCEPT !.next = n]
               o   == Collecting(s, slot, 0)
    <3>2. DOMAIN PeriodsOf(schedule[s].plan, slot) \subseteq Report
      BY <1>1, PlansTimed DEF PeriodsOf, GoodRow
    <3>3. GoodOccurrence(o) /\ o.schedule = s /\ o.slot = slot /\ o.test = 0
      BY <3>2 DEF Collecting, GoodOccurrence, OccurrenceStatus, WorkStatus
    <3>4. /\ row \in GoodRow /\ row.plan = schedule[s].plan /\ row.status = "ACTIVE"
          /\ row.version = schedule[s].version /\ row.next = n
      BY <1>1 DEF GoodRow, ScheduleRow
    <3>5. schedule' = [schedule EXCEPT ![s] = row]
      BY <2>1, <3>1 DEF SchedulesTyped, RowsTyped
    <3> HIDE DEF row, o
    <3>6. QED
      BY <2>1, <3>1, <3>3, <3>4, <3>5 DEF o
  <2>2. CASE /\ occurrences' = occurrences \cup {Blocked(s, slot)}
             /\ schedule' = [schedule EXCEPT ![s] = Stopped(@, "PAUSED")]
    <3> DEFINE row == Stopped(schedule[s], "PAUSED")
               o   == Blocked(s, slot)
    <3>1. DOMAIN <<>> \subseteq Report
      OBVIOUS
    <3>2. GoodOccurrence(o) /\ o.schedule = s /\ o.slot = slot /\ o.test = 0
      BY <3>1 DEF Blocked, GoodOccurrence, OccurrenceStatus, WorkStatus
    <3>3. /\ row \in GoodRow /\ row.plan = schedule[s].plan
          /\ row.status = "PAUSED" /\ row.version = schedule[s].version + 1
      BY <1>1, GoodRows
    <3>4. schedule' = [schedule EXCEPT ![s] = row]
      BY <2>2
    <3> HIDE DEF row, o
    <3>5. QED
      BY <2>2, <3>2, <3>3, <3>4 DEF o
  <2>3. QED
    BY <1>2, <2>1, <2>2 DEF MaterializeDue
<1>4. PICK row \in GoodRow, o \in occurrences' :
         /\ schedule' = [schedule EXCEPT ![s] = row] /\ row.plan = schedule[s].plan
         /\ \/ /\ row.status = "ACTIVE" /\ row.version = schedule[s].version
               /\ row.next = NextOccurrence(schedule[s].plan, slot)
            \/ row.status = "PAUSED" /\ row.version = schedule[s].version + 1
         /\ GoodOccurrence(o) /\ o.schedule = s /\ o.slot = slot /\ o.test = 0
         /\ occurrences' = occurrences \cup {o}
  BY <1>3
<1>5. UNCHANGED <<activating, since>>
  BY DEF MaterializeDue
<1>6. RowsTyped' /\ RowsStay
  BY <1>4 DEF SchedulesTyped, RowsTyped, RowsStay
<1>7. OccurrencesTyped'
  BY <1>1, <1>4, <1>6, OccurrenceAdded DEF SchedulesTyped
<1>8. SchedulesTyped'
  BY <1>5, <1>6, <1>7 DEF SchedulesTyped, ActivatingTyped, RowsStay
<1>9. schedule'[s] = row /\ \A other \in Schedule \ {s} : schedule'[other] = schedule[other]
  BY <1>4 DEF SchedulesTyped, RowsTyped
<1>10. /\ Slots(s)' = Slots(s) \cup {slot}
       /\ \A other \in Schedule \ {s} : Slots(other)' = Slots(other)
  BY <1>4 DEF Slots, Scheduled
<1>11. QED
  BY <1>1, <1>2, <1>4, <1>5, <1>8, <1>9, <1>10 DEF Materialized

-----------------------------------------------------------------------------
(* A step of the whole.                                                    *)

Typed == DirectoryTyped /\ SchedulesTyped /\ edits \in Nat

\* The kinds of step that schedules and occurrences take.  In the last one no
\* schedule is written and no scheduled occurrence is added.
ScheduleStep ==
    \/ \E s \in Schedule :
          \/ Shelved(s)
          \/ BeginActivate(s) /\ UNCHANGED schedule
          \/ Activate(s) /\ UNCHANGED <<schedule, since>>
          \/ Activate(s) /\ Activated(s)
          \/ Materialized(s)
    \/ \E t \in Tenant : ArchiveTenant(t)
    \/ UNCHANGED <<schedule, activating, since>> /\ \A s \in Schedule : Slots(s)' = Slots(s)

\* Nothing happens to the schedules.
LEMMA SchedulesStay ==
    ASSUME SchedulesTyped, UNCHANGED scheduleVars
    PROVE  SchedulesTyped' /\ ScheduleStep
<1>1. RowsStay /\ UNCHANGED <<schedule, activating, since, occurrences>>
  BY DEF scheduleVars, RowsStay
<1>2. OccurrencesTyped'
  BY <1>1, OccurrencesStay DEF SchedulesTyped
<1>3. \A s \in Schedule : Slots(s)' = Slots(s)
  BY <1>1 DEF Slots, Scheduled
<1>4. QED
  BY <1>1, <1>2, <1>3 DEF SchedulesTyped, RowsTyped, ActivatingTyped, ScheduleStep

\* Nothing happens to the directory.
LEMMA DirectoryStays ==
    ASSUME DirectoryTyped, UNCHANGED directoryVars, now' \in Nat
    PROVE  DirectoryTyped'
BY DEF directoryVars, DirectoryTyped, TenantsTyped, ConnectionsTyped, IdentitiesTyped,
   MembersTyped, InvitationsTyped, RedeemingTyped

\* A request of an administrator or of a LINE user keeps the types.
LEMMA EditTypes ==
    ASSUME Typed, Edit PROVE Typed' /\ ScheduleStep
<1>1. /\ DirectoryTyped /\ SchedulesTyped /\ RowsTyped /\ now \in Nat
      /\ edits' \in Nat /\ now' = now
  BY DEF Typed, Edit, DirectoryTyped, SchedulesTyped
<1>2. CASE EditStores
  <2>1. DirectoryTyped'
    BY <1>1, <1>2, StoresTyped DEF EditStores
  <2>2. QED
    BY <1>1, <1>2, <2>1, SchedulesStay DEF EditStores, Typed
<1>3. CASE EditConnections
  <2>1. DirectoryTyped'
    BY <1>1, <1>3, StoresTyped DEF EditConnections
  <2>2. QED
    BY <1>1, <1>3, <2>1, SchedulesStay DEF EditConnections, Typed
<1>4. CASE EditRecipients
  <2>1. DirectoryTyped'
    BY <1>1, <1>4, InvitingTyped, RedeemingTypes DEF EditRecipients
  <2>2. QED
    BY <1>1, <1>4, <2>1, SchedulesStay DEF EditRecipients, Typed
<1>5. CASE \E t \in Tenant, r \in Recipient : ReplacePermissions(t, r) \/ Revoke(t, r)
  <2>1. PICK t \in Tenant, r \in Recipient : ReplacePermissions(t, r) \/ Revoke(t, r)
    BY <1>5
  <2>2. DirectoryTyped'
    BY <1>1, <2>1, PermittingTyped DEF ReplacePermissions, Revoke
  <2>3. UNCHANGED scheduleVars
    BY <2>1 DEF ReplacePermissions, Revoke
  <2>4. QED
    BY <1>1, <2>2, <2>3, SchedulesStay DEF Typed
<1>6. ASSUME NEW t \in Tenant, ArchiveTenant(t) PROVE Typed' /\ ScheduleStep
  <2>1. DirectoryTyped'
    BY <1>1, <1>6, ArchivingTyped DEF ArchiveTenant
  <2>2. RowsTyped' /\ RowsStay /\ OccurrencesTyped' /\ UNCHANGED <<activating, since>>
    BY <1>1, <1>6, SchedulesArchived DEF ArchiveTenant, ArchiveSchedulesOf
  <2>3. SchedulesTyped'
    BY <1>1, <2>2 DEF SchedulesTyped, ActivatingTyped, RowsStay
  <2>4. QED
    BY <1>1, <1>6, <2>1, <2>3 DEF Typed, ScheduleStep
<1>7. CASE EditSchedules
  <2>1. DirectoryTyped'
    BY <1>1, <1>7, DirectoryStays DEF EditSchedules
  <2>2. PICK s \in Schedule :
           \/ CreateSchedule(s) \/ UpdateSchedule(s) \/ BeginActivate(s)
           \/ PauseSchedule(s) \/ ArchiveSchedule(s) \/ RestoreSchedule(s)
           \/ MaterializeTest(s)
    BY <1>7 DEF EditSchedules
  <2>3. CASE \/ CreateSchedule(s) \/ UpdateSchedule(s) \/ PauseSchedule(s)
             \/ ArchiveSchedule(s) \/ RestoreSchedule(s)
    <3>1. Shelved(s)
      BY <1>1, <2>3, ShelvedCases
    <3>2. QED
      BY <1>1, <2>1, <3>1, ShelvedTyped DEF Typed, ScheduleStep
  <2>4. CASE BeginActivate(s)
    <3>1. SchedulesTyped' /\ UNCHANGED schedule
      BY <1>1, <2>4, ActivatingTypes DEF BeginActivate
    <3>2. QED
      BY <1>1, <2>1, <2>4, <3>1 DEF Typed, ScheduleStep
  <2>5. CASE MaterializeTest(s)
    <3>1. /\ SchedulesTyped' /\ \A other \in Schedule : Slots(other)' = Slots(other)
          /\ UNCHANGED <<schedule, activating, since>>
      BY <1>1, <2>5, TestTypes DEF MaterializeTest
    <3>2. QED
      BY <1>1, <2>1, <3>1 DEF Typed, ScheduleStep
  <2>6. QED
    BY <2>2, <2>3, <2>4, <2>5
<1>8. QED
  BY <1>2, <1>3, <1>4, <1>5, <1>6, <1>7 DEF Edit

\* So does the second half of a request, or a worker.
LEMMA ProceedTypes ==
    ASSUME Typed, Proceed PROVE Typed' /\ ScheduleStep
<1>1. /\ DirectoryTyped /\ SchedulesTyped /\ now \in Nat
      /\ edits' \in Nat /\ now' = now
  BY DEF Typed, Proceed, DirectoryTyped
<1>2. CASE /\ \/ \E t \in Tenant : MarkTested(t)
              \/ \E u \in LineUser : RedeemInvitation(u)
           /\ UNCHANGED scheduleVars
  <2>1. DirectoryTyped'
    BY <1>1, <1>2, StoresTyped, RedeemingTypes
  <2>2. QED
    BY <1>1, <1>2, <2>1, SchedulesStay DEF Typed
<1>3. ASSUME NEW s \in Schedule, Activate(s), UNCHANGED directoryVars PROVE Typed' /\ ScheduleStep
  <2>1. DirectoryTyped'
    BY <1>1, <1>3, DirectoryStays
  <2>2. /\ SchedulesTyped'
        /\ \/ UNCHANGED schedule /\ BeginActivate(s)
           \/ Activate(s) /\ UNCHANGED <<schedule, since>>
           \/ Activate(s) /\ Activated(s)
    BY <1>1, <1>3, ActivatingTypes
  <2>3. QED
    BY <1>1, <2>1, <2>2 DEF Typed, ScheduleStep
<1>4. ASSUME NEW s \in Schedule, MaterializeDue(s), UNCHANGED directoryVars
      PROVE  Typed' /\ ScheduleStep
  <2>1. DirectoryTyped'
    BY <1>1, <1>4, DirectoryStays
  <2>2. SchedulesTyped' /\ Materialized(s)
    BY <1>1, <1>4, DueTypes
  <2>3. QED
    BY <1>1, <2>1, <2>2 DEF Typed, ScheduleStep
<1>5. ASSUME NEW o \in occurrences, ExecuteRuns(o) \/ Prepare(o), UNCHANGED directoryVars
      PROVE  Typed' /\ ScheduleStep
  <2>1. DirectoryTyped'
    BY <1>1, <1>5, DirectoryStays
  <2>2. UNCHANGED <<schedule, activating, since>>
    BY <1>5 DEF ExecuteRuns, Prepare
  <2>3. OccurrencesTyped' /\ \A s \in Schedule : Slots(s)' = Slots(s)
    BY <1>1, <1>5, <2>2, Carried DEF SchedulesTyped
  <2>4. SchedulesTyped'
    BY <1>1, <2>2, <2>3 DEF SchedulesTyped, RowsTyped, ActivatingTyped
  <2>5. QED
    BY <1>1, <2>1, <2>2, <2>3, <2>4 DEF Typed, ScheduleStep
<1>6. QED
  BY <1>2, <1>3, <1>4, <1>5 DEF Proceed

\* Initial types.
LEMMA InitTyped == Init => Typed
<1> SUFFICES ASSUME Init PROVE Typed
  OBVIOUS
<1>1. DirectoryTyped
  BY DEF Init, DirectoryInit, DirectoryTyped, TenantsTyped, ConnectionsTyped, IdentitiesTyped,
     MembersTyped, InvitationsTyped, RedeemingTyped, TenantRow, ConnectionRow, IdentityRow,
     MemberRow, InvitationRow, NoTenant, NoConnection, NoMember, NoInvitation, StoredStatus,
     IdentityStatus, MembershipStatus
<1>2. SchedulesTyped
  BY FS_EmptySet DEF Init, SchedulesInit, SchedulesTyped, RowsTyped, ActivatingTyped,
     OccurrencesTyped
<1>3. QED
  BY <1>1, <1>2 DEF Init, Typed

\* Every step keeps the types and is one of the kinds of ScheduleStep.
LEMMA StepTyped == Typed /\ [Next]_vars => Typed' /\ ScheduleStep
<1> SUFFICES ASSUME Typed, [Next]_vars PROVE Typed' /\ ScheduleStep
  OBVIOUS
<1>1. ASSUME UNCHANGED <<directoryVars, scheduleVars>>, now' \in Nat, edits' \in Nat
      PROVE  Typed' /\ ScheduleStep
  BY <1>1, DirectoryStays, SchedulesStay DEF Typed
<1>2. CASE Tick
  BY <1>1, <1>2 DEF Tick, Typed, DirectoryTyped
<1>3. CASE UNCHANGED vars
  BY <1>1, <1>3 DEF vars, Typed, DirectoryTyped
<1>4. QED
  BY <1>2, <1>3, EditTypes, ProceedTypes DEF Next

\* What the configuration tables may hold, through every request, worker step
\* and tick of the clock.
THEOREM AdministrationTyped == Spec => []TypeOK
<1>1. Typed => TypeOK
  BY DirectoryTypedIsTypeOK, SchedulesTypedIsTypeOK DEF Typed, TypeOK
<1>2. QED
  BY <1>1, InitTyped, StepTyped, PTL DEF Spec
=============================================================================
