----------------------------- MODULE Directory -----------------------------
(***************************************************************************)
(* The configuration an administrator keeps: stores ("tenants"), their     *)
(* JavaWS connections, the recipients of a store, and the invitations by   *)
(* which a LINE user becomes one.                                          *)
(*                                                                         *)
(* One action per store operation.  A request that repeats an idempotency  *)
(* key is answered from the stored response and changes nothing: it is a   *)
(* stuttering step.  A request refused by validation, a version conflict   *)
(* or a state conflict also changes nothing.  Deleting rows (retention) is *)
(* not part of this module.                                                *)
(*                                                                         *)
(* Time: "now" counts slots of the calendar, and a request handled while   *)
(* now = k reads a clock strictly between slot k and slot k + 1.           *)
(***************************************************************************)
EXTENDS Calendar, FiniteSets

CONSTANTS
    Tenant, Recipient, LineUser, None,
    AccessEnds,      \* end times an administrator may choose
    PermissionSets,  \* permission sets an administrator may choose
    InvitationSlots  \* 7 days: how long an invitation stays open

ASSUME DirectoryConstants ==
    /\ None \notin Tenant \cup Recipient \cup LineUser
    /\ AccessEnds \subseteq Nat
    /\ PermissionSets \subseteq SUBSET Report
    /\ InvitationSlots \in Nat \ {0}

VARIABLES
    now,         \* the clock
    tenant,      \* tenants; version 0 before the row exists
    connection,  \* tenant_sml_connections; version 0: not configured
    testing,     \* a connection test is in flight
    identity,    \* line_recipients
    member,      \* tenant_memberships with recipient_report_permissions
    invitation,  \* recipient_invitations, by their pending_recipient_id
    redeeming    \* a Redeem request: its link and the clock it has read

directoryVars == <<tenant, connection, testing, identity, member, invitation, redeeming>>

StoredStatus     == {"ACTIVE", "DISABLED", "EXPIRED"}
IdentityStatus   == {"ABSENT", "PENDING", "ACTIVE", "REVOKED"}
MembershipStatus == {"NONE", "PENDING", "ACTIVE", "REVOKED"}

NoTenant     == [status |-> "DISABLED", ends |-> 0, archived |-> FALSE, version |-> 0]
NoConnection == [version |-> 0, readiness |-> "UNTESTED"]
NoMember     == [status |-> "NONE", version |-> 0, keys |-> {}]
NoInvitation == [issue |-> 0, of |-> None, until |-> 0, used |-> TRUE]

DirectoryTypeOK ==
    /\ now \in Nat
    /\ tenant \in [Tenant -> [status : StoredStatus, ends : Nat,
                              archived : BOOLEAN, version : Nat]]
    /\ connection \in [Tenant -> [version : Nat, readiness : {"UNTESTED", "READY", "FAILED"}]]
    /\ testing \in [Tenant -> BOOLEAN]
    /\ identity \in [Recipient -> [status : IdentityStatus, line : LineUser \cup {None}]]
    /\ member \in [Tenant -> [Recipient ->
            [status : MembershipStatus, version : Nat, keys : SUBSET Report]]]
    /\ invitation \in [Recipient -> [issue : Nat, of : Tenant \cup {None},
                                     until : Nat, used : BOOLEAN]]
    /\ redeeming \in [LineUser -> {None} \cup [ref : Recipient, issue : Nat, at : Nat]]

DirectoryInit ==
    /\ now = 0
    /\ tenant = [t \in Tenant |-> NoTenant]
    /\ connection = [t \in Tenant |-> NoConnection]
    /\ testing = [t \in Tenant |-> FALSE]
    /\ identity = [r \in Recipient |-> [status |-> "ABSENT", line |-> None]]
    /\ member = [t \in Tenant |-> [r \in Recipient |-> NoMember]]
    /\ invitation = [r \in Recipient |-> NoInvitation]
    /\ redeeming = [u \in LineUser |-> None]

Exists(t) == tenant[t].version > 0
\* What scheduleReadiness and the viewer's queries ask of a tenant; Get shows
\* an expired one as EXPIRED and hides an archived one.
TenantActive(t) == tenant[t].status = "ACTIVE" /\ tenant[t].ends > now
SmlReady(t) == connection[t].readiness = "READY"
RecipientActive(t, r) == member[t][r].status = "ACTIVE" /\ identity[r].status = "ACTIVE"

-----------------------------------------------------------------------------
(* Stores                                                                  *)

CreateTenant(t) ==
    /\ ~ Exists(t)
    /\ \E end \in AccessEnds :
          /\ end > now
          /\ tenant' = [tenant EXCEPT ![t] =
                [status |-> "DISABLED", ends |-> end, archived |-> FALSE, version |-> 1]]
    /\ UNCHANGED <<connection, testing, identity, member, invitation, redeeming>>

\* A patch sets some of the fields; neither running work nor queued runs are
\* touched, and no lock is shared with schedule activation.
UpdateTenant(t) ==
    /\ Exists(t) /\ ~ tenant[t].archived
    /\ \/ \E status \in StoredStatus :
             tenant' = [tenant EXCEPT ![t].status = status, ![t].version = @ + 1]
       \/ \E end \in AccessEnds :
             /\ end > now
             /\ tenant' = [tenant EXCEPT ![t].ends = end, ![t].version = @ + 1]
    /\ UNCHANGED <<connection, testing, identity, member, invitation, redeeming>>

\* The directory's part of TenantStore.Archive; permissions stay in place.
ArchiveDirectory(t) ==
    /\ Exists(t) /\ ~ tenant[t].archived
    /\ identity' = [r \in Recipient |->
          IF identity[r].status = "PENDING" /\ member[t][r].status # "NONE"
          THEN [identity[r] EXCEPT !.status = "REVOKED"] ELSE identity[r]]
    /\ invitation' = [r \in Recipient |->
          IF invitation[r].of = t THEN [invitation[r] EXCEPT !.used = TRUE]
          ELSE invitation[r]]
    /\ member' = [member EXCEPT ![t] = [r \in Recipient |->
          IF @[r].status = "NONE" THEN @[r] ELSE [@[r] EXCEPT !.status = "REVOKED"]]]
    /\ tenant' = [tenant EXCEPT ![t].status = "DISABLED", ![t].archived = TRUE,
                                ![t].version = @ + 1]
    /\ UNCHANGED <<connection, testing, redeeming>>

-----------------------------------------------------------------------------
(* Connections.  The archive of the store does not concern them.           *)

\* Replace; the request's version equals the stored one, 0 for a first Put.
PutConnection(t) ==
    /\ Exists(t)
    /\ connection' = [connection EXCEPT ![t] =
          [version |-> @.version + 1, readiness |-> "UNTESTED"]]
    /\ UNCHANGED <<tenant, testing, identity, member, invitation, redeeming>>

\* Test opens the connection as it is now ...
StartTest(t) ==
    /\ connection[t].version > 0
    /\ ~ testing[t]
    /\ testing' = [testing EXCEPT ![t] = TRUE]
    /\ UNCHANGED <<tenant, connection, identity, member, invitation, redeeming>>

\* ... and records what the query showed in whatever row it then finds, of the
\* version it has opened or of a later one.
MarkTested(t) ==
    /\ testing[t]
    /\ \E readiness \in {"READY", "FAILED"} :
          connection' = [connection EXCEPT ![t].readiness = readiness]
    /\ testing' = [testing EXCEPT ![t] = FALSE]
    /\ UNCHANGED <<tenant, identity, member, invitation, redeeming>>

-----------------------------------------------------------------------------
(* Recipients                                                              *)

\* The state of the store is not asked for.
CreateInvitation(t, r) ==
    /\ Exists(t)
    /\ identity[r].status = "ABSENT"
    /\ identity' = [identity EXCEPT ![r].status = "PENDING"]
    /\ member' = [member EXCEPT ![t][r] = [status |-> "PENDING", version |-> 1, keys |-> {}]]
    /\ invitation' = [invitation EXCEPT ![r] =
          [issue |-> 1, of |-> t, until |-> now + InvitationSlots, used |-> FALSE]]
    /\ UNCHANGED <<tenant, connection, testing, redeeming>>

\* A new link replaces the old one, whose hash no row has any more.
ReissueInvitation(t, r) ==
    /\ member[t][r].status = "PENDING" /\ identity[r].status = "PENDING"
    /\ invitation[r].of = t
    /\ invitation' = [invitation EXCEPT ![r] =
          [issue |-> @.issue + 1, of |-> t, until |-> now + InvitationSlots, used |-> FALSE]]
    /\ UNCHANGED <<tenant, connection, testing, identity, member, redeeming>>

ReplaceKeys(t, r, keys) ==
    /\ member[t][r].status \in {"PENDING", "ACTIVE"}
    /\ member' = [member EXCEPT ![t][r] =
          [status |-> @.status, version |-> @.version + 1, keys |-> keys]]
    /\ UNCHANGED <<tenant, connection, testing, identity, invitation, redeeming>>

\* Mutation of RevokeMember: the bound identity is revoked as well.
RevokeIdentity(t, r) ==
    /\ member[t][r].status \in {"PENDING", "ACTIVE"}
    /\ member' = [member EXCEPT ![t][r] =
          [status |-> "REVOKED", version |-> @.version + 1, keys |-> {}]]
    /\ identity' = [identity EXCEPT ![r].status = "REVOKED"]
    /\ UNCHANGED <<tenant, connection, testing, invitation, redeeming>>

\* Mutation of RevokeMember: the invitation stays open.
RevokeKeepsInvitation(t, r) ==
    /\ member[t][r].status \in {"PENDING", "ACTIVE"}
    /\ member' = [member EXCEPT ![t][r] =
          [status |-> "REVOKED", version |-> @.version + 1, keys |-> {}]]
    /\ identity' = [identity EXCEPT ![r].status =
          IF member[t][r].status = "PENDING" /\ @ = "PENDING" THEN "REVOKED" ELSE @]
    /\ UNCHANGED <<tenant, connection, testing, invitation, redeeming>>

RevokeMember(t, r) ==
    /\ member[t][r].status \in {"PENDING", "ACTIVE"}
    /\ member' = [member EXCEPT ![t][r] =
          [status |-> "REVOKED", version |-> @.version + 1, keys |-> {}]]
    /\ invitation' = [invitation EXCEPT ![r].until =
          IF invitation[r].of = t /\ ~ invitation[r].used /\ now < @ THEN now ELSE @]
    /\ identity' = [identity EXCEPT ![r].status =
          IF member[t][r].status = "PENDING" /\ @ = "PENDING" THEN "REVOKED" ELSE @]
    /\ UNCHANGED <<tenant, connection, testing, redeeming>>

-----------------------------------------------------------------------------
(* A LINE user follows an invitation link.  The request reads the clock    *)
(* before its transaction waits for the LINE user's advisory lock and for  *)
(* the invitation's row.                                                   *)

BeginRedeem(u, r) ==
    /\ redeeming[u] = None
    /\ invitation[r].issue > 0
    /\ redeeming' = [redeeming EXCEPT ![u] =
          [ref |-> r, issue |-> invitation[r].issue, at |-> now]]
    /\ UNCHANGED <<tenant, connection, testing, identity, member, invitation>>

Redeemable(request) ==
    LET link == invitation[request.ref]
    IN  link.issue = request.issue /\ ~ link.used /\ link.until > request.at

BoundTo(u) == {r \in Recipient : identity[r].line = u /\ identity[r].status = "ACTIVE"}

\* The LINE user is known: the pending recipient is merged into the known one.
MergeRecipient(t, pending, known) ==
    /\ member' = [member EXCEPT
          ![t][known] = [status  |-> "ACTIVE",
                         version |-> IF @.status = "NONE" THEN 1 ELSE @.version,
                         keys    |-> @.keys \cup member[t][pending].keys],
          ![t][pending].status = "REVOKED"]
    /\ identity' = [identity EXCEPT ![pending].status = "REVOKED"]

\* The LINE user is new: the unique index refuses a hash that some row has.
BindRecipient(t, pending, u) ==
    /\ \A r \in Recipient \ {pending} : identity[r].line # u
    /\ identity' = [identity EXCEPT ![pending] = [status |-> "ACTIVE", line |-> u]]
    /\ member' = [member EXCEPT ![t][pending].status = "ACTIVE"]

RedeemInvitation(u) ==
    /\ redeeming[u] # None
    /\ redeeming' = [redeeming EXCEPT ![u] = None]
    /\ LET request == redeeming[u]
           pending == request.ref
           t       == invitation[pending].of
       IN  \/ /\ Redeemable(request)
              /\ \/ \E known \in BoundTo(u) \ {pending} : MergeRecipient(t, pending, known)
                 \/ BoundTo(u) = {} /\ BindRecipient(t, pending, u)
              /\ invitation' = [invitation EXCEPT ![pending].used = TRUE]
           \/ /\ ~ Redeemable(request)
              /\ UNCHANGED <<identity, member, invitation>>
    /\ UNCHANGED <<tenant, connection, testing>>
=============================================================================
