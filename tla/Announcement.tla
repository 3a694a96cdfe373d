---------------------------- MODULE Announcement ----------------------------
(***************************************************************************)
(* What a scheduled occurrence promises to those it addresses and to the   *)
(* store that pays for the messages, without claims, leases, retries or    *)
(* crashes: one message to each of those it was published to, a record of  *)
(* each that can be trusted, and an outcome that sums the records up.      *)
(* LineDelivery implements this module.                                    *)
(***************************************************************************)
EXTENDS Naturals

CONSTANTS Occurrence, Recipient

VARIABLES
    outcome,     \* of an occurrence
    message,     \* "absent", "due", or how it is recorded to have ended
    received,    \* messages in the recipient's chat
    counted      \* messages the store's quota was charged for

promise == <<outcome, message, received, counted>>

Message == Occurrence \X Recipient

Init ==
    /\ outcome = [o \in Occurrence |-> "COLLECTING"]
    /\ message = [m \in Message |-> "absent"]
    /\ received = [m \in Message |-> 0]
    /\ counted = 0

\* Its reports failed or expired, or nobody may see them any more.
GiveUp(o) ==
    /\ outcome[o] = "COLLECTING"
    /\ outcome' = [outcome EXCEPT ![o] = "FAILED"]
    /\ UNCHANGED <<message, received, counted>>

Announce(o, audience) ==
    /\ outcome[o] = "COLLECTING" /\ audience # {}
    /\ \A r \in audience : message[<<o, r>>] = "absent"
    /\ outcome' = [outcome EXCEPT ![o] = "SENDING"]
    /\ message' = [m \in Message |-> IF m \in {o} \X audience THEN "due" ELSE message[m]]
    /\ UNCHANGED <<received, counted>>

\* The only message arrives.  It may be one that was given up: a push can be
\* under way when another lane records the failure.
Arrive(m) ==
    /\ message[m] \in {"due", "FAILED_PERMANENT"} /\ received[m] = 0
    /\ received' = [received EXCEPT ![m] = 1]
    /\ UNCHANGED <<outcome, message, counted>>

\* What the fates of an occurrence's messages make of it.
Summary(fates) ==
    IF fates = {"ACCEPTED"} THEN "COMPLETED"
    ELSE IF "ACCEPTED" \in fates THEN "PARTIAL_FAILED" ELSE "FAILED"

\* A message is recorded, once, and charged for if LINE took it; the occurrence
\* may end with it, when nothing of it is due any more.
Record(m, fate) ==
    /\ outcome[m[1]] = "SENDING" /\ message[m] = "due"
    /\ fate = "ACCEPTED" => received[m] = 1
    /\ message' = [message EXCEPT ![m] = fate]
    /\ counted' = IF fate = "ACCEPTED" THEN counted + 1 ELSE counted
    /\ LET fates == {message'[<<m[1], r>>] : r \in Recipient} \ {"absent"} IN
       \/ UNCHANGED outcome
       \/ "due" \notin fates /\ outcome' = [outcome EXCEPT ![m[1]] = Summary(fates)]
    /\ UNCHANGED received

Next ==
    \/ \E o \in Occurrence : GiveUp(o) \/ \E audience \in SUBSET Recipient : Announce(o, audience)
    \/ \E m \in Message : Arrive(m) \/ \E fate \in {"ACCEPTED", "FAILED_PERMANENT"} : Record(m, fate)

Spec == Init /\ [][Next]_promise
=============================================================================
