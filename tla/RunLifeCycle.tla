---------------------------- MODULE RunLifeCycle ----------------------------
(***************************************************************************)
(* What a report run promises to whoever asked for it, without leases,     *)
(* lanes, breakers or recovery: it waits, is executed a bounded number of  *)
(* times, and ends once; the parts of an occurrence fail together; and a   *)
(* store that closes withdraws what waits.  ReportRuns implements this     *)
(* module.                                                                 *)
(***************************************************************************)
EXTENDS Naturals

CONSTANTS
    Run, Part,   \* Part: what a run may be a part of (occurrences)
    None,
    partOf,      \* [Run -> Part \cup {None}]
    Store,
    storeOf,     \* [Run -> Store]
    limit        \* [Run -> Nat]: how often a run may be executed

VARIABLES
    state,
    starts,      \* executions begun so far
    closed       \* the stores that were closed

promise == <<state, starts, closed>>

State == {"absent", "waiting", "executing", "SUCCEEDED", "FAILED", "CANCELLED"}

Init ==
    /\ state = [r \in Run |-> "absent"]
    /\ starts = [r \in Run |-> 0]
    /\ closed = {}

Accept(new) ==
    /\ \A r \in new : state[r] = "absent"
    /\ state' = [r \in Run |-> IF r \in new THEN "waiting" ELSE state[r]]
    /\ UNCHANGED <<starts, closed>>

Start(r) ==
    /\ state[r] = "waiting" /\ starts[r] < limit[r]
    /\ state' = [state EXCEPT ![r] = "executing"]
    /\ starts' = [starts EXCEPT ![r] = @ + 1]
    /\ UNCHANGED closed

\* It failed, and there is an execution left to try again.
Return(r) ==
    /\ state[r] = "executing" /\ starts[r] < limit[r]
    /\ state' = [state EXCEPT ![r] = "waiting"]
    /\ UNCHANGED <<starts, closed>>

Succeed(r) ==
    /\ state[r] = "executing"
    /\ state' = [state EXCEPT ![r] = "SUCCEEDED"]
    /\ UNCHANGED <<starts, closed>>

\* A run that is not part of anything is withdrawn before it starts.
Withdraw(r) ==
    /\ state[r] = "waiting" /\ partOf[r] = None
    /\ state' = [state EXCEPT ![r] = "CANCELLED"]
    /\ UNCHANGED <<starts, closed>>

\* The runs in dead fail, and nothing they are parts of goes on.
Fail(dead) ==
    LET lost == {r \in Run \ dead : /\ state[r] \in {"waiting", "executing"} /\ partOf[r] # None
                                    /\ \E d \in dead : partOf[d] = partOf[r]}
    IN  /\ \A r \in dead : state[r] = "executing"
        /\ \A r \in lost : state[r] = "waiting"
        /\ state' = [r \in Run |-> IF r \in dead THEN "FAILED"
                                   ELSE IF r \in lost THEN "CANCELLED" ELSE state[r]]
        /\ UNCHANGED <<starts, closed>>

\* A store closes.  What waits for it is withdrawn, parts included, except what
\* a lane is just taking up.
Close(s, withdrawn) ==
    /\ s \in Store \ closed
    /\ \A r \in withdrawn : state[r] = "waiting" /\ storeOf[r] = s
    /\ closed' = closed \cup {s}
    /\ state' = [r \in Run |-> IF r \in withdrawn THEN "CANCELLED" ELSE state[r]]
    /\ UNCHANGED starts

Next ==
    \/ \E runs \in SUBSET Run : Accept(runs) \/ Fail(runs)
    \/ \E r \in Run : Start(r) \/ Return(r) \/ Succeed(r) \/ Withdraw(r)
    \/ \E s \in Store, withdrawn \in SUBSET Run : Close(s, withdrawn)

Spec == Init /\ [][Next]_promise
=============================================================================
