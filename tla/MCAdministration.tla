-------------------------- MODULE MCAdministration --------------------------
(* A small instance of Administration for TLC. *)
EXTENDS Administration, TLC

CONSTANTS t1, r1, r2, u1, u2, s1, sales, stock

modes == (sales :> "DATE_RANGE") @@ (stock :> "AS_OF_DATE")
stores == s1 :> t1

\* Daily in the first slot, and every second day in the second.
daily  == [days |-> {0, 1}, time |-> 0, preset |-> "MONTH_TO_DATE",
           reports |-> {sales, stock}, recipients |-> {r1}]
weekly == [days |-> {1}, time |-> 1, preset |-> "YESTERDAY",
           reports |-> {sales}, recipients |-> {r1, r2}]
plans  == {daily, weekly}
permissionSets == {{sales}, {sales, stock}}

\* The state after a store was set up, one recipient has accepted the
\* invitation, another has not, and a schedule was drafted.
Onboarded ==
    /\ now = 0 /\ edits = 0
    /\ tenant = [t \in Tenant |-> [status |-> "ACTIVE", ends |-> 4, archived |-> FALSE, version |-> 2]]
    /\ connection = [t \in Tenant |-> [version |-> 1, readiness |-> "READY"]]
    /\ testing = [t \in Tenant |-> FALSE]
    /\ identity = (r1 :> [status |-> "ACTIVE", line |-> u1]) @@
                  (r2 :> [status |-> "PENDING", line |-> None])
    /\ member = [t \in Tenant |->
          (r1 :> [status |-> "ACTIVE", version |-> 2, keys |-> {sales, stock}]) @@
          (r2 :> [status |-> "PENDING", version |-> 2, keys |-> {sales}])]
    /\ invitation = (r1 :> [issue |-> 1, of |-> t1, until |-> 2, used |-> TRUE]) @@
                    (r2 :> [issue |-> 1, of |-> t1, until |-> 2, used |-> FALSE])
    /\ redeeming = [u \in LineUser |-> None]
    /\ schedule = [s \in Schedule |->
          [status |-> "DRAFT", plan |-> daily, next |-> None, version |-> 1]]
    /\ activating = [s \in Schedule |-> None]
    /\ since = [s \in Schedule |-> None]
    /\ occurrences = {}

MCInit == Init \/ Onboarded
MCSpec == MCInit /\ [][Next]_vars
=============================================================================
