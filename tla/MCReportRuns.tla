---------------------------- MODULE MCReportRuns ----------------------------
(***************************************************************************)
(* Instances of ReportRuns for TLC.  Each .cfg names the tenants, runs and *)
(* lanes of one instance and takes their attributes from the functions     *)
(* here.  Attributes are written as the sets of the runs (lanes, tenants)  *)
(* that have them, so that one definition serves every instance.           *)
(***************************************************************************)
EXTENDS ReportRuns, TLC

CONSTANTS
    t1, t2, t3,                     \* tenants
    h1,                             \* their endpoint
    d1, d2, d3,                     \* DASHBOARD detail runs of t1, t2, t3
    b1,                             \* BACKGROUND run of t1, key k1
    s1, s2,                         \* SCHEDULE runs of occurrence o1 of t1
    v1, v2,                         \* DASHBOARD summary runs of t1, keys k1, k2
    k1, k2,
    p1, p2,
    l1, l2, l3,
    o1,
    g1, g2                          \* overview refreshes of t1: {k1, k2} and {k1}

MCHostOf == [t \in Tenant |-> h1]

MCTenantOf == [r \in Run |-> IF r = d2 THEN t2 ELSE IF r = d3 THEN t3 ELSE t1]

MCSource == [r \in Run |-> IF r = b1 THEN "BACKGROUND"
                           ELSE IF r \in {s1, s2} THEN "SCHEDULE" ELSE "DASHBOARD"]

MCExecutionKeyOf == [r \in Run |-> IF r \in {b1, v1} THEN k1
                                   ELSE IF r = v2 THEN k2 ELSE None]

MCOccurrenceOf == [r \in Run |-> IF r \in {s1, s2} THEN o1 ELSE None]

MCOccurrenceTenant == [o \in Occurrence |-> t1]

MCRequest == [g \in Generation |-> IF g = g1 THEN {k1, k2} ELSE {k1}]

MCGenerationTenant == [g \in Generation |-> t1]

\* Two lanes in one process, which share its worker id, and one in another.
MCProcOf == [l \in Lane |-> IF l = l3 THEN p2 ELSE p1]

\* The two lanes of one process are alike, and so are the two reports of an
\* occurrence.
symmetricLanesAndReports == Permutations({l1, l2}) \cup Permutations({s1, s2})

=============================================================================
