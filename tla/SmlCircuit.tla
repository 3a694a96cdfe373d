----------------------------- MODULE SmlCircuit -----------------------------
(***************************************************************************)
(* The two circuit breakers that protect a customer's JavaWS server, as    *)
(* values: tenant_sml_circuits (one row per tenant) and sml_host_circuits  *)
(* (one row per endpoint).  This module has no variables; ReportRuns keeps *)
(* one breaker per tenant and one per host and applies these operators in  *)
(* the transactions that touch the rows.                                   *)
(*                                                                         *)
(* Time is abstracted.  `open_until` is compared with the caller's clock,  *)
(* so a breaker is in one of three positions: the column is null ("none"), *)
(* in the future ("open") or in the past ("lapsed").  The failure window   *)
(* (`window_started_at`) only decides whether a failure continues a count  *)
(* or starts a new one, and either can be the case whenever a count is     *)
(* running: it is the parameter `continues` of Counted.                    *)
(***************************************************************************)
EXTENDS Naturals

\* Three SML failures of a tenant inside ten minutes, two failed connection
\* attempts to a host inside two, open the breaker.
TenantThreshold == 3
HostThreshold   == 2

Cooldown == {"none", "open", "lapsed"}

\* failures counts no further than the larger threshold: beyond its own
\* threshold a breaker behaves the same whatever the count.
Circuit == [failures : 0..TenantThreshold, cooldown : Cooldown]

\* No row, or a row reset by a completed run.
Closed == [failures |-> 0, cooldown |-> "none"]

CountAfter(c, threshold, continues) ==
    IF ~continues THEN 1
    ELSE IF c.failures >= threshold THEN threshold ELSE c.failures + 1

\* One more failure, inside the window or as the first of a new one.
Counted(c, threshold, continues) ==
    LET n == CountAfter(c, threshold, continues)
    IN  [failures |-> n, cooldown |-> IF n >= threshold THEN "open" ELSE c.cooldown]

\* Mutation of Uncertain: counted like any other failure.
UncertainMerelyCounted(c) == Counted(c, TenantThreshold, TRUE)

\* A run ended with its remote state unknown: open, at least one failure.
Uncertain(c) ==
    [failures |-> IF c.failures = 0 THEN 1 ELSE c.failures, cooldown |-> "open"]

\* The instant `open_until` passes.
CooledDown(c) == [c EXCEPT !.cooldown = "lapsed"]

Blocks(c) == c.cooldown = "open"

\* The `where` clause with which Enqueue reserves the probe of a breaker whose
\* cooldown is over.  It asks for open_until > now, although the reservation is
\* attempted only when open_until <= now.
ProbeReservable(c) == c.cooldown = "open"

\* Whether Enqueue accepts an interactive report: refused while the breaker is
\* open, and afterwards only as the reserved probe.
Admits(c) == ~Blocks(c) /\ (c.cooldown = "lapsed" => ProbeReservable(c))
=============================================================================
