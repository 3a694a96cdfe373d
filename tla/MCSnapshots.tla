---------------------------- MODULE MCSnapshots ----------------------------
(* A small instance of Snapshots for TLC. *)
EXTENDS Snapshots, TLC

CONSTANTS sales, v1, v2

modes == sales :> "DATE_RANGE"
presets == (v1 :> {"TODAY_TO_NOW"}) @@ (v2 :> {"MONTH_TO_DATE"})
=============================================================================
