----------------------------- MODULE Calendar -----------------------------
(***************************************************************************)
(* The calendar arithmetic of schedules: which wall-clock slots a plan     *)
(* allows, the next one after a given time, and the period a preset stands *)
(* for on a given day.                                                     *)
(*                                                                         *)
(* A slot is one minute of one day, counted from the first minute of day   *)
(* 0.  Every schedule is in Asia/Bangkok, which has no clock changes, so   *)
(* local time and slots correspond one to one.  DaysInMonth is the length  *)
(* of a month; the code's months differ in length, which matters to nobody *)
(* here: a preset only asks for the first day of the current one.          *)
(***************************************************************************)
EXTENDS Integers

CONSTANTS
    Report,         \* report keys
    modeOf,         \* [Report -> Mode]: ParameterKind of the definition
    SlotsPerDay,    \* 1440 in the code
    DaysInWeek,     \* 7
    DaysInMonth     \* see above

Mode   == {"DATE_RANGE", "AS_OF_DATE", "CURRENT_ONLY"}
Preset == {"YESTERDAY", "TODAY_TO_NOW", "MONTH_TO_DATE", "AS_OF_RUN"}

ASSUME CalendarConstants ==
    /\ modeOf \in [Report -> Mode]
    /\ SlotsPerDay \in Nat \ {0}
    /\ DaysInWeek \in Nat \ {0}
    /\ DaysInMonth \in Nat \ {0}

Day(slot)     == slot \div SlotsPerDay
Weekday(day)  == day % DaysInWeek
Allowed(plan, slot) ==
    /\ Weekday(Day(slot)) \in plan.days
    /\ slot % SlotsPerDay = plan.time

\* Mutation of NextOccurrence: the slot itself counts.
NextOccurrenceFrom(plan, after) ==
    LET later == {k \in after .. (after + (DaysInWeek + 1) * SlotsPerDay) : Allowed(plan, k)}
    IN  CHOOSE k \in later : \A other \in later : k <= other

\* The first allowed slot strictly after "after".  The code walks 800 days
\* from the day of "after"; one week and a day always suffice.
NextOccurrence(plan, after) ==
    LET later == {k \in (after + 1) .. (after + (DaysInWeek + 1) * SlotsPerDay) :
                     Allowed(plan, k)}
    IN  CHOOSE k \in later : \A other \in later : k <= other

ResolvePeriod(preset, day) ==
    [preset |-> preset,
     from   |-> CASE preset = "YESTERDAY"     -> day - 1
                  [] preset = "MONTH_TO_DATE" -> day - (day % DaysInMonth)
                  [] OTHER                    -> day,
     to     |-> IF preset = "YESTERDAY" THEN day - 1 ELSE day]

\* The preset a report of the given mode runs with under smart periods.
EffectivePreset(preset, mode) ==
    CASE mode = "DATE_RANGE" /\ preset = "AS_OF_RUN"  -> "TODAY_TO_NOW"
      [] mode = "DATE_RANGE" /\ preset # "AS_OF_RUN"  -> preset
      [] mode = "AS_OF_DATE" /\ preset = "YESTERDAY"  -> preset
      [] OTHER                                        -> "AS_OF_RUN"

ResolveEffectivePeriod(preset, mode, day) ==
    ResolvePeriod(EffectivePreset(preset, mode), day)
=============================================================================
