------------------------------- MODULE Budget -------------------------------
(***************************************************************************)
(* bandwidth.py: the counters of the download meter as a value, and what   *)
(* each method of BandwidthMeter does to them.                             *)
(*                                                                         *)
(* A date is a number; the month it falls in is date \div DaysPerMonth.    *)
(***************************************************************************)
EXTENDS Integers

CONSTANTS
    DayCap, MonthCap,   \* bytes; 0 = unlimited
    DaysPerMonth

ASSUME BudgetAssumption ==
    /\ DayCap \in Nat
    /\ MonthCap \in Nat
    /\ DaysPerMonth \in Nat \ {0}

MonthOf(date) == date \div DaysPerMonth

NoCounts == [date |-> -1, month |-> -1, day |-> 0, month_bytes |-> 0]

(* Mutant: the day's bytes are not reset. *)
RollMonth(m, today) ==
    [date        |-> today,
     month       |-> MonthOf(today),
     day         |-> m.day,
     month_bytes |-> IF m.month = MonthOf(today) THEN m.month_bytes ELSE 0]

(* A counter starts again when its date has changed. *)
roll(m, today) ==
    [date        |-> today,
     month       |-> MonthOf(today),
     day         |-> IF m.date = today THEN m.day ELSE 0,
     month_bytes |-> IF m.month = MonthOf(today) THEN m.month_bytes ELSE 0]

(* Mutant: asks whether the budget is used up, not whether n bytes fit. *)
AllowsIfLeft(m, n) ==
    /\ DayCap # 0 => m.day < DayCap
    /\ MonthCap # 0 => m.month_bytes < MonthCap

(* allow, on rolled counters *)
Allows(m, n) ==
    /\ DayCap # 0 => m.day + n =< DayCap
    /\ MonthCap # 0 => m.month_bytes + n =< MonthCap

(* Mutant: counts down. *)
RecordedDown(m, n) ==
    [m EXCEPT !.day = @ - n, !.month_bytes = @ - n]

(* record, on rolled counters *)
Recorded(m, n) ==
    [m EXCEPT !.day = @ + n, !.month_bytes = @ + n]
=============================================================================
