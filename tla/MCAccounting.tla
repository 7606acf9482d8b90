---------------------------- MODULE MCAccounting ----------------------------
EXTENDS Accounting, TLC

MCMonths == [m \in 0..4 |-> <<3, 2, 4, 3, 3>>[m + 1]]

(* On the first day of month 2 the clock skips the hour from midnight.     *)
MCZone == {[at |-> -1000, offset |-> -16], [at |-> MonthStart(2) + 16, offset |-> -14]}

MCZones == {MCZone}

Natural == [policy |-> "natural-month", zone |-> MCZone, anchor |-> None]

(* Due at one o'clock: in month 2 with the natural one, else an hour later. *)
Anchored == [policy |-> "anchored-month", zone |-> MCZone,
             anchor |-> [month |-> 3, day |-> 1, time |-> Hour]]

MCNatural == {Natural}

MCSchedules == {Natural, Anchored}

NextMonth == AccountingPeriod(Natural, MonthStart(3)).next

(* The last half hour of a period and the first of the next. *)
MCBoundary == {NextMonth - 1, NextMonth}

MCZeroTarget == {[d \in Dirs |-> 0]}

MCDirectionTargets ==
  {[d \in Dirs |-> 0], [d \in Dirs |-> IF d = "rx" THEN 0 ELSE Top]}

=============================================================================
