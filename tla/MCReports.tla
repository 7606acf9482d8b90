----------------------------- MODULE MCReports -----------------------------
EXTENDS MCAccounting, Reports

(* In month 2, which both schedules start together; on its last day; when  *)
(* only the natural period is over.                                        *)
March == AccountingPeriod(Natural, MonthStart(3)).start

MCMoments == {March + Day, NextMonth - 4, NextMonth}
=============================================================================
