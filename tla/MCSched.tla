------------------------------- MODULE MCSched -------------------------------
(***************************************************************************)
(* Small instances of the scheduler for TLC: the boot task, idle and two   *)
(* more, with sleeps of nothing, one tick and two.                         *)
(***************************************************************************)
EXTENDS Sched

MCSleepTimes == {0, 1, 2}
=============================================================================
