---------------------------- MODULE MCSchedLinks -----------------------------
(***************************************************************************)
(* Small instances of the linked-list scheduler for TLC.                   *)
(***************************************************************************)
EXTENDS SchedLinks

MCSleepTimes == {0, 1, 2}
=============================================================================
