----------------------------- MODULE TaskTable -------------------------------
(***************************************************************************)
(* The sizes and bounds the two models of the scheduler share, modules     *)
(* Sched and SchedLinks, and what is assumed of them.                      *)
(***************************************************************************)
EXTENDS Naturals

CONSTANTS
  TASK_MAX,            \* slots of g_tasks (task.h: 32)
  SCHED_TICK_QUANTUM,  \* time slice in ticks (sched.h: 10)
  SleepTimes,          \* the arguments sched_sleep is called with
  MaxTick,             \* bound: g_ticks saturates here
  MaxPid               \* bound: task_create stops handing out PIDs here

ASSUME SchedAssumption ==
  /\ TASK_MAX \in Nat /\ TASK_MAX >= 2
  /\ SCHED_TICK_QUANTUM \in Nat \ {0}
  /\ SleepTimes \subseteq Nat
  /\ MaxTick \in Nat
  /\ MaxPid \in Nat
=============================================================================
