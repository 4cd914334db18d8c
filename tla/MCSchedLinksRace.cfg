SPECIFICATION LinksSpec
CONSTANTS
  TASK_MAX = 4
  SCHED_TICK_QUANTUM = 2
  MaxTick = 3
  MaxPid = 5
  TickDuringAdd = TRUE
  SleepTimes <- MCSleepTimes
INVARIANT RingIntegrity
CHECK_DEADLOCK FALSE
