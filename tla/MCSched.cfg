SPECIFICATION FairSpec
CONSTANTS
  TASK_MAX = 4
  SCHED_TICK_QUANTUM = 2
  MaxTick = 3
  MaxPid = 5
  SleepTimes <- MCSleepTimes
INVARIANTS
  TypeOK
  TaskAccounting
  CpuWellUsed
  LivePidsUnique
PROPERTIES
  WakesOnTime
  TasksProgress
