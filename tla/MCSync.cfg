SPECIFICATION SyncSpec
CONSTANTS
  N = 4
  MUTEX_WAITER_MAX = 2
  SEM_WAITER_MAX = 2
  InitialCount = 1
  MaxPosts = 4
  Creators = {c1}
  Jobs = {j1, j2, j3}
  Services = {j3}
  KTHREAD_MAX = 2
  KTHREAD_TASKS = 2
  SCHED_TICK_QUANTUM = 2
  TASK_MAX = 4
  TickDuringAdd = FALSE
  SleepTimes <- MCSleepTimes
  MaxTick = 3
  MaxPid = 5
INVARIANTS OwnerNamesHolder WaitersAreWaiting UnitsConserved ThreadsSound
  InterruptsSound RingIntegrity
PROPERTIES AdmitsOne RefinesSched WaitingEnds
CHECK_DEADLOCK FALSE
