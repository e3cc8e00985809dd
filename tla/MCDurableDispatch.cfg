CONSTANTS
  Task = {t1, t2}
  NoTask = NoTask
  Concurrency = 2
  WakeupBuffer = 1
  MaxFaults = 1
SPECIFICATION DSpec
INVARIANT SlotsAccounted
PROPERTIES ServesTable ShutdownCompletes CommittedTasksGetDone
