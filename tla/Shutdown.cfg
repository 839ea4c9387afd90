SPECIFICATION ShutdownSpec
CONSTANTS
  N = 4
  Fallible = {3}
  Blocking = {1}
  MaxBlock = 3
  Budget <- MCBudget
  Deadline = 6
  Reserve = 1
  Task = {t1, t2, t3}
  MaxTasks = 2
  DrainTimeouts = {2, 5}
  Engines = 2
INVARIANTS NothingForgotten InTime DrainedMeansQuiet NoneRunsPastTheWait
PROPERTIES ImplementsManager ShutdownEnds
CHECK_DEADLOCK FALSE
