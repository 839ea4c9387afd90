SPECIFICATION ShutdownSpec
CONSTANTS
  N = 4
  Fallible = {3}
  Blocking = {1}
  MaxBlock = 3
  Budget <- MCBudget
  Deadline = 20
  Reserve = 1
  Task = {t1, t2}
  MaxTasks = 1
  DrainTimeouts = {5}
  Engines = 2
INVARIANTS StragglersCancelled
CHECK_DEADLOCK FALSE
