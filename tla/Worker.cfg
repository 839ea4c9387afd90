SPECIFICATION WorkerSpec
CONSTANTS
  MaxSize = 2
  MaxLogs = 3
  Engines = 2
  Inherited = {1, 2}
INVARIANTS ChildStandsAlone
PROPERTIES MainLogKept ChildLogKept StopFlushes MainLogFlows ChildLagsByOne
CHECK_DEADLOCK FALSE
