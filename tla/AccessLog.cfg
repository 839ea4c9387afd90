SPECIFICATION AccessLogSpec
CONSTANTS
  Req <- MCReq
  Task = {t1, t2}
  MaxTasks = 1
  BatchSize = 2
  Retentions = {0, 1}
  MaxAge = 2
INVARIANTS PagesPartition
PROPERTIES RetentionKept PurgeComplete PurgeEnds
