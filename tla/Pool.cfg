SPECIFICATION FairSpec
CONSTANTS
  w1 = w1
  w2 = w2
  w3 = w3
  q1 = q1
  q2 = q2
  Worker = {w1, w2, w3}
  Pusher = {q1}
  MaxTasks = 4
  MaxSpurious = 1
  SizeMax = 15
  Nested = TRUE
INVARIANTS
  TypeOK
  TotalIsRight
  NoLostTask
  NothingLeftBehind
PROPERTIES
  ExecutionSpec
  TasksAreRun
  WaitReturns
CHECK_DEADLOCK FALSE
