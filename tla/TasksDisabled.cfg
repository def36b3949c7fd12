SPECIFICATION Spec
CONSTANTS
  Workers = 2
  MaxTasks = 3
  MaxSessions = 2
INVARIANTS
  NotEnabledIsThrown
