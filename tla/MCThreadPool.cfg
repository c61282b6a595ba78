SPECIFICATION PoolSpec
CONSTANTS
  Languages = {"cpp", "python"}
  Workers = {"w1", "w2"}
  Submitted = {"t1", "t2", "t3"}
  Nested <- MCNested
INVARIANT AcceptedTasksRun
PROPERTIES
  TasksAreServed
  ShutdownReturns
