SPECIFICATION Spec
CONSTANTS
  Proc <- MCProc
  Op = {"op1"}
  Calls <- MCCalls
  Kinds <- MCKinds
  Restarts = {"host"}
  StoreFails = TRUE
  MaxTasks = 2
VIEW MCView
PROPERTIES RowFollowsTable OnlyOpenLeavesStopped
