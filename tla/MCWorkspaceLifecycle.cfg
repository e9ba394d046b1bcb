SPECIFICATION LifecycleSpec
CONSTANTS
  Proc = {"cp", "host"}
  Cp = "cp"
  Host = "host"
  Op = {"op1"}
  Calls <- MCCalls
  Kinds <- MCKinds
  Restarts = {"cp", "host"}
  StoreFails = FALSE
  MaxTasks = 2
VIEW MCView
CONSTRAINT MCReported
INVARIANT StoppedMeansStopped
PROPERTIES ReadyIsRestored ReportedFailuresKeepWork
