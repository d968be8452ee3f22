\* One component, one worker, two documents: workers under a shutdown, and liveness.
SPECIFICATION FairSpec
CONSTANTS
  a = a
  b = b
  u1 = u1
  u2 = u2
  j1 = j1
  j2 = j2
  w1 = w1
  w2 = w2
  main = main
  hook = hook
  NoPort = NoPort
  NoComponent = NoComponent
  NoUuid = NoUuid
  NoJob = NoJob
  BASE = 10
  MAX = 12
  Component = {a, b}
  Scale <- OneOfA
  ChosenPort <- PoolOnly
  JoinsWorkers = FALSE
  RunAfterExit = {}
  Uuid = {u1}
  Job = {j1}
  Caller = {main, hook}
  Worker = {w1}
  Pipeline <- JustA
  Documents = 2
  IgnoreErrors = TRUE
CHECK_DEADLOCK FALSE
INVARIANTS RunCleans HookCleansAfterInstantiation
PROPERTY RunEnds
