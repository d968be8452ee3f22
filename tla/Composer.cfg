\* Two components, no documents: the hook against the main thread.
SPECIFICATION ComposerSpec
CONSTANTS
  a = a
  b = b
  u1 = u1
  u2 = u2
  j1 = j1
  j2 = j2
  w1 = w1
  w2 = w2
  main = main
  hook = hook
  NoPort = NoPort
  NoComponent = NoComponent
  NoUuid = NoUuid
  NoJob = NoJob
  BASE = 10
  MAX = 12
  Component = {a, b}
  Scale <- OneEach
  ChosenPort <- PoolOnly
  JoinsWorkers = FALSE
  RunAfterExit = {b}
  Uuid = {u1, u2}
  Job = {j1, j2}
  Caller = {main, hook}
  Worker = {w1}
  Pipeline <- AThenB
  Documents = 0
  IgnoreErrors = FALSE
CHECK_DEADLOCK FALSE
SYMMETRY IdSymmetry
INVARIANTS ComposerTypeOK RunCleans HookCleansAfterInstantiation
