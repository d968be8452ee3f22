\* destroy() while a worker still uses the component, then a second component.
SPECIFICATION Spec
CONSTANTS
  a = a
  b = b
  u1 = u1
  u2 = u2
  j1 = j1
  j2 = j2
  j3 = j3
  j4 = j4
  main = main
  other = other
  w1 = w1
  w2 = w2
  NoPort = NoPort
  NoComponent = NoComponent
  NoUuid = NoUuid
  NoJob = NoJob
  BASE = 10
  MAX = 12
  Component = {a, b}
  Scale <- OneThenTwo
  ChosenPort <- PoolOnly
  JoinsWorkers = FALSE
  RunAfterExit = {}
  Uuid = {u1, u2}
  Job = {j1, j2, j3}
  Caller = {main}
  Worker = {w1}
SYMMETRY IdSymmetry
INVARIANT AssignedPortUnused
