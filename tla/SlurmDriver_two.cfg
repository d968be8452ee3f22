\* Two threads call the driver at the same time; two components of scale 1 on a pool
\* of two ports, of which the user of the second chose one.
SPECIFICATION Spec
CONSTANTS
  a = a
  b = b
  u1 = u1
  u2 = u2
  j1 = j1
  j2 = j2
  j3 = j3
  j4 = j4
  main = main
  other = other
  w1 = w1
  w2 = w2
  NoPort = NoPort
  NoComponent = NoComponent
  NoUuid = NoUuid
  NoJob = NoJob
  BASE = 10
  MAX = 12
  Component = {a, b}
  Scale <- OneEach
  ChosenPort <- BChoosesSecond
  JoinsWorkers = TRUE
  RunAfterExit = {}
  Uuid = {u1, u2}
  Job = {j1, j2, j3}
  Caller = {main, other}
  Worker = {}
SYMMETRY IdSymmetry
INVARIANT PortExclusive
