\* One composer thread, two workers, a component of scale 2 and one of scale 1
\* whose port the user chose outside the pool of two ports.  Four jobs: the first
\* component may be destroyed and instantiated again on the ports it gave back.
SPECIFICATION Spec
CONSTANTS
  a = a
  b = b
  u1 = u1
  u2 = u2
  j1 = j1
  j2 = j2
  j3 = j3
  j4 = j4
  main = main
  other = other
  w1 = w1
  w2 = w2
  NoPort = NoPort
  NoComponent = NoComponent
  NoUuid = NoUuid
  NoJob = NoJob
  BASE = 10
  MAX = 12
  Component = {a, b}
  Scale <- ScaleOf
  ChosenPort <- BChoosesOutside
  JoinsWorkers = TRUE
  RunAfterExit = {}
  Uuid = {u1, u2}
  Job = {j1, j2, j3, j4}
  Caller = {main}
  Worker = {w1, w2}
SYMMETRY IdSymmetry
INVARIANTS TypeOK PortExclusive GivenBackOnce NoOrphans CleanAfterShutdown InstanceOnce
