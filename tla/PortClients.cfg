\* Three threads share three ports, one of which users choose as well, next to
\* one outside the pool; the counter may overshoot twice.
SPECIFICATION Spec
CONSTANTS
  t1 = t1
  t2 = t2
  t3 = t3
  BASE = 10
  MAX = 13
  NextBound = 15
  ChosenBound = 3
  Threads <- ThreeThreads
  UserPorts = {11, 13}
INVARIANTS TypeOK PoolPartition
PROPERTY LeaseSpec
