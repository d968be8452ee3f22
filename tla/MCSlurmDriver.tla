--------------------------- MODULE MCSlurmDriver ---------------------------
(***************************************************************************)
(* Instances of SlurmDriver for TLC.                                       *)
(***************************************************************************)
EXTENDS SlurmDriver, TLC

CONSTANTS a, b, u1, u2, j1, j2, j3, j4, main, other, w1, w2

\* Component a has two instances on pool ports, component b one.
ScaleOf == a :> 2 @@ b :> 1
OneThenTwo == a :> 1 @@ b :> 2
OneEach == a :> 1 @@ b :> 1
PoolOnly == a :> NoPort @@ b :> NoPort
BChoosesOutside == a :> NoPort @@ b :> MAX
BChoosesSecond == a :> NoPort @@ b :> BASE + 1

IdSymmetry == Permutations(Uuid) \cup Permutations(Job) \cup Permutations(Worker)
                \cup Permutations(Caller)
=============================================================================
