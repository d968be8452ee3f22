---------------------------- MODULE MCComposer ----------------------------
(***************************************************************************)
(* Instances of Composer for TLC.                                          *)
(***************************************************************************)
EXTENDS Composer, TLC

CONSTANTS a, b, u1, u2, j1, j2, w1, w2

OneEach == a :> 1 @@ b :> 1
OneOfA == a :> 1 @@ b :> 0
PoolOnly == a :> NoPort @@ b :> NoPort
AThenB == <<a, b>>
JustA == <<a>>

IdSymmetry == Permutations(Uuid) \cup Permutations(Job) \cup Permutations(Worker)
===========================================================================
