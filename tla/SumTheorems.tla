----------------------------- MODULE SumTheorems -----------------------------
(***************************************************************************)
(* Facts about SumFunctionOnSet, the sum of a function over a finite set,  *)
(* whose definition folds the set in an order it does not tell.  What is   *)
(* said of every set is proved by looking at a smallest counterexample.    *)
(***************************************************************************)
EXTENDS Integers, FiniteSetsExt, FiniteSetTheorems, TLAPS

\* Among the subsets of a finite set that have some property there is a smallest.
LEMMA Smallest ==
  ASSUME NEW D, IsFiniteSet(D), NEW T, T \subseteq SUBSET D, T # {}
  PROVE  \E X \in T : \A Y \in T : Y \subseteq X => Y = X
<1>1. IsWellFoundedOn(StrictSubsetOrdering(D), SUBSET D)
  BY FS_StrictSubsetOrderingWellFounded, FS_FiniteSubsetsOfFinite
<1>2. \E X \in T : \A Y \in T : ~(<<Y, X>> \in StrictSubsetOrdering(D))
  BY <1>1, WFMin
<1>3. QED
  BY <1>2 DEF StrictSubsetOrdering
-----------------------------------------------------------------------------
(* The fold                                                                *)

First(s) == CHOOSE x \in s : TRUE

\* g is the function that the fold over D computes.
Unfolds(g, D, f) ==
  g = [s \in SUBSET D |-> IF s = {} THEN 0 ELSE f[First(s)] + g[s \ {First(s)}]]

\* The fold, with its operators put in.
LEMMA SumIsFold ==
  ASSUME NEW D, NEW f
  PROVE  SumFunctionOnSet(f, D) = (CHOOSE g : Unfolds(g, D, f))[D]
BY DEF SumFunctionOnSet, FoldFunctionOnSet, MapThenFoldSet, Unfolds, First

\* A set that is not empty has a first element.
LEMMA FirstIn ==
  ASSUME NEW s, s # {}
  PROVE  First(s) \in s
BY DEF First

\* The same, on the sets of at most n elements only.
Upto(D, n) == {s \in SUBSET D : Cardinality(s) <= n}
UnfoldsUpto(g, D, f, n) ==
  g = [s \in Upto(D, n) |-> IF s = {} THEN 0 ELSE f[First(s)] + g[s \ {First(s)}]]

\* From the sets of at most n elements to those of one more.
LEMMA UnfoldsMore ==
  ASSUME NEW D, IsFiniteSet(D), NEW f, NEW n \in Nat, NEW h, UnfoldsUpto(h, D, f, n)
  PROVE  \E g : UnfoldsUpto(g, D, f, n + 1)
<1> DEFINE v(s) == IF s = {} THEN 0 ELSE f[First(s)] + h[s \ {First(s)}]
           g == [s \in Upto(D, n + 1) |-> v(s)]
<1>1. ASSUME NEW s \in Upto(D, n + 1), s # {}
      PROVE  s \ {First(s)} \in Upto(D, n) /\ s \ {First(s)} \in Upto(D, n + 1)
  <2>1. s \in SUBSET D /\ IsFiniteSet(s) /\ First(s) \in s
    BY <1>1, FirstIn, FS_Subset DEF Upto
  <2>2. Cardinality(s) \in Nat /\ Cardinality(s) <= n + 1
    BY <2>1, FS_CardinalityType DEF Upto
  <2>3. Cardinality(s \ {First(s)}) = Cardinality(s) - 1
    BY <2>1, FS_RemoveElement
  <2>4. Cardinality(s \ {First(s)}) <= n /\ Cardinality(s \ {First(s)}) <= n + 1
    BY <2>2, <2>3
  <2>5. QED
    BY <2>1, <2>4 DEF Upto
<1>2. ASSUME NEW s \in Upto(D, n)
      PROVE  h[s] = v(s)
  BY <1>2 DEF UnfoldsUpto
<1>3. ASSUME NEW s \in Upto(D, n + 1), s # {}
      PROVE  g[s \ {First(s)}] = h[s \ {First(s)}]
  <2>1. g[s \ {First(s)}] = v(s \ {First(s)})
    BY <1>1, <1>3
  <2>2. h[s \ {First(s)}] = v(s \ {First(s)})
    BY <1>1, <1>2, <1>3
  <2>3. QED
    BY <2>1, <2>2
<1>4. UnfoldsUpto(g, D, f, n + 1)
  BY <1>3 DEF UnfoldsUpto
<1>5. QED
  BY <1>4

\* The function that the fold computes exists.
LEMMA FoldExists ==
  ASSUME NEW D, IsFiniteSet(D), NEW f
  PROVE  \E g : Unfolds(g, D, f)
<1> DEFINE P(n) == \E g : UnfoldsUpto(g, D, f, n)
           T == {X \in SUBSET D : ~P(Cardinality(X))}
<1>1. P(0)
  <2>1. \A s \in Upto(D, 0) : s = {}
    <3>1. ASSUME NEW s \in Upto(D, 0)
          PROVE  s = {}
      <4>1. IsFiniteSet(s) /\ Cardinality(s) <= 0
        BY FS_Subset DEF Upto
      <4>2. Cardinality(s) = 0
        BY <4>1, FS_CardinalityType
      <4>3. QED
        BY <4>1, <4>2, FS_EmptySet
    <3>2. QED
      BY <3>1
  <2> DEFINE g == [s \in Upto(D, 0) |-> 0]
  <2>2. UnfoldsUpto(g, D, f, 0)
    BY <2>1 DEF UnfoldsUpto
  <2>3. QED
    BY <2>2
<1>2. ASSUME NEW n \in Nat, P(n) PROVE P(n + 1)
  BY <1>2, UnfoldsMore
<1> HIDE DEF P
<1>3. P(Cardinality(D))
  <2> SUFFICES ASSUME ~P(Cardinality(D)) PROVE FALSE
    OBVIOUS
  <2>1. /\ T # {} /\ T \subseteq SUBSET D
        /\ \A X \in SUBSET D : X \in T <=> ~P(Cardinality(X))
    OBVIOUS
  <2> HIDE DEF T
  <2>2. PICK X \in T : \A Y \in T : Y \subseteq X => Y = X
    BY <2>1, Smallest
  <2>3. X \subseteq D /\ IsFiniteSet(X) /\ ~P(Cardinality(X))
    BY <2>1, <2>2, FS_Subset
  <2>4. X # {}
    BY <1>1, <2>3, FS_EmptySet
  <2>5. PICK x : x \in X
    BY <2>4
  <2>6. P(Cardinality(X \ {x}))
    <3>1. X \ {x} \subseteq X /\ X \ {x} # X /\ X \ {x} \in SUBSET D
      BY <2>3, <2>5
    <3>2. QED
      BY <2>1, <2>2, <3>1
  <2>7. Cardinality(X \ {x}) = Cardinality(X) - 1 /\ IsFiniteSet(X \ {x})
    BY <2>3, <2>5, FS_RemoveElement
  <2>8. Cardinality(X \ {x}) \in Nat /\ Cardinality(X) \in Nat
    BY <2>3, <2>7, FS_CardinalityType
  <2>9. P(Cardinality(X \ {x}) + 1) /\ Cardinality(X \ {x}) + 1 = Cardinality(X)
    BY <1>2, <2>6, <2>7, <2>8
  <2>10. QED
    BY <2>3, <2>9
<1>4. Upto(D, Cardinality(D)) = SUBSET D
  BY FS_Subset DEF Upto
<1>5. QED
  BY <1>3, <1>4 DEF P, UnfoldsUpto, Unfolds

\* What the fold makes of a set does not depend on the set it was begun with.
LEMMA FoldUnique ==
  ASSUME NEW D, IsFiniteSet(D), NEW f, NEW g, Unfolds(g, D, f),
         NEW E, NEW h, Unfolds(h, E, f), E \subseteq D
  PROVE  \A s \in SUBSET E : g[s] = h[s]
<1> DEFINE T == {s \in SUBSET E : g[s] # h[s]}
<1> SUFFICES ASSUME T # {} PROVE FALSE
  OBVIOUS
<1>1. T \subseteq SUBSET D /\ \A s \in SUBSET E : s \in T <=> g[s] # h[s]
  OBVIOUS
<1>2. T \subseteq SUBSET E
  OBVIOUS
<1> HIDE DEF T
<1>3. PICK X \in T : \A Y \in T : Y \subseteq X => Y = X
  BY <1>1, Smallest
<1>4. X \in SUBSET E /\ X \in SUBSET D /\ g[X] # h[X]
  BY <1>1, <1>2, <1>3
<1>5. X # {}
  BY <1>4 DEF Unfolds
<1>6. First(X) \in X
  BY <1>5, FirstIn
<1>7. X \ {First(X)} \in SUBSET E /\ X \ {First(X)} \subseteq X /\ X \ {First(X)} # X
  BY <1>4, <1>6
<1>8. g[X \ {First(X)}] = h[X \ {First(X)}]
  BY <1>1, <1>3, <1>7
<1>9. /\ g[X] = f[First(X)] + g[X \ {First(X)}]
      /\ h[X] = f[First(X)] + h[X \ {First(X)}]
  BY <1>4, <1>5 DEF Unfolds
<1>10. QED
  BY <1>4, <1>8, <1>9
-----------------------------------------------------------------------------
(* Sums                                                                    *)

\* The sum over a set begins with its first element.
LEMMA SumFirst ==
  ASSUME NEW D, IsFiniteSet(D), NEW f
  PROVE  /\ SumFunctionOnSet(f, {}) = 0
         /\ \A s \in SUBSET D : s # {} =>
              SumFunctionOnSet(f, s) = f[First(s)] + SumFunctionOnSet(f, s \ {First(s)})
<1> DEFINE G(E) == CHOOSE g : Unfolds(g, E, f)
<1>1. ASSUME NEW E, IsFiniteSet(E) PROVE Unfolds(G(E), E, f)
  BY <1>1, FoldExists
<1>2. ASSUME NEW E PROVE SumFunctionOnSet(f, E) = G(E)[E]
  BY SumIsFold
<1> HIDE DEF G
<1>3. ASSUME NEW s \in SUBSET D PROVE SumFunctionOnSet(f, s) = G(D)[s]
  <2>1. IsFiniteSet(s)
    BY FS_Subset
  <2>2. \A t \in SUBSET s : G(D)[t] = G(s)[t]
    BY <1>1, <2>1, FoldUnique
  <2>3. QED
    BY <1>2, <2>2
<1>4. ASSUME NEW s \in SUBSET D
      PROVE  G(D)[s] = IF s = {} THEN 0 ELSE f[First(s)] + G(D)[s \ {First(s)}]
  BY <1>1 DEF Unfolds
<1>5. SumFunctionOnSet(f, {}) = 0
  BY <1>3, <1>4
<1>6. ASSUME NEW s \in SUBSET D, s # {}
      PROVE  SumFunctionOnSet(f, s) = f[First(s)] + SumFunctionOnSet(f, s \ {First(s)})
  <2>1. s \ {First(s)} \in SUBSET D
    OBVIOUS
  <2>2. QED
    BY <1>3, <1>4, <1>6, <2>1
<1>7. QED
  BY <1>5, <1>6

\* Over the empty set the sum is 0.
LEMMA SumEmpty ==
  ASSUME NEW f
  PROVE  SumFunctionOnSet(f, {}) = 0
BY SumFirst, FS_EmptySet

\* The sum of integers is one.
LEMMA SumType ==
  ASSUME NEW D, IsFiniteSet(D), NEW f, \A x \in D : f[x] \in Int
  PROVE  SumFunctionOnSet(f, D) \in Int
<1> DEFINE T == {s \in SUBSET D : SumFunctionOnSet(f, s) \notin Int}
<1> SUFFICES ASSUME T # {} PROVE FALSE
  OBVIOUS
<1>1. T \subseteq SUBSET D /\ \A s \in SUBSET D : s \in T <=> SumFunctionOnSet(f, s) \notin Int
  OBVIOUS
<1> HIDE DEF T
<1>2. PICK X \in T : \A Y \in T : Y \subseteq X => Y = X
  BY <1>1, Smallest
<1>3. X \in SUBSET D /\ SumFunctionOnSet(f, X) \notin Int
  BY <1>1, <1>2
<1>4. X # {}
  BY <1>3, SumEmpty
<1>5. First(X) \in X
  BY <1>4, FirstIn
<1>6. X \ {First(X)} \in SUBSET D /\ X \ {First(X)} \subseteq X /\ X \ {First(X)} # X
  BY <1>3, <1>5
<1>7. SumFunctionOnSet(f, X \ {First(X)}) \in Int
  BY <1>1, <1>2, <1>6
<1>8. SumFunctionOnSet(f, X) = f[First(X)] + SumFunctionOnSet(f, X \ {First(X)})
  BY <1>3, <1>4, SumFirst
<1>9. QED
  BY <1>3, <1>5, <1>7, <1>8

\* The sum of natural numbers is one.
LEMMA SumNat ==
  ASSUME NEW D, IsFiniteSet(D), NEW f, \A x \in D : f[x] \in Nat
  PROVE  SumFunctionOnSet(f, D) \in Nat
<1> DEFINE T == {s \in SUBSET D : SumFunctionOnSet(f, s) \notin Nat}
<1> SUFFICES ASSUME T # {} PROVE FALSE
  OBVIOUS
<1>1. T \subseteq SUBSET D /\ \A s \in SUBSET D : s \in T <=> SumFunctionOnSet(f, s) \notin Nat
  OBVIOUS
<1> HIDE DEF T
<1>2. PICK X \in T : \A Y \in T : Y \subseteq X => Y = X
  BY <1>1, Smallest
<1>3. X \in SUBSET D /\ SumFunctionOnSet(f, X) \notin Nat
  BY <1>1, <1>2
<1>4. X # {}
  BY <1>3, SumEmpty
<1>5. First(X) \in X
  BY <1>4, FirstIn
<1>6. X \ {First(X)} \in SUBSET D /\ X \ {First(X)} \subseteq X /\ X \ {First(X)} # X
  BY <1>3, <1>5
<1>7. SumFunctionOnSet(f, X \ {First(X)}) \in Nat
  BY <1>1, <1>2, <1>6
<1>8. SumFunctionOnSet(f, X) = f[First(X)] + SumFunctionOnSet(f, X \ {First(X)})
  BY <1>3, <1>4, SumFirst
<1>9. QED
  BY <1>3, <1>5, <1>7, <1>8

\* An element more adds its value, whichever is first.
THEOREM SumAdd ==
  ASSUME NEW D, IsFiniteSet(D), NEW f, \A x \in D : f[x] \in Int,
         NEW S \in SUBSET D, NEW d \in D, d \notin S
  PROVE  SumFunctionOnSet(f, S \cup {d}) = SumFunctionOnSet(f, S) + f[d]
<1> DEFINE Adds(s) == \A e \in D \ s : SumFunctionOnSet(f, s \cup {e}) = SumFunctionOnSet(f, s) + f[e]
           T == {s \in SUBSET D : ~Adds(s)}
<1>1. T = {}
  <2> SUFFICES ASSUME T # {} PROVE FALSE
    OBVIOUS
  <2>1. T \subseteq SUBSET D /\ \A s \in SUBSET D : s \in T <=> ~Adds(s)
    OBVIOUS
  <2> HIDE DEF T
  <2>2. PICK X \in T : \A Y \in T : Y \subseteq X => Y = X
    BY <2>1, Smallest
  <2>3. PICK e \in D \ X : SumFunctionOnSet(f, X \cup {e}) # SumFunctionOnSet(f, X) + f[e]
    BY <2>1, <2>2
  <2> DEFINE Z == X \cup {e}
             c == First(Z)
  <2>4. X \in SUBSET D /\ Z \in SUBSET D /\ Z # {} /\ c \in Z
    BY <2>1, <2>2, <2>3, FirstIn
  <2> HIDE DEF Z
  <2>5. SumFunctionOnSet(f, Z) = f[c] + SumFunctionOnSet(f, Z \ {c})
    BY <2>4, SumFirst
  <2>6. ASSUME NEW s \in SUBSET D PROVE SumFunctionOnSet(f, s) \in Int
    BY SumType, FS_Subset
  <2> HIDE DEF c
  <2>7. CASE c = e
    <3>1. Z \ {c} = X
      BY <2>3, <2>7 DEF Z
    <3>2. f[e] \in Int /\ SumFunctionOnSet(f, X) \in Int
      BY <2>3, <2>4, <2>6
    <3>3. SumFunctionOnSet(f, Z) = f[e] + SumFunctionOnSet(f, X)
      BY <2>5, <2>7, <3>1
    <3>4. SumFunctionOnSet(f, Z) # SumFunctionOnSet(f, X) + f[e]
      BY <2>3 DEF Z
    <3>5. QED
      BY <3>2, <3>3, <3>4
  <2>8. CASE c # e
    <3> DEFINE Y == X \ {c}
    <3>1. /\ c \in X /\ c \in D /\ Y \in SUBSET D /\ Y \subseteq X /\ Y # X
          /\ Z \ {c} = Y \cup {e} /\ X = Y \cup {c} /\ e \in D \ Y /\ c \in D \ Y
      BY <2>3, <2>4, <2>8 DEF Z
    <3> HIDE DEF Y
    <3>2. Adds(Y)
      BY <2>1, <2>2, <3>1
    <3>3. /\ SumFunctionOnSet(f, Y \cup {e}) = SumFunctionOnSet(f, Y) + f[e]
          /\ SumFunctionOnSet(f, Y \cup {c}) = SumFunctionOnSet(f, Y) + f[c]
      BY <3>1, <3>2
    <3>4. f[e] \in Int /\ f[c] \in Int /\ SumFunctionOnSet(f, Y) \in Int
      BY <2>3, <2>6, <3>1
    <3>5. SumFunctionOnSet(f, Z) = f[c] + (SumFunctionOnSet(f, Y) + f[e])
      BY <2>5, <3>1, <3>3
    <3>6. SumFunctionOnSet(f, X) = SumFunctionOnSet(f, Y) + f[c]
      BY <3>1, <3>3
    <3>7. QED
      BY <2>3, <3>4, <3>5, <3>6 DEF Z
  <2>9. QED
    BY <2>7, <2>8
<1>2. Adds(S)
  BY <1>1
<1>3. QED
  BY <1>2

\* The sum over a set is the sum over two parts of it.
THEOREM SumSplit ==
  ASSUME NEW D, IsFiniteSet(D), NEW f, \A x \in D : f[x] \in Int,
         NEW A \in SUBSET D, NEW B \in SUBSET D, A \cap B = {}
  PROVE  SumFunctionOnSet(f, A \cup B) = SumFunctionOnSet(f, A) + SumFunctionOnSet(f, B)
<1> DEFINE Joins(s) == SumFunctionOnSet(f, A \cup s) = SumFunctionOnSet(f, A) + SumFunctionOnSet(f, s)
           T == {s \in SUBSET B : ~Joins(s)}
<1>1. ASSUME NEW s \in SUBSET D PROVE SumFunctionOnSet(f, s) \in Int
  BY SumType, FS_Subset
<1>2. T = {}
  <2> SUFFICES ASSUME T # {} PROVE FALSE
    OBVIOUS
  <2>1. /\ T \subseteq SUBSET D /\ T \subseteq SUBSET B
        /\ \A s \in SUBSET B : s \in T <=> ~Joins(s)
    OBVIOUS
  <2> HIDE DEF T
  <2>2. PICK X \in T : \A Y \in T : Y \subseteq X => Y = X
    BY <2>1, Smallest
  <2>3. X \in SUBSET B /\ ~Joins(X)
    BY <2>1, <2>2
  <2>4. X # {}
    <3>1. SumFunctionOnSet(f, A) + 0 = SumFunctionOnSet(f, A)
      BY <1>1
    <3>2. Joins({})
      BY <3>1, SumEmpty
    <3>3. QED
      BY <2>3, <3>2
  <2>5. PICK x : x \in X
    BY <2>4
  <2> DEFINE Y == X \ {x}
             Z == A \cup Y
  <2>6. /\ Y \in SUBSET B /\ Y \subseteq X /\ Y # X /\ X = Y \cup {x} /\ x \notin Y
        /\ x \in D /\ x \notin Z /\ Z \in SUBSET D /\ Y \in SUBSET D
        /\ A \cup X = Z \cup {x}
    BY <2>3, <2>5
  <2>7. SumFunctionOnSet(f, Z) = SumFunctionOnSet(f, A) + SumFunctionOnSet(f, Y)
    BY <2>1, <2>2, <2>6
  <2> HIDE DEF Y, Z
  <2>8. /\ SumFunctionOnSet(f, Z \cup {x}) = SumFunctionOnSet(f, Z) + f[x]
        /\ SumFunctionOnSet(f, Y \cup {x}) = SumFunctionOnSet(f, Y) + f[x]
    BY <2>6, SumAdd
  <2>9. /\ SumFunctionOnSet(f, A) \in Int /\ SumFunctionOnSet(f, Y) \in Int /\ f[x] \in Int
    BY <1>1, <2>6
  <2>10. SumFunctionOnSet(f, A \cup X) = SumFunctionOnSet(f, A) + SumFunctionOnSet(f, X)
    <3>1. SumFunctionOnSet(f, A \cup X) = (SumFunctionOnSet(f, A) + SumFunctionOnSet(f, Y)) + f[x]
      BY <2>6, <2>7, <2>8
    <3>2. SumFunctionOnSet(f, X) = SumFunctionOnSet(f, Y) + f[x]
      BY <2>6, <2>8
    <3> HIDE DEF Joins
    <3>3. QED
      BY <2>9, <3>1, <3>2
  <2>11. QED
    BY <2>3, <2>10
<1>3. QED
  BY <1>2

\* A function that is nowhere less than another has no less a sum.
THEOREM SumMonotonic ==
  ASSUME NEW D, IsFiniteSet(D), NEW f, NEW g, \A x \in D : f[x] \in Int /\ g[x] \in Int,
         \A x \in D : f[x] <= g[x]
  PROVE  SumFunctionOnSet(f, D) <= SumFunctionOnSet(g, D)
<1> DEFINE T == {s \in SUBSET D : ~(SumFunctionOnSet(f, s) <= SumFunctionOnSet(g, s))}
<1> SUFFICES ASSUME T # {} PROVE FALSE
  OBVIOUS
<1>1. /\ T \subseteq SUBSET D
      /\ \A s \in SUBSET D : s \in T <=> ~(SumFunctionOnSet(f, s) <= SumFunctionOnSet(g, s))
  OBVIOUS
<1> HIDE DEF T
<1>2. PICK X \in T : \A Y \in T : Y \subseteq X => Y = X
  BY <1>1, Smallest
<1>3. X \in SUBSET D /\ ~(SumFunctionOnSet(f, X) <= SumFunctionOnSet(g, X))
  BY <1>1, <1>2
<1>4. X # {}
  <2>1. SumFunctionOnSet(f, {}) = 0 /\ SumFunctionOnSet(g, {}) = 0
    BY SumEmpty
  <2>2. QED
    BY <1>3, <2>1
<1>5. First(X) \in X
  BY <1>4, FirstIn
<1> DEFINE Y == X \ {First(X)}
<1>6. Y \in SUBSET D /\ Y \subseteq X /\ Y # X /\ First(X) \in D
  BY <1>3, <1>5
<1>7. SumFunctionOnSet(f, Y) <= SumFunctionOnSet(g, Y)
  BY <1>1, <1>2, <1>6
<1>8. /\ SumFunctionOnSet(f, X) = f[First(X)] + SumFunctionOnSet(f, Y)
      /\ SumFunctionOnSet(g, X) = g[First(X)] + SumFunctionOnSet(g, Y)
  BY <1>3, <1>4, SumFirst
<1> HIDE DEF Y
<1>9. SumFunctionOnSet(f, Y) \in Int /\ SumFunctionOnSet(g, Y) \in Int
  BY <1>6, SumType, FS_Subset
<1>10. QED
  BY <1>3, <1>6, <1>7, <1>8, <1>9

\* A finite set of natural numbers, the values of f on D and 0, has a maximum.
THEOREM MaxOfValues ==
  ASSUME NEW D, IsFiniteSet(D), NEW f, \A x \in D : f[x] \in Nat
  PROVE  LET V == {0} \cup {f[x] : x \in D}
         IN  Max(V) \in Nat /\ \A x \in D : f[x] <= Max(V)
<1> DEFINE V(s) == {0} \cup {f[x] : x \in s}
           Tops(s) == \E m \in V(s) : \A v \in V(s) : m >= v
           T == {s \in SUBSET D : ~Tops(s)}
<1>1. T = {}
  <2> SUFFICES ASSUME T # {} PROVE FALSE
    OBVIOUS
  <2>1. T \subseteq SUBSET D /\ \A s \in SUBSET D : s \in T <=> ~Tops(s)
    OBVIOUS
  <2> HIDE DEF T
  <2>2. PICK X \in T : \A Y \in T : Y \subseteq X => Y = X
    BY <2>1, Smallest
  <2>3. X \in SUBSET D /\ ~Tops(X)
    BY <2>1, <2>2
  <2>4. X # {}
    BY <2>3
  <2>5. PICK x : x \in X
    BY <2>4
  <2> DEFINE Y == X \ {x}
  <2>6. Y \in SUBSET D /\ Y \subseteq X /\ Y # X /\ V(X) = V(Y) \cup {f[x]} /\ f[x] \in Nat
    BY <2>3, <2>5
  <2>7. PICK m \in V(Y) : \A v \in V(Y) : m >= v
    BY <2>1, <2>2, <2>6
  <2>8. m \in Nat /\ \A v \in V(Y) : v \in Nat
    BY <2>6
  <2> HIDE DEF V, Y
  <2>9. CASE m >= f[x]
    BY <2>3, <2>6, <2>7, <2>9
  <2>10. CASE ~(m >= f[x])
    <3>1. \A v \in V(Y) : f[x] >= v
      BY <2>6, <2>7, <2>8, <2>10
    <3>2. f[x] >= f[x]
      BY <2>6
    <3>3. \A v \in V(X) : f[x] >= v
      BY <2>6, <3>1, <3>2
    <3>4. QED
      BY <2>3, <2>6, <3>3
  <2>11. QED
    BY <2>9, <2>10
<1>2. Tops(D)
  BY <1>1
<1>3. Max(V(D)) \in V(D) /\ \A v \in V(D) : Max(V(D)) >= v
  BY <1>2 DEF Max
<1>4. \A v \in V(D) : v \in Nat
  OBVIOUS
<1>5. QED
  BY <1>3, <1>4
=============================================================================
