------------------------- MODULE PortClients_proofs -------------------------
(***************************************************************************)
(* Proofs about the shared port pool, for every pool size, every set of    *)
(* threads and every set of ports that users choose.                       *)
(***************************************************************************)
EXTENDS PortClients, PortManager_proofs, TLAPS

\* What a thread that gets or gives back an instance's port does to the count.
LEMMA Counted ==
  ASSUME held \in [Threads -> [AllPorts -> Nat]],
         NEW t \in Threads, NEW p \in AllPorts,
         \/ held' = [held EXCEPT ![t][p] = @ + 1]
         \/ held[t][p] > 0 /\ held' = [held EXCEPT ![t][p] = @ - 1]
  PROVE  /\ held' \in [Threads -> [AllPorts -> Nat]]
         /\ \A s \in Threads, x \in AllPorts :
              s # t \/ x # p => held'[s][x] = held[s][x]
         /\ \/ held'[t][p] = held[t][p] + 1
            \/ held[t][p] > 0 /\ held'[t][p] = held[t][p] - 1
  OBVIOUS

\* Every step keeps the variables of PortClients in their types: release()
\* puts nothing into the queue but ports of the pool.
LEMMA TypeStep ==
  ASSUME TypeOK, [Next]_vars
  PROVE  TypeOK'
<1> USE PoolAssumption DEF TypeOK
<1>0. PoolPorts \subseteq AllPorts /\ UserPorts \subseteq AllPorts /\ AllPorts \subseteq Int
  BY ClientAssumption DEF AllPorts, PoolPorts
<1>1. CASE UNCHANGED vars
  BY <1>1 DEF vars
<1>2. ASSUME NEW t \in Threads, NEW p \in PoolPorts, AcquireReused(t, p)
      PROVE  TypeOK'
  BY <1>0, <1>2, Counted DEF AcquireReused, PollReused, Get
<1>3. ASSUME NEW t \in Threads, NEW p \in PoolPorts, AcquireFresh(t, p)
      PROVE  TypeOK'
  BY <1>0, <1>3, Counted DEF AcquireFresh, DrawFresh, Get, Goto
<1>4. ASSUME NEW t \in Threads, AcquireMiss(t)
      PROVE  TypeOK'
  BY <1>4 DEF AcquireMiss, PollEmpty, poolVars, Goto
<1>5. ASSUME NEW t \in Threads, AcquireFail(t)
      PROVE  TypeOK'
  BY <1>5 DEF AcquireFail, DrawExhausted, Goto
<1>6. ASSUME NEW t \in Threads, Recover(t)
      PROVE  TypeOK'
  BY <1>6 DEF Recover, Goto
<1>7. ASSUME NEW t \in Threads, NEW p \in UserPorts, UseChosenPort(t, p)
      PROVE  TypeOK'
  BY <1>0, <1>7, Counted DEF UseChosenPort, Get
<1>8. ASSUME NEW t \in Threads, NEW p \in AllPorts, GiveBack(t, p)
      PROVE  TypeOK'
  <2>1. reuse_queue' \in Seq(PoolPorts)
    BY <1>0, <1>8, ReleaseType DEF GiveBack
  <2>2. QED
    BY <1>8, <2>1, Counted DEF GiveBack, Release
<1>9. QED
  BY <1>1, <1>2, <1>3, <1>4, <1>5, <1>6, <1>7, <1>8 DEF Next

\* The type invariant of the pool and its clients.
THEOREM TypeCorrect == Spec => []TypeOK
<1>1. Init => TypeOK
  BY PoolAssumption DEF Init, PoolInit, TypeOK
<1>2. TypeOK /\ [Next]_vars => TypeOK'
  BY TypeStep
<1>3. QED
  BY <1>1, <1>2, PTL DEF Spec

\* Each pool port that no user chooses stays in exactly one place in every step
\* of every thread.
LEMMA PartitionStep ==
  ASSUME TypeOK, PoolPartition, [Next]_vars
  PROVE  PoolPartition'
<1> USE PoolAssumption, ClientAssumption
    DEF PoolPartition, OnlyDrawn, HeldByOne, NoneLost
<1>0. /\ held \in [Threads -> [AllPorts -> Nat]]
      /\ next \in Nat
      /\ OwnPorts \subseteq Int /\ OwnPorts \subseteq AllPorts
      /\ \A p \in OwnPorts : p >= BASE /\ p < MAX
      /\ OwnPorts \cap UserPorts = {}
      /\ next >= BASE
  <2>1. OwnPorts \subseteq PoolPorts /\ OwnPorts \subseteq AllPorts
    BY DEF OwnPorts, AllPorts
  <2>2. OwnPorts \cap UserPorts = {}
    BY DEF OwnPorts
  <2>3. \A p \in PoolPorts : p \in Int /\ p >= BASE /\ p < MAX
    BY DEF PoolPorts
  <2>4. QED
    BY <2>1, <2>2, <2>3 DEF TypeOK
<1> SUFFICES ASSUME UNCHANGED reuse_queue => Queued' = Queued /\ QueuedOnce'
             PROVE  PoolPartition'
  BY DEF QueuedOnce, Queued
<1>1. CASE UNCHANGED vars
  BY <1>1, <1>0 DEF vars
<1>2. ASSUME NEW t \in Threads, NEW p \in PoolPorts, AcquireReused(t, p)
      PROVE  PoolPartition'
  <2>1. /\ QueuedOnce' /\ Queued' \cup {p} = Queued
        /\ p \in OwnPorts => p \notin Queued'
    <3>1. /\ reuse_queue \in Seq(PoolPorts) /\ reuse_queue # <<>>
          /\ p = Head(reuse_queue) /\ reuse_queue' = Tail(reuse_queue)
      BY <1>2 DEF TypeOK, AcquireReused, PollReused
    <3>2. QED
      BY <3>1, TailFacts DEF QueuedOnce, Queued
  <2>2. next' = next /\ held' = [held EXCEPT ![t][p] = @ + 1] /\ p \in AllPorts
    BY <1>2 DEF AcquireReused, PollReused, Get, AllPorts
  <2>3. QED
    BY <1>0, <2>1, <2>2
<1>3. ASSUME NEW t \in Threads, NEW p \in PoolPorts, AcquireFresh(t, p)
      PROVE  PoolPartition'
  <2>1. /\ p = next /\ next' = next + 1 /\ UNCHANGED reuse_queue
        /\ held' = [held EXCEPT ![t][p] = @ + 1] /\ p \in AllPorts
    BY <1>3 DEF AcquireFresh, DrawFresh, Get, AllPorts
  <2>2. /\ \A s \in Threads, x \in OwnPorts : s # t \/ x # p => held'[s][x] = held[s][x]
        /\ held'[t][p] = held[t][p] + 1 /\ held[t][p] \in Nat
    BY <1>0, <2>1
  <2>3. p \in OwnPorts => \A s \in Threads : held[s][p] = 0
    BY <1>0, <2>1
  <2>4. p \in OwnPorts => p \notin Queued
    BY <1>0, <2>1
  <2>5. OnlyDrawn'
    <3>1. \A x \in OwnPorts : x <= next => x < next'
      BY <1>0, <2>1
    <3>2. \A x \in Queued \cap OwnPorts : x <= next
      <4>1. \A x \in Queued \cap OwnPorts : x < next
        OBVIOUS
      <4>2. \A x \in OwnPorts : x < next => x <= next
        <5> HIDE DEF OnlyDrawn, HeldByOne, NoneLost, PoolPartition
        <5>1. QED
          BY <1>0
      <4>3. QED
        BY <4>1, <4>2
    <3>3. \A s \in Threads, x \in OwnPorts : held'[s][x] > 0 => x <= next
      BY <1>0, <2>1, <2>2
    <3>4. QED
      BY <2>1, <3>1, <3>2, <3>3
  <2>6. HeldByOne'
    <3>1. ASSUME NEW s \in Threads, NEW x \in OwnPorts, held'[s][x] > 0
          PROVE  /\ x \notin Queued' /\ held'[s][x] = 1
                 /\ \A r \in Threads \ {s} : held'[r][x] = 0
      <4>1. CASE x # p
        BY <2>1, <2>2, <3>1, <4>1
      <4>2. CASE x = p
        BY <2>1, <2>2, <2>3, <2>4, <3>1, <4>2
      <4>3. QED
        BY <4>1, <4>2
    <3>2. QED
      BY <3>1
  <2>7. NoneLost'
    <3>1. ASSUME NEW x \in OwnPorts, x < next'
          PROVE  x \in Queued' \/ \E s \in Threads : held'[s][x] > 0
      <4>1. CASE x # p
        BY <1>0, <2>1, <2>2, <3>1, <4>1
      <4>2. CASE x = p
        BY <2>2, <4>2
      <4>3. QED
        BY <4>1, <4>2
    <3>2. QED
      BY <3>1
  <2>8. QED
    BY <2>1, <2>5, <2>6, <2>7
<1>4. ASSUME NEW t \in Threads, AcquireMiss(t)
      PROVE  PoolPartition'
  BY <1>4, <1>0 DEF AcquireMiss, PollEmpty, poolVars
<1>5. ASSUME NEW t \in Threads, AcquireFail(t)
      PROVE  PoolPartition'
  <2>1. next >= MAX /\ next' = next + 1 /\ UNCHANGED <<reuse_queue, held>>
    BY <1>5 DEF AcquireFail, DrawExhausted
  <2>2. \A p \in OwnPorts : p < next /\ p < next'
    BY <1>0, <2>1
  <2>3. QED
    BY <1>0, <2>1, <2>2
<1>6. ASSUME NEW t \in Threads, Recover(t)
      PROVE  PoolPartition'
  BY <1>6, <1>0 DEF Recover
<1>7. ASSUME NEW t \in Threads, NEW p \in UserPorts, UseChosenPort(t, p)
      PROVE  PoolPartition'
  <2>1. /\ p \notin OwnPorts
        /\ held' = [held EXCEPT ![t][p] = @ + 1]
        /\ UNCHANGED <<next, reuse_queue>>
    BY <1>0, <1>7 DEF UseChosenPort, Get
  <2>2. \A s \in Threads : \A x \in OwnPorts : held'[s][x] = held[s][x]
    BY <1>0, <2>1
  <2>3. QED
    BY <1>0, <2>1, <2>2
<1>8. ASSUME NEW t \in Threads, NEW p \in AllPorts, GiveBack(t, p)
      PROVE  PoolPartition'
  <2>1. /\ next' = next /\ held[t][p] > 0
        /\ held' = [held EXCEPT ![t][p] = @ - 1]
    BY <1>8 DEF GiveBack, Release
  <2>2. CASE p \notin OwnPorts
    <3>1. QueuedOnce' /\ Queued' \cap OwnPorts = Queued \cap OwnPorts
      <4>1. CASE p \in PoolPorts
        <5>1. reuse_queue \in Seq(PoolPorts) /\ reuse_queue' = Append(reuse_queue, p)
          BY <1>8, <4>1 DEF TypeOK, GiveBack, Release, PoolPorts
        <5>2. QueuedOnce' /\ Queued' = Queued \cup {p}
          BY <2>2, <4>1, <5>1, AppendFacts DEF QueuedOnce, Queued
        <5>3. QED
          BY <2>2, <5>2
      <4>2. CASE p \notin PoolPorts
        BY <1>8, <4>2 DEF GiveBack, Release, PoolPorts, AllPorts
      <4>3. QED
        BY <4>1, <4>2
    <3>2. \A s \in Threads : \A x \in OwnPorts : held'[s][x] = held[s][x]
      BY <1>0, <2>1, <2>2
    <3>3. QED
      BY <1>0, <2>1, <3>1, <3>2
  <2>3. CASE p \in OwnPorts
    <3>1. p \in PoolPorts /\ p \notin Queued
      BY <2>1, <2>3 DEF OwnPorts
    <3>2. QueuedOnce' /\ Queued' = Queued \cup {p}
      BY <1>0, <1>8, <3>1, AppendFacts
      DEF TypeOK, GiveBack, Release, QueuedOnce, Queued, PoolPorts
    <3>3. held[t][p] = 1 /\ \A s \in Threads : held'[s][p] = 0
      BY <1>0, <2>1, <2>3
    <3>4. \A s \in Threads : \A x \in OwnPorts : x # p => held'[s][x] = held[s][x]
      BY <1>0, <2>1
    <3>5. QED
      BY <1>0, <2>1, <2>3, <3>1, <3>2, <3>3, <3>4
  <2>4. QED
    BY <2>2, <2>3
<1>9. QED
  BY <1>1, <1>2, <1>3, <1>4, <1>5, <1>6, <1>7, <1>8 DEF Next

\* No interleaving of acquire() and release() calls loses a port, queues it
\* twice or gives it to two threads, unless a user has chosen that port: what
\* users do to their ports never spoils the others.
THEOREM PartitionHolds == Spec => []PoolPartition
<1>1. Init => PoolPartition
  BY PoolAssumption DEF Init, PoolInit, PoolPartition, QueuedOnce, OnlyDrawn,
     HeldByOne, NoneLost, Queued, PoolPorts, OwnPorts, AllPorts
<1>2. TypeOK /\ PoolPartition /\ [Next]_vars => PoolPartition'
  BY PartitionStep
<1>3. QED
  BY <1>1, <1>2, TypeCorrect, PTL DEF Spec

\* A step of the pool is a step of the abstract lease or leaves it alone.
LEMMA LeaseStep ==
  ASSUME TypeOK, PoolPartition, [Next]_vars
  PROVE  [Lease!Next]_Owners
<1> USE DEF Owners
<1>0. /\ held \in [Threads -> [AllPorts -> Nat]]
      /\ OwnPorts \cap UserPorts = {} /\ OwnPorts \subseteq AllPorts
      /\ PoolPorts \subseteq AllPorts /\ UserPorts \subseteq AllPorts
  BY DEF TypeOK, OwnPorts, AllPorts
<1>1. ASSUME UNCHANGED held
      PROVE  UNCHANGED Owners
  BY <1>1
<1>2. ASSUME NEW t \in Threads, NEW p \in AllPorts \ OwnPorts,
             \/ held' = [held EXCEPT ![t][p] = @ + 1]
             \/ held' = [held EXCEPT ![t][p] = @ - 1]
      PROVE  UNCHANGED Owners
  <2>1. \A s \in Threads : \A x \in OwnPorts : held'[s][x] = held[s][x]
    BY <1>0, <1>2
  <2>2. QED
    BY <2>1
<1>3. ASSUME NEW t \in Threads, NEW p \in PoolPorts, Get(t, p),
             p \in OwnPorts => \A s \in Threads : held[s][p] = 0
      PROVE  UNCHANGED Owners \/ (p \in OwnPorts /\ Lease!Lease(t, p))
  <2>1. CASE p \notin OwnPorts
    BY <1>0, <1>2, <1>3, <2>1 DEF Get
  <2>2. CASE p \in OwnPorts
    <3>1. Owners[p] = {}
      BY <1>3, <2>2
    <3>2. /\ \A s \in Threads : \A x \in OwnPorts : x # p => held'[s][x] = held[s][x]
          /\ \A s \in Threads : held'[s][p] > 0 <=> s = t
      BY <1>0, <1>3, <2>2 DEF Get
    <3>3. Owners' = [Owners EXCEPT ![p] = {t}]
      BY <2>2, <3>2
    <3>4. QED
      BY <2>2, <3>1, <3>3 DEF Lease!Lease
  <2>3. QED
    BY <2>1, <2>2
<1>4. ASSUME NEW t \in Threads, NEW p \in PoolPorts, AcquireReused(t, p)
      PROVE  UNCHANGED Owners \/ (p \in OwnPorts /\ Lease!Lease(t, p))
  <2>1. p \in Queued
    BY <1>4 DEF AcquireReused, PollReused, Queued, TypeOK
  <2>2. p \in OwnPorts => \A s \in Threads : held[s][p] = 0
    BY <1>0, <2>1 DEF PoolPartition, HeldByOne
  <2>3. QED
    BY <1>3, <1>4, <2>2 DEF AcquireReused
<1>5. ASSUME NEW t \in Threads, NEW p \in PoolPorts, AcquireFresh(t, p)
      PROVE  UNCHANGED Owners \/ (p \in OwnPorts /\ Lease!Lease(t, p))
  <2>1. p \in OwnPorts => \A s \in Threads : held[s][p] = 0
    BY <1>0, <1>5 DEF AcquireFresh, DrawFresh, PoolPartition, OnlyDrawn, TypeOK
  <2>2. QED
    BY <1>3, <1>5, <2>1 DEF AcquireFresh
<1>6. ASSUME NEW t \in Threads, NEW p \in UserPorts, UseChosenPort(t, p)
      PROVE  UNCHANGED Owners
  BY <1>0, <1>2, <1>6 DEF UseChosenPort, Get
<1>7. ASSUME NEW t \in Threads, NEW p \in AllPorts, GiveBack(t, p)
      PROVE  UNCHANGED Owners \/ (p \in OwnPorts /\ Lease!GiveUp(t, p))
  <2>1. held[t][p] > 0 /\ held' = [held EXCEPT ![t][p] = @ - 1]
    BY <1>7 DEF GiveBack
  <2>2. CASE p \in OwnPorts
    <3>1. held[t][p] = 1 /\ \A s \in Threads \ {t} : held[s][p] = 0
      BY <2>1, <2>2 DEF PoolPartition, HeldByOne
    <3>2. Owners[p] = {t}
      BY <2>2, <3>1
    <3>3. /\ \A s \in Threads : \A x \in OwnPorts : x # p => held'[s][x] = held[s][x]
          /\ \A s \in Threads : held'[s][p] = 0
      BY <1>0, <2>1, <2>2, <3>1
    <3>4. Owners' = [Owners EXCEPT ![p] = {}]
      <4>1. Owners'[p] = {}
        BY <2>2, <3>3
      <4>2. \A x \in OwnPorts : x # p => Owners'[x] = Owners[x]
        BY <3>3
      <4>3. QED
        BY <4>1, <4>2
    <3>5. QED
      BY <2>2, <3>2, <3>4 DEF Lease!GiveUp
  <2>3. CASE p \notin OwnPorts
    BY <1>0, <1>2, <2>1, <2>3
  <2>4. QED
    BY <2>2, <2>3
<1>8. ASSUME NEW t \in Threads, AcquireMiss(t) \/ AcquireFail(t) \/ Recover(t)
      PROVE  UNCHANGED held
  BY <1>8 DEF AcquireMiss, AcquireFail, Recover
<1>9. QED
  BY <1>1, <1>4, <1>5, <1>6, <1>7, <1>8 DEF Next, vars, Lease!Next

\* The pool implements the abstract lease for every number of ports and
\* threads: what acquire() returns, unless users choose it too, belongs to
\* nobody else until release().
THEOREM ImplementsLease == Spec => LeaseSpec
<1>1. Init => Lease!Init
  BY DEF Init, Lease!Init, Owners, AllPorts, OwnPorts
<1>2. TypeOK /\ PoolPartition /\ [Next]_vars => [Lease!Next]_Owners
  BY LeaseStep
<1>3. QED
  BY <1>1, <1>2, TypeCorrect, PartitionHolds, PTL
  DEF Spec, LeaseSpec, Lease!Spec
=============================================================================
