---------------------------- MODULE PortClients ----------------------------
(***************************************************************************)
(* The port pool under concurrent use.  PortManager is static: every Slurm *)
(* driver of the JVM, and so every composer, draws from the same pool.     *)
(* Threads instantiate components (acquire) and destroy them (release the  *)
(* ports their instances carry) in any interleaving.  A thread may also    *)
(* use a port its user chose with withSlurmHostPort, which never went      *)
(* through acquire() but is given to release() all the same.  Nothing      *)
(* keeps users from choosing a port of the pool.                           *)
(***************************************************************************)
EXTENDS PortManager, FiniteSets

CONSTANTS
  Threads,      \* threads that use the pool
  UserPorts,    \* ports users choose themselves, in the pool or not
  NextBound,    \* model bound on the counter, which failing calls increment
  ChosenBound   \* model bound on the instances with a chosen port

ASSUME ClientAssumption ==
  /\ UserPorts \subseteq Int
  /\ NextBound \in Nat
  /\ ChosenBound \in Nat

AllPorts == PoolPorts \cup UserPorts

\* The ports that only acquire() gives out.
OwnPorts == PoolPorts \ UserPorts

VARIABLES
  pc,       \* thread -> where it is in acquire()
  held,     \* thread -> port -> the instances it has on the port
  chosen    \* history: how many instances had a chosen port

vars == <<next, reuse_queue, pc, held, chosen>>

\* The queue holds pool ports only: release() lets no other in, although it is
\* given the ports users chose as well.
TypeOK ==
  /\ next \in Nat
  /\ next >= BASE
  /\ reuse_queue \in Seq(PoolPorts)
  /\ pc \in [Threads -> {"idle", "polled", "failed"}]
  /\ held \in [Threads -> [AllPorts -> Nat]]
  /\ chosen \in Nat

Init ==
  /\ PoolInit
  /\ pc = [t \in Threads |-> "idle"]
  /\ held = [t \in Threads |-> [p \in AllPorts |-> 0]]
  /\ chosen = 0

Get(t, p) == held' = [held EXCEPT ![t][p] = @ + 1]
Goto(t, l) == pc' = [pc EXCEPT ![t] = l]

\* acquire() returns a port that was given back earlier.
AcquireReused(t, p) ==
  /\ pc[t] = "idle"
  /\ PollReused(p)
  /\ Get(t, p)
  /\ UNCHANGED <<pc, chosen>>

\* acquire() finds nothing to reuse.  The model bound keeps the counter, which
\* each thread at this point will still increment, within NextBound.
AcquireMiss(t) ==
  /\ pc[t] = "idle"
  /\ next + Cardinality({s \in Threads : pc[s] = "polled"}) < NextBound
  /\ PollEmpty
  /\ Goto(t, "polled")
  /\ UNCHANGED <<held, chosen>>

\* acquire() returns a port never used before.
AcquireFresh(t, p) ==
  /\ pc[t] = "polled"
  /\ DrawFresh(p)
  /\ Get(t, p)
  /\ Goto(t, "idle")
  /\ UNCHANGED chosen

\* acquire() throws "No free port in pool".
AcquireFail(t) ==
  /\ pc[t] = "polled"
  /\ DrawExhausted
  /\ Goto(t, "failed")
  /\ UNCHANGED <<held, chosen>>

\* The caller of acquire() has got its exception.
Recover(t) ==
  /\ pc[t] = "failed"
  /\ Goto(t, "idle")
  /\ UNCHANGED <<next, reuse_queue, held, chosen>>

\* instantiate() with withSlurmHostPort: the pool is not asked.
UseChosenPort(t, p) ==
  /\ pc[t] = "idle"
  /\ chosen < ChosenBound
  /\ Get(t, p)
  /\ chosen' = chosen + 1
  /\ UNCHANGED <<next, reuse_queue, pc>>

\* destroy() releases the port of an instance.
GiveBack(t, p) ==
  /\ pc[t] = "idle"
  /\ held[t][p] > 0
  /\ Release(p)
  /\ held' = [held EXCEPT ![t][p] = @ - 1]
  /\ UNCHANGED <<pc, chosen>>

Next ==
  \E t \in Threads :
    \/ \E p \in PoolPorts : AcquireReused(t, p) \/ AcquireFresh(t, p)
    \/ AcquireMiss(t)
    \/ AcquireFail(t)
    \/ Recover(t)
    \/ \E p \in UserPorts : UseChosenPort(t, p)
    \/ \E p \in AllPorts : GiveBack(t, p)

Spec == Init /\ [][Next]_vars
-----------------------------------------------------------------------------
\* The ports that wait in the reuse queue.
Queued == {reuse_queue[i] : i \in 1 .. Len(reuse_queue)}

\* A port waits in the reuse queue at most once.
QueuedOnce ==
  \A i, j \in 1 .. Len(reuse_queue) :
    i # j /\ reuse_queue[i] \in OwnPorts => reuse_queue[i] # reuse_queue[j]

\* Only ports that were drawn are reused or held, none of them beyond the
\* counter.
OnlyDrawn ==
  /\ \A p \in Queued \cap OwnPorts : p < next
  /\ \A t \in Threads : \A p \in OwnPorts : held[t][p] > 0 => p < next

\* A port in use is not offered for reuse, and has one user and one instance.
HeldByOne ==
  \A t \in Threads : \A p \in OwnPorts : held[t][p] > 0 =>
    /\ p \notin Queued
    /\ held[t][p] = 1
    /\ \A s \in Threads \ {t} : held[s][p] = 0

\* No port is lost: each one drawn is in use or waits for reuse.
NoneLost ==
  \A p \in OwnPorts : p < next =>
    p \in Queued \/ \E t \in Threads : held[t][p] > 0

\* acquire() and release() keep every pool port that no user chooses in exactly
\* one of three places (never drawn, waiting in reuse_queue, in use for one
\* instance of one thread) although acquire() looks at the queue and the
\* counter in separate steps, and although chosen ports of the pool wait in the
\* queue that were never drawn, some of them twice.
PoolPartition == QueuedOnce /\ OnlyDrawn /\ HeldByOne /\ NoneLost

\* The threads that use each port.
Owners == [p \in OwnPorts |-> {t \in Threads : held[t][p] > 0}]

Lease == INSTANCE PortLease WITH
  Ports <- OwnPorts, Clients <- Threads, owners <- Owners

\* The pool implements the abstract lease for the ports no user chooses:
\* PortManager keeps no record of who holds a port, yet acquire() hands a port
\* out only while nobody has it.
LeaseSpec == Lease!Spec
=============================================================================
