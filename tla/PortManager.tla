---------------------------- MODULE PortManager ----------------------------
(***************************************************************************)
(* The static port pool of the Slurm driver (driver/slurm/PortManager).    *)
(*                                                                         *)
(* The pool hands out the host ports BASE .. MAX-1.  It is one             *)
(* AtomicInteger `next' from which fresh ports are drawn, and one          *)
(* ConcurrentLinkedQueue `reuse_queue' of ports that were given back.      *)
(* Each class is atomic on its own but acquire() uses them one after the   *)
(* other without a lock, so acquire() is two steps: poll the queue, then,  *)
(* if it was empty, draw from the counter.  This module gives those steps  *)
(* as action fragments over the two variables; the modules that extend it  *)
(* say who takes them.                                                     *)
(***************************************************************************)
EXTENDS Integers, Sequences

CONSTANTS
  BASE,       \* the first port of the pool (20000 in the code)
  MAX         \* one more than the last port acquire() returns (20100)

ASSUME PoolAssumption ==
  /\ BASE \in Nat
  /\ MAX \in Nat
  /\ BASE < MAX

VARIABLES
  next,         \* AtomicInteger: the next port never handed out
  reuse_queue   \* ConcurrentLinkedQueue: ports given back, oldest first

poolVars == <<next, reuse_queue>>

PoolPorts == BASE .. MAX - 1

PoolInit ==
  /\ next = BASE
  /\ reuse_queue = <<>>

\* Mutant of PollReused: peek() for poll(), the port stays in the queue.
PeekReused(p) ==
  /\ reuse_queue # <<>>
  /\ p = Head(reuse_queue)
  /\ UNCHANGED poolVars

\* acquire(), first step: the queue had a port, and acquire() returns it.
PollReused(p) ==
  /\ reuse_queue # <<>>
  /\ p = Head(reuse_queue)
  /\ reuse_queue' = Tail(reuse_queue)
  /\ UNCHANGED next

\* acquire(), first step: the queue was empty, acquire() goes on.
PollEmpty ==
  /\ reuse_queue = <<>>
  /\ UNCHANGED poolVars

\* Mutant of DrawFresh: the counter is read without being incremented.
DrawWithoutIncrement(p) ==
  /\ p = next
  /\ next < MAX
  /\ UNCHANGED poolVars

\* acquire(), second step: getAndIncrement() gave a port of the pool.
DrawFresh(p) ==
  /\ p = next
  /\ next < MAX
  /\ next' = next + 1
  /\ UNCHANGED reuse_queue

\* acquire(), second step: getAndIncrement() left the pool, IOException.
\* The counter has been incremented all the same.
DrawExhausted ==
  /\ next >= MAX
  /\ next' = next + 1
  /\ UNCHANGED reuse_queue

\* Mutant of Release: off by one at the end of the pool.
ReleaseUpToMax(p) ==
  /\ reuse_queue' = IF p < BASE \/ p > MAX
                      THEN reuse_queue
                      ELSE Append(reuse_queue, p)
  /\ UNCHANGED next

\* Mutant of Release: a released port is dropped.
ReleaseDropped(p) == UNCHANGED poolVars

\* release(port): a port outside the pool is ignored, any other is offered
\* to the queue, whoever holds it and even if it is in the queue already.
Release(p) ==
  /\ reuse_queue' = IF p < BASE \/ p >= MAX
                      THEN reuse_queue
                      ELSE Append(reuse_queue, p)
  /\ UNCHANGED next
=============================================================================
