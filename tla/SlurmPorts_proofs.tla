------------------------- MODULE SlurmPorts_proofs --------------------------
(***************************************************************************)
(* The proofs that the Slurm driver reuses no port of the pool too early,  *)
(* and that destroy() gives a port back once.                              *)
(*                                                                         *)
(* PortExclusive is not inductive: one has to know that a port is given    *)
(* back only after its job was cancelled (ReleasedOver, which rests on     *)
(* CancelledFirst of OrphanInv), and where the ports of the pool are       *)
(* (PoolInv).  GivenBackOnce needs more: that nobody else uses a component *)
(* by the time of destroy() (Sessions), that an instance has one holder    *)
(* (OneHolder), and that the iterator does not meet an instance twice      *)
(* (ReleasedOnce).                                                         *)
(***************************************************************************)
EXTENDS SlurmDriver_proofs

USE DEF Over

\* The port of a job is given back only after the job was ended.
ReleasedOver == \A j \in released : j \in Submitted /\ cluster[j] \in Over

\* A job that is over stays over, with its port.
LEMMA JobsStay ==
  ASSUME TypeInv, [Next]_vars, NEW j \in Job, cluster[j] \in Over
  PROVE  cluster'[j] \in Over /\ hostPort'[j] = hostPort[j]
<1>0. cluster \in [Job -> {"none", "live"} \cup Over]
  BY DEF TypeInv, TypeOK
<1>1. CASE UNCHANGED <<cluster, hostPort>>
  BY <1>1
<1>2. ASSUME NEW k \in Job, NEW p, Started(k, p)
      PROVE  cluster'[j] \in Over /\ hostPort'[j] = hostPort[j]
  BY <1>0, <1>2 DEF Started, TypeInv, TypeOK
<1>3. ASSUME NEW k \in Job, Terminate(k) \/ UNCHANGED cluster, UNCHANGED hostPort
      PROVE  cluster'[j] \in Over /\ hostPort'[j] = hostPort[j]
  BY <1>0, <1>3 DEF Terminate
<1>4. ASSUME NEW k \in Job, JobGone(k)
      PROVE  cluster'[j] \in Over /\ hostPort'[j] = hostPort[j]
  BY <1>0, <1>4 DEF JobGone
<1>5. ASSUME NEW c \in Caller, Enters(c)
      PROVE  UNCHANGED <<cluster, hostPort>>
  BY <1>5 DEF Enters, Instantiate, GetTypesystem, GetTypesystemUnknown, Destroy, Shutdown,
     NoToken, slurmVars
<1>6. ASSUME NEW c \in Caller, Continues(c)
      PROVE  cluster'[j] \in Over /\ hostPort'[j] = hostPort[j]
  <2>1. CASE \E k \in Job : SubmitAccepted(c, k) \/ SubmitLost(c, k)
    BY <1>2, <2>1 DEF SubmitAccepted, SubmitLost
  <2>2. CASE \E k \in Job : CancelDone(c, k) \/ CancelThrows(c, k)
    BY <1>3, <2>2 DEF CancelDone, CancelThrows
  <2>3. CASE \E k \in Job : SweepDone(c, k) \/ SweepThrows(c, k)
    BY <1>3, <2>3 DEF SweepDone, SweepThrows
  <2>4. CASE Leaves(c)
    BY <2>4, Leaving
  <2>5. CASE \/ Register(c) \/ LoopDone(c) \/ AssignChosen(c) \/ AssignMiss(c)
             \/ AssignFail(c) \/ RecordJob(c) \/ Reachable(c) \/ ProbeAnswered(c)
             \/ ProbeFailed(c) \/ TypesAnswered(c) \/ Remove(c) \/ ReleaseInstance(c)
             \/ (\E p \in PoolPorts : AssignReused(c, p) \/ AssignFresh(c, p))
             \/ (\E k \in Job : TakeForTypes(c, k))
    BY <2>5 DEF Register, LoopDone, AssignChosen, AssignMiss, AssignFail, RecordJob,
       Reachable, ProbeAnswered, ProbeFailed, TypesAnswered, Remove, ReleaseInstance,
       AssignReused, AssignFresh, TakeForTypes, slurmVars
  <2>6. QED
    BY <1>6, <2>1, <2>2, <2>3, <2>4, <2>5 DEF Continues, Leaves
<1>7. ASSUME NEW w \in Worker, WorkerNext(w)
      PROVE  UNCHANGED <<cluster, hostPort>>
  BY <1>7 DEF WorkerNext, Run, Take, PutBack, slurmVars
<1>8. ASSUME NEW k \in Job, JobEnds(k)
      PROVE  cluster'[j] \in Over /\ hostPort'[j] = hostPort[j]
  BY <1>3, <1>8 DEF JobEnds
<1>9. ASSUME ToggleShutdown
      PROVE  UNCHANGED <<cluster, hostPort>>
  BY <1>9 DEF ToggleShutdown, slurmVars
<1>10. QED
  BY <1>1, <1>4, <1>5, <1>6, <1>7, <1>8, <1>9 DEF Next, vars

\* Only destroy() gives ports back.
LEMMA WhoReleases ==
  ASSUME TypeInv, [Next]_vars
  PROVE  \/ UNCHANGED <<released, doubled>>
         \/ \E c \in Caller : ReleaseInstance(c)
<1>1. ASSUME NEW c \in Caller, Enters(c)
      PROVE  UNCHANGED <<released, doubled>>
  BY <1>1 DEF Enters, Instantiate, GetTypesystem, GetTypesystemUnknown, Destroy, Shutdown,
     NoToken, history
<1>2. ASSUME NEW c \in Caller, Continues(c), ~ReleaseInstance(c)
      PROVE  UNCHANGED <<released, doubled>>
  <2>1. CASE Leaves(c)
    BY <2>1, Leaving
  <2>2. CASE ~Leaves(c)
    BY <1>2, <2>2 DEF Continues, Leaves, Register, LoopDone, AssignChosen, AssignMiss,
       AssignFail, RecordJob, Reachable, ProbeAnswered, ProbeFailed, TypesAnswered, Remove,
       AssignReused, AssignFresh, TakeForTypes, SubmitAccepted, SubmitLost, CancelDone,
       CancelThrows, SweepDone, SweepThrows, history
  <2>3. QED
    BY <2>1, <2>2
<1>3. ASSUME NEW w \in Worker, WorkerNext(w)
      PROVE  UNCHANGED <<released, doubled>>
  BY <1>3 DEF WorkerNext, Run, Take, PutBack, history
<1>4. QED
  BY <1>1, <1>2, <1>3 DEF Next, vars, JobEnds, JobGone, ToggleShutdown, history

\* No port is given back before its job was ended.
LEMMA ReleasedOverStep ==
  ASSUME TypeInv, OrphanInv, ReleasedOver, [Next]_vars
  PROVE  ReleasedOver'
<1>1. \A j \in Job : cluster[j] \in Over => cluster'[j] \in Over /\ hostPort'[j] = hostPort[j]
  BY JobsStay
<1>2. CASE UNCHANGED <<released, doubled>>
  BY <1>1, <1>2 DEF ReleasedOver, Submitted
<1>3. ASSUME NEW c \in Caller, ReleaseInstance(c)
      PROVE  ReleasedOver'
  <2>1. call[c].job \in Submitted /\ cluster[call[c].job] \in Over
    BY <1>3 DEF ReleaseInstance, OrphanInv, CancelledFirst, At, TypeInv, Shape, CallShape,
       Holding
  <2>2. released' = released \cup {call[c].job}
    BY <1>3 DEF ReleaseInstance
  <2>3. QED
    BY <1>1, <2>1, <2>2 DEF ReleasedOver, Submitted
<1>4. QED
  BY <1>2, <1>3, WhoReleases
-----------------------------------------------------------------------------
Queued == {reuse_queue[i] : i \in 1 .. Len(reuse_queue)}

Unreleased == Submitted \ released

\* The ports that PortExclusive is about.
Clean == OwnPorts \ doubled

\* The queue holds each such port once, and only if it was drawn.
QueueOnce ==
  /\ \A m, n \in 1 .. Len(reuse_queue) :
       m # n /\ reuse_queue[m] \in Clean => reuse_queue[m] # reuse_queue[n]
  /\ \A p \in Queued \cap Clean : p < next

\* Such a port is with one job whose port was not given back, with one caller
\* about to submit a job, in the queue, or not drawn yet.
PortOnce ==
  /\ \A j \in Unreleased : hostPort[j] \in Clean =>
       hostPort[j] < next /\ hostPort[j] \notin Queued
  /\ \A j, k \in Unreleased : j # k /\ hostPort[j] \in Clean =>
       hostPort[j] # hostPort[k]
  /\ \A c \in Caller : At(c, "submit") /\ call[c].port \in Clean =>
       /\ call[c].port < next /\ call[c].port \notin Queued
       /\ \A j \in Unreleased : hostPort[j] # call[c].port
       /\ \A d \in Caller \ {c} : At(d, "submit") => call[d].port # call[c].port

PoolInv == QueueOnce /\ PortOnce

\* A step that hands no port around.
LEMMA PoolFrame ==
  ASSUME PoolInv, UNCHANGED <<next, reuse_queue, hostPort>>,
         released \subseteq released', doubled \subseteq doubled',
         \A c \in Caller : call'[c].pc = "submit" =>
           call[c].pc = "submit" /\ call'[c].port = call[c].port
  PROVE  PoolInv'
<1>1. Queued' = Queued /\ Unreleased' \subseteq Unreleased /\ Clean' \subseteq Clean
  BY DEF Queued, Unreleased, Submitted, Clean
<1>2. QueueOnce'
  BY <1>1 DEF PoolInv, QueueOnce
<1>3. PortOnce'
  BY <1>1 DEF PoolInv, PortOnce, At
<1>4. QED
  BY <1>2, <1>3 DEF PoolInv

\* No step puts a pool port in two places.
LEMMA PoolStep ==
  ASSUME TypeInv, OrphanInv, PoolInv, [Next]_vars
  PROVE  PoolInv'
<1>0. /\ \A c \in Caller : call[c] \in CallState
      /\ call \in [Caller -> CallState]
      /\ hostPort \in [Job -> Int \cup {NoPort}]
      /\ reuse_queue \in Seq(PoolPorts) /\ Queued \subseteq PoolPorts
      /\ next \in Nat /\ PoolPorts \subseteq Int /\ Clean \subseteq PoolPorts
  <2>1. reuse_queue \in Seq(PoolPorts)
    BY DEF TypeInv, TypeOK
  <2>2. Queued \subseteq PoolPorts
    BY <2>1 DEF Queued
  <2>3. PoolPorts \subseteq Int /\ Clean \subseteq PoolPorts
    BY PoolAssumption DEF PoolPorts, Clean, OwnPorts
  <2>4. QED
    BY <2>1, <2>2, <2>3 DEF TypeInv, TypeOK
<1>1. CASE UNCHANGED vars
  BY <1>1, PoolFrame DEF vars
<1>2. ASSUME NEW c \in Caller, NEW k \in Component, NEW u \in Uuid, Instantiate(c, k, u)
      PROVE  PoolInv'
  BY <1>0, <1>2, PoolFrame
  DEF Instantiate, At, Idle, CallState, poolVars, slurmVars, history
<1>3. ASSUME NEW c \in Caller, Register(c)
      PROVE  PoolInv'
  BY <1>0, <1>3, PoolFrame
  DEF Register, At, Idle, CallState, poolVars, slurmVars, history
<1>4. ASSUME NEW c \in Caller, LoopDone(c)
      PROVE  PoolInv'
  BY <1>0, <1>4, PoolFrame
  DEF LoopDone, Return, At, Idle, CallState, poolVars, slurmVars, history
<1>5. ASSUME NEW c \in Caller, Leaves(c)
      PROVE  PoolInv'
  BY <1>5, Leaving, PoolFrame
<1>6. ASSUME NEW c \in Caller, AssignChosen(c)
      PROVE  PoolInv'
  <2>1. Comp(c) \in Component /\ ChosenPort[Comp(c)] # NoPort
    BY <1>6 DEF AssignChosen, WantsPort, At, Comp, TypeInv, Shape, CallShape, Loading
  <2>2. ChosenPort[Comp(c)] \notin Clean
    BY <2>1 DEF Clean, OwnPorts, UserPorts
  <2>3. /\ call'[c].pc = "submit" /\ call'[c].port = ChosenPort[Comp(c)]
        /\ \A d \in Caller \ {c} : call'[d] = call[d]
        /\ UNCHANGED <<next, reuse_queue, hostPort, released, doubled>>
    BY <1>0, <1>6 DEF AssignChosen, GotPort, CallState, poolVars, slurmVars, history
  <2>4. QueueOnce' /\ Queued' = Queued /\ Unreleased' = Unreleased /\ Clean' = Clean
    BY <2>3 DEF PoolInv, QueueOnce, Queued, Unreleased, Submitted, Clean
  <2>5. PortOnce'
    BY <2>2, <2>3, <2>4 DEF PoolInv, PortOnce, At
  <2>6. QED
    BY <2>4, <2>5 DEF PoolInv
<1>7. ASSUME NEW c \in Caller, NEW p \in PoolPorts, AssignReused(c, p)
      PROVE  PoolInv'
  <2>1. /\ p = Head(reuse_queue) /\ reuse_queue # <<>> /\ reuse_queue' = Tail(reuse_queue)
        /\ UNCHANGED <<next, hostPort, released, doubled>>
    BY <1>7 DEF AssignReused, PollReused, slurmVars, history
  <2>2. /\ call'[c].pc = "submit" /\ call'[c].port = p
        /\ \A d \in Caller \ {c} : call'[d] = call[d]
    BY <1>0, <1>7 DEF AssignReused, GotPort, CallState
  <2>3. /\ \A m, n \in 1 .. Len(reuse_queue') :
             m # n /\ reuse_queue'[m] \in Clean => reuse_queue'[m] # reuse_queue'[n]
        /\ Queued' \cup {p} = Queued
        /\ p \in Clean => p \notin Queued'
    <3>1. reuse_queue \in Seq(PoolPorts)
      BY <1>0
    <3>2. \A m, n \in 1 .. Len(reuse_queue) :
            m # n /\ reuse_queue[m] \in Clean => reuse_queue[m] # reuse_queue[n]
      BY DEF PoolInv, QueueOnce
    <3>3. QED
      BY <2>1, <3>1, <3>2, TailFacts DEF Queued
  <2>4. Unreleased' = Unreleased /\ Clean' = Clean
    BY <2>1 DEF Unreleased, Submitted, Clean
  <2>5. QueueOnce'
    BY <2>1, <2>3, <2>4 DEF PoolInv, QueueOnce
  <2>6. p \in Clean => p < next /\ \A j \in Unreleased : hostPort[j] # p
    BY <1>0, <2>3 DEF PoolInv, QueueOnce, PortOnce
  <2>7. p \in Clean => \A d \in Caller : call[d].pc = "submit" => call[d].port # p
    BY <1>0, <2>3 DEF PoolInv, PortOnce, At
  <2>8. PortOnce'
    BY <2>1, <2>2, <2>3, <2>4, <2>6, <2>7 DEF PoolInv, PortOnce, At
  <2>9. QED
    BY <2>5, <2>8 DEF PoolInv
<1>8. ASSUME NEW c \in Caller, AssignMiss(c)
      PROVE  PoolInv'
  BY <1>0, <1>8, PoolFrame
  DEF AssignMiss, WantsPort, PollEmpty, At, Idle, CallState, poolVars, slurmVars, history
<1>9. ASSUME NEW c \in Caller, NEW p \in PoolPorts, AssignFresh(c, p)
      PROVE  PoolInv'
  <2>1. /\ p = next /\ next' = next + 1
        /\ UNCHANGED <<reuse_queue, hostPort, released, doubled>>
    BY <1>9 DEF AssignFresh, DrawFresh, slurmVars, history
  <2>2. /\ call'[c].pc = "submit" /\ call'[c].port = p
        /\ \A d \in Caller \ {c} : call'[d] = call[d]
    BY <1>0, <1>9 DEF AssignFresh, GotPort, CallState
  <2>3. Queued' = Queued /\ Unreleased' = Unreleased /\ Clean' = Clean
    BY <2>1 DEF Queued, Unreleased, Submitted, Clean
  <2>4. \A q \in Clean : q < next => q < next' /\ q # p
    BY <1>0, <2>1
  <2>5. p \in Clean =>
          p < next' /\ p \notin Queued /\ \A j \in Unreleased : hostPort[j] # p
    BY <1>0, <2>1, <2>4 DEF PoolInv, QueueOnce, PortOnce
  <2>6. p \in Clean => \A d \in Caller : call[d].pc = "submit" => call[d].port # p
    BY <1>0, <2>4 DEF PoolInv, PortOnce, At
  <2>7. QueueOnce'
    BY <1>0, <2>1, <2>3, <2>4 DEF PoolInv, QueueOnce
  <2>8. PortOnce'
    <3>1. \A j \in Unreleased' : hostPort'[j] \in Clean' =>
            hostPort'[j] < next' /\ hostPort'[j] \notin Queued'
      BY <2>1, <2>3, <2>4 DEF PoolInv, PortOnce
    <3>2. \A j, k \in Unreleased' : j # k /\ hostPort'[j] \in Clean' =>
            hostPort'[j] # hostPort'[k]
      BY <2>1, <2>3 DEF PoolInv, PortOnce
    <3>3. \A d \in Caller : At(d, "submit")' /\ call'[d].port \in Clean' =>
            /\ call'[d].port < next' /\ call'[d].port \notin Queued'
            /\ \A j \in Unreleased' : hostPort'[j] # call'[d].port
      BY <2>1, <2>2, <2>3, <2>4, <2>5 DEF PoolInv, PortOnce, At
    <3>4. \A d \in Caller : At(d, "submit")' /\ call'[d].port \in Clean' =>
            \A e \in Caller \ {d} : At(e, "submit")' => call'[e].port # call'[d].port
      BY <2>2, <2>3, <2>6 DEF PoolInv, PortOnce, At
    <3>5. QED
      BY <3>1, <3>2, <3>3, <3>4 DEF PortOnce
  <2>9. QED
    BY <2>7, <2>8 DEF PoolInv
<1>10. ASSUME NEW c \in Caller, AssignFail(c)
      PROVE  PoolInv'
  <2>1. /\ next' = next + 1 /\ UNCHANGED <<reuse_queue, hostPort, released, doubled>>
        /\ call'[c].pc = "idle"
        /\ \A d \in Caller \ {c} : call'[d] = call[d]
    BY <1>0, <1>10 DEF AssignFail, DrawExhausted, Throw, Return, Idle, slurmVars, history
  <2>2. Queued' = Queued /\ Unreleased' = Unreleased /\ Clean' = Clean
    BY <2>1 DEF Queued, Unreleased, Submitted, Clean
  <2>3. \A q \in Clean : q < next => q < next'
    BY <1>0, <2>1, SMTT(30)
  <2>4. QueueOnce'
    BY <1>0, <2>1, <2>2, <2>3 DEF PoolInv, QueueOnce
  <2>5. PortOnce'
    BY <1>0, <2>1, <2>2, <2>3 DEF PoolInv, PortOnce, At
  <2>6. QED
    BY <2>4, <2>5 DEF PoolInv
<1>11. ASSUME NEW c \in Caller, NEW j \in Job, SubmitAccepted(c, j)
      PROVE  PoolInv'
  <2>1. /\ cluster[j] = "none" /\ hostPort' = [hostPort EXCEPT ![j] = call[c].port]
        /\ UNCHANGED <<next, reuse_queue, released, doubled>>
    BY <1>11 DEF SubmitAccepted, Started, poolVars, history
  <2>2. /\ call[c].pc = "submit" /\ call'[c].pc # "submit"
        /\ \A d \in Caller \ {c} : call'[d] = call[d]
    BY <1>0, <1>11 DEF SubmitAccepted, At, Idle, CallState
  <2>3. j \notin Unreleased /\ Unreleased' \subseteq Unreleased \cup {j}
    BY <1>0, <2>1 DEF Unreleased, Submitted, OrphanInv, KnownToSlurm
  <2>4. \A k \in Unreleased' : hostPort'[k] = IF k = j THEN call[c].port ELSE hostPort[k]
    BY <1>0, <2>1 DEF Unreleased, Submitted
  <2>5. QueueOnce' /\ Queued' = Queued /\ Clean' = Clean
    BY <2>1 DEF PoolInv, QueueOnce, Queued, Clean
  <2>6. \A k \in Unreleased' : hostPort'[k] \in Clean' =>
          hostPort'[k] < next' /\ hostPort'[k] \notin Queued'
    BY <2>1, <2>2, <2>3, <2>4, <2>5 DEF PoolInv, PortOnce, At
  <2>7. \A k, l \in Unreleased' : k # l /\ hostPort'[k] \in Clean' =>
          hostPort'[k] # hostPort'[l]
    BY <2>1, <2>2, <2>3, <2>4, <2>5 DEF PoolInv, PortOnce, At
  <2>8. \A d \in Caller : At(d, "submit")' /\ call'[d].port \in Clean' =>
          /\ call'[d].port < next' /\ call'[d].port \notin Queued'
          /\ \A k \in Unreleased' : hostPort'[k] # call'[d].port
          /\ \A e \in Caller \ {d} : At(e, "submit")' => call'[e].port # call'[d].port
    BY <2>1, <2>2, <2>3, <2>4, <2>5 DEF PoolInv, PortOnce, At
  <2>9. QED
    BY <2>5, <2>6, <2>7, <2>8 DEF PoolInv, PortOnce
<1>12. ASSUME NEW c \in Caller, NEW j \in Job, SubmitLost(c, j)
      PROVE  PoolInv'
  <2>1. /\ cluster[j] = "none" /\ hostPort' = [hostPort EXCEPT ![j] = call[c].port]
        /\ UNCHANGED <<next, reuse_queue, released, doubled>>
    BY <1>12 DEF SubmitLost, Started, poolVars, history
  <2>2. /\ call[c].pc = "submit" /\ call'[c].pc # "submit"
        /\ \A d \in Caller \ {c} : call'[d] = call[d]
    BY <1>0, <1>12 DEF SubmitLost, Throw, Return, At, Idle, CallState
  <2>3. j \notin Unreleased /\ Unreleased' \subseteq Unreleased \cup {j}
    BY <1>0, <2>1 DEF Unreleased, Submitted, OrphanInv, KnownToSlurm
  <2>4. \A k \in Unreleased' : hostPort'[k] = IF k = j THEN call[c].port ELSE hostPort[k]
    BY <1>0, <2>1 DEF Unreleased, Submitted
  <2>5. QueueOnce' /\ Queued' = Queued /\ Clean' = Clean
    BY <2>1 DEF PoolInv, QueueOnce, Queued, Clean
  <2>6. \A k \in Unreleased' : hostPort'[k] \in Clean' =>
          hostPort'[k] < next' /\ hostPort'[k] \notin Queued'
    BY <2>1, <2>2, <2>3, <2>4, <2>5 DEF PoolInv, PortOnce, At
  <2>7. \A k, l \in Unreleased' : k # l /\ hostPort'[k] \in Clean' =>
          hostPort'[k] # hostPort'[l]
    BY <2>1, <2>2, <2>3, <2>4, <2>5 DEF PoolInv, PortOnce, At
  <2>8. \A d \in Caller : At(d, "submit")' /\ call'[d].port \in Clean' =>
          /\ call'[d].port < next' /\ call'[d].port \notin Queued'
          /\ \A k \in Unreleased' : hostPort'[k] # call'[d].port
          /\ \A e \in Caller \ {d} : At(e, "submit")' => call'[e].port # call'[d].port
    BY <2>1, <2>2, <2>3, <2>4, <2>5 DEF PoolInv, PortOnce, At
  <2>9. QED
    BY <2>5, <2>6, <2>7, <2>8 DEF PoolInv, PortOnce
<1>13. ASSUME NEW c \in Caller, RecordJob(c)
      PROVE  PoolInv'
  BY <1>13, PoolFrame, TableWrite DEF RecordJob, At, poolVars, history
<1>14. ASSUME NEW c \in Caller, Reachable(c)
      PROVE  PoolInv'
  BY <1>0, <1>14, PoolFrame
  DEF Reachable, At, Idle, CallState, poolVars, slurmVars, history
<1>15. ASSUME NEW c \in Caller, ProbeAnswered(c)
      PROVE  PoolInv'
  BY <1>0, <1>15, PoolFrame
  DEF ProbeAnswered, NextRound, At, Idle, CallState, poolVars, slurmVars, history
<1>16. ASSUME NEW c \in Caller, ProbeFailed(c)
      PROVE  PoolInv'
  BY <1>0, <1>16, PoolFrame
  DEF ProbeFailed, NextRound, At, Idle, CallState, poolVars, slurmVars, history
<1>17. ASSUME NEW c \in Caller, NEW u \in Uuid, GetTypesystem(c, u)
      PROVE  PoolInv'
  BY <1>0, <1>17, PoolFrame
  DEF GetTypesystem, At, Idle, CallState, poolVars, slurmVars, history
<1>18. ASSUME NEW c \in Caller, NEW j \in Job, TakeForTypes(c, j)
      PROVE  PoolInv'
  BY <1>0, <1>18, PoolFrame
  DEF TakeForTypes, At, Idle, CallState, poolVars, slurmVars, history
<1>19. ASSUME NEW c \in Caller, TypesAnswered(c)
      PROVE  PoolInv'
  BY <1>0, <1>19, PoolFrame
  DEF TypesAnswered, Return, At, Idle, CallState, poolVars, slurmVars, history
<1>20. ASSUME NEW c \in Caller, NEW u \in Uuid, Destroy(c, u)
      PROVE  PoolInv'
  BY <1>0, <1>20, PoolFrame
  DEF Destroy, At, Idle, CallState, poolVars, slurmVars, history
<1>21. ASSUME NEW c \in Caller, Remove(c)
      PROVE  PoolInv'
  <2> DEFINE todo == IF compOf[call[c].uuid] \in RunAfterExit THEN {}
                     ELSE instances[call[c].uuid]
  <2>1. PICK got \in SUBSET {d \in Caller : At(d, "remove")} :
          call' = [d \in Caller |->
                     IF d \in got THEN [call[d] EXCEPT !.pc = "cancel", !.todo = todo]
                     ELSE call[d]]
    BY <1>21 DEF Remove
  <2>2. \A d \in Caller : call'[d].pc = "cancel" \/ call'[d] = call[d]
    BY <1>0, <2>1 DEF CallState
  <2>3. QED
    BY <1>21, <2>2, PoolFrame DEF Remove, poolVars, slurmVars, history
<1>22. ASSUME NEW c \in Caller, NEW j \in Job, CancelDone(c, j)
      PROVE  PoolInv'
  BY <1>0, <1>22, PoolFrame
  DEF CancelDone, Met, At, Idle, CallState, poolVars, slurmVars, history
<1>23. ASSUME NEW j \in Job, JobGone(j)
      PROVE  PoolInv'
  BY <1>0, <1>23, PoolFrame
  DEF JobGone, At, Idle, CallState, poolVars, slurmVars, history
<1>24. ASSUME NEW c \in Caller, NEW j \in Job, CancelThrows(c, j)
      PROVE  PoolInv'
  BY <1>0, <1>24, PoolFrame
  DEF CancelThrows, Throw, Return, At, Idle, CallState, poolVars, slurmVars, history
<1>25. ASSUME NEW c \in Caller, ReleaseInstance(c)
      PROVE  PoolInv'
  <2> DEFINE k == call[c].job
             p == hostPort[call[c].job]
  <2>1. /\ call[c].pc = "release" /\ k \in Submitted /\ p \in Int
    BY <1>25 DEF ReleaseInstance, At, TypeInv, Shape, CallShape, Holding, Submitted
  <2>2. /\ released' = released \cup {k} /\ UNCHANGED <<next, hostPort>>
        /\ Unreleased' = Unreleased \ {k}
        /\ doubled' = IF k \in released THEN doubled \cup {p} ELSE doubled
        /\ Clean' \subseteq Clean /\ Clean' \subseteq PoolPorts
    BY <1>0, <1>25 DEF ReleaseInstance, Release, Unreleased, Submitted, Clean
  <2>3. \A d \in Caller : call'[d].pc = "submit" =>
          call[d].pc = "submit" /\ call'[d].port = call[d].port
    BY <1>25, <2>1, TableWrite DEF At
  <2>4. CASE p \notin PoolPorts
    <3>1. reuse_queue' = reuse_queue
      BY <1>25, <2>1, <2>4, PoolAssumption
      DEF ReleaseInstance, Release, PoolPorts, TypeInv, TypeOK
    <3>2. doubled \subseteq doubled'
      BY <2>2
    <3>3. QED
      BY <2>2, <2>3, <3>1, <3>2, PoolFrame
  <2>5. CASE p \in PoolPorts
    <3>1. reuse_queue' = Append(reuse_queue, p)
      BY <1>25, <2>1, <2>5, PoolAssumption DEF ReleaseInstance, Release, PoolPorts
    \* a port that is given back for the second time is no longer clean
    <3>2. p \in Clean' => k \in Unreleased
      BY <2>1, <2>2 DEF Clean, Unreleased
    <3>3. p \in Clean' => p \notin Queued /\ p < next
      BY <2>2, <3>2 DEF PoolInv, PortOnce
    <3>4. /\ Queued' = Queued \cup {p}
          /\ \A m, n \in 1 .. Len(reuse_queue') :
               m # n /\ reuse_queue'[m] \in Clean' => reuse_queue'[m] # reuse_queue'[n]
      <4>1. reuse_queue \in Seq(PoolPorts)
        BY <1>0
      <4>2. \A m, n \in 1 .. Len(reuse_queue) :
              m # n /\ reuse_queue[m] \in Clean' => reuse_queue[m] # reuse_queue[n]
        BY <2>2 DEF PoolInv, QueueOnce
      <4> HIDE DEF p, k
      <4> DEFINE D == Clean'
      <4> HIDE DEF D
      <4>3. \A m, n \in 1 .. Len(reuse_queue) :
              m # n /\ reuse_queue[m] \in D => reuse_queue[m] # reuse_queue[n]
        BY <4>2 DEF D
      <4>4. p \in D => p \notin {reuse_queue[i] : i \in 1 .. Len(reuse_queue)}
        BY <3>3 DEF D, Queued
      <4>5. LET r == Append(reuse_queue, p)
            IN  /\ {r[i] : i \in 1 .. Len(r)} =
                     {reuse_queue[i] : i \in 1 .. Len(reuse_queue)} \cup {p}
                /\ \A m, n \in 1 .. Len(r) : m # n /\ r[m] \in D => r[m] # r[n]
        BY <2>5, <4>1, <4>3, <4>4, AppendFacts
      <4>6. QED
        BY <3>1, <4>5 DEF Queued, D
    <3>5. QueueOnce'
      BY <2>2, <3>3, <3>4 DEF PoolInv, QueueOnce
    <3>6. p \in Clean' =>
            /\ \A j \in Unreleased' : hostPort[j] # p
            /\ \A d \in Caller : call[d].pc = "submit" => call[d].port # p
      BY <2>2, <3>2 DEF PoolInv, PortOnce, At
    <3> HIDE DEF p, k
    <3>7. PortOnce'
      BY <2>2, <2>3, <3>4, <3>6 DEF PoolInv, PortOnce, At
    <3>8. QED
      BY <3>5, <3>7 DEF PoolInv
  <2>6. QED
    BY <2>4, <2>5
<1>26. ASSUME NEW c \in Caller, Shutdown(c)
      PROVE  PoolInv'
  BY <1>0, <1>26, PoolFrame
  DEF Shutdown, At, Idle, CallState, poolVars, slurmVars, history
<1>27. ASSUME NEW c \in Caller, NEW j \in Job, SweepDone(c, j)
      PROVE  PoolInv'
  BY <1>0, <1>27, PoolFrame
  DEF SweepDone, Swept, At, Idle, CallState, poolVars, slurmVars, history
<1>29. ASSUME NEW c \in Caller, NEW j \in Job, SweepThrows(c, j)
      PROVE  PoolInv'
  BY <1>0, <1>29, PoolFrame
  DEF SweepThrows, Throw, Return, At, Idle, CallState, poolVars, slurmVars, history
<1>30. ASSUME NEW w \in Worker, NEW u \in Uuid, Run(w, u)
      PROVE  PoolInv'
  BY <1>0, <1>30, PoolFrame
  DEF Run, At, Idle, CallState, poolVars, slurmVars, history
<1>31. ASSUME NEW w \in Worker, NEW j \in Job, Take(w, j)
      PROVE  PoolInv'
  <2>1. UNCHANGED <<next, reuse_queue, hostPort, released, doubled>>
    BY <1>31 DEF Take, poolVars, slurmVars, history
  <2>2. PICK skip \in SUBSET Caller :
          call' = [c \in Caller |-> IF c \in skip
                                      THEN [call[c] EXCEPT !.todo = @ \ {j},
                                      !.again = @ \ {j}]
                                      ELSE call[c]]
    BY <1>31 DEF Take, Destroying
  <2>3. \A c \in Caller : call'[c].pc = call[c].pc /\ call'[c].port = call[c].port
    BY <1>0, <2>2 DEF CallState
  <2>4. QED
    BY <2>1, <2>3, PoolFrame
<1>32. ASSUME NEW w \in Worker, PutBack(w)
      PROVE  PoolInv'
  BY <1>0, <1>32, PoolFrame
  DEF PutBack, Destroying, At, Idle, CallState, poolVars, slurmVars, history
<1>33. ASSUME NEW j \in Job, JobEnds(j)
      PROVE  PoolInv'
  BY <1>0, <1>33, PoolFrame
  DEF JobEnds, At, Idle, CallState, poolVars, slurmVars, history
<1>34. ASSUME ToggleShutdown
      PROVE  PoolInv'
  BY <1>0, <1>34, PoolFrame
  DEF ToggleShutdown, At, Idle, CallState, poolVars, slurmVars, history
<1>35. QED
  BY <1>1, <1>2, <1>3, <1>4, <1>5, <1>6, <1>7, <1>8, <1>9, <1>10, <1>11, <1>12,
     <1>13, <1>14, <1>15, <1>16, <1>17, <1>18, <1>19, <1>20, <1>21, <1>22, <1>23,
     <1>24, <1>25, <1>26, <1>27, <1>29, <1>30, <1>31, <1>32, <1>33, <1>34
  DEF Next, Enters, Continues, WorkerNext, Leaves

\* The whole strengthening of PortExclusive.
PortInv ==
  /\ TypeInv
  /\ OrphanInv
  /\ ReleasedOver
  /\ PoolInv

\* A port that only acquire() gives out is not given to a second job before Slurm
\* was told to end the first, or has ended it by itself, unless destroy() gave it
\* back twice: for every number of callers, workers, components and ports, whatever
\* ports users choose and whether or not workers are joined before destroy().
THEOREM PortsExclusive == Spec => []PortExclusive
<1>1. Init => PortInv
  <2> SUFFICES ASSUME Init
               PROVE  PortInv
    OBVIOUS
  <2>1. ReleasedOver
    BY DEF Init, ReleasedOver
  <2>2. PoolInv
    BY DriverAssumption
    DEF Init, PoolInit, PoolInv, QueueOnce, PortOnce, Queued, Unreleased,
       Submitted, At, Idle
  <2>3. QED
    BY <2>1, <2>2, InitTypes, InitOrphans DEF PortInv
<1>2. PortInv /\ [Next]_vars => PortInv'
  BY TypeStep, OrphanStep, ReleasedOverStep, PoolStep DEF PortInv
<1>3. PortInv => PortExclusive
  <2> SUFFICES ASSUME PortInv,
                      NEW j \in Job, NEW k \in Job, j # k,
                      cluster[j] = "live", cluster[k] = "live",
                      hostPort[j] = hostPort[k], hostPort[j] \in Clean
               PROVE  FALSE
    BY DEF PortExclusive, Clean
  <2>1. j \in Submitted /\ k \in Submitted
    BY PoolAssumption DEF Submitted, PoolPorts, Clean, OwnPorts
  <2>2. j \in released \/ k \in released
    BY <2>1 DEF PortInv, PoolInv, PortOnce, Unreleased
  <2>3. QED
    BY <2>2 DEF PortInv, ReleasedOver
<1>4. QED
  BY <1>1, <1>2, <1>3, PTL DEF Spec
-----------------------------------------------------------------------------
\* Where a caller is in destroy().
Destroys(c) == call[c].pc \in {"remove", "cancel", "release"}

\* One caller at a time uses a component; destroy() is the last to do so.
Sessions ==
  /\ \A u \in Uuid : compOf[u] = NoComponent =>
       /\ u \notin known
       /\ instances[u] = {}
       /\ \A c \in Caller : call[c].uuid # u
  /\ \A c, d \in Caller : c # d /\ call[c].uuid = call[d].uuid =>
       call[c].uuid = NoUuid
  /\ \A c \in Caller : Destroys(c) => call[c].uuid \notin known
  /\ \A w \in Worker : work[w].uuid \in known \cup {NoUuid}
  /\ \A c \in Caller : call[c].again = {}

\* A step that ends calls or leaves their component alone.
LEMMA SessionFrame ==
  ASSUME TypeInv, Sessions, UNCHANGED <<compOf, instances, known, work>>,
         \A c \in Caller :
           /\ call'[c].uuid = call[c].uuid \/ call'[c].uuid = NoUuid
           /\ Destroys(c)' => Destroys(c) /\ call'[c].uuid = call[c].uuid
           /\ call'[c].again = {}
  PROVE  Sessions'
<1>1. \A u \in Uuid : u # NoUuid
  BY DriverAssumption
<1>2. QED
  BY <1>1 DEF Sessions

\* Where workers have been joined before destroy() is called, components stay
\* with one caller and destroy() stays the last call.
LEMMA SessionStep ==
  ASSUME JoinsWorkers, TypeInv, Sessions, [Next]_vars
  PROVE  Sessions'
<1>0. /\ \A c \in Caller : call[c] \in CallState
      /\ call \in [Caller -> CallState]
      /\ compOf \in [Uuid -> Component \cup {NoComponent}]
      /\ instances \in [Uuid -> SUBSET Job]
      /\ work \in [Worker -> WorkState]
      /\ NoUuid \notin Uuid /\ NoComponent \notin Component
      /\ \A c \in Caller : call[c].again = {}
  BY DriverAssumption DEF TypeInv, TypeOK, Sessions
<1>1. CASE UNCHANGED vars
  BY <1>0, <1>1, SessionFrame DEF vars, Destroys
<1>2. ASSUME NEW c \in Caller, NEW k \in Component, NEW u \in Uuid, Instantiate(c, k, u)
      PROVE  Sessions'
  <2>1. /\ compOf[u] = NoComponent /\ compOf' = [compOf EXCEPT ![u] = k]
        /\ call'[c].pc = "register" /\ call'[c].uuid = u /\ call'[c].again = {}
        /\ \A d \in Caller \ {c} : call'[d] = call[d]
        /\ UNCHANGED <<instances, known, work>>
    BY <1>0, <1>2 DEF Instantiate, Idle, history
  <2>2. \A d \in Caller : call[d].uuid # u
    BY <2>1 DEF Sessions
  <2>3. QED
    BY <1>0, <2>1, <2>2 DEF Sessions, Destroys
<1>3. ASSUME NEW c \in Caller, Register(c)
      PROVE  Sessions'
  BY <1>0, <1>3, SessionFrame
  DEF Register, At, Idle, CallState, Destroys, history, driverVars
<1>4. ASSUME NEW c \in Caller, LoopDone(c)
      PROVE  Sessions'
  <2>1. /\ call[c].uuid \in Uuid /\ compOf[call[c].uuid] \in Component
        /\ call'[c].pc = "idle" /\ call'[c].uuid = NoUuid /\ call'[c].again = {}
        /\ \A d \in Caller \ {c} : call'[d] = call[d]
        /\ known' = known \/ known' = known \cup {call[c].uuid}
        /\ UNCHANGED <<compOf, instances, work>>
    BY <1>0, <1>4
    DEF LoopDone, At, Return, Idle, driverVars, TypeInv, Shape, CallShape, Loading
  <2>2. \A d \in Caller \ {c} : call[d].uuid # call[c].uuid
    BY <1>0, <2>1 DEF Sessions
  <2>3. QED
    BY <1>0, <2>1, <2>2 DEF Sessions, Destroys
<1>5. ASSUME NEW c \in Caller, Leaves(c)
      PROVE  Sessions'
  BY <1>0, <1>5, Leaving, SessionFrame DEF Destroys
<1>6. ASSUME NEW c \in Caller, AssignChosen(c)
      PROVE  Sessions'
  BY <1>0, <1>6, SessionFrame
  DEF AssignChosen, WantsPort, GotPort, At, Idle, CallState, Destroys, history, driverVars
<1>7. ASSUME NEW c \in Caller, NEW p \in PoolPorts, AssignReused(c, p)
      PROVE  Sessions'
  BY <1>0, <1>7, SessionFrame
  DEF AssignReused, WantsPort, GotPort, At, Idle, CallState, Destroys, history, driverVars
<1>8. ASSUME NEW c \in Caller, AssignMiss(c)
      PROVE  Sessions'
  BY <1>0, <1>8, SessionFrame
  DEF AssignMiss, WantsPort, At, Idle, CallState, Destroys, history, driverVars
<1>9. ASSUME NEW c \in Caller, NEW p \in PoolPorts, AssignFresh(c, p)
      PROVE  Sessions'
  BY <1>0, <1>9, SessionFrame
  DEF AssignFresh, GotPort, At, Idle, CallState, Destroys, history, driverVars
<1>10. ASSUME NEW c \in Caller, AssignFail(c)
      PROVE  Sessions'
  BY <1>0, <1>10, SessionFrame
  DEF AssignFail, Throw, Return, At, Idle, CallState, Destroys, history, driverVars
<1>11. ASSUME NEW c \in Caller, NEW j \in Job, SubmitAccepted(c, j)
      PROVE  Sessions'
  BY <1>0, <1>11, SessionFrame
  DEF SubmitAccepted, At, Idle, CallState, Destroys, history, driverVars
<1>12. ASSUME NEW c \in Caller, NEW j \in Job, SubmitLost(c, j)
      PROVE  Sessions'
  BY <1>0, <1>12, SessionFrame
  DEF SubmitLost, Throw, Return, At, Idle, CallState, Destroys, history, driverVars
<1>13. ASSUME NEW c \in Caller, RecordJob(c)
      PROVE  Sessions'
  BY <1>0, <1>13, SessionFrame, TableWrite DEF RecordJob, At, Destroys, history
<1>14. ASSUME NEW c \in Caller, Reachable(c)
      PROVE  Sessions'
  BY <1>0, <1>14, SessionFrame
  DEF Reachable, At, Idle, CallState, Destroys, history, driverVars
<1>15. ASSUME NEW c \in Caller, ProbeAnswered(c)
      PROVE  Sessions'
  <2>1. /\ call[c].uuid \in Uuid
        /\ instances' = [instances EXCEPT ![call[c].uuid] = @ \cup {call[c].job}]
        /\ call'[c].pc = "loop" /\ call'[c].uuid \in {call[c].uuid, NoUuid} /\ call'[c].again = {}
        /\ \A d \in Caller \ {c} : call'[d] = call[d]
        /\ UNCHANGED <<compOf, known, work>>
    BY <1>0, <1>15
    DEF ProbeAnswered, NextRound, At, Idle, CallState, history, TypeInv, Shape,
        CallShape, Loading, Serves
  <2>2. compOf[call[c].uuid] # NoComponent
    BY <2>1 DEF Sessions
  <2>3. QED
    BY <1>0, <2>1, <2>2 DEF Sessions, Destroys
<1>16. ASSUME NEW c \in Caller, ProbeFailed(c)
      PROVE  Sessions'
  BY <1>0, <1>16, SessionFrame
  DEF ProbeFailed, NextRound, At, Idle, CallState, Destroys, history, driverVars
<1>17. ASSUME NEW c \in Caller, NEW u \in Uuid, Usable(u), GetTypesystem(c, u)
      PROVE  Sessions'
  <2>1. /\ call'[c].pc = "take" /\ call'[c].uuid = u /\ call'[c].again = {}
        /\ \A d \in Caller \ {c} : call'[d] = call[d]
        /\ u \in known /\ \A d \in Caller : call[d].uuid # u
        /\ UNCHANGED <<compOf, instances, known, work>>
    BY <1>0, <1>17 DEF GetTypesystem, Usable, Idle, history, driverVars
  <2>2. QED
    BY <1>0, <2>1 DEF Sessions, Destroys
<1>18. ASSUME NEW c \in Caller, NEW j \in Job, TakeForTypes(c, j)
      PROVE  Sessions'
  <2>1. /\ call[c].uuid \in Uuid
        /\ instances' = [instances EXCEPT ![call[c].uuid] = @ \ {j}]
        /\ call'[c].pc = "ask" /\ call'[c].uuid \in {call[c].uuid, NoUuid} /\ call'[c].again = {}
        /\ \A d \in Caller \ {c} : call'[d] = call[d]
        /\ UNCHANGED <<compOf, known, work>>
    BY <1>0, <1>18
    DEF TakeForTypes, At, Idle, CallState, history, TypeInv, Shape, CallShape, Loading,
        Serves
  <2>2. compOf[call[c].uuid] # NoComponent
    BY <2>1 DEF Sessions
  <2>3. QED
    BY <1>0, <2>1, <2>2 DEF Sessions, Destroys
<1>19. ASSUME NEW c \in Caller, TypesAnswered(c)
      PROVE  Sessions'
  <2>1. /\ call[c].uuid \in Uuid
        /\ instances' = [instances EXCEPT ![call[c].uuid] = @ \cup {call[c].job}]
        /\ call'[c].pc = "idle" /\ call'[c].uuid \in {call[c].uuid, NoUuid} /\ call'[c].again = {}
        /\ \A d \in Caller \ {c} : call'[d] = call[d]
        /\ UNCHANGED <<compOf, known, work>>
    BY <1>0, <1>19
    DEF TypesAnswered, Return, At, Idle, CallState, history, TypeInv, Shape, CallShape,
        Loading, Serves
  <2>2. compOf[call[c].uuid] # NoComponent
    BY <2>1 DEF Sessions
  <2>3. QED
    BY <1>0, <2>1, <2>2 DEF Sessions, Destroys
<1>20. ASSUME NEW c \in Caller, NEW u \in Uuid, Usable(u), Joined(u), Destroy(c, u)
      PROVE  Sessions'
  <2>1. /\ call'[c].pc = "remove" /\ call'[c].uuid = u /\ call'[c].again = {}
        /\ \A d \in Caller \ {c} : call'[d] = call[d]
        /\ u \in known /\ \A d \in Caller : call[d].uuid # u
        /\ \A w \in Worker : work[w].uuid # u
        /\ known' = known \ {u}
        /\ UNCHANGED <<compOf, instances, work>>
    BY <1>0, <1>20 DEF Destroy, Usable, Joined, Idle, driverVars
  <2>2. QED
    BY <1>0, <2>1 DEF Sessions, Destroys
<1>21. ASSUME NEW c \in Caller, Remove(c)
      PROVE  Sessions'
  <2> DEFINE todo == IF compOf[call[c].uuid] \in RunAfterExit THEN {}
                     ELSE instances[call[c].uuid]
  <2>1. PICK got \in SUBSET {d \in Caller : At(d, "remove")} :
          call' = [d \in Caller |->
                     IF d \in got THEN [call[d] EXCEPT !.pc = "cancel", !.todo = todo]
                     ELSE call[d]]
    BY <1>21 DEF Remove
  <2>2. \A d \in Caller : /\ Destroys(d)' => Destroys(d)
                          /\ call'[d].uuid = call[d].uuid /\ call'[d].again = call[d].again
    BY <1>0, <2>1 DEF CallState, Destroys, At
  <2>3. QED
    BY <1>0, <1>21, <2>2, SessionFrame DEF Remove, history
<1>22. ASSUME NEW c \in Caller, NEW j \in Job, CancelDone(c, j)
      PROVE  Sessions'
  BY <1>0, <1>22, SessionFrame
  DEF CancelDone, Met, At, Idle, CallState, Destroys, history, driverVars
<1>23. ASSUME NEW j \in Job, JobGone(j)
      PROVE  Sessions'
  BY <1>0, <1>23, SessionFrame
  DEF JobGone, At, Idle, CallState, Destroys, history, driverVars
<1>24. ASSUME NEW c \in Caller, NEW j \in Job, CancelThrows(c, j)
      PROVE  Sessions'
  BY <1>0, <1>24, SessionFrame
  DEF CancelThrows, Throw, Return, At, Idle, CallState, Destroys, history, driverVars
<1>25. ASSUME NEW c \in Caller, ReleaseInstance(c)
      PROVE  Sessions'
  BY <1>0, <1>25, SessionFrame, TableWrite DEF ReleaseInstance, At, Destroys
<1>26. ASSUME NEW c \in Caller, Shutdown(c)
      PROVE  Sessions'
  BY <1>0, <1>26, SessionFrame
  DEF Shutdown, At, Idle, CallState, Destroys, history, driverVars
<1>27. ASSUME NEW c \in Caller, NEW j \in Job, SweepDone(c, j)
      PROVE  Sessions'
  BY <1>0, <1>27, SessionFrame
  DEF SweepDone, Swept, At, Idle, CallState, Destroys, history, driverVars
<1>29. ASSUME NEW c \in Caller, NEW j \in Job, SweepThrows(c, j)
      PROVE  Sessions'
  BY <1>0, <1>29, SessionFrame
  DEF SweepThrows, Throw, Return, At, Idle, CallState, Destroys, history, driverVars
<1>30. ASSUME NEW w \in Worker, NEW u \in Uuid, Usable(u), Run(w, u)
      PROVE  Sessions'
  <2>1. /\ u \in known /\ \A v \in Worker : work'[v].uuid \in {u, work[v].uuid}
        /\ UNCHANGED <<compOf, instances, known, call>>
    BY <1>0, <1>30 DEF Run, Usable, WorkState, history, driverVars
  <2>2. QED
    BY <2>1 DEF Sessions, Destroys
<1>31. ASSUME NEW w \in Worker, NEW j \in Job, Take(w, j)
      PROVE  Sessions'
  <2>1. /\ work[w].uuid \in Uuid /\ instances' = [instances EXCEPT ![work[w].uuid] = @ \ {j}]
        /\ \A v \in Worker : work'[v].uuid = work[v].uuid
        /\ UNCHANGED <<compOf, known>>
    BY <1>0, <1>31 DEF Take, WorkState, history, TypeInv, Shape, WorkShape
  <2>2. PICK skip \in SUBSET Caller :
          call' = [c \in Caller |-> IF c \in skip
                                      THEN [call[c] EXCEPT !.todo = @ \ {j},
                                      !.again = @ \ {j}]
                                      ELSE call[c]]
    BY <1>31 DEF Take, Destroying
  <2>3. \A c \in Caller : /\ call'[c].pc = call[c].pc /\ call'[c].uuid = call[c].uuid
                          /\ call'[c].again = {}
    BY <1>0, <2>2 DEF CallState
  <2>4. QED
    BY <1>0, <2>1, <2>3 DEF Sessions, Destroys
<1>32. ASSUME NEW w \in Worker, PutBack(w)
      PROVE  Sessions'
  <2>1. /\ work[w].uuid \in Uuid /\ work[w].uuid \in known
        /\ instances' = [instances EXCEPT ![work[w].uuid] = @ \cup {work[w].job}]
        /\ work'[w].uuid = NoUuid /\ \A v \in Worker \ {w} : work'[v] = work[v]
        /\ UNCHANGED <<compOf, known>>
    BY <1>0, <1>32 DEF PutBack, history, TypeInv, Shape, WorkShape, Sessions
  <2>2. Destroying(work[w].uuid) = {}
    BY <2>1 DEF Destroying, Sessions, Destroys
  <2>3. call' = [c \in Caller |-> call[c]]
    BY <1>32, <2>2 DEF PutBack
  <2>4. compOf[work[w].uuid] # NoComponent
    BY <2>1 DEF Sessions
  <2>5. QED
    BY <1>0, <2>1, <2>3, <2>4 DEF Sessions, Destroys
<1>33. ASSUME NEW j \in Job, JobEnds(j)
      PROVE  Sessions'
  BY <1>0, <1>33, SessionFrame
  DEF JobEnds, At, Idle, CallState, Destroys, history, driverVars
<1>34. ASSUME ToggleShutdown
      PROVE  Sessions'
  BY <1>0, <1>34, SessionFrame
  DEF ToggleShutdown, At, Idle, CallState, Destroys, history, driverVars
<1>35. QED
  BY <1>1, <1>2, <1>3, <1>4, <1>5, <1>6, <1>7, <1>8, <1>9, <1>10, <1>11, <1>12,
     <1>13, <1>14, <1>15, <1>16, <1>17, <1>18, <1>19, <1>20, <1>21, <1>22, <1>23,
     <1>24, <1>25, <1>26, <1>27, <1>29, <1>30, <1>31, <1>32, <1>33, <1>34
  DEF Next, Enters, Continues, WorkerNext, Leaves
-----------------------------------------------------------------------------
\* Where a caller iterates over the instances of its component.
Iterates(c) == call[c].pc \in {"cancel", "release"}

\* destroy() gives a port back once, and only it does.
ReleasedOnce ==
  /\ released \subseteq Submitted
  /\ \A j \in released : cluster[j] \in Over
  /\ \A u \in Uuid : instances[u] \cap released # {} =>
       /\ u \notin known
       /\ \A c \in Caller : call[c].uuid = u => Iterates(c)
  /\ \A c \in Caller : HasInstance(c) => call[c].job \notin released
  /\ \A w \in Worker : work[w].job \notin released
  /\ \A c \in Caller : Iterates(c) =>
       call[c].todo \subseteq instances[call[c].uuid] \ released
  /\ \A c \in Caller : At(c, "release") =>
       call[c].job \in (instances[call[c].uuid] \ released) \ call[c].todo

\* A step that gives no port back, puts no released instance anywhere and
\* moves no iteration on.
LEMMA ReleasedFrame ==
  ASSUME TypeInv, ReleasedOnce, UNCHANGED released,
         \A j \in released :
           /\ j \in Submitted'
           /\ cluster[j] \in Over => cluster'[j] \in Over,
         \A u \in Uuid : instances'[u] \cap released \subseteq instances[u],
         \A u \in known' : u \in known \/ instances[u] \cap released = {},
         \A w \in Worker : work'[w].job \notin released,
         \A c \in Caller :
           /\ HasInstance(c)' => call'[c].job \notin released
           /\ \/ call'[c].uuid = call[c].uuid
              \/ call'[c].uuid = NoUuid
              \/ instances[call'[c].uuid] \cap released = {}
           /\ Iterates(c) => Iterates(c)' \/ call'[c].uuid = NoUuid
           /\ Iterates(c)' =>
                /\ call'[c].pc = call[c].pc /\ call'[c].uuid = call[c].uuid
                /\ call'[c].job = call[c].job /\ call'[c].todo = call[c].todo
                /\ instances[call[c].uuid] \subseteq instances'[call[c].uuid]
  PROVE  ReleasedOnce'
<1>1. \A u \in Uuid : u # NoUuid
  BY DriverAssumption
<1>2. /\ released' \subseteq Submitted'
      /\ \A j \in released' : cluster'[j] \in Over
  BY DEF ReleasedOnce
<1>3. ASSUME NEW u \in Uuid, instances'[u] \cap released' # {}
      PROVE  /\ u \notin known'
             /\ \A c \in Caller : call'[c].uuid = u => Iterates(c)'
  <2>1. instances[u] \cap released # {}
    BY <1>3
  <2>2. u \notin known /\ \A c \in Caller : call[c].uuid = u => Iterates(c)
    BY <2>1 DEF ReleasedOnce
  <2>3. QED
    BY <1>1, <2>1, <2>2
<1>4. /\ \A c \in Caller : HasInstance(c)' => call'[c].job \notin released'
      /\ \A w \in Worker : work'[w].job \notin released'
  OBVIOUS
<1>5. ASSUME NEW c \in Caller, Iterates(c)'
      PROVE  /\ call'[c].todo \subseteq instances'[call'[c].uuid] \ released'
             /\ call'[c].pc = "release" =>
                  call'[c].job \in (instances'[call'[c].uuid] \ released') \ call'[c].todo
  <2>1. Iterates(c)
    BY <1>5 DEF Iterates
  <2>2. QED
    BY <1>5, <2>1 DEF ReleasedOnce, At
<1>6. QED
  BY <1>2, <1>3, <1>4, <1>5 DEF ReleasedOnce, At, Iterates

\* No step gives a port back twice, or before the job was cancelled.
LEMMA ReleasedStep ==
  ASSUME JoinsWorkers, TypeInv, OrphanInv, OneHolder, Sessions, ReleasedOnce, [Next]_vars
  PROVE  ReleasedOnce'
<1>0. /\ \A c \in Caller : call[c] \in CallState
      /\ call \in [Caller -> CallState]
      /\ compOf \in [Uuid -> Component \cup {NoComponent}]
      /\ instances \in [Uuid -> SUBSET Job]
      /\ hostPort \in [Job -> Int \cup {NoPort}]
      /\ cluster \in [Job -> {"none", "live"} \cup Over]
      /\ trouble \in [Job -> {"none", "lost", "unlisted"}]
      /\ work \in [Worker -> WorkState]
      /\ NoUuid \notin Uuid /\ NoJob \notin Job /\ NoComponent \notin Component
  BY DriverAssumption DEF TypeInv, TypeOK
<1>1. CASE UNCHANGED vars
  BY <1>0, <1>1, ReleasedFrame DEF vars, ReleasedOnce, Submitted, HasInstance, Iterates
<1>2. ASSUME NEW c \in Caller, NEW k \in Component, NEW u \in Uuid, Instantiate(c, k, u)
      PROVE  ReleasedOnce'
  <2>1. /\ call'[c].pc = "register" /\ call'[c].uuid = u /\ call[c].pc = "idle"
        /\ \A d \in Caller \ {c} : call'[d] = call[d]
        /\ compOf[u] = NoComponent
        /\ UNCHANGED <<instances, hostPort, cluster, trouble, released, known, work>>
    BY <1>0, <1>2 DEF Instantiate, At, Idle, history, slurmVars
  <2>2. instances[u] = {}
    BY <2>1 DEF Sessions
  <2>3. QED
    BY <2>1, <2>2, ReleasedFrame DEF ReleasedOnce, Submitted, HasInstance, Iterates
<1>3. ASSUME NEW c \in Caller, Register(c)
      PROVE  ReleasedOnce'
  BY <1>0, <1>3, ReleasedFrame
  DEF Register, At, Idle, CallState, HasInstance, Iterates, ReleasedOnce, Submitted,
      history, driverVars, slurmVars
<1>4. ASSUME NEW c \in Caller, LoopDone(c)
      PROVE  ReleasedOnce'
  <2>1. /\ call'[c].pc = "idle" /\ call'[c].uuid = NoUuid /\ call[c].pc = "loop"
        /\ \A d \in Caller \ {c} : call'[d] = call[d]
        /\ known' \subseteq known \cup {call[c].uuid} /\ call[c].uuid \in Uuid
        /\ UNCHANGED <<instances, hostPort, cluster, trouble, released, work>>
    BY <1>0, <1>4 DEF LoopDone, Return, At, Idle, driverVars, slurmVars, TypeInv, Shape,
       CallShape, Loading
  <2>2. instances[call[c].uuid] \cap released = {}
    BY <2>1 DEF ReleasedOnce, Iterates
  <2>3. QED
    BY <2>1, <2>2, ReleasedFrame DEF ReleasedOnce, Submitted, HasInstance, Iterates
<1>5. ASSUME NEW c \in Caller, Leaves(c)
      PROVE  ReleasedOnce'
  BY <1>5, Leaving, ReleasedFrame DEF ReleasedOnce, Submitted, HasInstance, Iterates
<1>6. ASSUME NEW c \in Caller, AssignChosen(c)
      PROVE  ReleasedOnce'
  BY <1>0, <1>6, ReleasedFrame
  DEF AssignChosen, WantsPort, GotPort, At, Idle, CallState, HasInstance, Iterates,
      ReleasedOnce, Submitted,
      history, driverVars, slurmVars
<1>7. ASSUME NEW c \in Caller, NEW p \in PoolPorts, AssignReused(c, p)
      PROVE  ReleasedOnce'
  BY <1>0, <1>7, ReleasedFrame
  DEF AssignReused, WantsPort, GotPort, At, Idle, CallState, HasInstance, Iterates,
      ReleasedOnce, Submitted,
      history, driverVars, slurmVars
<1>8. ASSUME NEW c \in Caller, AssignMiss(c)
      PROVE  ReleasedOnce'
  <2>1. /\ call[c].pc = "loop" /\ call'[c].pc = "draw"
        /\ call'[c].uuid = call[c].uuid /\ call'[c].job = call[c].job
        /\ \A d \in Caller \ {c} : call'[d] = call[d]
        /\ UNCHANGED <<instances, hostPort, cluster, trouble, released, known, work>>
    BY <1>0, <1>8 DEF AssignMiss, WantsPort, At, CallState, history, driverVars, slurmVars
  <2>2. QED
    BY <2>1, ReleasedFrame DEF ReleasedOnce, Submitted, HasInstance, Iterates
<1>9. ASSUME NEW c \in Caller, NEW p \in PoolPorts, AssignFresh(c, p)
      PROVE  ReleasedOnce'
  <2>1. /\ call[c].pc = "draw" /\ call'[c].pc = "submit"
        /\ call'[c].uuid = call[c].uuid /\ call'[c].job = call[c].job
        /\ \A d \in Caller \ {c} : call'[d] = call[d]
        /\ UNCHANGED <<instances, hostPort, cluster, trouble, released, known, work>>
    BY <1>0, <1>9 DEF AssignFresh, GotPort, At, CallState, history, driverVars, slurmVars
  <2>2. QED
    BY <2>1, ReleasedFrame DEF ReleasedOnce, Submitted, HasInstance, Iterates
<1>10. ASSUME NEW c \in Caller, AssignFail(c)
      PROVE  ReleasedOnce'
  <2>1. /\ call'[c].pc = "idle" /\ call'[c].uuid = NoUuid
        /\ \A d \in Caller \ {c} : call'[d] = call[d]
        /\ UNCHANGED <<instances, hostPort, cluster, released, known, work>>
    BY <1>0, <1>10
    DEF AssignFail, Throw, Return, Idle, CallState, history, driverVars, slurmVars
  <2>2. released \subseteq Submitted' /\ released \subseteq Job
    BY <2>1 DEF ReleasedOnce, Submitted
  <2>3. QED
    BY <2>1, <2>2, ReleasedFrame DEF ReleasedOnce, HasInstance, Iterates
<1>11. ASSUME NEW c \in Caller, NEW j \in Job, SubmitAccepted(c, j)
      PROVE  ReleasedOnce'
  <2>1. /\ cluster[j] = "none" /\ cluster' = [cluster EXCEPT ![j] = "live"]
        /\ hostPort' = [hostPort EXCEPT ![j] = call[c].port] /\ call[c].port \in Int
        /\ \A k \in Job : k # j => trouble'[k] = trouble[k]
        /\ UNCHANGED <<instances, released, known, work>>
    BY <1>0, <1>11
    DEF SubmitAccepted, Started, At, history, driverVars, TypeInv, Shape, CallShape
  <2>2. /\ call[c].pc = "submit" /\ call'[c].pc = "put" /\ call'[c].job = j
        /\ call'[c].uuid = call[c].uuid
        /\ \A d \in Caller \ {c} : call'[d] = call[d]
    BY <1>0, <1>11 DEF SubmitAccepted, At, Idle, CallState
  <2>3. j \notin released
    BY <2>1 DEF ReleasedOnce, OrphanInv, KnownToSlurm
  <2>4. \A k \in released : k \in Submitted'
    BY <1>0, <2>1 DEF ReleasedOnce, Submitted
  <2>5. QED
    BY <1>0, <2>1, <2>2, <2>3, <2>4, ReleasedFrame
    DEF ReleasedOnce, Submitted, HasInstance, Iterates
<1>12. ASSUME NEW c \in Caller, NEW j \in Job, SubmitLost(c, j)
      PROVE  ReleasedOnce'
  <2>1. /\ cluster[j] = "none" /\ cluster' = [cluster EXCEPT ![j] = "live"]
        /\ hostPort' = [hostPort EXCEPT ![j] = call[c].port] /\ call[c].port \in Int
        /\ \A k \in Job : k # j => trouble'[k] = trouble[k]
        /\ UNCHANGED <<instances, released, known, work>>
    BY <1>0, <1>12
    DEF SubmitLost, Started, At, history, driverVars, TypeInv, Shape, CallShape
  <2>2. /\ call[c].pc = "submit" /\ call'[c].pc = "idle" /\ call'[c].uuid = NoUuid
        /\ \A d \in Caller \ {c} : call'[d] = call[d]
    BY <1>0, <1>12 DEF SubmitLost, Throw, Return, At, Idle, CallState
  <2>3. j \notin released
    BY <2>1 DEF ReleasedOnce, OrphanInv, KnownToSlurm
  <2>4. \A k \in released : k \in Submitted'
    BY <1>0, <2>1 DEF ReleasedOnce, Submitted
  <2>5. QED
    BY <1>0, <2>1, <2>2, <2>3, <2>4, ReleasedFrame
    DEF ReleasedOnce, Submitted, HasInstance, Iterates
<1>13. ASSUME NEW c \in Caller, RecordJob(c)
      PROVE  ReleasedOnce'
  <2>1. /\ call[c].pc = "put"
        /\ UNCHANGED <<instances, hostPort, cluster, released, known, work>>
    BY <1>13 DEF RecordJob, At, history
  <2>2. released \subseteq Submitted' /\ released \subseteq Job
    BY <2>1 DEF ReleasedOnce, Submitted
  <2>3. call'[c].pc = "await"
    BY <1>13, <2>1, TableWrite DEF At
  <2>4. QED
    BY <1>13, <2>1, <2>2, <2>3, ReleasedFrame, TableWrite
    DEF ReleasedOnce, HasInstance, Iterates
<1>14. ASSUME NEW c \in Caller, Reachable(c)
      PROVE  ReleasedOnce'
  <2>1. /\ call[c].pc = "await" /\ call'[c].pc = "probe"
        /\ call'[c].uuid = call[c].uuid /\ call'[c].job = call[c].job
        /\ \A d \in Caller \ {c} : call'[d] = call[d]
        /\ UNCHANGED <<instances, hostPort, cluster, trouble, released, known, work>>
    BY <1>0, <1>14 DEF Reachable, At, CallState, history, driverVars, slurmVars
  <2>2. QED
    BY <2>1, ReleasedFrame DEF ReleasedOnce, Submitted, HasInstance, Iterates
<1>15. ASSUME NEW c \in Caller, ProbeAnswered(c)
      PROVE  ReleasedOnce'
  <2>1. /\ call[c].uuid \in Uuid /\ call[c].pc = "probe"
        /\ instances' = [instances EXCEPT ![call[c].uuid] = @ \cup {call[c].job}]
        /\ UNCHANGED <<hostPort, cluster, trouble, released, known, work>>
    BY <1>15
    DEF ProbeAnswered, At, history, slurmVars, TypeInv, Shape, CallShape, Loading, Serves
  <2>2. /\ call'[c].pc = "loop" /\ call'[c].uuid = call[c].uuid
        /\ \A d \in Caller \ {c} : call'[d] = call[d]
    BY <1>0, <1>15 DEF ProbeAnswered, NextRound, Idle, CallState
  <2>3. call[c].job \notin released
    BY <2>1 DEF ReleasedOnce, HasInstance, Iterates
  <2>4. \A u \in Uuid : instances'[u] \cap released \subseteq instances[u]
    BY <1>0, <2>1, <2>3
  <2>5. \A d \in Caller \ {c} : Iterates(d) =>
          instances[call[d].uuid] \subseteq instances'[call[d].uuid]
    <3>1. \A d \in Caller \ {c} : Iterates(d) =>
            call[d].uuid \in Uuid /\ call[d].uuid # call[c].uuid
      BY <1>0, <2>1 DEF Iterates, Sessions, TypeInv, Shape, CallShape, Serves
    <3>2. QED
      BY <1>0, <2>1, <3>1
  <2>6. QED
    BY <2>1, <2>2, <2>3, <2>4, <2>5, ReleasedFrame
    DEF ReleasedOnce, Submitted, HasInstance, Iterates
<1>16. ASSUME NEW c \in Caller, ProbeFailed(c)
      PROVE  ReleasedOnce'
  BY <1>0, <1>16, ReleasedFrame
  DEF ProbeFailed, NextRound, At, Idle, CallState, HasInstance, Iterates, ReleasedOnce,
      Submitted,
      history, driverVars, slurmVars
<1>17. ASSUME NEW c \in Caller, NEW u \in Uuid, Usable(u), GetTypesystem(c, u)
      PROVE  ReleasedOnce'
  <2>1. /\ call'[c].pc = "take" /\ call'[c].uuid = u /\ call[c].pc = "idle"
        /\ \A d \in Caller \ {c} : call'[d] = call[d]
        /\ u \in known
        /\ UNCHANGED <<instances, hostPort, cluster, trouble, released, known, work>>
    BY <1>0, <1>17 DEF GetTypesystem, Usable, At, Idle, history, driverVars, slurmVars
  <2>2. instances[u] \cap released = {}
    BY <2>1 DEF ReleasedOnce
  <2>3. QED
    BY <2>1, <2>2, ReleasedFrame DEF ReleasedOnce, Submitted, HasInstance, Iterates
<1>18. ASSUME NEW c \in Caller, NEW j \in Job, TakeForTypes(c, j)
      PROVE  ReleasedOnce'
  <2>1. /\ call[c].uuid \in Uuid /\ call[c].pc = "take"
        /\ instances' = [instances EXCEPT ![call[c].uuid] = @ \ {j}]
        /\ UNCHANGED <<hostPort, cluster, trouble, released, known, work>>
    BY <1>18
    DEF TakeForTypes, At, history, slurmVars, TypeInv, Shape, CallShape, Loading, Serves
  <2>2. /\ call'[c].pc = "ask" /\ call'[c].job = j /\ call'[c].uuid = call[c].uuid
        /\ \A d \in Caller \ {c} : call'[d] = call[d]
    BY <1>0, <1>18 DEF TakeForTypes, Idle, CallState
  <2>3. j \notin released
    BY <1>18, <2>1 DEF TakeForTypes, ReleasedOnce, HasInstance, Iterates
  <2>4. \A u \in Uuid : instances'[u] \cap released \subseteq instances[u]
    BY <1>0, <2>1, <2>3
  <2>5. \A d \in Caller \ {c} : Iterates(d) =>
          instances[call[d].uuid] \subseteq instances'[call[d].uuid]
    <3>1. \A d \in Caller \ {c} : Iterates(d) =>
            call[d].uuid \in Uuid /\ call[d].uuid # call[c].uuid
      BY <1>0, <2>1 DEF Iterates, Sessions, TypeInv, Shape, CallShape, Serves
    <3>2. QED
      BY <1>0, <2>1, <3>1
  <2>6. QED
    BY <2>1, <2>2, <2>3, <2>4, <2>5, ReleasedFrame
    DEF ReleasedOnce, Submitted, HasInstance, Iterates
<1>19. ASSUME NEW c \in Caller, TypesAnswered(c)
      PROVE  ReleasedOnce'
  <2>1. /\ call[c].uuid \in Uuid /\ call[c].pc = "ask"
        /\ instances' = [instances EXCEPT ![call[c].uuid] = @ \cup {call[c].job}]
        /\ UNCHANGED <<hostPort, cluster, trouble, released, known, work>>
    BY <1>19
    DEF TypesAnswered, At, history, slurmVars, TypeInv, Shape, CallShape, Loading, Serves
  <2>2. /\ call'[c].pc = "idle" /\ call'[c].uuid = NoUuid
        /\ \A d \in Caller \ {c} : call'[d] = call[d]
    BY <1>0, <1>19 DEF TypesAnswered, Return, Idle, CallState
  <2>3. call[c].job \notin released
    BY <2>1 DEF ReleasedOnce, HasInstance, Iterates
  <2>4. \A u \in Uuid : instances'[u] \cap released \subseteq instances[u]
    BY <1>0, <2>1, <2>3
  <2>5. \A d \in Caller \ {c} : Iterates(d) =>
          instances[call[d].uuid] \subseteq instances'[call[d].uuid]
    <3>1. \A d \in Caller \ {c} : Iterates(d) =>
            call[d].uuid \in Uuid /\ call[d].uuid # call[c].uuid
      BY <1>0, <2>1 DEF Iterates, Sessions, TypeInv, Shape, CallShape, Serves
    <3>2. QED
      BY <1>0, <2>1, <3>1
  <2>6. QED
    BY <2>1, <2>2, <2>3, <2>4, <2>5, ReleasedFrame
    DEF ReleasedOnce, Submitted, HasInstance, Iterates
<1>20. ASSUME NEW c \in Caller, NEW u \in Uuid, Usable(u), Joined(u), Destroy(c, u)
      PROVE  ReleasedOnce'
  <2>1. /\ call'[c].pc = "remove" /\ call'[c].uuid = u /\ call[c].pc = "idle"
        /\ \A d \in Caller \ {c} : call'[d] = call[d]
        /\ u \in known /\ known' \subseteq known
        /\ UNCHANGED <<instances, hostPort, cluster, trouble, released, work>>
    BY <1>0, <1>20 DEF Destroy, Usable, At, Idle, driverVars, slurmVars
  <2>2. instances[u] \cap released = {}
    BY <2>1 DEF ReleasedOnce
  <2>3. QED
    BY <2>1, <2>2, ReleasedFrame DEF ReleasedOnce, Submitted, HasInstance, Iterates
<1>21. ASSUME NEW c \in Caller, Remove(c)
      PROVE  ReleasedOnce'
  <2> DEFINE todo == IF compOf[call[c].uuid] \in RunAfterExit THEN {}
                     ELSE instances[call[c].uuid]
  <2>1. /\ call[c].uuid \in Uuid /\ call[c].pc = "remove"
        /\ UNCHANGED <<instances, hostPort, cluster, trouble, released, known, work>>
    BY <1>21 DEF Remove, At, history, slurmVars, TypeInv, Shape, CallShape, Serves
  <2>2. {d \in Caller : At(d, "remove") /\ call[d].uuid = call[c].uuid} = {c}
    BY <1>0, <2>1 DEF Sessions, At
  <2>3. call' = [d \in Caller |->
                   IF d = c THEN [call[d] EXCEPT !.pc = "cancel",
                   !.todo = todo] ELSE call[d]]
    BY <1>21, <2>2 DEF Remove
  <2>4. /\ call'[c].pc = "cancel" /\ call'[c].todo = todo /\ call'[c].uuid = call[c].uuid
        /\ \A d \in Caller \ {c} : call'[d] = call[d]
    BY <1>0, <2>3 DEF CallState
  <2>5. instances[call[c].uuid] \cap released = {}
    BY <2>1 DEF ReleasedOnce, Iterates
  <2>6. todo \subseteq instances[call[c].uuid] \ released
    BY <2>5
  <2> HIDE DEF todo
  <2>7. /\ released' \subseteq Submitted'
        /\ \A j \in released' : cluster'[j] \in Over
        /\ \A w \in Worker : work'[w].job \notin released'
    BY <2>1 DEF ReleasedOnce, Submitted
  <2>8. ASSUME NEW u \in Uuid, instances'[u] \cap released' # {}
        PROVE  /\ u \notin known'
               /\ \A d \in Caller : call'[d].uuid = u => Iterates(d)'
    BY <2>1, <2>4, <2>8 DEF ReleasedOnce, Iterates
  <2>9. \A d \in Caller :
          /\ HasInstance(d)' => call'[d].job \notin released'
          /\ Iterates(d)' => call'[d].todo \subseteq instances'[call'[d].uuid] \ released'
          /\ call'[d].pc = "release" =>
               call'[d].job \in (instances'[call'[d].uuid] \ released') \ call'[d].todo
    BY <2>1, <2>4, <2>6 DEF ReleasedOnce, HasInstance, Iterates, At
  <2>10. QED
    BY <2>7, <2>8, <2>9 DEF ReleasedOnce, At
<1>22. ASSUME NEW c \in Caller, NEW j \in Job, CancelDone(c, j)
      PROVE  ReleasedOnce'
  <2>1. /\ call[c].uuid \in Uuid /\ call[c].pc = "cancel" /\ j \in call[c].todo
        /\ UNCHANGED <<instances, hostPort, released, known, work>>
    BY <1>0, <1>22
    DEF CancelDone, At, Ahead, history, driverVars, TypeInv, Shape, CallShape, Serves,
        Sessions
  <2>2. /\ call'[c].pc = "release" /\ call'[c].job = j /\ call'[c].todo = call[c].todo \ {j}
        /\ call'[c].uuid = call[c].uuid
        /\ \A d \in Caller \ {c} : call'[d] = call[d]
    BY <1>0, <1>22 DEF CancelDone, Met, CallState
  <2>3. \A k \in Job : cluster[k] \in Over => cluster'[k] \in Over
    BY <1>0, <1>22 DEF CancelDone, Terminate
  <2>4. /\ released' \subseteq Submitted'
        /\ \A k \in released' : cluster'[k] \in Over
        /\ \A w \in Worker : work'[w].job \notin released'
    BY <2>1, <2>3 DEF ReleasedOnce, Submitted
  <2>5. ASSUME NEW u \in Uuid, instances'[u] \cap released' # {}
        PROVE  /\ u \notin known'
               /\ \A d \in Caller : call'[d].uuid = u => Iterates(d)'
    BY <2>1, <2>2, <2>5 DEF ReleasedOnce, Iterates
  <2>6. call[c].todo \subseteq instances[call[c].uuid] \ released
    BY <2>1 DEF ReleasedOnce, Iterates
  <2>7. \A d \in Caller :
          /\ HasInstance(d)' => call'[d].job \notin released'
          /\ Iterates(d)' => call'[d].todo \subseteq instances'[call'[d].uuid] \ released'
          /\ call'[d].pc = "release" =>
               call'[d].job \in (instances'[call'[d].uuid] \ released') \ call'[d].todo
    BY <2>1, <2>2, <2>6 DEF ReleasedOnce, HasInstance, Iterates, At
  <2>8. QED
    BY <2>4, <2>5, <2>7 DEF ReleasedOnce, At
<1>23. ASSUME NEW j \in Job, JobGone(j)
      PROVE  ReleasedOnce'
  BY <1>0, <1>23, ReleasedFrame
  DEF JobGone, At, Idle, CallState, HasInstance, Iterates, ReleasedOnce, Submitted,
      history, driverVars, slurmVars
<1>24. ASSUME NEW c \in Caller, NEW j \in Job, CancelThrows(c, j)
      PROVE  ReleasedOnce'
  <2>1. /\ call[c].pc = "cancel" /\ call'[c].pc = "idle" /\ call'[c].uuid = NoUuid
        /\ \A d \in Caller \ {c} : call'[d] = call[d]
        /\ UNCHANGED <<instances, hostPort, released, known, work>>
    BY <1>0, <1>24 DEF CancelThrows, Throw, Return, At, Idle, CallState, history, driverVars
  <2>2. \A k \in Job : cluster[k] \in Over => cluster'[k] \in Over
    BY <1>0, <1>24 DEF CancelThrows, Terminate
  <2>3. released \subseteq Submitted' /\ released \subseteq Job
    BY <2>1 DEF ReleasedOnce, Submitted
  <2>4. QED
    BY <2>1, <2>2, <2>3, ReleasedFrame DEF ReleasedOnce, HasInstance, Iterates
<1>25. ASSUME NEW c \in Caller, ReleaseInstance(c)
      PROVE  ReleasedOnce'
  <2> DEFINE k == call[c].job
             u == call[c].uuid
  <2>1. /\ u \in Uuid /\ call[c].pc = "release" /\ released' = released \cup {k}
        /\ k \in (instances[u] \ released) \ call[c].todo /\ k \in Submitted
        /\ call[c].todo \subseteq instances[u] \ released
        /\ UNCHANGED <<instances, hostPort, cluster, known, work>>
    BY <1>25
    DEF ReleaseInstance, At, TypeInv, Shape, CallShape, Serves, Holding, ReleasedOnce,
       Iterates
  <2>2. /\ call'[c].pc = "cancel"
        /\ \A d \in Caller \ {c} : call'[d].pc = call[d].pc
        /\ \A d \in Caller : call'[d].uuid = call[d].uuid /\ call'[d].job = call[d].job
        /\ \A d \in Caller : Iterates(d) => call'[d].todo = call[d].todo
    BY <1>25, <2>1, TableWrite DEF At, Iterates
  <2>3. \A d \in Caller \ {c} : call[d].uuid # u
    BY <1>0, <2>1 DEF Sessions
  <2>4. u \notin known
    BY <2>1 DEF Sessions, Destroys
  <2>5. \A v \in Uuid : v # u => k \notin instances[v]
    BY <2>1 DEF OneHolder
  <2>6. /\ \A w \in Worker : work[w].job # k
        /\ \A d \in Caller : HasInstance(d) => call[d].job # k
    BY <2>1 DEF OneHolder
  <2>7. cluster[k] \in Over
    BY <2>1 DEF OrphanInv, CancelledFirst, At
  <2> HIDE DEF k, u
  <2>8. /\ released' \subseteq Submitted'
        /\ \A j \in released' : cluster'[j] \in Over
    BY <2>1, <2>2, <2>7 DEF ReleasedOnce, Submitted
  <2>9. ASSUME NEW v \in Uuid, instances'[v] \cap released' # {}
        PROVE  /\ v \notin known'
               /\ \A d \in Caller : call'[d].uuid = v => Iterates(d)'
    <3>1. CASE v = u
      <4>1. \A d \in Caller : call'[d].uuid = u => d = c
        BY <2>2, <2>3
      <4>2. QED
        BY <2>1, <2>2, <2>4, <3>1, <4>1 DEF Iterates
    <3>2. CASE v # u
      <4>1. instances[v] \cap released # {}
        BY <2>1, <2>5, <2>9, <3>2
      <4>2. v \notin known /\ \A d \in Caller : call[d].uuid = v => Iterates(d)
        BY <4>1 DEF ReleasedOnce
      <4>3. QED
        BY <2>1, <2>2, <4>2 DEF Iterates
    <3>3. QED
      BY <3>1, <3>2
  <2>10. /\ \A w \in Worker : work'[w].job \notin released'
         /\ \A d \in Caller : HasInstance(d)' => call'[d].job \notin released'
    BY <2>1, <2>2, <2>6 DEF ReleasedOnce, HasInstance
  <2>11. ASSUME NEW d \in Caller, Iterates(d)'
         PROVE  /\ call'[d].todo \subseteq instances'[call'[d].uuid] \ released'
                /\ call'[d].pc = "release" =>
                     call'[d].job \in (instances'[call'[d].uuid] \ released') \ call'[d].todo
    <3>1. CASE d = c
      BY <2>1, <2>2, <3>1 DEF k, u, Iterates
    <3>2. CASE d # c
      <4>1. /\ Iterates(d) /\ call[d].uuid \in Uuid /\ call[d].uuid # u
        BY <2>2, <2>3, <2>11, <3>2 DEF Iterates, TypeInv, Shape, CallShape, Serves
      <4>2. k \notin instances[call[d].uuid]
        BY <2>5, <4>1
      <4>3. QED
        BY <2>1, <2>2, <3>2, <4>1, <4>2 DEF ReleasedOnce, Iterates, At
    <3>3. QED
      BY <3>1, <3>2
  <2>12. QED
    BY <2>8, <2>9, <2>10, <2>11 DEF ReleasedOnce, At, Iterates
<1>26. ASSUME NEW c \in Caller, Shutdown(c)
      PROVE  ReleasedOnce'
  BY <1>0, <1>26, ReleasedFrame
  DEF Shutdown, At, Idle, CallState, HasInstance, Iterates, ReleasedOnce, Submitted,
      history, driverVars, slurmVars
<1>27. ASSUME NEW c \in Caller, NEW j \in Job, SweepDone(c, j)
      PROVE  ReleasedOnce'
  <2>1. /\ call[c].pc = "sweep" /\ call'[c].pc = "sweep" /\ call'[c].uuid = call[c].uuid
        /\ \A d \in Caller \ {c} : call'[d] = call[d]
        /\ UNCHANGED <<instances, hostPort, released, known, work>>
    BY <1>0, <1>27 DEF SweepDone, Swept, At, Idle, CallState, history, driverVars
  <2>2. \A k \in Job : cluster[k] \in Over => cluster'[k] \in Over
    BY <1>0, <1>27 DEF SweepDone, Terminate
  <2>3. released \subseteq Submitted' /\ released \subseteq Job
    BY <2>1 DEF ReleasedOnce, Submitted
  <2>4. QED
    BY <2>1, <2>2, <2>3, ReleasedFrame DEF ReleasedOnce, HasInstance, Iterates
<1>29. ASSUME NEW c \in Caller, NEW j \in Job, SweepThrows(c, j)
      PROVE  ReleasedOnce'
  <2>1. /\ call[c].pc = "sweep" /\ call'[c].pc = "idle" /\ call'[c].uuid = NoUuid
        /\ \A d \in Caller \ {c} : call'[d] = call[d]
        /\ UNCHANGED <<instances, hostPort, released, known, work>>
    BY <1>0, <1>29 DEF SweepThrows, Throw, Return, At, Idle, CallState, history, driverVars
  <2>2. \A k \in Job : cluster[k] \in Over => cluster'[k] \in Over
    BY <1>0, <1>29 DEF SweepThrows, Terminate
  <2>3. released \subseteq Submitted' /\ released \subseteq Job
    BY <2>1 DEF ReleasedOnce, Submitted
  <2>4. QED
    BY <2>1, <2>2, <2>3, ReleasedFrame DEF ReleasedOnce, HasInstance, Iterates
<1>30. ASSUME NEW w \in Worker, NEW u \in Uuid, Usable(u), Run(w, u)
      PROVE  ReleasedOnce'
  <2>1. /\ \A v \in Worker : work'[v].job = work[v].job
        /\ UNCHANGED <<instances, hostPort, cluster, trouble, released, known, call>>
    BY <1>0, <1>30 DEF Run, WorkState, history, driverVars, slurmVars
  <2>2. QED
    BY <2>1, ReleasedFrame DEF ReleasedOnce, Submitted, HasInstance, Iterates
<1>31. ASSUME NEW w \in Worker, NEW j \in Job, Take(w, j)
      PROVE  ReleasedOnce'
  <2>0. work[w].uuid \in Uuid /\ work[w].uuid \in known
    <3>1. work[w].pc # "idle"
      BY <1>31 DEF Take
    <3>2. QED
      BY <1>0, <3>1 DEF TypeInv, Shape, WorkShape, Sessions
  <2>1. /\ work[w].uuid \in Uuid /\ work[w].uuid \in known
        /\ instances' = [instances EXCEPT ![work[w].uuid] = @ \ {j}]
        /\ UNCHANGED <<hostPort, cluster, trouble, released, known>>
    BY <1>31, <2>0 DEF Take, history, slurmVars
  <2>2. Destroying(work[w].uuid) = {}
    BY <2>1 DEF Destroying, Sessions, Destroys
  <2>3. \A c \in Caller : call'[c] = call[c]
    BY <1>31, <2>2 DEF Take
  <2>4. j \notin released
    BY <1>31, <2>1 DEF Take, ReleasedOnce
  <2>5. \A v \in Worker : work'[v].job \notin released
    BY <1>0, <1>31, <2>4 DEF Take, WorkState, ReleasedOnce, TypeInv, TypeOK
  <2>6. \A u \in Uuid : instances'[u] \cap released \subseteq instances[u]
    BY <1>0, <2>1, <2>4
  <2>7. \A c \in Caller : Iterates(c) => instances[call[c].uuid] \subseteq instances'[call[c].uuid]
    <3>1. \A c \in Caller : Iterates(c) => call[c].uuid \in Uuid /\ call[c].uuid # work[w].uuid
      BY <1>0, <2>1 DEF Iterates, Sessions, Destroys, TypeInv, Shape, CallShape, Serves
    <3>2. QED
      BY <1>0, <2>1, <3>1
  <2>8. QED
    BY <2>1, <2>3, <2>5, <2>6, <2>7, ReleasedFrame
    DEF ReleasedOnce, Submitted, HasInstance, Iterates
<1>32. ASSUME NEW w \in Worker, PutBack(w)
      PROVE  ReleasedOnce'
  <2>0. work[w].uuid \in Uuid /\ work[w].uuid \in known
    <3>1. work[w].pc # "idle"
      BY <1>32 DEF PutBack
    <3>2. QED
      BY <1>0, <3>1 DEF TypeInv, Shape, WorkShape, Sessions
  <2>1. /\ work[w].uuid \in Uuid /\ work[w].uuid \in known
        /\ instances' = [instances EXCEPT ![work[w].uuid] = @ \cup {work[w].job}]
        /\ UNCHANGED <<hostPort, cluster, trouble, released, known>>
    BY <1>32, <2>0 DEF PutBack, history, slurmVars
  <2>2. Destroying(work[w].uuid) = {}
    BY <2>1 DEF Destroying, Sessions, Destroys
  <2>3. \A c \in Caller : call'[c] = call[c]
    BY <1>32, <2>2 DEF PutBack
  <2>4. work[w].job \notin released
    BY <1>32, <2>1 DEF PutBack, ReleasedOnce
  <2>5. \A v \in Worker : work'[v].job \notin released
    BY <1>0, <1>32, <2>4 DEF PutBack, WorkState, ReleasedOnce, TypeInv, TypeOK
  <2>6. \A u \in Uuid : instances'[u] \cap released \subseteq instances[u]
    BY <1>0, <2>1, <2>4
  <2>7. \A c \in Caller : Iterates(c) => instances[call[c].uuid] \subseteq instances'[call[c].uuid]
    <3>1. \A c \in Caller : Iterates(c) => call[c].uuid \in Uuid /\ call[c].uuid # work[w].uuid
      BY <1>0, <2>1 DEF Iterates, Sessions, Destroys, TypeInv, Shape, CallShape, Serves
    <3>2. QED
      BY <1>0, <2>1, <3>1
  <2>8. QED
    BY <2>1, <2>3, <2>5, <2>6, <2>7, ReleasedFrame
    DEF ReleasedOnce, Submitted, HasInstance, Iterates
<1>33. ASSUME NEW j \in Job, JobEnds(j)
      PROVE  ReleasedOnce'
  BY <1>0, <1>33, ReleasedFrame
  DEF JobEnds, Terminate, At, Idle, CallState, HasInstance, Iterates, ReleasedOnce, Submitted,
      history, driverVars, slurmVars
<1>34. ASSUME ToggleShutdown
      PROVE  ReleasedOnce'
  BY <1>0, <1>34, ReleasedFrame
  DEF ToggleShutdown, At, Idle, CallState, HasInstance, Iterates, ReleasedOnce, Submitted,
      history, driverVars, slurmVars
<1>35. QED
  BY <1>1, <1>2, <1>3, <1>4, <1>5, <1>6, <1>7, <1>8, <1>9, <1>10, <1>11, <1>12,
     <1>13, <1>14, <1>15, <1>16, <1>17, <1>18, <1>19, <1>20, <1>21, <1>22, <1>23,
     <1>24, <1>25, <1>26, <1>27, <1>29, <1>30, <1>31, <1>32, <1>33, <1>34
  DEF Next, Enters, Continues, WorkerNext, Leaves

\* The whole strengthening of GivenBackOnce.
OnceInv ==
  /\ TypeInv
  /\ OrphanInv
  /\ OneHolder
  /\ Sessions
  /\ ReleasedOnce
  /\ GivenBackOnce

\* destroy() gives the port of a job back once, for every number of callers,
\* workers, components and ports, where the workers of a component have been joined
\* before destroy() (the end of a run that does not fail).
THEOREM BackOnce ==
  ASSUME JoinsWorkers
  PROVE  Spec => []GivenBackOnce
<1>1. Init => OnceInv
  <2> SUFFICES ASSUME Init
               PROVE  OnceInv
    OBVIOUS
  <2>1. OneHolder
    BY DEF Init, OneHolder, HasInstance, Idle
  <2>2. Sessions
    BY DriverAssumption DEF Init, Sessions, Destroys, Idle
  <2>3. ReleasedOnce
    BY DEF Init, ReleasedOnce, Iterates, HasInstance, At, Idle
  <2>4. GivenBackOnce
    BY DEF Init, GivenBackOnce
  <2>5. QED
    BY <2>1, <2>2, <2>3, <2>4, InitTypes, InitOrphans DEF OnceInv
<1>2. ASSUME OnceInv, [Next]_vars
      PROVE  GivenBackOnce'
  <2>1. ASSUME NEW c \in Caller, ReleaseInstance(c)
        PROVE  GivenBackOnce'
    BY <1>2, <2>1 DEF OnceInv, ReleasedOnce, ReleaseInstance, GivenBackOnce, At
  <2>2. QED
    BY <1>2, <2>1, WhoReleases DEF OnceInv, GivenBackOnce
<1>3. OnceInv /\ [Next]_vars => OnceInv'
  BY <1>2, TypeStep, OrphanStep, HolderStep, SessionStep, ReleasedStep DEF OnceInv
<1>4. QED
  BY <1>1, <1>3, PTL DEF Spec, OnceInv
=============================================================================
