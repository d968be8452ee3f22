------------------------- MODULE SlurmDriver_proofs -------------------------
(***************************************************************************)
(* Proofs about the Slurm driver, for every set of components, callers and *)
(* workers and every pool of ports.                                        *)
(***************************************************************************)
EXTENDS SlurmDriver, PortManager_proofs, TLAPS

\* The jobs that have been submitted with a port.
Submitted == {j \in Job : hostPort[j] \in Int}

Loading == {"register", "loop", "draw", "submit", "put", "await", "probe"}
Serves == {"take", "ask", "remove", "cancel", "release"}
Holding == {"put", "await", "probe", "ask", "release"}

\* What the local variables of the methods hold at each of their places, and
\* that no collection names a job that was never submitted.
CallShape(r, comp, jobs) ==
  /\ r.pc \in Loading \cup Serves => r.uuid \in Uuid
  /\ r.pc \in Loading => comp[r.uuid] \in Component
  /\ r.pc = "submit" => r.port \in Int
  /\ r.pc \in Holding => r.job \in jobs
  /\ r.todo \subseteq jobs
  /\ r.again \subseteq jobs

WorkShape(w) ==
  /\ work[w].pc # "idle" => work[w].uuid \in Uuid
  /\ work[w].pc = "busy" => work[w].job \in Submitted

Shape ==
  /\ jobMap \subseteq Submitted
  /\ \A u \in Uuid : instances[u] \subseteq Submitted
  /\ \A c \in Caller : CallShape(call[c], compOf, Submitted)
  /\ \A w \in Worker : WorkShape(w)

\* The type invariant with what it needs to be inductive.
TypeInv == TypeOK /\ Shape

USE DEF Over

\* A caller that moves on keeps the shape of all calls.
LEMMA CallMoves ==
  ASSUME TypeInv, NEW c \in Caller, NEW r \in CallState,
         call' = [call EXCEPT ![c] = r],
         CallShape(r, compOf', Submitted'),
         Submitted \subseteq Submitted',
         \A u \in Uuid : compOf[u] \in Component => compOf'[u] \in Component
  PROVE  /\ call' \in [Caller -> CallState]
         /\ \A d \in Caller : CallShape(call'[d], compOf', Submitted')
<1>1. call' \in [Caller -> CallState]
  BY DEF TypeInv, TypeOK
<1>2. \A d \in Caller : d # c => call'[d] = call[d]
  BY DEF TypeInv, TypeOK
<1>3. call'[c] = r
  BY DEF TypeInv, TypeOK
<1>4. ASSUME NEW d \in Caller, d # c
      PROVE  CallShape(call'[d], compOf', Submitted')
  <2>1. CallShape(call[d], compOf, Submitted)
    BY DEF TypeInv, Shape
  <2>2. QED
    BY <1>2, <1>4, <2>1 DEF CallShape, Loading
<1>5. QED
  BY <1>1, <1>3, <1>4

\* The methods of the driver, entered by any caller at any time, and the steps they
\* make: what Next allows without the discipline of Usable and JoinsWorkers.
AnyEnters(c) ==
  \/ \E k \in Component, u \in Uuid : Instantiate(c, k, u)
  \/ \E u \in Uuid : GetTypesystem(c, u) \/ GetTypesystemUnknown(c, u) \/ Destroy(c, u)
  \/ Shutdown(c)
  \/ NoToken(c)

AnyWorker(w) ==
  \/ \E u \in Uuid : Run(w, u)
  \/ \E j \in Job : Take(w, j)
  \/ PutBack(w)

AnyNext ==
  \/ \E c \in Caller : AnyEnters(c) \/ Continues(c)
  \/ \E w \in Worker : AnyWorker(w)
  \/ \E j \in Job : JobEnds(j) \/ JobGone(j)
  \/ ToggleShutdown

\* Caller c leaves a method, and nothing else happens.
Leaves(c) ==
  \/ LoopInterrupted(c) \/ SubmitRejected(c) \/ Unreachable(c) \/ TypesFailed(c)
  \/ RemoveUnknown(c) \/ DestroyReturns(c) \/ SweepReturns(c) \/ NoToken(c)
  \/ \E u \in Uuid : GetTypesystemUnknown(c, u)

\* A method that returns or throws without another effect leaves its caller idle,
\* with no uuid and no instances ahead, and everybody else as they were.
LEMMA Leaving ==
  ASSUME TypeInv, NEW c \in Caller, Leaves(c)
  PROVE  /\ call' \in [Caller -> CallState]
         /\ call[c].pc # "put"
         /\ call'[c].pc = "idle" /\ call'[c].uuid = NoUuid
         /\ call'[c].todo = {} /\ call'[c].again = {}
         /\ \A d \in Caller \ {c} : call'[d] = call[d]
         /\ UNCHANGED <<next, reuse_queue, active, compOf, instances, jobMap, shutdown,
                        hostPort, cluster, trouble, released, doubled, known, work>>
<1>1. PICK r \in Result : call' = [call EXCEPT ![c] = [Idle EXCEPT !.result = r]]
  BY DEF Leaves, LoopInterrupted, SubmitRejected, Unreachable, TypesFailed, RemoveUnknown,
     DestroyReturns, SweepReturns, NoToken, GetTypesystemUnknown, Throw, Return, Result
<1>2. call[c].pc # "put"
  BY DEF Leaves, LoopInterrupted, SubmitRejected, Unreachable, TypesFailed, RemoveUnknown,
     DestroyReturns, SweepReturns, NoToken, GetTypesystemUnknown, At
<1>3. UNCHANGED <<next, reuse_queue, active, compOf, instances, jobMap, shutdown,
                  hostPort, cluster, trouble, released, doubled, known, work>>
  BY DEF Leaves, LoopInterrupted, SubmitRejected, Unreachable, TypesFailed, RemoveUnknown,
     DestroyReturns, SweepReturns, NoToken, GetTypesystemUnknown, poolVars, driverVars,
     slurmVars, history
<1>4. LET r0 == [Idle EXCEPT !.result = r]
      IN  /\ r0 \in CallState /\ r0.pc = "idle" /\ r0.uuid = NoUuid
          /\ r0.todo = {} /\ r0.again = {}
  BY DEF Idle, CallState
<1>5. call \in [Caller -> CallState]
  BY DEF TypeInv, TypeOK
<1>6. QED
  BY <1>1, <1>2, <1>3, <1>4, <1>5

\* What RecordJob and ReleaseInstance make of the job table.
Written(c) == IF At(c, "put") THEN jobMap \cup {call[c].job}
                              ELSE jobMap \ {call[c].job}

\* What writing the job table does: an entry that gets lost is marked, callers
\* that traverse the table may see more or less, the others are not touched.
LEMMA TableWrite ==
  ASSUME TypeInv, NEW c \in Caller, RecordJob(c) \/ ReleaseInstance(c)
  PROVE  /\ jobMap' \subseteq Written(c)
         /\ trouble' \in [Job -> {"none", "lost", "unlisted"}]
         /\ \A j \in Job : trouble'[j] # trouble[j] =>
              trouble[j] = "none" /\ trouble'[j] = "unlisted"
         /\ \A j \in Written(c) \ jobMap' : trouble'[j] # "none"
         /\ call' \in [Caller -> CallState]
         /\ call'[c].pc = IF At(c, "put") THEN "await" ELSE "cancel"
         /\ \A d \in Caller \ {c} : call'[d].pc = call[d].pc
         /\ \A d \in Caller :
              /\ call'[d].uuid = call[d].uuid
              /\ call'[d].port = call[d].port
              /\ call'[d].job = call[d].job
              /\ call'[d].again = call[d].again
              /\ call'[d].todo \subseteq call[d].todo \cup Written(c)
              /\ call[d].pc # "sweep" => call'[d].todo = call[d].todo
              /\ call'[d].result = call[d].result
              /\ Written(c) \subseteq jobMap =>
                   call[d].todo \cap Written(c) \subseteq call'[d].todo
         /\ Written(c) \subseteq Submitted
<1> DEFINE sweepers == {d \in Caller \ {c} : At(d, "sweep")}
           keys == Written(c)
           pc == IF At(c, "put") THEN "await" ELSE "cancel"
           r == [call[c] EXCEPT !.pc = pc]
           seen(d, S, b) == [call[d] EXCEPT !.todo = (@ \cup (keys \ jobMap)) \cap S,
                                            !.flag = @ /\ b]
<1>1. /\ call \in [Caller -> CallState] /\ jobMap \subseteq Submitted
      /\ \A d \in Caller : CallShape(call[d], compOf, Submitted)
      /\ trouble \in [Job -> {"none", "lost", "unlisted"}]
      /\ At(c, "put") \/ At(c, "release")
  BY DEF TypeInv, TypeOK, Shape, RecordJob, ReleaseInstance
<1>2. keys \subseteq Submitted /\ keys \subseteq Job
  BY <1>1 DEF Written, CallShape, Holding, At, Submitted
<1>3. WriteTable(c, keys, r)
  <2>1. CASE RecordJob(c)
    BY <2>1 DEF RecordJob, Written
  <2>2. CASE ReleaseInstance(c)
    <3>1. ~At(c, "put")
      BY <2>2 DEF ReleaseInstance, At
    <3>2. QED
      BY <2>2, <3>1 DEF ReleaseInstance, Written
  <2>3. QED
    BY <2>1, <2>2
<1> HIDE DEF keys
<1>4. PICK sees \in [sweepers -> SUBSET Job], calm \in SUBSET sweepers :
        /\ keys \subseteq jobMap => \A d \in sweepers : keys \subseteq sees[d]
        /\ call' = [d \in Caller |-> IF d = c THEN r
                                     ELSE IF d \in sweepers
                                       THEN seen(d, sees[d], d \in calm)
                                       ELSE call[d]]
  BY <1>3 DEF WriteTable
<1>5. ASSUME NEW d \in sweepers
      PROVE  /\ call'[d] \in CallState
             /\ call'[d].pc = call[d].pc
             /\ call'[d].uuid = call[d].uuid
             /\ call'[d].port = call[d].port
             /\ call'[d].job = call[d].job
             /\ call'[d].again = call[d].again
             /\ call'[d].todo \subseteq call[d].todo \cup keys
             /\ call'[d].result = call[d].result
             /\ keys \subseteq jobMap => call[d].todo \cap keys \subseteq call'[d].todo
  <2>1. PICK T \in SUBSET Job, f \in BOOLEAN :
          /\ T \subseteq call[d].todo \cup keys
          /\ keys \subseteq jobMap => call[d].todo \cap keys \subseteq T
          /\ call'[d] = [call[d] EXCEPT !.todo = T, !.flag = f]
    <3>1. call[d] \in CallState
      BY <1>1
    <3>2. call[d].flag \in BOOLEAN /\ call[d].todo \subseteq Job
      BY <3>1 DEF CallState
    <3>3. /\ (call[d].todo \cup (keys \ jobMap)) \cap sees[d] \in SUBSET Job
          /\ (call[d].todo \cup (keys \ jobMap)) \cap sees[d] \subseteq call[d].todo \cup keys
          /\ keys \subseteq jobMap =>
               call[d].todo \cap keys \subseteq (call[d].todo \cup (keys \ jobMap)) \cap sees[d]
      BY <1>2, <1>4, <3>2
    <3>4. (call[d].flag /\ d \in calm) \in BOOLEAN
      BY <3>2, Zenon
    <3>5. call'[d] = seen(d, sees[d], d \in calm)
      BY <1>4, Zenon
    <3>6. QED
      BY <3>3, <3>4, <3>5, Zenon
  <2>2. call[d] \in CallState
    BY <1>1
  <2>3. LET t == [call[d] EXCEPT !.todo = T, !.flag = f]
        IN  /\ t \in CallState /\ t.todo = T
            /\ t.pc = call[d].pc /\ t.uuid = call[d].uuid /\ t.port = call[d].port
            /\ t.job = call[d].job /\ t.again = call[d].again /\ t.result = call[d].result
    BY <2>2 DEF CallState
  <2>4. QED
    BY <2>1, <2>3, Zenon
<1>6. /\ call'[c] \in CallState
      /\ call'[c].pc = pc
      /\ call'[c].uuid = call[c].uuid
      /\ call'[c].port = call[c].port
      /\ call'[c].job = call[c].job
      /\ call'[c].again = call[c].again
      /\ call'[c].todo = call[c].todo
      /\ call'[c].result = call[c].result
  <2>1. call'[c] = r
    BY <1>4, Zenon
  <2>2. QED
    BY <1>1, <2>1 DEF CallState
<1>7. ASSUME NEW d \in Caller, d # c, d \notin sweepers
      PROVE  call'[d] = call[d]
  BY <1>4, <1>7, Zenon
<1>8. call' \in [Caller -> CallState]
  <2>1. \A d \in Caller : call'[d] \in CallState
    BY <1>1, <1>5, <1>6, <1>7
  <2>2. call' = [d \in Caller |-> call'[d]]
    BY <1>4, Zenon
  <2>3. QED
    BY <2>1, <2>2
<1>9. \A j \in Job : trouble'[j] = IF trouble[j] = "none" /\ j \in keys \ jobMap'
                                     THEN "unlisted" ELSE trouble[j]
  BY <1>3 DEF WriteTable
<1>10. jobMap' \subseteq keys /\ trouble' = [j \in Job |-> trouble'[j]]
  BY <1>3, Zenon DEF WriteTable
<1>11. /\ trouble' \in [Job -> {"none", "lost", "unlisted"}]
       /\ \A j \in Job : trouble'[j] # trouble[j] =>
            trouble[j] = "none" /\ trouble'[j] = "unlisted"
       /\ \A j \in keys \ jobMap' : trouble'[j] # "none"
  BY <1>1, <1>2, <1>9, <1>10
<1>12. ASSUME NEW d \in Caller
       PROVE  /\ call'[d].uuid = call[d].uuid
              /\ call'[d].port = call[d].port
              /\ call'[d].job = call[d].job
              /\ call'[d].again = call[d].again
              /\ call'[d].todo \subseteq call[d].todo \cup keys
              /\ call[d].pc # "sweep" => call'[d].todo = call[d].todo
              /\ d # c => call'[d].pc = call[d].pc
              /\ call'[d].result = call[d].result
              /\ keys \subseteq jobMap => call[d].todo \cap keys \subseteq call'[d].todo
  <2>1. d = c \/ d \in sweepers \/ (d # c /\ d \notin sweepers)
    OBVIOUS
  <2>2. d \in sweepers => call[d].pc = "sweep"
    BY DEF At
  <2>3. QED
    BY <1>5, <1>6, <1>7, <2>1, <2>2
<1>13. QED
  BY <1>2, <1>6, <1>8, <1>10, <1>11, <1>12 DEF keys

\* Every step keeps the variables in their types and the calls in shape.
LEMMA TypeAny ==
  ASSUME TypeInv, [AnyNext]_vars
  PROVE  TypeInv'
<1> USE PoolAssumption, DriverAssumption
<1>0. ASSUME NEW c \in Caller
      PROVE  call[c] \in CallState /\ CallShape(call[c], compOf, Submitted)
  BY DEF TypeInv, TypeOK, Shape
<1>1. CASE UNCHANGED vars
  BY <1>1 DEF vars, TypeInv, TypeOK, Shape, CallShape, WorkShape, Submitted
<1>2. ASSUME NEW c \in Caller, NEW k \in Component, NEW u \in Uuid, Instantiate(c, k, u)
      PROVE  TypeInv'
  <2> DEFINE r == [Idle EXCEPT !.pc = "register", !.uuid = u]
  <2>2. r \in CallState
    BY <1>0 DEF Idle, Result, CallState
  <2>3. CallShape(r, compOf', Submitted')
    BY <1>0, <1>2
    DEF Instantiate, At, CallState, CallShape, TypeInv, TypeOK, Shape, Submitted,
       Idle, Loading, Serves, Holding, driverVars, slurmVars
  <2>4. call' = [call EXCEPT ![c] = r]
    BY <1>2 DEF Instantiate
  <2>5. QED
    BY <1>0, <1>2, <2>2, <2>3, <2>4, CallMoves
    DEF Instantiate, At, CallShape, TypeInv, TypeOK, Shape, WorkShape, Submitted,
        Loading, Serves, Holding, poolVars, driverVars, slurmVars, history
<1>3. ASSUME NEW c \in Caller, Register(c)
      PROVE  TypeInv'
  <2> DEFINE r == [call[c] EXCEPT !.pc = "loop"]
  <2>2. r \in CallState
    BY <1>0 DEF CallState
  <2>3. CallShape(r, compOf', Submitted')
    BY <1>0, <1>3 DEF Register, At, CallState, CallShape, TypeInv, TypeOK, Shape, Submitted,
       Loading, Serves, Holding, driverVars, slurmVars
  <2>4. call' = [call EXCEPT ![c] = r]
    BY <1>3 DEF Register
  <2>5. QED
    BY <1>0, <1>3, <2>2, <2>3, <2>4, CallMoves
    DEF Register, WriteComponents, At, CallShape, TypeInv, TypeOK, Shape, WorkShape,
        Submitted,
        Loading, Serves, Holding, poolVars, driverVars, slurmVars, history
<1>4. ASSUME NEW c \in Caller, LoopDone(c)
      PROVE  TypeInv'
  <2> DEFINE r == [Idle EXCEPT !.result = IF shutdown THEN "null" ELSE "uuid"]
  <2>2. r \in CallState
    BY <1>0 DEF Idle, Result, CallState
  <2>3. CallShape(r, compOf', Submitted')
    BY <1>0, <1>4
    DEF LoopDone, Return, At, CallState, CallShape, TypeInv, TypeOK, Shape, Submitted,
       Idle, Loading, Serves, Holding, driverVars, slurmVars
  <2>4. call' = [call EXCEPT ![c] = r]
    BY <1>4 DEF LoopDone, Return
  <2>5. QED
    BY <1>0, <1>4, <2>2, <2>3, <2>4, CallMoves
    DEF LoopDone, Return, At, CallShape, TypeInv, TypeOK, Shape, WorkShape, Submitted,
        Loading, Serves, Holding, poolVars, driverVars, slurmVars, history
<1>5. ASSUME NEW c \in Caller, Leaves(c)
      PROVE  TypeInv'
  <2>1. \A d \in Caller : CallShape(call[d], compOf, Submitted)'
    BY <1>0, <1>5, Leaving DEF CallShape, Loading, Serves, Holding, Submitted
  <2>2. QED
    BY <1>5, <2>1, Leaving DEF TypeInv, TypeOK, Shape, WorkShape, Submitted
<1>6. ASSUME NEW c \in Caller, AssignChosen(c)
      PROVE  TypeInv'
  <2> DEFINE r == [call[c] EXCEPT !.pc = "submit", !.port = ChosenPort[Comp(c)]]
  <2>1. Comp(c) \in Component /\ ChosenPort[Comp(c)] \in Int
    BY <1>0, <1>6 DEF AssignChosen, WantsPort, At, Comp, CallShape, Loading
  <2>2. r \in CallState
    BY <1>0, <2>1 DEF CallState
  <2>3. CallShape(r, compOf', Submitted')
    BY <1>0, <2>1, <1>6
    DEF AssignChosen, WantsPort, GotPort, At, CallState, CallShape, TypeInv, TypeOK,
        Shape, Submitted,
       Loading, Serves, Holding, driverVars, slurmVars
  <2>4. call' = [call EXCEPT ![c] = r]
    BY <1>6 DEF AssignChosen, WantsPort, GotPort
  <2>5. QED
    BY <1>0, <1>6, <2>2, <2>3, <2>4, CallMoves
    DEF AssignChosen, WantsPort, GotPort, Comp, At, CallShape, TypeInv, TypeOK, Shape,
        WorkShape, Submitted,
        Loading, Serves, Holding, poolVars, driverVars, slurmVars, history
<1>7. ASSUME NEW c \in Caller, NEW p \in PoolPorts, AssignReused(c, p)
      PROVE  TypeInv'
  <2> DEFINE r == [call[c] EXCEPT !.pc = "submit", !.port = p]
  <2>1. p \in Int
    BY DEF PoolPorts
  <2>0. reuse_queue' \in Seq(PoolPorts) /\ UNCHANGED next
    BY <1>7 DEF AssignReused, PollReused, TypeInv, TypeOK
  <2>2. r \in CallState
    BY <1>0, <2>1 DEF CallState
  <2>3. CallShape(r, compOf', Submitted')
    BY <1>0, <2>1, <1>7
    DEF AssignReused, WantsPort, GotPort, At, CallState, CallShape, TypeInv, TypeOK,
        Shape, Submitted,
       Loading, Serves, Holding, driverVars, slurmVars
  <2>4. call' = [call EXCEPT ![c] = r]
    BY <1>7 DEF AssignReused, WantsPort, GotPort
  <2>5. QED
    BY <1>0, <1>7, <2>0, <2>2, <2>3, <2>4, CallMoves
    DEF AssignReused, WantsPort, GotPort, At, CallShape, TypeInv, TypeOK, Shape,
        WorkShape, Submitted,
        Loading, Serves, Holding, poolVars, driverVars, slurmVars, history
<1>8. ASSUME NEW c \in Caller, AssignMiss(c)
      PROVE  TypeInv'
  <2> DEFINE r == [call[c] EXCEPT !.pc = "draw"]
  <2>2. r \in CallState
    BY <1>0 DEF CallState
  <2>3. CallShape(r, compOf', Submitted')
    BY <1>0, <1>8
    DEF AssignMiss, WantsPort, At, CallState, CallShape, TypeInv, TypeOK, Shape, Submitted,
       Loading, Serves, Holding, driverVars, slurmVars
  <2>4. call' = [call EXCEPT ![c] = r]
    BY <1>8 DEF AssignMiss, WantsPort
  <2>5. QED
    BY <1>0, <1>8, <2>2, <2>3, <2>4, CallMoves
    DEF AssignMiss, WantsPort, PollEmpty, At, CallShape, TypeInv, TypeOK, Shape,
        WorkShape, Submitted,
        Loading, Serves, Holding, poolVars, driverVars, slurmVars, history
<1>9. ASSUME NEW c \in Caller, NEW p \in PoolPorts, AssignFresh(c, p)
      PROVE  TypeInv'
  <2> DEFINE r == [call[c] EXCEPT !.pc = "submit", !.port = p]
  <2>1. p \in Int
    BY DEF PoolPorts
  <2>2. r \in CallState
    BY <1>0, <2>1 DEF CallState
  <2>3. CallShape(r, compOf', Submitted')
    BY <1>0, <2>1, <1>9
    DEF AssignFresh, GotPort, At, CallState, CallShape, TypeInv, TypeOK, Shape, Submitted,
       Loading, Serves, Holding, driverVars, slurmVars
  <2>4. call' = [call EXCEPT ![c] = r]
    BY <1>9 DEF AssignFresh, GotPort
  <2>5. QED
    BY <1>0, <1>9, <2>2, <2>3, <2>4, CallMoves
    DEF AssignFresh, GotPort, DrawFresh, At, CallShape, TypeInv, TypeOK, Shape,
        WorkShape, Submitted,
        Loading, Serves, Holding, poolVars, driverVars, slurmVars, history
<1>10. ASSUME NEW c \in Caller, AssignFail(c)
      PROVE  TypeInv'
  <2> DEFINE r == [Idle EXCEPT !.result = "exception"]
  <2>2. r \in CallState
    BY <1>0 DEF Idle, Result, CallState
  <2>3. CallShape(r, compOf', Submitted')
    BY <1>0, <1>10
    DEF AssignFail, Throw, Return, At, CallState, CallShape, TypeInv, TypeOK, Shape,
        Submitted,
       Idle, Loading, Serves, Holding, driverVars, slurmVars
  <2>4. call' = [call EXCEPT ![c] = r]
    BY <1>10 DEF AssignFail, Throw, Return
  <2>5. QED
    BY <1>0, <1>10, <2>2, <2>3, <2>4, CallMoves
    DEF AssignFail, DrawExhausted, Throw, Return, At, CallShape, TypeInv, TypeOK, Shape,
        WorkShape, Submitted,
        Loading, Serves, Holding, poolVars, driverVars, slurmVars, history
<1>11. ASSUME NEW c \in Caller, NEW j \in Job, SubmitAccepted(c, j)
      PROVE  TypeInv'
  <2> DEFINE r == [call[c] EXCEPT !.pc = "put", !.job = j]
  <2>2. r \in CallState
    BY <1>0 DEF CallState
  <2>3. CallShape(r, compOf', Submitted')
    BY <1>0, <1>11
    DEF SubmitAccepted, Started, At, CallState, CallShape, TypeInv, TypeOK, Shape,
        Submitted,
       Loading, Serves, Holding, driverVars, slurmVars
  <2>4. call' = [call EXCEPT ![c] = r]
    BY <1>11 DEF SubmitAccepted, Started
  <2>5. QED
    BY <1>0, <1>11, <2>2, <2>3, <2>4, CallMoves
    DEF SubmitAccepted, Started, At, CallShape, TypeInv, TypeOK, Shape, WorkShape,
        Submitted,
        Loading, Serves, Holding, poolVars, driverVars, slurmVars, history
<1>12. ASSUME NEW c \in Caller, NEW j \in Job, SubmitLost(c, j)
      PROVE  TypeInv'
  <2> DEFINE r == [Idle EXCEPT !.result = "exception"]
  <2>2. r \in CallState
    BY <1>0 DEF Idle, Result, CallState
  <2>3. CallShape(r, compOf', Submitted')
    BY <1>0, <1>12
    DEF SubmitLost, Started, Throw, Return, At, CallState, CallShape, TypeInv, TypeOK,
        Shape, Submitted,
       Idle, Loading, Serves, Holding, driverVars, slurmVars
  <2>4. call' = [call EXCEPT ![c] = r]
    BY <1>12 DEF SubmitLost, Started, Throw, Return
  <2>5. QED
    BY <1>0, <1>12, <2>2, <2>3, <2>4, CallMoves
    DEF SubmitLost, Started, Throw, Return, At, CallShape, TypeInv, TypeOK, Shape,
        WorkShape, Submitted,
        Loading, Serves, Holding, poolVars, driverVars, slurmVars, history
<1>13. ASSUME NEW c \in Caller, RecordJob(c)
      PROVE  TypeInv'
  <2>1. UNCHANGED <<active, compOf, instances, shutdown, hostPort, cluster, work, known>>
        /\ Submitted' = Submitted
    BY <1>13 DEF RecordJob, history, Submitted
  <2>2. ASSUME NEW d \in Caller
        PROVE  CallShape(call[d], compOf, Submitted)'
    <3>1. CASE d = c
      BY <1>0, <1>13, <2>1, <3>1, TableWrite
      DEF CallShape, Loading, Serves, Holding, RecordJob, At
    <3>2. CASE d # c
      BY <1>0, <1>13, <2>1, <3>2, TableWrite
      DEF CallShape, Loading, Serves, Holding
    <3>3. QED
      BY <3>1, <3>2
  <2>3. /\ jobMap' \subseteq Submitted /\ jobMap' \subseteq Job
        /\ trouble' \in [Job -> {"none", "lost", "unlisted"}]
        /\ call' \in [Caller -> CallState]
    BY <1>13, TableWrite DEF Submitted
  <2>4. QED
    BY <1>13, <2>1, <2>2, <2>3
    DEF RecordJob, TypeInv, TypeOK, Shape, WorkShape, poolVars, history
<1>14. ASSUME NEW c \in Caller, Reachable(c)
      PROVE  TypeInv'
  <2> DEFINE r == [call[c] EXCEPT !.pc = "probe"]
  <2>2. r \in CallState
    BY <1>0 DEF CallState
  <2>3. CallShape(r, compOf', Submitted')
    BY <1>0, <1>14
    DEF Reachable, At, CallState, CallShape, TypeInv, TypeOK, Shape, Submitted,
       Loading, Serves, Holding, driverVars, slurmVars
  <2>4. call' = [call EXCEPT ![c] = r]
    BY <1>14 DEF Reachable
  <2>5. QED
    BY <1>0, <1>14, <2>2, <2>3, <2>4, CallMoves
    DEF Reachable, At, CallShape, TypeInv, TypeOK, Shape, WorkShape, Submitted,
        Loading, Serves, Holding, poolVars, driverVars, slurmVars, history
<1>15. ASSUME NEW c \in Caller, ProbeAnswered(c)
      PROVE  TypeInv'
  <2> DEFINE r == [Idle EXCEPT !.pc = "loop", !.uuid = call[c].uuid,
                                 !.i = call[c].i + 1]
  <2>1. call[c].uuid \in Uuid \cup {NoUuid} /\ call[c].i + 1 \in Nat
    BY <1>0 DEF CallState
  <2>2. r \in CallState
    BY <2>1 DEF Idle, Result, CallState
  <2>3. CallShape(r, compOf', Submitted')
    BY <1>0, <1>15
    DEF ProbeAnswered, NextRound, At, CallState, CallShape, TypeInv, TypeOK, Shape,
        Submitted,
       Idle, Loading, Serves, Holding, driverVars, slurmVars
  <2>4. call' = [call EXCEPT ![c] = r]
    BY <1>15 DEF ProbeAnswered, NextRound
  <2>5. QED
    BY <1>0, <1>15, <2>2, <2>3, <2>4, CallMoves
    DEF ProbeAnswered, NextRound, At, CallShape, TypeInv, TypeOK, Shape, WorkShape,
        Submitted,
        Loading, Serves, Holding, poolVars, driverVars, slurmVars, history
<1>16. ASSUME NEW c \in Caller, ProbeFailed(c)
      PROVE  TypeInv'
  <2> DEFINE r == [Idle EXCEPT !.pc = "loop", !.uuid = call[c].uuid,
                                 !.i = call[c].i + 1]
  <2>1. call[c].uuid \in Uuid \cup {NoUuid} /\ call[c].i + 1 \in Nat
    BY <1>0 DEF CallState
  <2>2. r \in CallState
    BY <2>1 DEF Idle, Result, CallState
  <2>3. CallShape(r, compOf', Submitted')
    BY <1>0, <1>16
    DEF ProbeFailed, NextRound, At, CallState, CallShape, TypeInv, TypeOK, Shape, Submitted,
       Idle, Loading, Serves, Holding, driverVars, slurmVars
  <2>4. call' = [call EXCEPT ![c] = r]
    BY <1>16 DEF ProbeFailed, NextRound
  <2>5. QED
    BY <1>0, <1>16, <2>2, <2>3, <2>4, CallMoves
    DEF ProbeFailed, NextRound, At, CallShape, TypeInv, TypeOK, Shape, WorkShape, Submitted,
        Loading, Serves, Holding, poolVars, driverVars, slurmVars, history
<1>17. ASSUME NEW c \in Caller, NEW u \in Uuid, GetTypesystem(c, u)
      PROVE  TypeInv'
  <2> DEFINE r == [Idle EXCEPT !.pc = "take", !.uuid = u]
  <2>2. r \in CallState
    BY <1>0 DEF Idle, Result, CallState
  <2>3. CallShape(r, compOf', Submitted')
    BY <1>0, <1>17
    DEF GetTypesystem, At, CallState, CallShape, TypeInv, TypeOK, Shape, Submitted,
       Idle, Loading, Serves, Holding, driverVars, slurmVars
  <2>4. call' = [call EXCEPT ![c] = r]
    BY <1>17 DEF GetTypesystem
  <2>5. QED
    BY <1>0, <1>17, <2>2, <2>3, <2>4, CallMoves
    DEF GetTypesystem, At, CallShape, TypeInv, TypeOK, Shape, WorkShape, Submitted,
        Loading, Serves, Holding, poolVars, driverVars, slurmVars, history
<1>18. ASSUME NEW c \in Caller, NEW j \in Job, TakeForTypes(c, j)
      PROVE  TypeInv'
  <2> DEFINE r == [call[c] EXCEPT !.pc = "ask", !.job = j]
  <2>2. r \in CallState
    BY <1>0 DEF CallState
  <2>3. CallShape(r, compOf', Submitted')
    BY <1>0, <1>18
    DEF TakeForTypes, At, CallState, CallShape, TypeInv, TypeOK, Shape, Submitted,
       Loading, Serves, Holding, driverVars, slurmVars
  <2>4. call' = [call EXCEPT ![c] = r]
    BY <1>18 DEF TakeForTypes
  <2>5. QED
    BY <1>0, <1>18, <2>2, <2>3, <2>4, CallMoves
    DEF TakeForTypes, At, CallShape, TypeInv, TypeOK, Shape, WorkShape, Submitted,
        Loading, Serves, Holding, poolVars, driverVars, slurmVars, history
<1>19. ASSUME NEW c \in Caller, TypesAnswered(c)
      PROVE  TypeInv'
  <2> DEFINE r == [Idle EXCEPT !.result = "types"]
  <2>2. r \in CallState
    BY <1>0 DEF Idle, Result, CallState
  <2>3. CallShape(r, compOf', Submitted')
    BY <1>0, <1>19
    DEF TypesAnswered, Return, At, CallState, CallShape, TypeInv, TypeOK, Shape, Submitted,
       Idle, Loading, Serves, Holding, driverVars, slurmVars
  <2>4. call' = [call EXCEPT ![c] = r]
    BY <1>19 DEF TypesAnswered, Return
  <2>5. QED
    BY <1>0, <1>19, <2>2, <2>3, <2>4, CallMoves
    DEF TypesAnswered, Return, At, CallShape, TypeInv, TypeOK, Shape, WorkShape, Submitted,
        Loading, Serves, Holding, poolVars, driverVars, slurmVars, history
<1>20. ASSUME NEW c \in Caller, NEW u \in Uuid, Destroy(c, u)
      PROVE  TypeInv'
  <2> DEFINE r == [Idle EXCEPT !.pc = "remove", !.uuid = u]
  <2>2. r \in CallState
    BY <1>0 DEF Idle, Result, CallState
  <2>3. CallShape(r, compOf', Submitted')
    BY <1>0, <1>20 DEF Destroy, At, CallState, CallShape, TypeInv, TypeOK, Shape, Submitted,
       Idle, Loading, Serves, Holding, driverVars, slurmVars
  <2>4. call' = [call EXCEPT ![c] = r]
    BY <1>20 DEF Destroy
  <2>5. QED
    BY <1>0, <1>20, <2>2, <2>3, <2>4, CallMoves
    DEF Destroy, At, CallShape, TypeInv, TypeOK, Shape, WorkShape, Submitted,
        Loading, Serves, Holding, poolVars, driverVars, slurmVars, history
<1>21. ASSUME NEW c \in Caller, Remove(c)
      PROVE  TypeInv'
  <2> DEFINE todo == IF compOf[call[c].uuid] \in RunAfterExit THEN {}
                     ELSE instances[call[c].uuid]
             met(d) == [call[d] EXCEPT !.pc = "cancel", !.todo = todo]
  <2>1. call[c].uuid \in Uuid
    BY <1>21, <1>0 DEF Remove, At, CallShape, Serves
  <2>2. todo \subseteq Submitted /\ todo \subseteq Job
    BY <2>1 DEF TypeInv, Shape, Submitted
  <2>3. PICK got \in SUBSET {d \in Caller : At(d, "remove")} :
          call' = [d \in Caller |-> IF d \in got THEN met(d) ELSE call[d]]
    BY <1>21 DEF Remove
  <2>4. UNCHANGED <<compOf, hostPort>> /\ Submitted' = Submitted
    BY <1>21 DEF Remove, slurmVars, Submitted
  <2> HIDE DEF todo
  <2>5. ASSUME NEW d \in got
        PROVE  met(d) \in CallState /\ CallShape(met(d), compOf, Submitted)
    <3>1. /\ met(d) \in CallState /\ met(d).pc = "cancel" /\ met(d).uuid = call[d].uuid
          /\ met(d).todo = todo /\ met(d).again = call[d].again
      BY <1>0, <2>2, <2>3 DEF CallState
    <3>2. call[d].uuid \in Uuid
      BY <1>0, <2>3 DEF At, CallShape, Serves
    <3>3. QED
      BY <1>0, <2>2, <2>3, <3>1, <3>2 DEF CallShape, Loading, Holding, Serves
  <2> HIDE DEF met
  <2>6. call' \in [Caller -> CallState]
    BY <1>0, <2>3, <2>5
  <2>7. \A d \in Caller : CallShape(call'[d], compOf, Submitted)
    BY <1>0, <2>3, <2>5
  <2>8. \A d \in Caller : CallShape(call[d], compOf, Submitted)'
    BY <2>4, <2>7 DEF CallShape
  <2>9. QED
    BY <1>21, <2>1, <2>6, <2>8
    DEF Remove, WriteComponents, TypeInv, TypeOK, Shape, WorkShape, Submitted,
        poolVars, slurmVars, history
<1>22. ASSUME NEW c \in Caller, NEW j \in Job, CancelDone(c, j)
      PROVE  TypeInv'
  <2> DEFINE r == Met(c, j)
  <2>1. j \in Submitted
    BY <1>0, <1>22 DEF CancelDone, Ahead, CallShape
  <2>2. r \in CallState
    BY <1>0 DEF Met, CallState
  <2>3. CallShape(r, compOf', Submitted')
    BY <1>0, <2>1, <1>22
    DEF CancelDone, Met, Terminate, Ahead, At, CallState, CallShape, TypeInv, TypeOK, Shape,
        Submitted,
       Loading, Serves, Holding, driverVars, slurmVars
  <2>4. call' = [call EXCEPT ![c] = r]
    BY <1>22 DEF CancelDone, Met, Terminate, Ahead
  <2>5. QED
    BY <1>0, <1>22, <2>2, <2>3, <2>4, CallMoves
    DEF CancelDone, Met, Terminate, Ahead, At, CallShape, TypeInv, TypeOK, Shape, WorkShape,
        Submitted,
        Loading, Serves, Holding, poolVars, driverVars, slurmVars, history
<1>23. ASSUME NEW j \in Job, JobGone(j)
      PROVE  TypeInv'
  BY <1>23 DEF JobGone, TypeInv, TypeOK, Shape, CallShape, WorkShape, Submitted,
     poolVars, driverVars, slurmVars, history
<1>24. ASSUME NEW c \in Caller, NEW j \in Job, CancelThrows(c, j)
      PROVE  TypeInv'
  <2> DEFINE r == [Idle EXCEPT !.result = "exception"]
  <2>2. r \in CallState
    BY <1>0 DEF Idle, Result, CallState
  <2>3. CallShape(r, compOf', Submitted')
    BY <1>0, <1>24
    DEF CancelThrows, Terminate, Throw, Return, At, CallState, CallShape, TypeInv, TypeOK,
        Shape, Submitted,
       Idle, Loading, Serves, Holding, driverVars, slurmVars
  <2>4. call' = [call EXCEPT ![c] = r]
    BY <1>24 DEF CancelThrows, Terminate, Throw, Return
  <2>5. QED
    BY <1>0, <1>24, <2>2, <2>3, <2>4, CallMoves
    DEF CancelThrows, Terminate, Throw, Return, At, CallShape, TypeInv, TypeOK, Shape,
        WorkShape, Submitted,
        Loading, Serves, Holding, poolVars, driverVars, slurmVars, history
<1>25. ASSUME NEW c \in Caller, ReleaseInstance(c)
      PROVE  TypeInv'
  <2>1. UNCHANGED <<active, compOf, instances, shutdown, hostPort, cluster, work, known>>
        /\ Submitted' = Submitted
    BY <1>25 DEF ReleaseInstance, history, Submitted
  <2>2. ASSUME NEW d \in Caller
        PROVE  CallShape(call[d], compOf, Submitted)'
    <3>1. CASE d = c
      BY <1>0, <1>25, <2>1, <3>1, TableWrite
      DEF CallShape, Loading, Serves, Holding, ReleaseInstance, At
    <3>2. CASE d # c
      BY <1>0, <1>25, <2>1, <3>2, TableWrite
      DEF CallShape, Loading, Serves, Holding
    <3>3. QED
      BY <3>1, <3>2
  <2>3. /\ jobMap' \subseteq Submitted /\ jobMap' \subseteq Job
        /\ trouble' \in [Job -> {"none", "lost", "unlisted"}]
        /\ call' \in [Caller -> CallState]
    BY <1>25, TableWrite DEF Submitted
  <2>4. call[c].job \in Job /\ hostPort[call[c].job] \in Int
    BY <1>0, <1>25 DEF ReleaseInstance, At, CallShape, Holding, Submitted
  <2>5. reuse_queue' \in Seq(PoolPorts) /\ UNCHANGED next /\ released' \subseteq Job
    BY <1>25, <2>4, ReleaseType DEF ReleaseInstance, Release, TypeInv, TypeOK
  <2>6. doubled' \subseteq Int
    BY <1>25, <2>4 DEF ReleaseInstance, TypeInv, TypeOK
  <2>7. QED
    BY <2>1, <2>2, <2>3, <2>5, <2>6 DEF TypeInv, TypeOK, Shape, WorkShape
<1>26. ASSUME NEW c \in Caller, Shutdown(c)
      PROVE  TypeInv'
  <2> DEFINE r == [Idle EXCEPT !.pc = "sweep", !.todo = jobMap]
  <2>2. r \in CallState
    BY <1>0 DEF Idle, Result, TypeInv, TypeOK, CallState
  <2>3. CallShape(r, compOf', Submitted')
    BY <1>0, <1>26
    DEF Shutdown, At, CallState, CallShape, TypeInv, TypeOK, Shape, Submitted,
       Idle, Loading, Serves, Holding, driverVars, slurmVars
  <2>4. call' = [call EXCEPT ![c] = r]
    BY <1>26 DEF Shutdown
  <2>5. QED
    BY <1>0, <1>26, <2>2, <2>3, <2>4, CallMoves
    DEF Shutdown, At, CallShape, TypeInv, TypeOK, Shape, WorkShape, Submitted,
        Loading, Serves, Holding, poolVars, driverVars, slurmVars, history
<1>27. ASSUME NEW c \in Caller, NEW j \in Job, SweepDone(c, j)
      PROVE  TypeInv'
  <2> DEFINE r == [call[c] EXCEPT !.todo = @ \ {j}]
  <2>2. r \in CallState
    BY <1>0 DEF CallState
  <2>3. CallShape(r, compOf', Submitted')
    BY <1>0, <1>27
    DEF SweepDone, Terminate, Swept, At, CallState, CallShape, TypeInv, TypeOK, Shape,
        Submitted,
       Loading, Serves, Holding, driverVars, slurmVars
  <2>4. call' = [call EXCEPT ![c] = r]
    BY <1>27 DEF SweepDone, Terminate, Swept
  <2>5. QED
    BY <1>0, <1>27, <2>2, <2>3, <2>4, CallMoves
    DEF SweepDone, Terminate, Swept, At, CallShape, TypeInv, TypeOK, Shape, WorkShape,
        Submitted,
        Loading, Serves, Holding, poolVars, driverVars, slurmVars, history
<1>29. ASSUME NEW c \in Caller, NEW j \in Job, SweepThrows(c, j)
      PROVE  TypeInv'
  <2> DEFINE r == [Idle EXCEPT !.result = "exception"]
  <2>2. r \in CallState
    BY <1>0 DEF Idle, Result, CallState
  <2>3. CallShape(r, compOf', Submitted')
    BY <1>0, <1>29
    DEF SweepThrows, Terminate, Throw, Return, At, CallState, CallShape, TypeInv, TypeOK,
        Shape, Submitted,
       Idle, Loading, Serves, Holding, driverVars, slurmVars
  <2>4. call' = [call EXCEPT ![c] = r]
    BY <1>29 DEF SweepThrows, Terminate, Throw, Return
  <2>5. QED
    BY <1>0, <1>29, <2>2, <2>3, <2>4, CallMoves
    DEF SweepThrows, Terminate, Throw, Return, At, CallShape, TypeInv, TypeOK, Shape,
        WorkShape, Submitted,
        Loading, Serves, Holding, poolVars, driverVars, slurmVars, history
<1>30. ASSUME NEW w \in Worker, NEW u \in Uuid, Run(w, u)
      PROVE  TypeInv'
  <2> DEFINE r == [work[w] EXCEPT !.pc = "wait", !.uuid = u]
  <2>1. work[w] \in WorkState /\ work[w].pc = "idle" /\ work' = [work EXCEPT ![w] = r]
    BY <1>30 DEF Run, TypeInv, TypeOK
  <2>2. r \in WorkState /\ r.pc = "wait" /\ r.uuid = u
    BY <2>1 DEF WorkState
  <2> HIDE DEF r
  <2>3. work' \in [Worker -> WorkState]
    BY <2>1, <2>2 DEF TypeInv, TypeOK
  <2>4. \A v \in Worker : WorkShape(v)'
    <3>1. Submitted' = Submitted
      BY <1>30 DEF Run, Submitted, slurmVars
    <3>2. \A v \in Worker : work'[v] = IF v = w THEN r ELSE work[v]
      BY <2>1 DEF TypeInv, TypeOK
    <3>3. QED
      BY <2>2, <3>1, <3>2 DEF TypeInv, Shape, WorkShape
  <2>5. QED
    BY <1>30, <2>3, <2>4 DEF Run, TypeInv, TypeOK, Shape, CallShape, Submitted, poolVars,
       driverVars, slurmVars, history
<1>31. ASSUME NEW w \in Worker, NEW j \in Job, Take(w, j)
      PROVE  TypeInv'
  <2>1. /\ work[w] \in WorkState /\ work[w].uuid \in Uuid
        /\ UNCHANGED <<compOf, hostPort>> /\ Submitted' = Submitted
    BY <1>31 DEF Take, TypeInv, TypeOK, Shape, WorkShape, WorkState, Submitted, slurmVars
  <2>2. /\ work' \in [Worker -> WorkState]
        /\ \A v \in Worker : WorkShape(v)'
    BY <1>31, <2>1 DEF Take, TypeInv, TypeOK, Shape, WorkShape, WorkState
  <2>3. /\ instances' \in [Uuid -> SUBSET Job]
        /\ \A u \in Uuid : instances'[u] \subseteq Submitted
    BY <1>31, <2>1 DEF Take, TypeInv, TypeOK, Shape, Submitted
  <2> DEFINE met(c) == [call[c] EXCEPT !.todo = @ \ {j}, !.again = @ \ {j}]
  <2>4. PICK skip \in SUBSET Caller :
          call' = [c \in Caller |-> IF c \in skip THEN met(c) ELSE call[c]]
    BY <1>31 DEF Take, Destroying
  <2>5. ASSUME NEW c \in Caller
        PROVE  met(c) \in CallState /\ CallShape(met(c), compOf, Submitted)
    BY <1>0 DEF CallState, CallShape
  <2> HIDE DEF met
  <2>6. call' \in [Caller -> CallState] /\ \A c \in Caller : CallShape(call'[c], compOf, Submitted)
    BY <1>0, <2>4, <2>5
  <2>7. \A c \in Caller : CallShape(call[c], compOf, Submitted)'
    BY <2>1, <2>6 DEF CallShape
  <2>8. QED
    BY <1>31, <2>1, <2>2, <2>3, <2>6, <2>7
    DEF Take, TypeInv, TypeOK, Shape, poolVars, slurmVars, history
<1>32. ASSUME NEW w \in Worker, PutBack(w)
      PROVE  TypeInv'
  <2>1. /\ work[w] \in WorkState /\ work[w].uuid \in Uuid /\ work[w].job \in Submitted
        /\ UNCHANGED <<compOf, hostPort>> /\ Submitted' = Submitted
    BY <1>32 DEF PutBack, TypeInv, TypeOK, Shape, WorkShape, WorkState, Submitted, slurmVars
  <2>2. /\ work' \in [Worker -> WorkState]
        /\ \A v \in Worker : WorkShape(v)'
    BY <1>32, <2>1 DEF PutBack, TypeInv, TypeOK, Shape, WorkShape, WorkState
  <2>3. /\ instances' \in [Uuid -> SUBSET Job]
        /\ \A u \in Uuid : instances'[u] \subseteq Submitted
    BY <1>32, <2>1 DEF PutBack, TypeInv, TypeOK, Shape, Submitted
  <2> DEFINE more(c) == [call[c] EXCEPT !.again = @ \cup {work[w].job}]
  <2>4. PICK late \in SUBSET Caller :
          call' = [c \in Caller |-> IF c \in late THEN more(c) ELSE call[c]]
    <3>1. {c \in Caller : c \in Destroying(work[w].uuid) /\ Ahead(c) # {}} \in SUBSET Caller
      OBVIOUS
    <3>2. QED
      BY <1>32, <3>1 DEF PutBack
  <2>5. ASSUME NEW c \in Caller
        PROVE  more(c) \in CallState /\ CallShape(more(c), compOf, Submitted)
    BY <1>0, <2>1 DEF CallState, CallShape, Submitted
  <2> HIDE DEF more
  <2>6. call' \in [Caller -> CallState] /\ \A c \in Caller : CallShape(call'[c], compOf, Submitted)
    BY <1>0, <2>4, <2>5
  <2>7. \A c \in Caller : CallShape(call[c], compOf, Submitted)'
    BY <2>1, <2>6 DEF CallShape
  <2>8. QED
    BY <1>32, <2>1, <2>2, <2>3, <2>6, <2>7
    DEF PutBack, TypeInv, TypeOK, Shape, poolVars, slurmVars, history
<1>33. ASSUME NEW j \in Job, JobEnds(j)
      PROVE  TypeInv'
  BY <1>33 DEF JobEnds, Terminate, TypeInv, TypeOK, Shape, CallShape, WorkShape, Submitted,
     poolVars, driverVars, slurmVars, history
<1>34. ASSUME ToggleShutdown
      PROVE  TypeInv'
  BY <1>34 DEF ToggleShutdown, TypeInv, TypeOK, Shape, CallShape, WorkShape, Submitted,
     poolVars, driverVars, slurmVars, history
<1>35. QED
  BY <1>1, <1>2, <1>3, <1>4, <1>5, <1>6, <1>7, <1>8, <1>9, <1>10, <1>11, <1>12,
     <1>13, <1>14, <1>15, <1>16, <1>17, <1>18, <1>19, <1>20, <1>21, <1>22, <1>23,
     <1>24, <1>25, <1>26, <1>27, <1>29, <1>30, <1>31, <1>32, <1>33, <1>34
  DEF AnyNext, AnyEnters, Continues, AnyWorker, Leaves

\* The discipline of Usable and JoinsWorkers only takes steps away.
LEMMA NextIsAny ==
  ASSUME [Next]_vars
  PROVE  [AnyNext]_vars
<1>1. \A c \in Caller : Enters(c) => AnyEnters(c)
  BY DEF Enters, AnyEnters
<1>2. \A w \in Worker : WorkerNext(w) => AnyWorker(w)
  BY DEF WorkerNext, AnyWorker
<1>3. QED
  BY <1>1, <1>2 DEF Next, AnyNext

\* In particular the steps of the specification do.
LEMMA TypeStep ==
  ASSUME TypeInv, [Next]_vars
  PROVE  TypeInv'
BY NextIsAny, TypeAny

\* The initial state has its types and no calls.
LEMMA InitTypes ==
  ASSUME Init
  PROVE  TypeInv
<1>1. Idle \in CallState
  BY DEF Idle, CallState, Result
<1>2. CallShape(Idle, compOf, Submitted)
  BY DEF Idle, CallShape, Loading, Serves, Holding
<1>3. TypeOK
  <2>1. next \in Nat /\ next >= BASE /\ reuse_queue \in Seq(PoolPorts)
    BY PoolAssumption DEF Init, PoolInit
  <2>2. call \in [Caller -> CallState] /\ work \in [Worker -> WorkState]
    BY <1>1 DEF Init, WorkState
  <2>3. QED
    BY <2>1, <2>2 DEF Init, TypeOK
<1>4. Shape
  BY <1>2 DEF Init, Shape, WorkShape
<1>5. QED
  BY <1>3, <1>4 DEF TypeInv

\* The type invariant of the driver.
THEOREM TypeCorrect == Spec => []TypeOK
<1>1. Init => TypeInv
  BY InitTypes
<1>2. TypeInv /\ [Next]_vars => TypeInv'
  BY TypeStep
<1>3. QED
  BY <1>1, <1>2, PTL DEF Spec, TypeInv

-----------------------------------------------------------------------------

\* Where a caller is about to give a port back, Slurm was told to end the job.
CancelledFirst ==
  \A c \in Caller : At(c, "release") =>
    cluster[call[c].job] \in Over

\* Slurm knows the jobs that were submitted.
KnownToSlurm == \A j \in Submitted : cluster[j] # "none"

OrphanInv == KnownToSlurm /\ NoOrphans /\ CancelledFirst

\* The jobs and the table may get no worse than this if they are to stay within
\* reach of shutdown().
Reachably ==
  /\ \A j \in Job :
       /\ hostPort'[j] = hostPort[j]
       /\ cluster[j] # "none" => cluster'[j] # "none"
       /\ cluster'[j] = "live" => cluster[j] = "live"
       /\ cluster[j] \in Over => cluster'[j] \in Over
       /\ trouble[j] # "none" => trouble'[j] # "none"
  /\ jobMap \subseteq jobMap'

\* A step after which callers note, and have cancelled, the jobs they were about to.
LEMMA OrphanFrame ==
  ASSUME TypeInv, OrphanInv, Reachably,
         \A c \in Caller :
           /\ call[c].pc = "put" => call'[c].pc = "put" /\ call'[c].job = call[c].job
           /\ call'[c].pc = "release" => call[c].pc = "release" /\ call'[c].job = call[c].job
  PROVE  OrphanInv'
<1>1. NoOrphans'
  BY DEF OrphanInv, NoOrphans, Reachably, At
<1>2. CancelledFirst'
  <2> SUFFICES ASSUME NEW c \in Caller, call'[c].pc = "release"
               PROVE  cluster'[call'[c].job] \in Over
    BY DEF CancelledFirst, At
  <2>1. call[c].pc = "release" /\ call'[c].job = call[c].job /\ call[c].job \in Job
    BY DEF TypeInv, Shape, CallShape, Holding, Submitted
  <2>2. QED
    BY <2>1 DEF OrphanInv, CancelledFirst, Reachably, At
<1>3. KnownToSlurm'
  BY DEF OrphanInv, KnownToSlurm, Submitted, Reachably
<1>4. QED
  BY <1>1, <1>2, <1>3 DEF OrphanInv

\* Every job stays within reach of shutdown() in every step.
LEMMA OrphanAny ==
  ASSUME TypeInv, TypeInv', OrphanInv, [AnyNext]_vars
  PROVE  OrphanInv'
<1>0. /\ \A c \in Caller : call[c] \in CallState
      /\ call \in [Caller -> CallState]
      /\ hostPort \in [Job -> Int \cup {NoPort}]
      /\ cluster \in [Job -> {"none", "live"} \cup Over]
      /\ trouble \in [Job -> {"none", "lost", "unlisted"}]
  BY DEF TypeInv, TypeOK
<1>1. CASE UNCHANGED vars
  BY <1>1, OrphanFrame DEF vars, Reachably
<1>2. ASSUME NEW c \in Caller, NEW k \in Component, NEW u \in Uuid, Instantiate(c, k, u)
      PROVE  OrphanInv'
  BY <1>0, <1>2, OrphanFrame
  DEF Instantiate, At, Idle, CallState, Reachably, driverVars, slurmVars
<1>3. ASSUME NEW c \in Caller, Register(c)
      PROVE  OrphanInv'
  BY <1>0, <1>3, OrphanFrame
  DEF Register, At, Idle, CallState, Reachably, driverVars, slurmVars
<1>4. ASSUME NEW c \in Caller, LoopDone(c)
      PROVE  OrphanInv'
  BY <1>0, <1>4, OrphanFrame
  DEF LoopDone, Return, At, Idle, CallState, Reachably, driverVars, slurmVars
<1>5. ASSUME NEW c \in Caller, Leaves(c)
      PROVE  OrphanInv'
  BY <1>5, Leaving, OrphanFrame DEF Reachably
<1>6. ASSUME NEW c \in Caller, AssignChosen(c)
      PROVE  OrphanInv'
  BY <1>0, <1>6, OrphanFrame
  DEF AssignChosen, WantsPort, GotPort, At, Idle, CallState, Reachably, driverVars,
      slurmVars
<1>7. ASSUME NEW c \in Caller, NEW p \in PoolPorts, AssignReused(c, p)
      PROVE  OrphanInv'
  BY <1>0, <1>7, OrphanFrame
  DEF AssignReused, WantsPort, GotPort, At, Idle, CallState, Reachably, driverVars,
      slurmVars
<1>8. ASSUME NEW c \in Caller, AssignMiss(c)
      PROVE  OrphanInv'
  BY <1>0, <1>8, OrphanFrame
  DEF AssignMiss, WantsPort, At, Idle, CallState, Reachably, driverVars, slurmVars
<1>9. ASSUME NEW c \in Caller, NEW p \in PoolPorts, AssignFresh(c, p)
      PROVE  OrphanInv'
  BY <1>0, <1>9, OrphanFrame
  DEF AssignFresh, GotPort, At, Idle, CallState, Reachably, driverVars, slurmVars
<1>10. ASSUME NEW c \in Caller, AssignFail(c)
      PROVE  OrphanInv'
  BY <1>0, <1>10, OrphanFrame
  DEF AssignFail, Throw, Return, At, Idle, CallState, Reachably, driverVars, slurmVars
<1>11. ASSUME NEW c \in Caller, NEW j \in Job, SubmitAccepted(c, j)
      PROVE  OrphanInv'
  <2>1. /\ cluster[j] = "none" /\ cluster' = [cluster EXCEPT ![j] = "live"]
        /\ hostPort' = [hostPort EXCEPT ![j] = call[c].port] /\ UNCHANGED <<trouble, jobMap>>
        /\ call'[c].pc = "put" /\ call'[c].job = j /\ call[c].pc = "submit"
        /\ \A d \in Caller \ {c} : call'[d] = call[d]
    BY <1>0, <1>11 DEF SubmitAccepted, Started, At, CallState, driverVars
  <2>2. NoOrphans'
    BY <1>0, <2>1 DEF OrphanInv, NoOrphans, At
  <2>3. CancelledFirst'
    <3> SUFFICES ASSUME NEW d \in Caller, call'[d].pc = "release"
                 PROVE  cluster'[call'[d].job] \in Over
      BY DEF CancelledFirst, At
    <3>1. d # c /\ call[d].pc = "release" /\ call'[d].job = call[d].job
          /\ call[d].job \in Submitted /\ call[d].job # j
      BY <2>1 DEF TypeInv, Shape, CallShape, Holding, OrphanInv, KnownToSlurm
    <3>2. QED
      BY <1>0, <2>1, <3>1 DEF OrphanInv, CancelledFirst, At, Submitted
  <2>4. KnownToSlurm'
    BY <1>0, <2>1 DEF OrphanInv, KnownToSlurm, Submitted
  <2>5. QED
    BY <2>2, <2>3, <2>4 DEF OrphanInv
<1>12. ASSUME NEW c \in Caller, NEW j \in Job, SubmitLost(c, j)
      PROVE  OrphanInv'
  <2>1. /\ cluster[j] = "none" /\ cluster' = [cluster EXCEPT ![j] = "live"]
        /\ hostPort' = [hostPort EXCEPT ![j] = call[c].port]
        /\ trouble' = [trouble EXCEPT ![j] = "lost"] /\ UNCHANGED jobMap
        /\ call'[c].pc = "idle" /\ call[c].pc = "submit"
        /\ \A d \in Caller \ {c} : call'[d] = call[d]
    BY <1>0, <1>12 DEF SubmitLost, Started, Throw, Return, Idle, At, CallState, driverVars
  <2>2. NoOrphans'
    BY <1>0, <2>1 DEF OrphanInv, NoOrphans, At
  <2>3. CancelledFirst'
    <3> SUFFICES ASSUME NEW d \in Caller, call'[d].pc = "release"
                 PROVE  cluster'[call'[d].job] \in Over
      BY DEF CancelledFirst, At
    <3>1. d # c /\ call[d].pc = "release" /\ call'[d].job = call[d].job
          /\ call[d].job \in Submitted /\ call[d].job # j
      BY <2>1 DEF TypeInv, Shape, CallShape, Holding, OrphanInv, KnownToSlurm
    <3>2. QED
      BY <1>0, <2>1, <3>1 DEF OrphanInv, CancelledFirst, At, Submitted
  <2>4. KnownToSlurm'
    BY <1>0, <2>1 DEF OrphanInv, KnownToSlurm, Submitted
  <2>5. QED
    BY <2>2, <2>3, <2>4 DEF OrphanInv
<1>13. ASSUME NEW c \in Caller, RecordJob(c)
      PROVE  OrphanInv'
  <2>1. UNCHANGED <<hostPort, cluster>> /\ call[c].pc = "put" /\ call[c].job \in Job
    BY <1>13 DEF RecordJob, At, TypeInv, Shape, CallShape, Holding, Submitted
  <2>2. Written(c) = jobMap \cup {call[c].job}
    BY <2>1 DEF Written, At
  <2>3. NoOrphans'
    BY <1>0, <1>13, <2>1, <2>2, TableWrite DEF OrphanInv, NoOrphans, At
  <2>4. CancelledFirst'
    <3> SUFFICES ASSUME NEW d \in Caller, call'[d].pc = "release"
                 PROVE  cluster'[call'[d].job] \in Over
      BY DEF CancelledFirst, At
    <3>1. d # c /\ call[d].pc = "release" /\ call'[d].job = call[d].job
      BY <1>13, <2>1, TableWrite DEF At
    <3>2. call[d].job \in Job
      BY <3>1 DEF TypeInv, Shape, CallShape, Holding, Submitted
    <3>3. QED
      BY <2>1, <3>1, <3>2 DEF OrphanInv, CancelledFirst, At
  <2>5. KnownToSlurm'
    BY <2>1 DEF OrphanInv, KnownToSlurm, Submitted
  <2>6. QED
    BY <2>3, <2>4, <2>5 DEF OrphanInv
<1>14. ASSUME NEW c \in Caller, Reachable(c)
      PROVE  OrphanInv'
  BY <1>0, <1>14, OrphanFrame
  DEF Reachable, At, Idle, CallState, Reachably, driverVars, slurmVars
<1>15. ASSUME NEW c \in Caller, ProbeAnswered(c)
      PROVE  OrphanInv'
  BY <1>0, <1>15, OrphanFrame
  DEF ProbeAnswered, NextRound, At, Idle, CallState, Reachably, driverVars, slurmVars
<1>16. ASSUME NEW c \in Caller, ProbeFailed(c)
      PROVE  OrphanInv'
  BY <1>0, <1>16, OrphanFrame
  DEF ProbeFailed, NextRound, At, Idle, CallState, Reachably, driverVars, slurmVars
<1>17. ASSUME NEW c \in Caller, NEW u \in Uuid, GetTypesystem(c, u)
      PROVE  OrphanInv'
  BY <1>0, <1>17, OrphanFrame
  DEF GetTypesystem, At, Idle, CallState, Reachably, driverVars, slurmVars
<1>18. ASSUME NEW c \in Caller, NEW j \in Job, TakeForTypes(c, j)
      PROVE  OrphanInv'
  BY <1>0, <1>18, OrphanFrame
  DEF TakeForTypes, At, Idle, CallState, Reachably, driverVars, slurmVars
<1>19. ASSUME NEW c \in Caller, TypesAnswered(c)
      PROVE  OrphanInv'
  BY <1>0, <1>19, OrphanFrame
  DEF TypesAnswered, Return, At, Idle, CallState, Reachably, driverVars, slurmVars
<1>20. ASSUME NEW c \in Caller, NEW u \in Uuid, Destroy(c, u)
      PROVE  OrphanInv'
  BY <1>0, <1>20, OrphanFrame
  DEF Destroy, At, Idle, CallState, Reachably, driverVars, slurmVars
<1>21. ASSUME NEW c \in Caller, Remove(c)
      PROVE  OrphanInv'
  <2>1. UNCHANGED <<hostPort, cluster, trouble, jobMap>>
    BY <1>21 DEF Remove, slurmVars
  <2> DEFINE todo == IF compOf[call[c].uuid] \in RunAfterExit THEN {}
                     ELSE instances[call[c].uuid]
  <2>2. PICK got \in SUBSET {d \in Caller : At(d, "remove")} :
          call' = [d \in Caller |->
                     IF d \in got THEN [call[d] EXCEPT !.pc = "cancel", !.todo = todo]
                     ELSE call[d]]
    BY <1>21 DEF Remove
  <2>3. \A d \in Caller : \/ d \in got /\ call[d].pc = "remove" /\ call'[d].pc = "cancel"
                          \/ call'[d] = call[d]
    BY <1>0, <2>2 DEF At, CallState
  <2>4. QED
    BY <2>1, <2>3, OrphanFrame DEF Reachably
<1>22. ASSUME NEW c \in Caller, NEW j \in Job, CancelDone(c, j)
      PROVE  OrphanInv'
  <2>1. /\ call[c].pc = "cancel" /\ call'[c].pc = "release" /\ call'[c].job = j
        /\ \A d \in Caller \ {c} : call'[d] = call[d]
    BY <1>0, <1>22 DEF CancelDone, At, Met, CallState
  <2>2. cluster' = [cluster EXCEPT ![j] = IF @ = "live" THEN "ending" ELSE @]
        /\ UNCHANGED <<hostPort, jobMap, trouble>>
    BY <1>22 DEF CancelDone, Terminate, driverVars
  <2>3. NoOrphans'
    BY <1>0, <2>1, <2>2 DEF OrphanInv, NoOrphans, At
  <2>4. CancelledFirst'
    <3>1. j \in Submitted
      BY <1>22 DEF CancelDone, Ahead, TypeInv, Shape, CallShape
    <3>2. cluster'[j] \in Over
      BY <1>0, <2>2, <3>1 DEF OrphanInv, KnownToSlurm
    <3>3. QED
      BY <1>0, <2>1, <2>2, <3>2 DEF OrphanInv, CancelledFirst, At, TypeInv, Shape,
         CallShape, Holding, Submitted
  <2>5. KnownToSlurm'
    BY <1>0, <2>2 DEF OrphanInv, KnownToSlurm, Submitted
  <2>6. QED
    BY <2>3, <2>4, <2>5 DEF OrphanInv
<1>23. ASSUME NEW j \in Job, JobGone(j)
      PROVE  OrphanInv'
  BY <1>0, <1>23, OrphanFrame
  DEF JobGone, At, Idle, CallState, Reachably, driverVars, slurmVars
<1>24. ASSUME NEW c \in Caller, NEW j \in Job, CancelThrows(c, j)
      PROVE  OrphanInv'
  BY <1>0, <1>24, OrphanFrame
  DEF CancelThrows, Terminate, Throw, Return, At, Idle, CallState, Reachably, driverVars,
      slurmVars
<1>25. ASSUME NEW c \in Caller, ReleaseInstance(c)
      PROVE  OrphanInv'
  <2>1. UNCHANGED <<hostPort, cluster>> /\ call[c].pc = "release" /\ call[c].job \in Job
    BY <1>25 DEF ReleaseInstance, At, TypeInv, Shape, CallShape, Holding, Submitted
  <2>2. Written(c) = jobMap \ {call[c].job}
    BY <2>1 DEF Written, At
  <2>3. cluster[call[c].job] \in Over
    BY <2>1 DEF OrphanInv, CancelledFirst, At
  <2>4. NoOrphans'
    <3> SUFFICES ASSUME NEW j \in Job, cluster'[j] = "live", j \notin jobMap',
                        trouble'[j] = "none"
                 PROVE  \E d \in Caller : call'[d].pc = "put" /\ call'[d].job = j
      BY DEF NoOrphans, At
    <3>1. trouble[j] = "none" /\ j \notin Written(c)
      BY <1>25, TableWrite
    <3>2. j # call[c].job /\ j \notin jobMap
      BY <2>1, <2>2, <2>3, <3>1
    <3>3. PICK d \in Caller : call[d].pc = "put" /\ call[d].job = j
      BY <2>1, <3>1, <3>2 DEF OrphanInv, NoOrphans, At
    <3>4. d # c
      BY <2>1, <3>3
    <3>5. QED
      BY <1>25, <3>3, <3>4, TableWrite
  <2>5. CancelledFirst'
    <3> SUFFICES ASSUME NEW d \in Caller, call'[d].pc = "release"
                 PROVE  cluster'[call'[d].job] \in Over
      BY DEF CancelledFirst, At
    <3>1. d # c /\ call[d].pc = "release" /\ call'[d].job = call[d].job
      BY <1>25, <2>1, TableWrite DEF At
    <3>2. call[d].job \in Job
      BY <3>1 DEF TypeInv, Shape, CallShape, Holding, Submitted
    <3>3. QED
      BY <2>1, <3>1, <3>2 DEF OrphanInv, CancelledFirst, At
  <2>6. KnownToSlurm'
    BY <2>1 DEF OrphanInv, KnownToSlurm, Submitted
  <2>7. QED
    BY <2>4, <2>5, <2>6 DEF OrphanInv
<1>26. ASSUME NEW c \in Caller, Shutdown(c)
      PROVE  OrphanInv'
  BY <1>0, <1>26, OrphanFrame
  DEF Shutdown, At, Idle, CallState, Reachably, driverVars, slurmVars
<1>27. ASSUME NEW c \in Caller, NEW j \in Job, SweepDone(c, j)
      PROVE  OrphanInv'
  BY <1>0, <1>27, OrphanFrame
  DEF SweepDone, Terminate, Swept, At, Idle, CallState, Reachably, driverVars, slurmVars
<1>29. ASSUME NEW c \in Caller, NEW j \in Job, SweepThrows(c, j)
      PROVE  OrphanInv'
  BY <1>0, <1>29, OrphanFrame
  DEF SweepThrows, Terminate, Throw, Return, At, Idle, CallState, Reachably, driverVars,
      slurmVars
<1>30. ASSUME NEW w \in Worker, NEW u \in Uuid, Run(w, u)
      PROVE  OrphanInv'
  BY <1>0, <1>30, OrphanFrame
  DEF Run, At, Idle, CallState, Reachably, driverVars, slurmVars
<1>31. ASSUME NEW w \in Worker, NEW j \in Job, Take(w, j)
      PROVE  OrphanInv'
  <2>1. UNCHANGED <<hostPort, cluster, trouble, jobMap>>
    BY <1>31 DEF Take, slurmVars
  <2>2. PICK skip \in SUBSET Caller :
          call' = [c \in Caller |-> IF c \in skip
                                      THEN [call[c] EXCEPT !.todo = @ \ {j},
                                      !.again = @ \ {j}]
                                      ELSE call[c]]
    BY <1>31 DEF Take, Destroying
  <2>3. \A c \in Caller : call'[c].pc = call[c].pc /\ call'[c].job = call[c].job
    BY <1>0, <2>2 DEF CallState
  <2>4. QED
    BY <2>1, <2>3, OrphanFrame DEF Reachably
<1>32. ASSUME NEW w \in Worker, PutBack(w)
      PROVE  OrphanInv'
  BY <1>0, <1>32, OrphanFrame
  DEF PutBack, Destroying, At, Idle, CallState, Reachably, driverVars, slurmVars
<1>33. ASSUME NEW j \in Job, JobEnds(j)
      PROVE  OrphanInv'
  BY <1>0, <1>33, OrphanFrame
  DEF JobEnds, Terminate, At, Idle, CallState, Reachably, driverVars, slurmVars
<1>34. ASSUME ToggleShutdown
      PROVE  OrphanInv'
  BY <1>0, <1>34, OrphanFrame
  DEF ToggleShutdown, At, Idle, CallState, Reachably, driverVars, slurmVars
<1>35. QED
  BY <1>1, <1>2, <1>3, <1>4, <1>5, <1>6, <1>7, <1>8, <1>9, <1>10, <1>11, <1>12,
     <1>13, <1>14, <1>15, <1>16, <1>17, <1>18, <1>19, <1>20, <1>21, <1>22, <1>23,
     <1>24, <1>25, <1>26, <1>27, <1>29, <1>30, <1>31, <1>32, <1>33, <1>34
  DEF AnyNext, AnyEnters, Continues, AnyWorker, Leaves

\* In particular in those of the specification.
LEMMA OrphanStep ==
  ASSUME TypeInv, TypeInv', OrphanInv, [Next]_vars
  PROVE  OrphanInv'
BY NextIsAny, OrphanAny

\* Nothing runs at first.
LEMMA InitOrphans ==
  ASSUME Init
  PROVE  OrphanInv
BY DriverAssumption
DEF Init, OrphanInv, KnownToSlurm, NoOrphans, CancelledFirst, At, Idle, Submitted

\* No interleaving of the driver's methods, failed submissions, timeouts or
\* overlapping writes of the job table leaves a running job out of reach of
\* shutdown() unnoticed.
THEOREM OrphanFree == Spec => []NoOrphans
<1>1. Init => TypeInv /\ OrphanInv
  BY InitTypes, InitOrphans
<1>2. TypeInv /\ OrphanInv /\ [Next]_vars => (TypeInv /\ OrphanInv)'
  BY TypeStep, OrphanStep
<1>3. QED
  BY <1>1, <1>2, PTL DEF Spec, OrphanInv

\* A caller or a worker has the instance to itself.
HasInstance(c) == call[c].pc \in {"put", "await", "probe", "ask"}

OneHolder ==
  /\ \A w \in Worker : work[w].pc # "busy" => work[w].job = NoJob
  /\ \A v, w \in Worker : v # w /\ work[v].pc = "busy" => work[v].job # work[w].job
  /\ \A c, d \in Caller : c # d /\ HasInstance(c) /\ HasInstance(d) =>
       call[c].job # call[d].job
  /\ \A c \in Caller, w \in Worker : HasInstance(c) => work[w].job # call[c].job
  /\ \A u \in Uuid :
       /\ \A w \in Worker : work[w].job \notin instances[u]
       /\ \A c \in Caller : HasInstance(c) => call[c].job \notin instances[u]
  /\ \A u, v \in Uuid : u # v => instances[u] \cap instances[v] = {}

\* A step in which nobody gets an instance keeps the holders apart.
LEMMA HolderFrame ==
  ASSUME TypeInv, OneHolder, UNCHANGED <<instances, work>>,
         \A c \in Caller : HasInstance(c)' => HasInstance(c) /\ call'[c].job = call[c].job
  PROVE  OneHolder'
BY DEF OneHolder

\* No step gives an instance to two holders.
LEMMA HolderStep ==
  ASSUME TypeInv, OrphanInv, OneHolder, [Next]_vars
  PROVE  OneHolder'
<1>0. /\ \A c \in Caller : call[c] \in CallState
      /\ call \in [Caller -> CallState]
      /\ instances \in [Uuid -> SUBSET Job]
      /\ work \in [Worker -> WorkState]
      /\ NoJob \notin Job
  BY DriverAssumption DEF TypeInv, TypeOK
<1>1. CASE UNCHANGED vars
  BY <1>1, HolderFrame DEF vars, HasInstance
<1>2. ASSUME NEW c \in Caller, NEW k \in Component, NEW u \in Uuid, Instantiate(c, k, u)
      PROVE  OneHolder'
  BY <1>0, <1>2, HolderFrame
  DEF Instantiate, At, Idle, CallState, HasInstance, driverVars
<1>3. ASSUME NEW c \in Caller, Register(c)
      PROVE  OneHolder'
  BY <1>0, <1>3, HolderFrame
  DEF Register, At, Idle, CallState, HasInstance, driverVars
<1>4. ASSUME NEW c \in Caller, LoopDone(c)
      PROVE  OneHolder'
  BY <1>0, <1>4, HolderFrame
  DEF LoopDone, Return, At, Idle, CallState, HasInstance, driverVars
<1>5. ASSUME NEW c \in Caller, Leaves(c)
      PROVE  OneHolder'
  BY <1>5, Leaving, HolderFrame DEF HasInstance
<1>6. ASSUME NEW c \in Caller, AssignChosen(c)
      PROVE  OneHolder'
  BY <1>0, <1>6, HolderFrame
  DEF AssignChosen, WantsPort, GotPort, At, Idle, CallState, HasInstance, driverVars
<1>7. ASSUME NEW c \in Caller, NEW p \in PoolPorts, AssignReused(c, p)
      PROVE  OneHolder'
  BY <1>0, <1>7, HolderFrame
  DEF AssignReused, WantsPort, GotPort, At, Idle, CallState, HasInstance, driverVars
<1>8. ASSUME NEW c \in Caller, AssignMiss(c)
      PROVE  OneHolder'
  BY <1>0, <1>8, HolderFrame
  DEF AssignMiss, WantsPort, At, Idle, CallState, HasInstance, driverVars
<1>9. ASSUME NEW c \in Caller, NEW p \in PoolPorts, AssignFresh(c, p)
      PROVE  OneHolder'
  BY <1>0, <1>9, HolderFrame
  DEF AssignFresh, GotPort, At, Idle, CallState, HasInstance, driverVars
<1>10. ASSUME NEW c \in Caller, AssignFail(c)
      PROVE  OneHolder'
  BY <1>0, <1>10, HolderFrame
  DEF AssignFail, Throw, Return, At, Idle, CallState, HasInstance, driverVars
<1>11. ASSUME NEW c \in Caller, NEW j \in Job, SubmitAccepted(c, j)
      PROVE  OneHolder'
  <2>1. /\ call'[c].pc = "put" /\ call'[c].job = j /\ cluster[j] = "none"
        /\ \A d \in Caller \ {c} : call'[d] = call[d]
        /\ UNCHANGED <<instances, work>>
    BY <1>0, <1>11 DEF SubmitAccepted, Started, CallState, driverVars
  <2>2. j \notin Submitted
    BY <2>1 DEF OrphanInv, KnownToSlurm
  <2>3. /\ \A u \in Uuid : j \notin instances[u]
        /\ \A w \in Worker : work[w].job # j
        /\ \A d \in Caller : HasInstance(d) => call[d].job # j
    BY <1>0, <2>2 DEF TypeInv, Shape, CallShape, WorkShape, Holding, HasInstance, OneHolder
  <2>4. QED
    BY <1>0, <2>1, <2>3 DEF OneHolder, HasInstance
<1>12. ASSUME NEW c \in Caller, NEW j \in Job, SubmitLost(c, j)
      PROVE  OneHolder'
  BY <1>0, <1>12, HolderFrame
  DEF SubmitLost, Throw, Return, At, Idle, CallState, HasInstance, driverVars
<1>13. ASSUME NEW c \in Caller, RecordJob(c)
      PROVE  OneHolder'
  BY <1>13, HolderFrame, TableWrite DEF RecordJob, At, HasInstance
<1>14. ASSUME NEW c \in Caller, Reachable(c)
      PROVE  OneHolder'
  BY <1>0, <1>14, HolderFrame
  DEF Reachable, At, Idle, CallState, HasInstance, driverVars
<1>15. ASSUME NEW c \in Caller, ProbeAnswered(c)
      PROVE  OneHolder'
  <2>1. /\ HasInstance(c) /\ call[c].uuid \in Uuid /\ call[c].job \in Job
        /\ instances' = [instances EXCEPT ![call[c].uuid] = @ \cup {call[c].job}]
        /\ call'[c].pc = "loop" /\ \A d \in Caller \ {c} : call'[d] = call[d]
        /\ UNCHANGED work
    BY <1>0, <1>15 DEF ProbeAnswered, NextRound, Idle, At, HasInstance, TypeInv, Shape,
       CallShape, Loading, Holding, Submitted
  <2>2. QED
    BY <1>0, <2>1 DEF OneHolder, HasInstance
<1>16. ASSUME NEW c \in Caller, ProbeFailed(c)
      PROVE  OneHolder'
  BY <1>0, <1>16, HolderFrame
  DEF ProbeFailed, NextRound, At, Idle, CallState, HasInstance, driverVars
<1>17. ASSUME NEW c \in Caller, NEW u \in Uuid, GetTypesystem(c, u)
      PROVE  OneHolder'
  BY <1>0, <1>17, HolderFrame
  DEF GetTypesystem, At, Idle, CallState, HasInstance, driverVars
<1>18. ASSUME NEW c \in Caller, NEW j \in Job, TakeForTypes(c, j)
      PROVE  OneHolder'
  <2>1. /\ call[c].uuid \in Uuid /\ j \in instances[call[c].uuid]
        /\ instances' = [instances EXCEPT ![call[c].uuid] = @ \ {j}]
        /\ call'[c].pc = "ask" /\ call'[c].job = j
        /\ \A d \in Caller \ {c} : call'[d] = call[d]
        /\ UNCHANGED work
    BY <1>0, <1>18 DEF TakeForTypes, CallState, At, TypeInv, Shape, CallShape, Serves
  <2>2. QED
    BY <1>0, <2>1 DEF OneHolder, HasInstance
<1>19. ASSUME NEW c \in Caller, TypesAnswered(c)
      PROVE  OneHolder'
  <2>1. /\ HasInstance(c) /\ call[c].uuid \in Uuid /\ call[c].job \in Job
        /\ instances' = [instances EXCEPT ![call[c].uuid] = @ \cup {call[c].job}]
        /\ call'[c].pc = "idle" /\ \A d \in Caller \ {c} : call'[d] = call[d]
        /\ UNCHANGED work
    BY <1>0, <1>19 DEF TypesAnswered, Return, Idle, At, HasInstance, TypeInv, Shape,
       CallShape, Serves, Holding, Submitted
  <2>2. QED
    BY <1>0, <2>1 DEF OneHolder, HasInstance
<1>20. ASSUME NEW c \in Caller, NEW u \in Uuid, Destroy(c, u)
      PROVE  OneHolder'
  BY <1>0, <1>20, HolderFrame
  DEF Destroy, At, Idle, CallState, HasInstance, driverVars
<1>21. ASSUME NEW c \in Caller, Remove(c)
      PROVE  OneHolder'
  <2> DEFINE todo == IF compOf[call[c].uuid] \in RunAfterExit THEN {}
                     ELSE instances[call[c].uuid]
  <2>1. PICK got \in SUBSET {d \in Caller : At(d, "remove")} :
          call' = [d \in Caller |->
                     IF d \in got THEN [call[d] EXCEPT !.pc = "cancel", !.todo = todo]
                     ELSE call[d]]
    BY <1>21 DEF Remove
  <2>2. \A d \in Caller : call'[d].pc = "cancel" \/ call'[d] = call[d]
    BY <1>0, <2>1 DEF CallState
  <2>3. QED
    BY <1>21, <2>2, HolderFrame DEF Remove, HasInstance
<1>22. ASSUME NEW c \in Caller, NEW j \in Job, CancelDone(c, j)
      PROVE  OneHolder'
  BY <1>0, <1>22, HolderFrame
  DEF CancelDone, Met, At, Idle, CallState, HasInstance, driverVars
<1>23. ASSUME NEW j \in Job, JobGone(j)
      PROVE  OneHolder'
  BY <1>0, <1>23, HolderFrame
  DEF JobGone, At, Idle, CallState, HasInstance, driverVars
<1>24. ASSUME NEW c \in Caller, NEW j \in Job, CancelThrows(c, j)
      PROVE  OneHolder'
  BY <1>0, <1>24, HolderFrame
  DEF CancelThrows, Throw, Return, At, Idle, CallState, HasInstance, driverVars
<1>25. ASSUME NEW c \in Caller, ReleaseInstance(c)
      PROVE  OneHolder'
  BY <1>25, HolderFrame, TableWrite DEF ReleaseInstance, At, HasInstance
<1>26. ASSUME NEW c \in Caller, Shutdown(c)
      PROVE  OneHolder'
  BY <1>0, <1>26, HolderFrame
  DEF Shutdown, At, Idle, CallState, HasInstance, driverVars
<1>27. ASSUME NEW c \in Caller, NEW j \in Job, SweepDone(c, j)
      PROVE  OneHolder'
  BY <1>0, <1>27, HolderFrame
  DEF SweepDone, Swept, At, Idle, CallState, HasInstance, driverVars
<1>29. ASSUME NEW c \in Caller, NEW j \in Job, SweepThrows(c, j)
      PROVE  OneHolder'
  BY <1>0, <1>29, HolderFrame
  DEF SweepThrows, Throw, Return, At, Idle, CallState, HasInstance, driverVars
<1>30. ASSUME NEW w \in Worker, NEW u \in Uuid, Run(w, u)
      PROVE  OneHolder'
  <2>1. /\ work' \in [Worker -> WorkState]
        /\ \A v \in Worker : work'[v].job = work[v].job /\ (work'[v].pc = "busy" <=> work[v].pc = "busy")
        /\ UNCHANGED <<instances, call>>
    <3>1. work[w] \in WorkState /\ work[w].pc = "idle"
      BY <1>0, <1>30 DEF Run
    <3>2. LET r == [work[w] EXCEPT !.pc = "wait", !.uuid = u]
          IN  r \in WorkState /\ r.pc = "wait" /\ r.job = work[w].job
      BY <3>1 DEF WorkState
    <3>3. QED
      BY <1>0, <1>30, <3>1, <3>2 DEF Run, driverVars
  <2>2. QED
    BY <2>1 DEF OneHolder, HasInstance
<1>31. ASSUME NEW w \in Worker, NEW j \in Job, Take(w, j)
      PROVE  OneHolder'
  <2>1. /\ work[w].pc = "wait" /\ work[w].uuid \in Uuid /\ j \in instances[work[w].uuid]
        /\ instances' = [instances EXCEPT ![work[w].uuid] = @ \ {j}]
    BY <1>0, <1>31 DEF Take, TypeInv, Shape, WorkShape
  <2>2. /\ work'[w].pc = "busy" /\ work'[w].job = j
        /\ \A v \in Worker \ {w} : work'[v] = work[v]
    BY <1>0, <1>31 DEF Take, WorkState
  <2>3. PICK skip \in SUBSET Caller :
          call' = [c \in Caller |-> IF c \in skip
                                      THEN [call[c] EXCEPT !.todo = @ \ {j},
                                      !.again = @ \ {j}]
                                      ELSE call[c]]
    BY <1>31 DEF Take, Destroying
  <2>4. \A c \in Caller : call'[c].pc = call[c].pc /\ call'[c].job = call[c].job
    BY <1>0, <2>3 DEF CallState
  <2>5. QED
    BY <1>0, <2>1, <2>2, <2>4 DEF OneHolder, HasInstance
<1>32. ASSUME NEW w \in Worker, PutBack(w)
      PROVE  OneHolder'
  <2>1. /\ work[w].pc = "busy" /\ work[w].uuid \in Uuid /\ work[w].job \in Job
        /\ instances' = [instances EXCEPT ![work[w].uuid] = @ \cup {work[w].job}]
        /\ work'[w].pc = "idle" /\ work'[w].job = NoJob
        /\ \A v \in Worker \ {w} : work'[v] = work[v]
    BY <1>0, <1>32 DEF PutBack, TypeInv, Shape, WorkShape, Submitted
  <2>2. \A c \in Caller : call'[c].pc = call[c].pc /\ call'[c].job = call[c].job
    BY <1>0, <1>32 DEF PutBack, CallState
  <2>3. \A u \in Uuid : instances'[u] = IF u = work[w].uuid
                                          THEN instances[u] \cup {work[w].job}
                                          ELSE instances[u]
    BY <1>0, <2>1
  <2>4. \A u \in Uuid :
          /\ work[w].job \notin instances[u]
          /\ \A v \in Worker : work'[v].job \notin instances'[u]
          /\ \A c \in Caller : HasInstance(c)' => call'[c].job \notin instances'[u]
    BY <1>0, <2>1, <2>2, <2>3 DEF OneHolder, HasInstance
  <2>5. \A u, v \in Uuid : u # v => instances'[u] \cap instances'[v] = {}
    <3>1. \A u, v \in Uuid : u # v => instances[u] \cap instances[v] = {}
      BY DEF OneHolder
    <3>2. \A u \in Uuid : work[w].job \notin instances[u]
      BY <2>4
    <3>3. ASSUME NEW u \in Uuid, NEW v \in Uuid, u # v,
                 NEW x \in instances'[u], x \in instances'[v]
          PROVE  FALSE
      <4>1. /\ x \in instances[u] \/ (u = work[w].uuid /\ x = work[w].job)
            /\ x \in instances[v] \/ (v = work[w].uuid /\ x = work[w].job)
        BY <2>3, <3>3
      <4>2. QED
        BY <3>1, <3>2, <3>3, <4>1
    <3>4. QED
      BY <3>3
  <2>6. /\ \A v \in Worker : work'[v].pc # "busy" => work'[v].job = NoJob
        /\ \A u, v \in Worker : u # v /\ work'[u].pc = "busy" => work'[u].job # work'[v].job
    <3>1. \A v \in Worker : work[v].pc = "busy" => work[v].job # NoJob
      BY <1>0 DEF TypeInv, Shape, WorkShape, Submitted
    <3>2. QED
      BY <2>1, <3>1 DEF OneHolder
  <2>7. \A c \in Caller, v \in Worker : HasInstance(c)' => work'[v].job # call'[c].job
    <3>1. \A c \in Caller : HasInstance(c) => call[c].job # NoJob
      BY <1>0 DEF HasInstance, TypeInv, Shape, CallShape, Holding, Submitted
    <3>2. QED
      BY <2>1, <2>2, <3>1 DEF OneHolder, HasInstance
  <2>8. \A c, d \in Caller : c # d /\ HasInstance(c)' /\ HasInstance(d)' =>
          call'[c].job # call'[d].job
    BY <2>2 DEF OneHolder, HasInstance
  <2>9. QED
    BY <2>4, <2>5, <2>6, <2>7, <2>8 DEF OneHolder
<1>33. ASSUME NEW j \in Job, JobEnds(j)
      PROVE  OneHolder'
  BY <1>0, <1>33, HolderFrame
  DEF JobEnds, At, Idle, CallState, HasInstance, driverVars
<1>34. ASSUME ToggleShutdown
      PROVE  OneHolder'
  BY <1>0, <1>34, HolderFrame
  DEF ToggleShutdown, At, Idle, CallState, HasInstance, driverVars
<1>35. QED
  BY <1>1, <1>2, <1>3, <1>4, <1>5, <1>6, <1>7, <1>8, <1>9, <1>10, <1>11, <1>12,
     <1>13, <1>14, <1>15, <1>16, <1>17, <1>18, <1>19, <1>20, <1>21, <1>22, <1>23,
     <1>24, <1>25, <1>26, <1>27, <1>29, <1>30, <1>31, <1>32, <1>33, <1>34
  DEF Next, Enters, Continues, WorkerNext, Leaves

\* An instance is never with two workers, nor with a worker and in a queue,
\* whatever the callers do meanwhile: the poll and the finally of process()
\* are enough.
THEOREM OneAtATime == Spec => []InstanceOnce
<1>1. Init => TypeInv /\ OrphanInv /\ OneHolder
  <2>1. Init => OneHolder
    BY DEF Init, OneHolder, HasInstance, Idle
  <2>2. QED
    BY <2>1, InitTypes, InitOrphans
<1>2. TypeInv /\ OrphanInv /\ OneHolder /\ [Next]_vars
        => (TypeInv /\ OrphanInv /\ OneHolder)'
  BY TypeStep, OrphanStep, HolderStep
<1>3. TypeInv /\ OneHolder => InstanceOnce
  <2> SUFFICES ASSUME TypeInv, OneHolder
               PROVE  InstanceOnce
    OBVIOUS
  <2>1. QED
    BY DEF OneHolder, InstanceOnce, HasInstance, At
<1>4. QED
  BY <1>1, <1>2, <1>3, PTL DEF Spec
-----------------------------------------------------------------------------
(* shutdown() of a caller that is alone                                    *)

\* Jobs that Slurm runs and the driver has not lost sight of.
Running == {j \in Job : cluster[j] = "live" /\ trouble[j] = "none"}

\* While shutdown() goes through the table of a lone caller, it has not met the jobs
\* that still run; a method that has ended left its outcome, one that goes on has none.
Sweeps(c) ==
  /\ call[c].pc # "idle" => call[c].result = "none"
  /\ call[c].pc = "sweep" => Running \subseteq call[c].todo
  /\ call[c].result = "void" => Running = {}

SweepInv == \A c \in Caller : Caller = {c} => Sweeps(c)

\* A caller that is not in shutdown() and has not come out of it has nothing to show.
LEMMA SweepElsewhere ==
  ASSUME NEW c \in Caller, call'[c].pc # "sweep", call'[c].result # "void",
         call'[c].pc = "idle" \/ call'[c].result = "none"
  PROVE  Sweeps(c)'
BY DEF Sweeps

\* A step that starts no job leaves what a caller that does not move has to show.
LEMMA SweepFrame ==
  ASSUME NEW c \in Caller, Sweeps(c), Running' \subseteq Running,
         call'[c].pc = call[c].pc, call'[c].result = call[c].result,
         call[c].pc = "sweep" => call'[c].todo = call[c].todo
  PROVE  Sweeps(c)'
BY DEF Sweeps

\* What a caller does, while no other is about to note a job.
LEMMA SweepOfCaller ==
  ASSUME TypeInv, OrphanInv, NEW c \in Caller, Sweeps(c),
         \A d \in Caller : d # c => ~At(d, "put"),
         AnyEnters(c) \/ Continues(c)
  PROVE  Sweeps(c)'
<1>0. call \in [Caller -> CallState] /\ call[c] \in CallState
  BY DEF TypeInv, TypeOK
<1>1. call[c].pc # "idle" => call[c].result = "none"
  BY DEF Sweeps
<1>2. CASE Shutdown(c)
  <2>1. /\ call[c].pc = "idle" /\ UNCHANGED <<cluster, trouble>>
        /\ call'[c] = [Idle EXCEPT !.pc = "sweep", !.todo = jobMap]
    BY <1>0, <1>2 DEF Shutdown, At, slurmVars
  <2>2. call'[c].pc = "sweep" /\ call'[c].todo = jobMap /\ call'[c].result = "none"
    BY <2>1 DEF Idle
  <2>3. Running \subseteq jobMap
    BY <2>1 DEF Running, OrphanInv, NoOrphans, At
  <2>4. Running' = Running
    BY <2>1 DEF Running
  <2>5. QED
    BY <2>2, <2>3, <2>4 DEF Sweeps
<1>3. ASSUME NEW j \in Job, SweepDone(c, j)
      PROVE  Sweeps(c)'
  <2>1. /\ call[c].pc = "sweep" /\ UNCHANGED trouble
        /\ call'[c] = [call[c] EXCEPT !.todo = call[c].todo \ {j}]
        /\ cluster' = [cluster EXCEPT ![j] = IF cluster[j] = "live" THEN "ending" ELSE cluster[j]]
    BY <1>0, <1>3 DEF SweepDone, Swept, Terminate, At
  <2>2. /\ call'[c].pc = "sweep" /\ call'[c].result = call[c].result
        /\ call'[c].todo = call[c].todo \ {j}
    BY <1>0, <2>1 DEF CallState
  <2>3. Running' \subseteq Running \ {j}
    BY <2>1 DEF Running, TypeInv, TypeOK
  <2>4. QED
    BY <1>1, <2>1, <2>2, <2>3 DEF Sweeps
<1>4. CASE SweepReturns(c)
  <2>1. /\ call[c].pc = "sweep" /\ call[c].todo = {} /\ UNCHANGED <<cluster, trouble>>
        /\ \E r \in Result : call'[c] = [Idle EXCEPT !.result = r]
    BY <1>0, <1>4 DEF SweepReturns, Return, At, slurmVars, Result
  <2>2. call'[c].pc = "idle"
    BY <2>1 DEF Idle
  <2>3. Running = {} /\ Running' = Running
    BY <2>1 DEF Sweeps, Running
  <2>4. QED
    BY <2>2, <2>3 DEF Sweeps
<1>5. CASE RecordJob(c) \/ ReleaseInstance(c)
  <2>1. /\ call[c].pc \in {"put", "release"}
        /\ \E l \in {"await", "cancel"} : call'[c] = [call[c] EXCEPT !.pc = l]
    BY <1>5 DEF RecordJob, ReleaseInstance, WriteTable, At
  <2>2. call'[c].pc \in {"await", "cancel"} /\ call'[c].result = call[c].result
    BY <1>0, <2>1 DEF CallState
  <2>3. QED
    BY <1>1, <2>1, <2>2, SweepElsewhere
<1>6. CASE Remove(c)
  <2>1. /\ call[c].pc = "remove"
        /\ \E todo : call'[c] = [call[c] EXCEPT !.pc = "cancel", !.todo = todo]
    BY <1>6 DEF Remove, At
  <2>2. call'[c].pc = "cancel" /\ call'[c].result = call[c].result
    BY <1>0, <2>1 DEF CallState
  <2>3. QED
    BY <1>1, <2>1, <2>2, SweepElsewhere
<1>7. ASSUME NEW r \in Result, r # "void", Return(c, r)
      PROVE  Sweeps(c)'
  <2>1. call'[c] = [Idle EXCEPT !.result = r]
    BY <1>0, <1>7 DEF Return
  <2>2. call'[c].pc = "idle" /\ call'[c].result = r
    BY <2>1 DEF Idle
  <2>3. QED
    BY <1>7, <2>2, SweepElsewhere
<1>8. ASSUME call[c].pc # "idle", call'[c].pc # "sweep", call'[c].result = call[c].result
      PROVE  Sweeps(c)'
  BY <1>1, <1>8, SweepElsewhere
<1>9. ASSUME NEW l \in {"register", "take", "remove"}, NEW u \in Uuid,
             call' = [call EXCEPT ![c] = [Idle EXCEPT !.pc = l, !.uuid = u]]
      PROVE  Sweeps(c)'
  <2>1. call'[c] = [Idle EXCEPT !.pc = l, !.uuid = u]
    BY <1>0, <1>9
  <2>2. call'[c].pc \in {"register", "take", "remove"} /\ call'[c].result = "none"
    BY <2>1 DEF Idle
  <2>3. QED
    BY <2>2, SweepElsewhere
<1>10. CASE ProbeAnswered(c) \/ ProbeFailed(c)
  <2>1. \E u, i : call'[c] = [Idle EXCEPT !.pc = "loop", !.uuid = u, !.i = i]
    BY <1>0, <1>10 DEF ProbeAnswered, ProbeFailed, NextRound
  <2>2. call'[c].pc = "loop" /\ call'[c].result = "none"
    BY <2>1 DEF Idle
  <2>3. QED
    BY <2>2, SweepElsewhere
<1>11. CASE \/ LoopDone(c) \/ LoopInterrupted(c) \/ AssignFail(c) \/ SubmitRejected(c)
            \/ Unreachable(c) \/ TypesAnswered(c) \/ TypesFailed(c) \/ RemoveUnknown(c)
            \/ DestroyReturns(c) \/ NoToken(c)
            \/ \E u \in Uuid : GetTypesystemUnknown(c, u)
            \/ \E j \in Job : SubmitLost(c, j) \/ CancelThrows(c, j) \/ SweepThrows(c, j)
  <2>1. \E r \in Result : r # "void" /\ Return(c, r)
    BY <1>11 DEF LoopDone, LoopInterrupted, AssignFail, SubmitRejected, Unreachable,
       TypesAnswered, TypesFailed, RemoveUnknown, DestroyReturns, NoToken, GetTypesystemUnknown,
       SubmitLost, CancelThrows, SweepThrows, Throw, Result
  <2>2. QED
    BY <1>7, <2>1
<1>12. CASE \/ Register(c) \/ AssignChosen(c) \/ AssignMiss(c) \/ Reachable(c)
            \/ \E p \in PoolPorts : AssignReused(c, p) \/ AssignFresh(c, p)
            \/ \E j \in Job : SubmitAccepted(c, j) \/ TakeForTypes(c, j)
  <2>1. /\ call[c].pc # "idle"
        /\ call'[c].pc \in {"loop", "submit", "draw", "probe", "put", "ask"}
        /\ call'[c].result = call[c].result
    <3>1. CASE Register(c)
      BY <1>0, <3>1 DEF Register, At, CallState
    <3>2. CASE AssignChosen(c) \/ \E p \in PoolPorts : AssignReused(c, p)
      BY <1>0, <3>2 DEF AssignChosen, AssignReused, WantsPort, GotPort, At, CallState
    <3>3. CASE AssignMiss(c)
      BY <1>0, <3>3 DEF AssignMiss, WantsPort, At, CallState
    <3>4. CASE \E p \in PoolPorts : AssignFresh(c, p)
      BY <1>0, <3>4 DEF AssignFresh, GotPort, At, CallState
    <3>5. CASE Reachable(c)
      BY <1>0, <3>5 DEF Reachable, At, CallState
    <3>6. CASE \E j \in Job : SubmitAccepted(c, j)
      BY <1>0, <3>6 DEF SubmitAccepted, At, CallState
    <3>7. CASE \E j \in Job : TakeForTypes(c, j)
      BY <1>0, <3>7 DEF TakeForTypes, At, CallState
    <3>8. QED
      BY <1>12, <3>1, <3>2, <3>3, <3>4, <3>5, <3>6, <3>7
  <2>2. QED
    BY <1>8, <2>1
<1>13. ASSUME NEW j \in Job, CancelDone(c, j)
       PROVE  Sweeps(c)'
  <2>1. /\ call[c].pc = "cancel" /\ call'[c].pc = "release"
        /\ call'[c].result = call[c].result
    BY <1>0, <1>13 DEF CancelDone, Met, At, CallState
  <2>2. QED
    BY <1>8, <2>1
<1>14. ASSUME NEW u \in Uuid,
              GetTypesystem(c, u) \/ Destroy(c, u) \/ \E k \in Component : Instantiate(c, k, u)
       PROVE  Sweeps(c)'
  BY <1>9, <1>14 DEF GetTypesystem, Destroy, Instantiate
<1>15. QED
  BY <1>2, <1>3, <1>4, <1>5, <1>6, <1>10, <1>11, <1>12, <1>13, <1>14 DEF AnyEnters, Continues

\* What workers, Slurm and the composer's flag do.
Outside ==
  \/ UNCHANGED vars
  \/ ToggleShutdown
  \/ \E w \in Worker : AnyWorker(w)
  \/ \E j \in Job : JobEnds(j) \/ JobGone(j)

\* They start no job, and move no caller but in the queue that it iterates over.
LEMMA OutsideCalls ==
  ASSUME TypeInv, Outside
  PROVE  /\ Running' \subseteq Running
         /\ \A c \in Caller : /\ call'[c].pc = call[c].pc
                              /\ call'[c].result = call[c].result
                              /\ call[c].pc = "sweep" => call'[c].todo = call[c].todo
<1>0. call \in [Caller -> CallState] /\ \A c \in Caller : call[c] \in CallState
  BY DEF TypeInv, TypeOK
<1>1. CASE UNCHANGED vars \/ ToggleShutdown \/ \E w \in Worker, u \in Uuid : Run(w, u)
  BY <1>1 DEF vars, ToggleShutdown, Run, slurmVars, Running
<1>2. ASSUME NEW w \in Worker, NEW j \in Job, Take(w, j)
      PROVE  /\ Running' = Running
             /\ \A c \in Caller : /\ call'[c].pc = call[c].pc
                                  /\ call'[c].result = call[c].result
                                  /\ call[c].pc = "sweep" => call'[c].todo = call[c].todo
  <2>1. Running' = Running
    BY <1>2 DEF Take, slurmVars, Running
  <2>2. PICK skip \in SUBSET Destroying(work[w].uuid) :
          call' = [d \in Caller |-> IF d \in skip
                                      THEN [call[d] EXCEPT !.todo = @ \ {j}, !.again = @ \ {j}]
                                      ELSE call[d]]
    BY <1>2 DEF Take
  <2>3. ASSUME NEW c \in skip
        PROVE  /\ call[c].pc \in {"cancel", "release"}
               /\ call'[c].pc = call[c].pc /\ call'[c].result = call[c].result
    BY <1>0, <2>2 DEF Destroying, CallState
  <2>4. ASSUME NEW c \in Caller, c \notin skip
        PROVE  call'[c] = call[c]
    BY <2>2, <2>4
  <2>5. QED
    BY <2>1, <2>3, <2>4
<1>3. ASSUME NEW w \in Worker, PutBack(w)
      PROVE  /\ Running' = Running
             /\ \A c \in Caller : /\ call'[c].pc = call[c].pc
                                  /\ call'[c].result = call[c].result
                                  /\ call'[c].todo = call[c].todo
  <2>1. Running' = Running
    BY <1>3 DEF PutBack, slurmVars, Running
  <2>2. \A c \in Caller : call'[c] = call[c] \/ \E T : call'[c] = [call[c] EXCEPT !.again = T]
    BY <1>3 DEF PutBack
  <2>3. QED
    BY <1>0, <2>1, <2>2 DEF CallState
<1>4. ASSUME NEW j \in Job, JobEnds(j) \/ JobGone(j)
      PROVE  Running' \subseteq Running /\ UNCHANGED call
  BY <1>4 DEF Running, JobEnds, JobGone, Terminate, TypeInv, TypeOK
<1>5. QED
  BY <1>1, <1>2, <1>3, <1>4 DEF Outside, AnyWorker

\* So they leave what a caller has to show.
LEMMA SweepOutside ==
  ASSUME TypeInv, NEW c \in Caller, Sweeps(c), Outside
  PROVE  Sweeps(c)'
BY OutsideCalls, SweepFrame

\* Every step keeps what a lone caller has to show.
LEMMA SweepStep ==
  ASSUME TypeInv, OrphanInv, SweepInv, [Next]_vars
  PROVE  SweepInv'
<1> SUFFICES ASSUME NEW c \in Caller, Caller = {c}
             PROVE  Sweeps(c)'
  BY DEF SweepInv
<1>0. Sweeps(c) /\ call \in [Caller -> CallState] /\ call[c] \in CallState
  BY DEF SweepInv, TypeInv, TypeOK
<1>1. ASSUME NEW d \in Caller, Enters(d) \/ Continues(d)
      PROVE  Sweeps(c)'
  <2>1. d = c /\ \A e \in Caller : e # c => ~At(e, "put")
    OBVIOUS
  <2>2. AnyEnters(c) \/ Continues(c)
    BY <1>1, <2>1 DEF Enters, AnyEnters
  <2>3. QED
    BY <1>0, <2>1, <2>2, SweepOfCaller
<1>2. CASE ~\E d \in Caller : Enters(d) \/ Continues(d)
  <2>1. \A w \in Worker : WorkerNext(w) => AnyWorker(w)
    BY DEF WorkerNext, AnyWorker
  <2>2. Outside
    BY <1>2, <2>1 DEF Next, Outside
  <2>3. QED
    BY <1>0, <2>2, SweepOutside
<1>3. QED
  BY <1>1, <1>2

\* When shutdown() has returned to a caller that is alone, Slurm runs no job of the
\* driver that it has not lost sight of (CleanAfterShutdown): the table names every job
\* that runs when shutdown() begins, and no other begins before it returns.
THEOREM ShutdownCleans == Spec => []CleanAfterShutdown
<1>1. Init => TypeInv /\ OrphanInv /\ SweepInv
  <2>1. Init => SweepInv
    BY DEF Init, SweepInv, Sweeps, Running, Idle
  <2>2. QED
    BY <2>1, InitTypes, InitOrphans
<1>2. TypeInv /\ OrphanInv /\ SweepInv /\ [Next]_vars => (TypeInv /\ OrphanInv /\ SweepInv)'
  BY TypeStep, OrphanStep, SweepStep
<1>3. SweepInv => CleanAfterShutdown
  BY DEF SweepInv, Sweeps, Running, CleanAfterShutdown
<1>4. QED
  BY <1>1, <1>2, <1>3, PTL DEF Spec
=============================================================================
