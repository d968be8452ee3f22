-------------------------- MODULE Composer_proofs --------------------------
(***************************************************************************)
(* Proofs about the composer, for every pipeline, every number of documents*)
(* and workers and every pool of ports: the types of its state, and that a *)
(* run() or a shutdown hook that returns leaves no job behind.             *)
(***************************************************************************)
EXTENDS Composer, SlurmDriver_proofs

(* What a step of one thread in the driver does to the calls of the others *)

\* Caller c moves another caller d only from remove() to the iteration over the same
\* component's instances, and in what a traversal of the job table will meet.
LEMMA Beside ==
  ASSUME TypeInv, NEW c \in Caller, NEW d \in Caller, d # c, AnyEnters(c) \/ Continues(c)
  PROVE  /\ call'[d].result = call[d].result
         /\ \/ call'[d].pc = call[d].pc
            \/ call[d].pc = "remove" /\ call'[d].pc = "cancel"
         /\ \/ call[d].pc # "sweep"
            \/ call'[d].todo = call[d].todo
            \/ RecordJob(c)
            \/ ReleaseInstance(c)
<1>0. call \in [Caller -> CallState] /\ call[d] \in CallState
  BY DEF TypeInv, TypeOK
<1>1. CASE AnyEnters(c)
  <2>1. call'[d] = call[d]
    BY <1>0, <1>1 DEF AnyEnters, Instantiate, GetTypesystem, GetTypesystemUnknown, Destroy,
       Shutdown, NoToken, Throw, Return
  <2>2. QED
    BY <2>1
<1>2. CASE \/ Register(c) \/ LoopDone(c) \/ LoopInterrupted(c) \/ AssignChosen(c)
           \/ AssignMiss(c) \/ AssignFail(c)
           \/ \E p \in PoolPorts : AssignReused(c, p) \/ AssignFresh(c, p)
  <2>1. call'[d] = call[d]
    BY <1>0, <1>2 DEF Register, LoopDone, LoopInterrupted, AssignChosen, AssignMiss, AssignFail,
       AssignReused, AssignFresh, GotPort, Throw, Return
  <2>2. QED
    BY <2>1
<1>3. CASE \/ SubmitRejected(c) \/ Reachable(c) \/ Unreachable(c) \/ ProbeAnswered(c)
           \/ ProbeFailed(c) \/ \E j \in Job : SubmitAccepted(c, j) \/ SubmitLost(c, j)
  <2>1. call'[d] = call[d]
    BY <1>0, <1>3 DEF SubmitRejected, Reachable, Unreachable, ProbeAnswered, ProbeFailed,
       SubmitAccepted, SubmitLost, NextRound, Throw, Return
  <2>2. QED
    BY <2>1
<1>4. CASE \/ TypesAnswered(c) \/ TypesFailed(c) \/ RemoveUnknown(c) \/ DestroyReturns(c)
           \/ SweepReturns(c)
           \/ \E j \in Job : TakeForTypes(c, j) \/ CancelDone(c, j) \/ CancelThrows(c, j)
           \/ \E j \in Job : SweepDone(c, j) \/ SweepThrows(c, j)
  <2>1. call'[d] = call[d]
    BY <1>0, <1>4 DEF TypesAnswered, TypesFailed, RemoveUnknown, DestroyReturns, SweepReturns,
       TakeForTypes, CancelDone, CancelThrows, SweepDone, SweepThrows, Swept, Throw, Return
  <2>2. QED
    BY <2>1
<1>5. CASE Remove(c)
  <2>1. \/ call'[d] = call[d]
        \/ /\ call[d].pc = "remove"
           /\ \E todo : call'[d] = [call[d] EXCEPT !.pc = "cancel", !.todo = todo]
    BY <1>5 DEF Remove, At
  <2>2. QED
    BY <1>0, <2>1 DEF CallState
<1>6. CASE RecordJob(c) \/ ReleaseInstance(c)
  BY <1>6, TableWrite
<1>7. QED
  BY <1>1, <1>2, <1>3, <1>4, <1>5, <1>6 DEF Continues

\* A caller that goes on in a method of the driver stays in it or returns.
LEMMA Within ==
  ASSUME TypeInv, NEW c \in Caller, Continues(c), call'[c].pc # "idle"
  PROVE  \/ call[c].pc \in Loading /\ call'[c].pc \in Loading
         \/ call[c].pc \in {"take", "ask"} /\ call'[c].pc \in {"take", "ask"}
         \/ /\ call[c].pc \in {"remove", "cancel", "release"}
            /\ call'[c].pc \in {"remove", "cancel", "release"}
         \/ call[c].pc = "sweep" /\ call'[c].pc = "sweep"
<1>0. call \in [Caller -> CallState] /\ call[c] \in CallState
  BY DEF TypeInv, TypeOK
<1>1. ASSUME NEW r, Return(c, r)
      PROVE  FALSE
  <2>1. call'[c] = [Idle EXCEPT !.result = r]
    BY <1>0, <1>1 DEF Return
  <2>2. QED
    BY <2>1 DEF Idle
<1>2. CASE \/ LoopDone(c) \/ LoopInterrupted(c) \/ AssignFail(c) \/ SubmitRejected(c)
           \/ Unreachable(c) \/ TypesAnswered(c) \/ TypesFailed(c) \/ RemoveUnknown(c)
           \/ DestroyReturns(c) \/ SweepReturns(c)
           \/ \E j \in Job : SubmitLost(c, j) \/ CancelThrows(c, j) \/ SweepThrows(c, j)
  BY <1>1, <1>2 DEF LoopDone, LoopInterrupted, AssignFail, SubmitRejected, Unreachable,
     TypesAnswered, TypesFailed, RemoveUnknown, DestroyReturns, SweepReturns, SubmitLost,
     CancelThrows, SweepThrows, Throw
<1>3. CASE \/ Register(c) \/ AssignChosen(c) \/ AssignMiss(c)
           \/ \E p \in PoolPorts : AssignReused(c, p) \/ AssignFresh(c, p)
  BY <1>0, <1>3 DEF Register, AssignChosen, AssignMiss, AssignReused, AssignFresh, WantsPort,
     GotPort, At, CallState, Loading
<1>4. CASE Reachable(c) \/ \E j \in Job : SubmitAccepted(c, j)
  BY <1>0, <1>4 DEF Reachable, SubmitAccepted, At, CallState, Loading
<1>5. CASE ProbeAnswered(c) \/ ProbeFailed(c)
  <2>1. /\ call[c].pc = "probe"
        /\ \E u, i : call'[c] = [Idle EXCEPT !.pc = "loop", !.uuid = u, !.i = i]
    BY <1>0, <1>5 DEF ProbeAnswered, ProbeFailed, NextRound, At
  <2>2. QED
    BY <2>1 DEF Idle, Loading
<1>6. CASE RecordJob(c) \/ ReleaseInstance(c)
  <2>1. \/ call[c].pc = "put" /\ call'[c] = [call[c] EXCEPT !.pc = "await"]
        \/ call[c].pc = "release" /\ call'[c] = [call[c] EXCEPT !.pc = "cancel"]
    BY <1>6 DEF RecordJob, ReleaseInstance, WriteTable, At
  <2>2. QED
    BY <1>0, <2>1 DEF CallState, Loading
<1>7. CASE \E j \in Job : TakeForTypes(c, j)
  BY <1>0, <1>7 DEF TakeForTypes, At, CallState
<1>8. CASE Remove(c)
  <2>1. /\ call[c].pc = "remove"
        /\ \E todo : call'[c] = [call[c] EXCEPT !.pc = "cancel", !.todo = todo]
    BY <1>8 DEF Remove, At
  <2>2. QED
    BY <1>0, <2>1 DEF CallState
<1>9. CASE \E j \in Job : CancelDone(c, j)
  <2>1. PICK j \in Job : CancelDone(c, j)
    BY <1>9
  <2>2. call[c].pc = "cancel" /\ call'[c].pc = "release"
    BY <1>0, <2>1 DEF CancelDone, Met, At, CallState
  <2>3. QED
    BY <2>2
<1>10. CASE \E j \in Job : SweepDone(c, j)
  BY <1>0, <1>10 DEF SweepDone, Swept, At, CallState
<1>11. QED
  BY <1>2, <1>3, <1>4, <1>5, <1>6, <1>7, <1>8, <1>9, <1>10 DEF Continues

\* No step starts a job unless a caller is about to submit one.
LEMMA NothingStarted ==
  ASSUME TypeInv, NEW c \in Caller, AnyEnters(c) \/ Continues(c), ~At(c, "submit")
  PROVE  Running' \subseteq Running
<1>0. cluster \in [Job -> {"none", "live"} \cup Over]
  BY DEF TypeInv, TypeOK
<1>1. CASE AnyEnters(c)
  <2>1. UNCHANGED <<cluster, trouble>>
    BY <1>1 DEF AnyEnters, Instantiate, GetTypesystem, GetTypesystemUnknown, Destroy, Shutdown,
       NoToken, slurmVars
  <2>2. QED
    BY <2>1 DEF Running
<1>2. CASE \/ Register(c) \/ LoopDone(c) \/ LoopInterrupted(c) \/ AssignChosen(c)
           \/ AssignMiss(c) \/ AssignFail(c)
           \/ \E p \in PoolPorts : AssignReused(c, p) \/ AssignFresh(c, p)
  <2>1. UNCHANGED <<cluster, trouble>>
    BY <1>2 DEF Register, LoopDone, LoopInterrupted, AssignChosen, AssignMiss, AssignFail,
       AssignReused, AssignFresh, slurmVars
  <2>2. QED
    BY <2>1 DEF Running
<1>3. CASE \/ SubmitRejected(c) \/ Reachable(c) \/ Unreachable(c) \/ ProbeAnswered(c)
           \/ ProbeFailed(c) \/ \E j \in Job : SubmitAccepted(c, j) \/ SubmitLost(c, j)
  <2>1. UNCHANGED <<cluster, trouble>>
    BY <1>3 DEF SubmitRejected, Reachable, Unreachable, ProbeAnswered, ProbeFailed,
       SubmitAccepted, SubmitLost, slurmVars
  <2>2. QED
    BY <2>1 DEF Running
<1>4. CASE \/ TypesAnswered(c) \/ TypesFailed(c) \/ Remove(c) \/ RemoveUnknown(c)
           \/ DestroyReturns(c) \/ SweepReturns(c) \/ \E j \in Job : TakeForTypes(c, j)
  <2>1. UNCHANGED <<cluster, trouble>>
    BY <1>4 DEF TypesAnswered, TypesFailed, Remove, RemoveUnknown, DestroyReturns, SweepReturns,
       TakeForTypes, slurmVars
  <2>2. QED
    BY <2>1 DEF Running
<1>5. ASSUME NEW j \in Job,
             CancelDone(c, j) \/ CancelThrows(c, j) \/ SweepDone(c, j) \/ SweepThrows(c, j)
      PROVE  Running' \subseteq Running
  <2>1. UNCHANGED trouble /\ (Terminate(j) \/ UNCHANGED cluster)
    BY <1>5 DEF CancelDone, CancelThrows, SweepDone, SweepThrows
  <2>2. QED
    BY <1>0, <2>1 DEF Running, Terminate, Over
<1>6. CASE RecordJob(c) \/ ReleaseInstance(c)
  <2>1. UNCHANGED cluster
    BY <1>6 DEF RecordJob, ReleaseInstance, slurmVars
  <2>2. QED
    BY <1>6, <2>1, TableWrite DEF Running
<1>7. QED
  BY <1>1, <1>2, <1>3, <1>4, <1>5, <1>6 DEF Continues

\* What another caller does leaves what d has to show: an entry that destroy() takes out
\* of the table while d traverses it is that of a job Slurm was told to end.
LEMMA SweepBeside ==
  ASSUME TypeInv, OrphanInv, NEW c \in Caller, NEW d \in Caller, d # c, Sweeps(d),
         AnyEnters(c) \/ Continues(c),
         call[d].pc = "sweep" \/ call[d].result = "void" =>
           \A e \in Caller : ~At(e, "submit") /\ ~At(e, "put")
  PROVE  Sweeps(d)'
<1>1. /\ call'[d].result = call[d].result
      /\ \/ call'[d].pc = call[d].pc
         \/ call[d].pc = "remove" /\ call'[d].pc = "cancel"
      /\ \/ call[d].pc # "sweep"
         \/ call'[d].todo = call[d].todo
         \/ RecordJob(c)
         \/ ReleaseInstance(c)
  BY Beside
<1>2. CASE call[d].pc # "sweep" /\ call[d].result # "void"
  <2>1. call'[d].pc # "sweep" /\ call'[d].result # "void"
    BY <1>1, <1>2
  <2>2. call'[d].pc = "idle" \/ call'[d].result = "none"
    BY <1>1 DEF Sweeps
  <2>3. QED
    BY <2>1, <2>2, SweepElsewhere
<1>3. CASE call[d].pc = "sweep" \/ call[d].result = "void"
  <2>1. Running' \subseteq Running
    BY <1>3, NothingStarted
  <2>2. call'[d].pc = call[d].pc
    BY <1>1, <1>3 DEF Sweeps
  <2>3. CASE call[d].pc = "sweep" => call'[d].todo = call[d].todo
    BY <1>1, <2>1, <2>2, <2>3, SweepFrame
  <2>4. CASE call[d].pc = "sweep" /\ ReleaseInstance(c)
    <3>1. At(c, "release") /\ ~At(c, "put") /\ Written(c) = jobMap \ {call[c].job}
      BY <2>4 DEF ReleaseInstance, At, Written
    <3>2. call[d].todo \cap Written(c) \subseteq call'[d].todo
      BY <2>4, <3>1, TableWrite
    <3>3. Running \subseteq jobMap
      BY <1>3 DEF Running, OrphanInv, NoOrphans
    <3>4. call[c].job \notin Running
      BY <3>1 DEF OrphanInv, CancelledFirst, Running, Over
    <3>5. Running \subseteq call[d].todo
      BY <2>4 DEF Sweeps
    <3>6. Running' \subseteq call'[d].todo
      BY <2>1, <3>1, <3>2, <3>3, <3>4, <3>5
    <3>7. call'[d].result = "none"
      BY <1>1, <2>4 DEF Sweeps
    <3>8. QED
      BY <2>2, <2>4, <3>6, <3>7 DEF Sweeps
  <2>5. CASE RecordJob(c)
    BY <1>3, <2>5 DEF RecordJob
  <2>6. QED
    BY <1>1, <2>3, <2>4, <2>5
<1>4. QED
  BY <1>2, <1>3

-----------------------------------------------------------------------------
(* The types of the composer's state, and where its threads are            *)

\* The places of the shutdown hook.
HookLabels ==
  {"asleep", "shutdown", "parts", "part", "parting", "driver", "driving", "ended", "failed"}

ThreadState ==
  [pc : Labels, k : Nat, uuid : Uuid \cup {NoUuid}, cursor : Nat, seen : Nat,
   ret : {"nodesc", "ended", "failed"}]

\* A thread at l in the composer may be at p in the driver.
InPhase(l, p) ==
  /\ p \in Loading => l = "made"
  /\ p \in {"take", "ask"} => l = "typed"
  /\ p \in {"remove", "cancel", "release"} => l = "parting"
  /\ p = "sweep" => l = "driving"

\* An iterator over a vector of n parts that was changed m times is within it, unless
\* it was changed since.
InVector(r, m, n) ==
  /\ r.pc \in {"parts", "part", "parting"} => r.seen <= m
  /\ r.pc = "parts" /\ r.seen = m => r.cursor <= n
  /\ r.pc \in {"part", "parting"} /\ r.seen = m => r.cursor < n

\* Where thread c may be: the hook does nothing but shut down, and the main thread asks
\* for the types of, and adds, a component it has a uuid for.
Place(c, r, p, m, n) ==
  /\ InPhase(r.pc, p)
  /\ InVector(r, m, n)
  /\ r.k >= 1
  /\ c = hook => r.pc \in HookLabels /\ r.ret = "ended"
  /\ c = main /\ r.pc \in {"made", "typed"} => r.uuid \in Uuid

Places == \A c \in Caller : Place(c, thread[c], call[c].pc, modCount, Len(pipeline))

\* The type invariant with what it needs to be inductive.
TInv == TypeInv /\ ComposerTypeOK /\ Places

\* A thread that moves, while the others stay where they are in the driver and the vector
\* is left alone or changed once more.
LEMMA ThreadMoves ==
  ASSUME TInv, TypeInv', NEW c \in Caller,
         thread' \in [Caller -> ThreadState],
         \A d \in Caller \ {c} : thread'[d] = thread[d] /\ call'[d].pc = call[d].pc,
         Place(c, thread'[c], call'[c].pc, modCount', Len(pipeline')),
         \/ UNCHANGED vector
         \/ pipeline' \in Seq(Uuid) /\ modCount' = modCount + 1,
         hasShutdown' \subseteq Caller, UNCHANGED <<loop, documents, partial>>,
         early' \in BOOLEAN
  PROVE  TInv'
<1>1. thread \in [Caller -> ThreadState]
  BY DEF TInv, ComposerTypeOK, ThreadState
<1>2. ASSUME NEW d \in Caller, d # c
      PROVE  Place(d, thread'[d], call'[d].pc, modCount', Len(pipeline'))
  <2>1. Place(d, thread[d], call[d].pc, modCount, Len(pipeline))
    BY DEF TInv, Places
  <2>2. thread'[d] = thread[d] /\ call'[d].pc = call[d].pc
    BY <1>2
  <2>3. CASE UNCHANGED vector
    BY <2>1, <2>2, <2>3 DEF vector
  <2>4. CASE modCount' = modCount + 1
    <3>1. thread[d].seen \in Nat /\ modCount \in Nat
      BY <1>1 DEF ThreadState, TInv, ComposerTypeOK
    <3>2. thread[d].pc \in {"parts", "part", "parting"} => thread[d].seen <= modCount
      BY <2>1 DEF Place, InVector
    <3>3. InVector(thread[d], modCount', Len(pipeline'))
      BY <2>4, <3>1, <3>2 DEF InVector
    <3>4. QED
      BY <2>1, <2>2, <3>3 DEF Place
  <2>5. QED
    BY <2>3, <2>4
<1>3. Places'
  BY <1>2 DEF Places
<1>4. ComposerTypeOK'
  BY DEF TInv, TypeInv, ComposerTypeOK, ThreadState, vector
<1>5. QED
  BY <1>3, <1>4 DEF TInv

\* What Goto and CallShutdown do.
LEMMA Going ==
  ASSUME TInv, NEW c \in Caller, NEW l \in Labels, NEW r \in {"nodesc", "ended", "failed"},
         Goto(c, l) \/ (l = "shutdown" /\ CallShutdown(c, r))
  PROVE  /\ thread' \in [Caller -> ThreadState]
         /\ \A d \in Caller \ {c} : thread'[d] = thread[d]
         /\ thread'[c].pc = l
         /\ thread'[c].k = thread[c].k
         /\ thread'[c].ret = IF Goto(c, l) THEN thread[c].ret ELSE r
<1>1. thread \in [Caller -> ThreadState]
  BY DEF TInv, ComposerTypeOK, ThreadState
<1>2. CASE Goto(c, l)
  BY <1>1, <1>2 DEF Goto, ThreadState
<1>3. CASE ~Goto(c, l)
  <2>1. l = "shutdown" /\ thread' = [thread EXCEPT ![c].pc = "shutdown", ![c].ret = r]
    BY <1>3 DEF CallShutdown
  <2>2. QED
    BY <1>1, <1>3, <2>1 DEF ThreadState
<1>4. QED
  BY <1>2, <1>3

\* A thread that is not in the driver and goes where it has no iterator and no call.
LEMMA Leaps ==
  ASSUME TInv, TypeInv', NEW c \in Caller, NEW l \in Labels, NEW r \in {"nodesc", "ended", "failed"},
         Goto(c, l) \/ (l = "shutdown" /\ CallShutdown(c, r)),
         c = hook => l \in HookLabels /\ r = "ended",
         l \notin {"made", "typed", "parts", "part", "parting", "driving"},
         call[c].pc = "idle", UNCHANGED call, UNCHANGED vector,
         hasShutdown' \subseteq Caller, UNCHANGED <<loop, documents, partial>>,
         early' \in BOOLEAN
  PROVE  TInv'
<1>1. /\ thread' \in [Caller -> ThreadState]
      /\ \A d \in Caller \ {c} : thread'[d] = thread[d]
      /\ thread'[c].pc = l
      /\ thread'[c].k = thread[c].k
      /\ thread'[c].ret = IF Goto(c, l) THEN thread[c].ret ELSE r
  BY Going
<1>2. thread[c].k >= 1 /\ (c = hook => thread[c].ret = "ended")
  BY DEF TInv, Places, Place
<1>3. Place(c, thread'[c], call'[c].pc, modCount', Len(pipeline'))
  BY <1>1, <1>2 DEF Place, InPhase, InVector, Loading
<1>4. QED
  BY <1>1, <1>3, ThreadMoves

\* Only a caller that is in a method goes on in it.
LEMMA Busy ==
  ASSUME NEW c \in Caller, Continues(c)
  PROVE  call[c].pc # "idle"
<1>1. CASE \/ Register(c) \/ LoopDone(c) \/ LoopInterrupted(c) \/ AssignChosen(c)
           \/ AssignMiss(c) \/ AssignFail(c)
           \/ \E p \in PoolPorts : AssignReused(c, p) \/ AssignFresh(c, p)
  BY <1>1 DEF Register, LoopDone, LoopInterrupted, AssignChosen, AssignMiss, AssignFail,
     AssignReused, AssignFresh, WantsPort, At
<1>2. CASE \/ SubmitRejected(c) \/ Reachable(c) \/ Unreachable(c) \/ ProbeAnswered(c)
           \/ ProbeFailed(c) \/ RecordJob(c)
           \/ \E j \in Job : SubmitAccepted(c, j) \/ SubmitLost(c, j)
  BY <1>2 DEF SubmitRejected, Reachable, Unreachable, ProbeAnswered, ProbeFailed, RecordJob,
     SubmitAccepted, SubmitLost, At
<1>3. CASE \/ TypesAnswered(c) \/ TypesFailed(c) \/ Remove(c) \/ RemoveUnknown(c)
           \/ DestroyReturns(c) \/ SweepReturns(c) \/ ReleaseInstance(c)
           \/ \E j \in Job : TakeForTypes(c, j) \/ CancelDone(c, j) \/ CancelThrows(c, j)
           \/ \E j \in Job : SweepDone(c, j) \/ SweepThrows(c, j)
  BY <1>3 DEF TypesAnswered, TypesFailed, Remove, RemoveUnknown, DestroyReturns, SweepReturns,
     ReleaseInstance, TakeForTypes, CancelDone, CancelThrows, SweepDone, SweepThrows, At
<1>4. QED
  BY <1>1, <1>2, <1>3 DEF Continues

\* The composer sets its flag to what it is, or changes it.
LEMMA FlagSet ==
  ASSUME TypeInv, NEW b \in BOOLEAN, SetShutdown(b)
  PROVE  Outside /\ UNCHANGED call
<1>1. shutdown \in BOOLEAN
  BY DEF TypeInv, TypeOK
<1>2. shutdown' = b
  BY DEF SetShutdown
<1>3. UNCHANGED shutdown \/ shutdown' = ~shutdown
  BY <1>1, <1>2, Zenon
<1>4. UNCHANGED call
  BY DEF SetShutdown
<1>5. CASE UNCHANGED shutdown
  BY <1>5 DEF SetShutdown, Outside, vars, poolVars, driverVars, slurmVars, history
<1>6. CASE shutdown' = ~shutdown
  BY <1>6 DEF SetShutdown, Outside, ToggleShutdown
<1>7. QED
  BY <1>3, <1>4, <1>5, <1>6

\* The steps of the main thread in run() that leave the driver and its flag alone.
MainAlone ==
  \/ ResetHasShutdown \/ InstantiationStops \/ InstantiationDone \/ MadeNull \/ AddPart
  \/ InstantiationThrows \/ TypesThrow \/ NoDescription
  \/ \E w \in Worker : StartWorker(w)
  \/ SpawnStops \/ SpawnDone \/ ReadAhead \/ ReadAheadDone \/ MemoryFree \/ FeedThrows
  \/ JoinWorkers

\* The same for the steps of shutdown(),
ShutdownAlone(c) ==
  \/ ShutdownSkips(c) \/ MorePartsLeft(c) \/ PartsChanged(c) \/ PartDestroyed(c)
  \/ PartThrows(c) \/ ClearPipeline(c) \/ ShutdownDone(c) \/ ShutdownThrows(c)

\* and of a worker.
LoopAlone(w) ==
  \/ WorkerEnds(w) \/ TakeDocument(w) \/ ReadFails(w) \/ StartFlow(w) \/ MoreParts(w)
  \/ PartGone(w) \/ FlowChanged(w) \/ PartSucceeds(w) \/ PartFails(w) \/ DocumentDone(w)

\* What a step of the composer is in the driver: one of a thread's call, not of the hook
\* before it has started, or one of somebody else.
LEMMA DriverView ==
  ASSUME TInv, [ComposerNext]_allVars
  PROVE  \/ Outside
         \/ \E c \in Caller : /\ AnyEnters(c) \/ Continues(c)
                              /\ c = hook => thread[hook].pc # "asleep"
<1>0. /\ main \in Caller /\ hook \in Caller /\ main # hook
      /\ TypeInv /\ active \subseteq Uuid
      /\ thread \in [Caller -> ThreadState]
  BY ComposerAssumption DEF TInv, TypeInv, TypeOK, ComposerTypeOK, ThreadState
<1>1. CASE UNCHANGED allVars
  BY <1>1 DEF allVars, vars, Outside
<1>2. CASE MainAlone
  <2>1. UNCHANGED vars
    BY <1>2 DEF MainAlone, ResetHasShutdown, InstantiationStops, InstantiationDone, MadeNull,
       AddPart, InstantiationThrows, TypesThrow, NoDescription, StartWorker, SpawnStops,
       SpawnDone, ReadAhead, ReadAheadDone, MemoryFree, FeedThrows, JoinWorkers
  <2>2. QED
    BY <2>1 DEF Outside
<1>3. ASSUME RunStarts \/ FeedDone \/ Interrupt \/ \E c \in Caller : ShutdownStarts(c)
      PROVE  Outside
  <2>1. \E b \in BOOLEAN : SetShutdown(b)
    BY <1>3 DEF RunStarts, FeedDone, Interrupt, ShutdownStarts
  <2>2. QED
    BY <1>0, <2>1, FlagSet
<1>4. ASSUME NEW u \in Uuid, InstantiateNext(u)
      PROVE  AnyEnters(main)
  <2>1. thread[main].k \in 1 .. Len(Pipeline)
    BY <1>0, <1>4, ComposerAssumption DEF InstantiateNext, ThreadState, TInv, Places, Place
  <2>2. Pipeline[thread[main].k] \in Component
    BY <2>1, ComposerAssumption
  <2>3. QED
    BY <1>4, <2>2 DEF InstantiateNext, AnyEnters
<1>5. CASE AskTypes
  <2>1. thread[main].uuid \in Uuid
    BY <1>0, <1>5 DEF TInv, Places, Place, AskTypes, In
  <2>2. QED
    BY <1>0, <1>5, <2>1 DEF AskTypes, AnyEnters
<1>6. ASSUME NEW c \in Caller, ShutdownAlone(c)
      PROVE  Outside
  <2>1. UNCHANGED vars
    BY <1>6 DEF ShutdownAlone, ShutdownSkips, MorePartsLeft, PartsChanged, PartDestroyed,
       PartThrows, ClearPipeline, ShutdownDone, ShutdownThrows
  <2>2. QED
    BY <2>1 DEF Outside
<1>7. ASSUME NEW c \in Caller, DestroyPart(c)
      PROVE  AnyEnters(c) /\ thread[c].pc # "asleep"
  <2>1. thread[c].pc = "part" /\ modCount = thread[c].seen
    BY <1>7 DEF DestroyPart, In
  <2>2. thread[c].cursor < Len(pipeline)
    BY <2>1 DEF TInv, Places, Place, InVector
  <2>3. pipeline \in Seq(Uuid) /\ thread[c].cursor \in Nat
    BY <1>0 DEF TInv, ComposerTypeOK, ThreadState
  <2>4. pipeline[thread[c].cursor + 1] \in Uuid
    BY <2>1, <2>2, <2>3
  <2>5. QED
    BY <1>7, <2>1, <2>4 DEF DestroyPart, AnyEnters
<1>8. ASSUME NEW c \in Caller, ShutdownDriver(c)
      PROVE  AnyEnters(c) /\ thread[c].pc # "asleep"
  BY <1>8 DEF ShutdownDriver, AnyEnters, In
<1>9. ASSUME NEW c \in Caller, DriverNext(c)
      PROVE  Continues(c) /\ thread[c].pc # "asleep"
  <2>1. Continues(c) /\ call[c].pc # "idle" /\ call[c] \in CallState
    BY <1>0, <1>9, Busy DEF DriverNext, TypeInv, TypeOK
  <2>2. InPhase(thread[c].pc, call[c].pc)
    BY DEF TInv, Places, Place
  <2>3. QED
    BY <2>1, <2>2 DEF InPhase, CallState, Loading
<1>10. ASSUME NEW w \in Worker, LoopAlone(w)
       PROVE  Outside
  <2>1. UNCHANGED vars
    BY <1>10 DEF LoopAlone, WorkerEnds, TakeDocument, ReadFails, StartFlow, MoreParts, PartGone,
         FlowChanged,
       PartSucceeds, PartFails, DocumentDone
  <2>2. QED
    BY <2>1 DEF Outside
<1>11. ASSUME NEW w \in Worker, RunPart(w) \/ PutBack(w) \/ \E j \in Job : Take(w, j)
       PROVE  Outside
  BY <1>0, <1>11 DEF RunPart, Run, Outside, AnyWorker
<1>12. CASE HookStarts
  BY <1>12 DEF HookStarts, Outside
<1>13. CASE \E j \in Job : JobEnds(j) \/ JobGone(j)
  BY <1>13 DEF Outside
<1>14. CASE MainNext \/ MemoryFree
  BY <1>0, <1>2, <1>3, <1>4, <1>5, <1>14 DEF MainNext, MainAlone
<1>15. ASSUME NEW c \in Caller, ShutdownNext(c) \/ DriverNext(c)
       PROVE  \/ Outside
              \/ (AnyEnters(c) \/ Continues(c)) /\ (c = hook => thread[hook].pc # "asleep")
  BY <1>3, <1>6, <1>7, <1>8, <1>9, <1>15 DEF ShutdownNext, ShutdownAlone
<1>16. ASSUME NEW w \in Worker, LoopNext(w)
       PROVE  Outside
  BY <1>10, <1>11, <1>16 DEF LoopNext, LoopAlone
<1>17. QED
  BY <1>1, <1>3, <1>12, <1>13, <1>14, <1>15, <1>16 DEF ComposerNext

\* So the driver's types are kept, and its jobs within reach.
LEMMA DriverKept ==
  ASSUME TInv, [ComposerNext]_allVars
  PROVE  TypeInv' /\ (OrphanInv => OrphanInv')
<1>1. [AnyNext]_vars
  BY DriverView DEF Outside, AnyNext
<1>2. TypeInv'
  BY <1>1, TypeAny DEF TInv
<1>3. QED
  BY <1>1, <1>2, OrphanAny DEF TInv

LoopState ==
  [pc : {"new", "poll", "taken", "parts", "part", "running", "ended", "dead"},
   cursor : Nat, seen : Nat]

\* Calls go on while main thread and hook stay where they are in the composer.
LEMMA CallsMove ==
  ASSUME TInv, TypeInv', UNCHANGED <<vector, hasShutdown, thread, early>>,
         loop' \in [Worker -> LoopState], documents' \in 0 .. Documents, partial' \in BOOLEAN,
         \A c \in Caller : InPhase(thread[c].pc, call'[c].pc)
  PROVE  TInv'
<1>1. Places'
  BY DEF TInv, Places, Place, vector
<1>2. ComposerTypeOK'
  BY DEF TInv, TypeInv, ComposerTypeOK, LoopState, vector
<1>3. QED
  BY <1>1, <1>2 DEF TInv

\* A thread that is not at a place from which it calls the driver is in no method of it.
LEMMA NotInDriver ==
  ASSUME TInv, NEW c \in Caller, thread[c].pc \notin {"made", "typed", "parting", "driving"}
  PROVE  call[c].pc = "idle"
<1>1. InPhase(thread[c].pc, call[c].pc) /\ call[c] \in CallState
  BY DEF TInv, TypeInv, TypeOK, Places, Place
<1>2. QED
  BY <1>1 DEF InPhase, CallState, Loading

\* The steps in which main thread or hook goes where it has no iterator and no call.
LEMMA LeapSteps ==
  ASSUME TInv, TypeInv',
         \/ MainAlone /\ ~AddPart /\ ~\E w \in Worker : StartWorker(w)
         \/ RunStarts \/ FeedDone \/ HookStarts
         \/ \E c \in Caller :
              \/ ShutdownSkips(c) \/ PartsChanged(c) \/ PartThrows(c)
              \/ ShutdownDone(c) \/ ShutdownThrows(c)
  PROVE  TInv'
<1>0. /\ main \in Caller /\ hook \in Caller /\ main # hook
      /\ hasShutdown \subseteq Caller /\ early \in BOOLEAN
      /\ thread \in [Caller -> ThreadState] /\ thread[hook].ret = "ended"
  BY ComposerAssumption DEF TInv, ComposerTypeOK, ThreadState, Places, Place
<1>1. CASE \/ InstantiationStops \/ InstantiationDone \/ SpawnDone \/ ReadAhead
           \/ ReadAheadDone \/ MemoryFree
  <2>1. /\ thread[main].pc \in {"next", "spawn", "feed", "reading", "full"}
        /\ \E l \in {"nodesc", "spawn", "feed", "reading", "full"} : Goto(main, l)
        /\ UNCHANGED <<vars, vector, hasShutdown, loop, documents, marks>>
    BY <1>1 DEF InstantiationStops, InstantiationDone, SpawnDone, ReadAhead, ReadAheadDone,
       MemoryFree, In
  <2>2. UNCHANGED <<call, vector, hasShutdown, loop, documents, early, partial>>
    BY <2>1 DEF vars, marks
  <2>3. QED
    BY <1>0, <2>1, <2>2, NotInDriver, Leaps DEF Labels
<1>2. CASE TypesThrow \/ NoDescription \/ SpawnStops \/ FeedThrows \/ JoinWorkers
  <2>1. /\ thread[main].pc \in {"next", "nodesc", "spawn", "reading", "join"}
        /\ \E r \in {"ended", "failed"} : CallShutdown(main, r)
        /\ UNCHANGED <<vars, vector, hasShutdown, loop, documents, marks>>
    BY <1>2 DEF TypesThrow, NoDescription, SpawnStops, FeedThrows, JoinWorkers, In
  <2>2. UNCHANGED <<call, vector, hasShutdown, loop, documents, early, partial>>
    BY <2>1 DEF vars, marks
  <2>3. QED
    BY <1>0, <2>1, <2>2, NotInDriver, Leaps DEF Labels
<1>3. CASE MadeNull \/ InstantiationThrows
  <2>1. /\ call[main].pc = "idle"
        /\ \E r \in {"nodesc", "failed"} : CallShutdown(main, r)
        /\ UNCHANGED <<vars, vector, hasShutdown, loop, documents, marks>>
    BY <1>3 DEF MadeNull, InstantiationThrows, Returned, At
  <2>2. UNCHANGED <<call, vector, hasShutdown, loop, documents, early, partial>>
    BY <2>1 DEF vars, marks
  <2>3. QED
    BY <1>0, <2>1, <2>2, Leaps DEF Labels
<1>4. CASE RunStarts \/ FeedDone \/ ResetHasShutdown
  <2>1. /\ thread[main].pc \in {"start", "feed", "full", "reset"}
        /\ \E l \in {"reset", "next", "join"} : Goto(main, l)
        /\ hasShutdown' = hasShutdown \/ hasShutdown' = {}
        /\ UNCHANGED <<vector, loop, documents, marks>>
        /\ UNCHANGED vars \/ \E b \in BOOLEAN : SetShutdown(b)
    BY <1>4 DEF RunStarts, FeedDone, ResetHasShutdown, In
  <2>2. UNCHANGED <<call, vector, loop, documents, early, partial>>
    BY <2>1 DEF vars, marks, SetShutdown
  <2>3. hasShutdown' \subseteq Caller
    BY <1>0, <2>1
  <2>4. QED
    BY <1>0, <2>1, <2>2, <2>3, NotInDriver, Leaps DEF Labels
<1>5. CASE HookStarts
  <2>1. /\ thread[hook].pc = "asleep" /\ CallShutdown(hook, "ended")
        /\ UNCHANGED <<call, vector, hasShutdown, loop, documents, partial>>
        /\ early' \in BOOLEAN
    BY <1>5 DEF HookStarts, In, vars
  <2>2. QED
    BY <1>0, <2>1, NotInDriver, Leaps DEF Labels, HookLabels
<1>6. ASSUME NEW c \in Caller, ShutdownSkips(c)
      PROVE  TInv'
  <2>1. /\ thread[c].pc = "shutdown" /\ Goto(c, thread[c].ret)
        /\ UNCHANGED <<vars, vector, hasShutdown, loop, documents, marks>>
    BY <1>6 DEF ShutdownSkips, In
  <2>2. UNCHANGED <<call, vector, hasShutdown, loop, documents, early, partial>>
    BY <2>1 DEF vars, marks
  <2>3. thread[c].ret \in {"nodesc", "ended", "failed"}
    BY <1>0 DEF ThreadState
  <2>4. QED
    BY <1>0, <2>1, <2>2, <2>3, NotInDriver, Leaps DEF Labels, HookLabels
<1>7. ASSUME NEW c \in Caller, PartsChanged(c) \/ PartThrows(c)
      PROVE  TInv'
  <2>1. /\ thread[c].pc = "part" \/ call[c].pc = "idle"
        /\ Goto(c, "driver")
        /\ UNCHANGED <<vars, vector, hasShutdown, loop, documents, marks>>
    BY <1>7 DEF PartsChanged, PartThrows, Returned, At, In
  <2>2. UNCHANGED <<call, vector, hasShutdown, loop, documents, early, partial>>
    BY <2>1 DEF vars, marks
  <2>3. call[c].pc = "idle"
    BY <2>1, NotInDriver
  <2>4. QED
    BY <1>0, <2>1, <2>2, <2>3, Leaps DEF Labels, HookLabels
<1>8. ASSUME NEW c \in Caller, ShutdownDone(c)
      PROVE  TInv'
  <2>1. /\ call[c].pc = "idle" /\ Goto(c, thread[c].ret)
        /\ hasShutdown' = hasShutdown \cup {c}
        /\ UNCHANGED <<vars, vector, loop, documents, marks>>
    BY <1>8 DEF ShutdownDone, Returned, At
  <2>2. UNCHANGED <<call, vector, loop, documents, early, partial>>
    BY <2>1 DEF vars, marks
  <2>3. thread[c].ret \in {"nodesc", "ended", "failed"} /\ hasShutdown' \subseteq Caller
    BY <1>0, <2>1 DEF ThreadState
  <2>4. QED
    BY <1>0, <2>1, <2>2, <2>3, Leaps DEF Labels, HookLabels
<1>9. ASSUME NEW c \in Caller, ShutdownThrows(c)
      PROVE  TInv'
  <2>1. /\ call[c].pc = "idle"
        /\ Goto(c, "failed") \/ (c = main /\ CallShutdown(c, "failed"))
        /\ UNCHANGED <<vars, vector, hasShutdown, loop, documents, marks>>
    BY <1>9 DEF ShutdownThrows, Returned, At
  <2>2. UNCHANGED <<call, vector, hasShutdown, loop, documents, early, partial>>
    BY <2>1 DEF vars, marks
  <2>3. CASE Goto(c, "failed")
    BY <1>0, <2>1, <2>2, <2>3, Leaps DEF Labels, HookLabels
  <2>4. CASE c = main /\ CallShutdown(c, "failed")
    BY <1>0, <2>1, <2>2, <2>4, Leaps DEF Labels, HookLabels
  <2>5. QED
    BY <2>1, <2>3, <2>4
<1>10. QED
  BY <1>1, <1>2, <1>3, <1>4, <1>5, <1>6, <1>7, <1>8, <1>9 DEF MainAlone

\* The steps that call the driver, or that change or iterate over the vector.
LEMMA PartSteps ==
  ASSUME TInv, TypeInv',
         \/ AddPart \/ AskTypes \/ \E u \in Uuid : InstantiateNext(u)
         \/ \E c \in Caller :
              \/ ShutdownStarts(c) \/ MorePartsLeft(c) \/ DestroyPart(c) \/ PartDestroyed(c)
              \/ ClearPipeline(c) \/ ShutdownDriver(c)
  PROVE  TInv'
<1>0. /\ main \in Caller /\ hook \in Caller /\ main # hook
      /\ hasShutdown \subseteq Caller /\ early \in BOOLEAN
      /\ thread \in [Caller -> ThreadState]
      /\ pipeline \in Seq(Uuid) /\ modCount \in Nat
      /\ call \in [Caller -> CallState]
      /\ \A c \in Caller : Place(c, thread[c], call[c].pc, modCount, Len(pipeline))
  BY ComposerAssumption
  DEF TInv, TypeInv, TypeOK, ComposerTypeOK, ThreadState, Places
<1>a. thread \in [Caller -> ThreadState] /\ main \in Caller
  BY <1>0
<1>1. ASSUME NEW u \in Uuid, InstantiateNext(u)
      PROVE  TInv'
  <2>1. /\ UNCHANGED <<vector, hasShutdown, loop, documents, early, partial>>
        /\ thread' = [thread EXCEPT ![main].pc = "made", ![main].uuid = u]
        /\ call' = [call EXCEPT ![main] = [Idle EXCEPT !.pc = "register", !.uuid = u]]
    BY <1>1 DEF InstantiateNext, Instantiate, marks
  <2>2. /\ thread' \in [Caller -> ThreadState] /\ thread'[main].pc = "made"
        /\ thread'[main].uuid = u /\ thread'[main].k = thread[main].k
        /\ \A d \in Caller \ {main} : thread'[d] = thread[d]
    BY <1>a, <2>1 DEF ThreadState, Labels
  <2>3. call'[main].pc = "register" /\ \A d \in Caller \ {main} : call'[d] = call[d]
    BY <1>0, <2>1 DEF Idle
  <2>4. Place(main, thread'[main], call'[main].pc, modCount', Len(pipeline'))
    BY <1>0, <2>2, <2>3 DEF Place, InPhase, InVector, Loading
  <2>5. QED
    BY <1>0, <2>1, <2>2, <2>3, <2>4, ThreadMoves
<1>2. CASE AskTypes
  <2>1. /\ UNCHANGED <<vector, hasShutdown, loop, documents, early, partial>>
        /\ thread[main].pc = "made" /\ Goto(main, "typed")
    BY <1>2 DEF AskTypes, GetTypesystem, GetTypesystemUnknown, In, marks
  <2>2. /\ thread' \in [Caller -> ThreadState] /\ thread'[main].pc = "typed"
        /\ thread'[main].uuid = thread[main].uuid /\ thread'[main].k = thread[main].k
        /\ \A d \in Caller \ {main} : thread'[d] = thread[d]
    BY <1>a, <2>1 DEF Goto, ThreadState, Labels
  <2>3. call'[main].pc \in {"take", "idle"} /\ \A d \in Caller \ {main} : call'[d] = call[d]
    <3>1. CASE GetTypesystem(main, thread[main].uuid)
      BY <1>0, <3>1 DEF GetTypesystem, Idle
    <3>2. CASE GetTypesystemUnknown(main, thread[main].uuid)
      BY <1>0, <3>2 DEF GetTypesystemUnknown, Throw, Return, Idle
    <3>3. QED
      BY <1>2, <3>1, <3>2 DEF AskTypes
  <2>4. Place(main, thread'[main], call'[main].pc, modCount', Len(pipeline'))
    BY <1>0, <2>1, <2>2, <2>3 DEF Place, InPhase, InVector, Loading
  <2>5. QED
    BY <1>0, <2>1, <2>2, <2>3, <2>4, ThreadMoves
<1>3. CASE AddPart
  <2>1. /\ UNCHANGED <<call, hasShutdown, loop, documents, early, partial>>
        /\ thread[main].pc = "typed" /\ call[main].pc = "idle"
        /\ thread' = [thread EXCEPT ![main].pc = "next", ![main].k = thread[main].k + 1]
        /\ pipeline' = Append(pipeline, thread[main].uuid) /\ modCount' = modCount + 1
    BY <1>3 DEF AddPart, Returned, At, In, vars, marks
  <2>2. /\ thread' \in [Caller -> ThreadState] /\ thread'[main].pc = "next"
        /\ thread'[main].k = thread[main].k + 1 /\ thread[main].k \in Nat
        /\ \A d \in Caller \ {main} : thread'[d] = thread[d]
    BY <1>a, <2>1 DEF ThreadState, Labels
  <2>3. pipeline' \in Seq(Uuid)
    BY <1>0, <2>1 DEF Place
  <2>4. Place(main, thread'[main], call'[main].pc, modCount', Len(pipeline'))
    BY <1>0, <2>1, <2>2 DEF Place, InPhase, InVector, Loading
  <2>5. QED
    BY <1>0, <2>1, <2>2, <2>3, <2>4, ThreadMoves
<1>4. ASSUME NEW c \in Caller, ShutdownStarts(c)
      PROVE  TInv'
  <2>1. /\ UNCHANGED <<call, vector, hasShutdown, loop, documents, early, partial>>
        /\ thread[c].pc = "shutdown"
    BY <1>4 DEF ShutdownStarts, SetShutdown, In, marks
  <2>a. PICK l \in {"driver", "parts"} :
          thread' = [thread EXCEPT ![c].pc = l, ![c].cursor = 0, ![c].seen = modCount]
    BY <1>4 DEF ShutdownStarts
  <2>2. /\ thread' \in [Caller -> ThreadState] /\ thread'[c].pc \in {"driver", "parts"}
        /\ thread'[c].k = thread[c].k /\ thread'[c].ret = thread[c].ret
        /\ thread'[c].cursor = 0 /\ thread'[c].seen = modCount
        /\ \A d \in Caller \ {c} : thread'[d] = thread[d]
    <3>1. l \in Labels /\ modCount \in Nat
      BY <1>0 DEF Labels
    <3>2. QED
      BY <1>a, <2>a, <3>1 DEF ThreadState
  <2>3. call'[c].pc = "idle" /\ Len(pipeline) \in Nat
    BY <1>0, <2>1, NotInDriver
  <2>4. Place(c, thread'[c], call'[c].pc, modCount', Len(pipeline'))
    BY <1>0, <2>1, <2>2, <2>3 DEF Place, InPhase, InVector, Loading, HookLabels, vector
  <2>5. QED
    BY <1>0, <2>1, <2>2, <2>4, ThreadMoves
<1>5. ASSUME NEW c \in Caller, DestroyPart(c)
      PROVE  TInv'
  <2>1. /\ UNCHANGED <<vector, hasShutdown, loop, documents, early, partial>>
        /\ thread[c].pc = "part" /\ modCount = thread[c].seen
        /\ thread' = [thread EXCEPT ![c].pc = "parting",
                                    ![c].uuid = pipeline[thread[c].cursor + 1]]
    BY <1>5 DEF DestroyPart, In, marks
  <2>2. thread[c].cursor \in Nat /\ thread[c].cursor < Len(pipeline) /\ Len(pipeline) \in Nat
    <3>1. thread[c].cursor \in Nat /\ Len(pipeline) \in Nat
      BY <1>0 DEF ThreadState
    <3>2. thread[c].cursor < Len(pipeline)
      BY <1>0, <2>1 DEF Place, InVector
    <3>3. QED
      BY <3>1, <3>2
  <2>3. pipeline[thread[c].cursor + 1] \in Uuid
    BY <1>0, <2>2
  <2>4. /\ thread' \in [Caller -> ThreadState] /\ thread'[c].pc = "parting"
        /\ thread'[c].k = thread[c].k /\ thread'[c].ret = thread[c].ret
        /\ thread'[c].cursor = thread[c].cursor /\ thread'[c].seen = thread[c].seen
        /\ \A d \in Caller \ {c} : thread'[d] = thread[d]
    BY <1>a, <2>1, <2>3 DEF ThreadState, Labels
  <2>5. Destroy(c, pipeline[thread[c].cursor + 1]) \/ NoToken(c)
    BY <1>5 DEF DestroyPart
  <2>6. call'[c].pc \in {"remove", "idle"} /\ \A d \in Caller \ {c} : call'[d] = call[d]
    <3>1. CASE NoToken(c)
      BY <1>0, <3>1 DEF NoToken, Throw, Return, Idle
    <3>2. CASE Destroy(c, pipeline[thread[c].cursor + 1])
      BY <1>0, <3>2 DEF Destroy, Idle
    <3>3. QED
      BY <2>5, <3>1, <3>2
  <2>7. Place(c, thread'[c], call'[c].pc, modCount', Len(pipeline'))
    BY <1>0, <2>1, <2>2, <2>4, <2>6 DEF Place, InPhase, InVector, Loading, HookLabels, vector
  <2>8. QED
    BY <1>0, <2>1, <2>4, <2>6, <2>7, ThreadMoves
<1>6. ASSUME NEW c \in Caller, PartDestroyed(c)
      PROVE  TInv'
  <2>1. /\ UNCHANGED <<call, vector, hasShutdown, loop, documents, early, partial>>
        /\ thread[c].pc = "parting" /\ call[c].pc = "idle"
        /\ thread' = [thread EXCEPT ![c].pc = "parts", ![c].cursor = thread[c].cursor + 1]
    BY <1>6 DEF PartDestroyed, Returned, At, In, vars, marks
  <2>2. /\ thread' \in [Caller -> ThreadState] /\ thread'[c].pc = "parts"
        /\ thread'[c].k = thread[c].k /\ thread'[c].ret = thread[c].ret
        /\ thread'[c].cursor = thread[c].cursor + 1 /\ thread'[c].seen = thread[c].seen
        /\ \A d \in Caller \ {c} : thread'[d] = thread[d]
        /\ thread[c].cursor \in Nat
    BY <1>a, <2>1 DEF ThreadState, Labels
  <2>3. Len(pipeline) \in Nat
    BY <1>0
  <2>4. Place(c, thread'[c], call'[c].pc, modCount', Len(pipeline'))
    BY <1>0, <2>1, <2>2, <2>3 DEF Place, InPhase, InVector, Loading, HookLabels, vector
  <2>5. QED
    BY <1>0, <2>1, <2>2, <2>4, ThreadMoves
<1>7. ASSUME NEW c \in Caller, ClearPipeline(c)
      PROVE  TInv'
  <2>1. /\ UNCHANGED <<call, hasShutdown, loop, documents, early, partial>>
        /\ thread[c].pc = "parts" /\ Goto(c, "driver")
        /\ pipeline' = <<>> /\ modCount' = modCount + 1
    BY <1>7 DEF ClearPipeline, In, vars, marks
  <2>2. /\ thread' \in [Caller -> ThreadState] /\ thread'[c].pc = "driver"
        /\ thread'[c].k = thread[c].k /\ thread'[c].ret = thread[c].ret
        /\ \A d \in Caller \ {c} : thread'[d] = thread[d]
    BY <1>a, <2>1 DEF Goto, ThreadState, Labels
  <2>3. call'[c].pc = "idle" /\ pipeline' \in Seq(Uuid)
    BY <2>1, NotInDriver
  <2>4. Place(c, thread'[c], call'[c].pc, modCount', Len(pipeline'))
    BY <1>0, <2>2, <2>3 DEF Place, InPhase, InVector, Loading, HookLabels
  <2>5. QED
    BY <1>0, <2>1, <2>2, <2>3, <2>4, ThreadMoves
<1>8. ASSUME NEW c \in Caller, ShutdownDriver(c)
      PROVE  TInv'
  <2>1. /\ UNCHANGED <<vector, hasShutdown, loop, documents, early, partial>>
        /\ thread[c].pc = "driver" /\ Goto(c, "driving")
        /\ Shutdown(c) \/ NoToken(c)
    BY <1>8 DEF ShutdownDriver, In, marks
  <2>2. /\ thread' \in [Caller -> ThreadState] /\ thread'[c].pc = "driving"
        /\ thread'[c].k = thread[c].k /\ thread'[c].ret = thread[c].ret
        /\ \A d \in Caller \ {c} : thread'[d] = thread[d]
    BY <1>a, <2>1 DEF Goto, ThreadState, Labels
  <2>3. call'[c].pc \in {"sweep", "idle"} /\ \A d \in Caller \ {c} : call'[d] = call[d]
    <3>1. CASE Shutdown(c)
      BY <1>0, <3>1 DEF Shutdown, Idle
    <3>2. CASE NoToken(c)
      BY <1>0, <3>2 DEF NoToken, Throw, Return, Idle
    <3>3. QED
      BY <2>1, <3>1, <3>2
  <2>4. Place(c, thread'[c], call'[c].pc, modCount', Len(pipeline'))
    BY <1>0, <2>2, <2>3 DEF Place, InPhase, InVector, Loading, HookLabels
  <2>5. QED
    BY <1>0, <2>1, <2>2, <2>3, <2>4, ThreadMoves
<1>9. ASSUME NEW c \in Caller, MorePartsLeft(c)
      PROVE  TInv'
  <2>1. /\ UNCHANGED <<call, vector, hasShutdown, loop, documents, early, partial>>
        /\ thread[c].pc = "parts" /\ thread[c].cursor # Len(pipeline) /\ Goto(c, "part")
    BY <1>9 DEF MorePartsLeft, In, HasNext, vars, marks
  <2>2. /\ thread' \in [Caller -> ThreadState] /\ thread'[c].pc = "part"
        /\ thread'[c].k = thread[c].k /\ thread'[c].ret = thread[c].ret
        /\ thread'[c].cursor = thread[c].cursor /\ thread'[c].seen = thread[c].seen
        /\ \A d \in Caller \ {c} : thread'[d] = thread[d]
        /\ thread[c].cursor \in Nat
    BY <1>a, <2>1 DEF Goto, ThreadState, Labels
  <2>3. call'[c].pc = "idle" /\ Len(pipeline) \in Nat
    BY <1>0, <2>1, NotInDriver
  <2>4. Place(c, thread'[c], call'[c].pc, modCount', Len(pipeline'))
    BY <1>0, <2>1, <2>2, <2>3 DEF Place, InPhase, InVector, Loading, HookLabels, vector
  <2>5. QED
    BY <1>0, <2>1, <2>2, <2>4, ThreadMoves
<1>10. QED
  BY <1>1, <1>2, <1>3, <1>4, <1>5, <1>6, <1>7, <1>8, <1>9

\* The steps of the workers, in the composer and in the driver.
LEMMA LoopSteps ==
  ASSUME TInv, TypeInv', NEW w \in Worker, LoopNext(w)
  PROVE  TInv'
<1>0. /\ loop \in [Worker -> LoopState] /\ documents \in 0 .. Documents /\ Documents \in Nat
      /\ partial \in BOOLEAN /\ modCount \in Nat /\ TypeInv /\ active \subseteq Uuid
  BY ComposerAssumption DEF TInv, TypeInv, TypeOK, ComposerTypeOK, LoopState
<1>1. /\ UNCHANGED <<vector, hasShutdown, thread, early>>
      /\ loop' \in [Worker -> LoopState] /\ documents' \in 0 .. Documents
      /\ partial' \in BOOLEAN
  <2>1. CASE WorkerEnds(w) \/ MoreParts(w) \/ FlowChanged(w) \/ RunPart(w)
    BY <1>0, <2>1 DEF WorkerEnds, MoreParts, FlowChanged, RunPart, LoopState, marks
  <2>2. CASE TakeDocument(w) \/ ReadFails(w)
    BY <1>0, <2>2 DEF TakeDocument, ReadFails, LoopState, marks
  <2>3. CASE StartFlow(w)
    BY <1>0, <2>3 DEF StartFlow, LoopState, marks
  <2>4. CASE PartGone(w) \/ PartFails(w)
    BY <1>0, <2>4 DEF PartGone, PartFails, DocumentFails, LoopState, marks
  <2>5. CASE PartSucceeds(w)
    <3>1. loop' = [loop EXCEPT ![w].pc = "parts", ![w].cursor = loop[w].cursor + 1]
      BY <2>5 DEF PartSucceeds
    <3>2. loop' \in [Worker -> LoopState]
      BY <1>0, <3>1 DEF LoopState
    <3>3. QED
      BY <1>0, <2>5, <3>2 DEF PartSucceeds, marks
  <2>6. CASE DocumentDone(w)
    <3>1. partial' \in BOOLEAN
      BY <1>0, <2>6, Zenon DEF DocumentDone
    <3>2. QED
      BY <1>0, <2>6, <3>1 DEF DocumentDone, LoopState
  <2>7. CASE UNCHANGED composerVars
    BY <1>0, <2>7 DEF composerVars, vector
  <2>8. QED
    BY <2>1, <2>2, <2>3, <2>4, <2>5, <2>6, <2>7 DEF LoopNext
<1>2. Outside
  <2>1. CASE LoopAlone(w)
    <3>1. UNCHANGED vars
      BY <2>1 DEF LoopAlone, WorkerEnds, TakeDocument, ReadFails, StartFlow, MoreParts, PartGone,
         FlowChanged,
         PartSucceeds, PartFails, DocumentDone
    <3>2. QED
      BY <3>1 DEF Outside
  <2>2. CASE RunPart(w) \/ PutBack(w) \/ \E j \in Job : Take(w, j)
    BY <1>0, <2>2 DEF RunPart, Run, Outside, AnyWorker
  <2>3. QED
    BY <2>1, <2>2 DEF LoopNext, LoopAlone
<1>3. \A c \in Caller : InPhase(thread[c].pc, call'[c].pc)
  <2>1. \A c \in Caller : call'[c].pc = call[c].pc
    BY <1>0, <1>2, OutsideCalls
  <2>2. QED
    BY <2>1 DEF TInv, Places, Place
<1>4. QED
  BY <1>1, <1>3, CallsMove

\* Every step of the composer keeps its types, and its threads in their places.
LEMMA TInvStep ==
  ASSUME TInv, [ComposerNext]_allVars
  PROVE  TInv'
<1>0. /\ loop \in [Worker -> LoopState] /\ documents \in 0 .. Documents
      /\ partial \in BOOLEAN /\ TypeInv
      /\ \A c \in Caller : InPhase(thread[c].pc, call[c].pc) /\ call[c] \in CallState
  BY DEF TInv, TypeInv, TypeOK, ComposerTypeOK, LoopState, Places, Place
<1>1. TypeInv'
  BY DriverKept
<1>2. CASE UNCHANGED allVars
  <2>1. UNCHANGED <<call, vector, hasShutdown, thread, early, loop, documents, partial>>
    BY <1>2 DEF allVars, vars, composerVars, vector
  <2>2. QED
    BY <1>0, <1>1, <2>1, CallsMove
<1>3. CASE Interrupt \/ (UNCHANGED composerVars /\ \E j \in Job : JobEnds(j) \/ JobGone(j))
  <2>1. UNCHANGED <<call, vector, hasShutdown, thread, early, loop, documents, partial>>
    BY <1>3 DEF Interrupt, SetShutdown, JobEnds, JobGone, composerVars, vector
  <2>2. QED
    BY <1>0, <1>1, <2>1, CallsMove
<1>4. ASSUME NEW w \in Worker, StartWorker(w)
      PROVE  TInv'
  <2>1. UNCHANGED <<call, vector, hasShutdown, thread, early, documents, partial>>
    BY <1>4 DEF StartWorker, vars, marks
  <2>2. loop' \in [Worker -> LoopState]
    BY <1>0, <1>4 DEF StartWorker, LoopState
  <2>3. QED
    BY <1>0, <1>1, <2>1, <2>2, CallsMove
<1>5. ASSUME NEW c \in Caller, DriverNext(c)
      PROVE  TInv'
  <2>1. Continues(c) /\ UNCHANGED <<vector, hasShutdown, thread, early, loop, documents, partial>>
    BY <1>5 DEF DriverNext, composerVars, vector
  <2>2. ASSUME NEW d \in Caller
        PROVE  InPhase(thread[d].pc, call'[d].pc)
    <3>1. CASE d = c /\ call'[c].pc = "idle"
      BY <3>1 DEF InPhase, Loading
    <3>2. CASE d = c /\ call'[c].pc # "idle"
      BY <1>0, <2>1, <3>2, Within DEF InPhase, Loading
    <3>3. CASE d # c
      <4>1. \/ call'[d].pc = call[d].pc
            \/ call[d].pc = "remove" /\ call'[d].pc = "cancel"
        BY <1>0, <2>1, <3>3, Beside
      <4>2. QED
        BY <1>0, <4>1 DEF InPhase, Loading
    <3>4. QED
      BY <3>1, <3>2, <3>3
  <2>3. QED
    BY <1>0, <1>1, <2>1, <2>2, CallsMove
<1>6. CASE MainNext \/ MemoryFree
  BY <1>1, <1>4, <1>6, LeapSteps, PartSteps DEF MainNext, MainAlone
<1>7. ASSUME NEW c \in Caller, ShutdownNext(c)
      PROVE  TInv'
  BY <1>1, <1>7, LeapSteps, PartSteps DEF ShutdownNext
<1>8. CASE HookStarts
  BY <1>1, <1>8, LeapSteps
<1>9. ASSUME NEW w \in Worker, LoopNext(w)
      PROVE  TInv'
  BY <1>1, <1>9, LoopSteps
<1>10. QED
  BY <1>2, <1>3, <1>5, <1>6, <1>7, <1>8, <1>9 DEF ComposerNext

\* At first the main thread is at its start and the hook asleep.
LEMMA InitTInv ==
  ASSUME ComposerInit
  PROVE  TInv
<1>1. TypeInv
  BY InitTypes DEF ComposerInit
<1>2. ComposerTypeOK
  <2>1. ASSUME NEW c \in Caller
        PROVE  thread[c] \in ThreadState
    <3>1. PICK l \in Labels : thread[c] = [pc |-> l, k |-> 1, uuid |-> NoUuid, cursor |-> 0,
                                            seen |-> 0, ret |-> "ended"]
      BY DEF ComposerInit, Labels
    <3>2. QED
      BY <3>1 DEF ThreadState
  <2>2. thread \in [Caller -> ThreadState]
    BY <2>1 DEF ComposerInit
  <2>3. loop \in [Worker -> LoopState]
    BY DEF ComposerInit, LoopState
  <2>4. documents \in 0 .. Documents /\ pipeline \in Seq(Uuid) /\ modCount \in Nat
    BY ComposerAssumption DEF ComposerInit
  <2>5. QED
    BY <1>1, <2>2, <2>3, <2>4
    DEF ComposerInit, ComposerTypeOK, TypeInv, ThreadState, LoopState
<1>3. Places
  <2> SUFFICES ASSUME NEW c \in Caller
               PROVE  Place(c, thread[c], call[c].pc, modCount, Len(pipeline))
    BY DEF Places
  <2>1. call[c].pc = "idle"
    BY DEF ComposerInit, Init, Idle
  <2>2. /\ thread[c].pc = IF c = main THEN "start" ELSE "asleep"
        /\ thread[c].k = 1 /\ thread[c].ret = "ended"
    BY DEF ComposerInit
  <2>3. QED
    BY <2>1, <2>2, ComposerAssumption DEF Place, InPhase, InVector, Loading, HookLabels
<1>4. QED
  BY <1>1, <1>2, <1>3 DEF TInv

\* The type invariant of the composer: in particular the workers, none of which knows of
\* the others, never take more documents than the reader has, and no iterator hands out
\* a part that the vector does not have.
THEOREM ComposerTypes == ComposerSpec => []ComposerTypeOK
<1>1. ComposerInit => TInv
  BY InitTInv
<1>2. TInv /\ [ComposerNext]_allVars => TInv'
  BY TInvStep
<1>3. TInv => ComposerTypeOK
  BY DEF TInv
<1>4. QED
  BY <1>1, <1>2, <1>3, PTL DEF ComposerSpec

-----------------------------------------------------------------------------
(* No job is left behind                                                   *)

\* The places of the main thread from which instantiate() may still be called.
Instantiating == {"start", "reset", "next", "made", "typed"}

\* A main thread that has set _hasShutdown is past the instantiation, and nothing runs;
\* it returns normally only when it has set it.
MainDone == main \in hasShutdown => thread[main].pc \notin Instantiating /\ Running = {}
MainEnds == thread[main].pc = "ended" => main \in hasShutdown

\* Before the hook starts it has called nothing; if it started late, the instantiation
\* is over; it returns in the moment it sets _hasShutdown, and then nothing runs.
HookAsleep == thread[hook].pc = "asleep" => call[hook].result = "none"
HookLate == thread[hook].pc # "asleep" /\ ~early => thread[main].pc \notin Instantiating
HookDone == hook \in hasShutdown => thread[hook].pc = "ended"
HookClean == thread[hook].pc = "ended" /\ ~early => Running = {}

CleanInv ==
  /\ OrphanInv
  /\ Sweeps(main)
  /\ ~early => Sweeps(hook)
  /\ MainDone /\ MainEnds
  /\ HookAsleep /\ HookLate /\ HookDone /\ HookClean

\* Only the main thread, and only in instantiate(), submits and notes jobs.
LEMMA OnlyMainSubmits ==
  ASSUME TInv, NEW c \in Caller, At(c, "submit") \/ At(c, "put")
  PROVE  c = main /\ thread[main].pc = "made"
<1>1. Place(c, thread[c], call[c].pc, modCount, Len(pipeline)) /\ Caller = {main, hook}
  BY ComposerAssumption DEF TInv, Places
<1>2. thread[c].pc = "made"
  BY <1>1 DEF Place, InPhase, Loading, At
<1>3. QED
  BY <1>1, <1>2 DEF Place, HookLabels

\* When the instantiation is over no job is started.
LEMMA NoneStarted ==
  ASSUME TInv, [ComposerNext]_allVars, thread[main].pc # "made"
  PROVE  Running' \subseteq Running
BY DriverView, OutsideCalls, NothingStarted, OnlyMainSubmits DEF TInv

\* What thread d has to show in the driver stays, while the others submit nothing.
LEMMA SweepsKept ==
  ASSUME TInv, OrphanInv, [ComposerNext]_allVars, NEW d \in Caller, Sweeps(d),
         \A e \in Caller : e # d => ~At(e, "submit") /\ ~At(e, "put")
  PROVE  Sweeps(d)'
<1>0. TypeInv
  BY DEF TInv
<1>1. CASE Outside
  BY <1>0, <1>1, SweepOutside
<1>2. CASE AnyEnters(d) \/ Continues(d)
  BY <1>0, <1>2, SweepOfCaller
<1>3. ASSUME NEW c \in Caller, c # d, AnyEnters(c) \/ Continues(c)
      PROVE  Sweeps(d)'
  <2>1. call[d].pc = "sweep" \/ call[d].result = "void" =>
          \A e \in Caller : ~At(e, "submit") /\ ~At(e, "put")
    BY DEF Sweeps, At
  <2>2. QED
    BY <1>0, <1>3, <2>1, SweepBeside
<1>4. QED
  BY <1>1, <1>2, <1>3, DriverView

\* The hook that is asleep has no call and gets no result.
LEMMA HookStill ==
  ASSUME TInv, [ComposerNext]_allVars, thread[hook].pc = "asleep", call[hook].result = "none"
  PROVE  call'[hook].pc = "idle" /\ call'[hook].result = "none"
<1>0. hook \in Caller /\ TypeInv
  BY ComposerAssumption DEF TInv
<1>1. call[hook].pc = "idle"
  BY <1>0, NotInDriver
<1>2. CASE Outside
  BY <1>0, <1>1, <1>2, OutsideCalls
<1>3. ASSUME NEW c \in Caller, c # hook, AnyEnters(c) \/ Continues(c)
      PROVE  call'[hook].pc = "idle" /\ call'[hook].result = "none"
  BY <1>0, <1>1, <1>3, Beside
<1>4. QED
  BY <1>2, <1>3, DriverView

\* Main thread and hook, one of which moves and neither of which ends.
MainMoves ==
  /\ UNCHANGED <<early, hasShutdown>> /\ thread'[hook] = thread[hook]
  /\ thread'[main].pc # "ended"
  /\ thread[main].pc \notin Instantiating => thread'[main].pc \notin Instantiating

HookMoves ==
  /\ UNCHANGED <<early, hasShutdown>> /\ thread'[main] = thread[main]
  /\ thread[hook].pc \notin {"asleep", "ended"} /\ thread'[hook].pc \notin {"asleep", "ended"}

\* Every step leaves main thread and hook where they are, or is one of these.
LEMMA Moves ==
  ASSUME TInv, [ComposerNext]_allVars
  PROVE  \/ UNCHANGED <<thread, hasShutdown, early>>
         \/ MainMoves \/ HookMoves \/ ResetHasShutdown \/ HookStarts
         \/ \E c \in Caller : ShutdownSkips(c) \/ ShutdownDone(c)
<1>0. /\ main \in Caller /\ hook \in Caller /\ main # hook /\ Caller = {main, hook}
      /\ thread \in [Caller -> ThreadState]
  BY ComposerAssumption DEF TInv, ComposerTypeOK, ThreadState
<1>1. CASE UNCHANGED allVars \/ Interrupt \/ UNCHANGED composerVars
  BY <1>1 DEF allVars, Interrupt, composerVars
<1>2. ASSUME NEW w \in Worker, LoopNext(w) \/ StartWorker(w)
      PROVE  UNCHANGED <<thread, hasShutdown, early>>
  <2>1. CASE LoopAlone(w) \/ RunPart(w) \/ StartWorker(w)
    BY <2>1 DEF LoopAlone, WorkerEnds, TakeDocument, ReadFails, StartFlow, MoreParts, PartGone,
         FlowChanged,
       PartSucceeds, PartFails, DocumentDone, RunPart, StartWorker, marks
  <2>2. CASE UNCHANGED composerVars
    BY <2>2 DEF composerVars
  <2>3. QED
    BY <1>2, <2>1, <2>2 DEF LoopNext, LoopAlone
<1>3. CASE \/ RunStarts \/ InstantiationStops \/ InstantiationDone \/ SpawnDone \/ ReadAhead
           \/ ReadAheadDone \/ MemoryFree \/ FeedDone \/ AskTypes
  <2>1. /\ UNCHANGED <<early, hasShutdown>>
        /\ \E l \in {"reset", "nodesc", "spawn", "feed", "reading", "full", "join", "typed"} :
             /\ Goto(main, l)
             /\ l \in Instantiating => thread[main].pc \in Instantiating
    BY <1>3 DEF RunStarts, InstantiationStops, InstantiationDone, SpawnDone, ReadAhead,
       ReadAheadDone, MemoryFree, FeedDone, AskTypes, In, Instantiating, marks
  <2>2. QED
    BY <1>0, <2>1 DEF Goto, MainMoves, ThreadState
<1>4. CASE \/ NoDescription \/ SpawnStops \/ FeedThrows \/ JoinWorkers \/ MadeNull
           \/ InstantiationThrows \/ TypesThrow
  <2>1. /\ UNCHANGED <<early, hasShutdown>>
        /\ \E r \in {"nodesc", "ended", "failed"} : CallShutdown(main, r)
    BY <1>4 DEF NoDescription, SpawnStops, FeedThrows, JoinWorkers, MadeNull,
       InstantiationThrows, TypesThrow, marks
  <2>2. QED
    BY <1>0, <2>1 DEF CallShutdown, MainMoves, ThreadState, Instantiating
<1>5. ASSUME NEW u \in Uuid, InstantiateNext(u)
      PROVE  MainMoves
  <2>1. /\ UNCHANGED <<early, hasShutdown>> /\ thread[main].pc = "next"
        /\ thread' = [thread EXCEPT ![main].pc = "made", ![main].uuid = u]
    BY <1>5 DEF InstantiateNext, In, marks
  <2>2. QED
    BY <1>0, <2>1 DEF MainMoves, ThreadState, Instantiating
<1>6. CASE AddPart
  <2>1. /\ UNCHANGED <<early, hasShutdown>> /\ thread[main].pc = "typed"
        /\ thread' = [thread EXCEPT ![main].pc = "next", ![main].k = thread[main].k + 1]
    BY <1>6 DEF AddPart, In, marks
  <2>2. QED
    BY <1>0, <2>1 DEF MainMoves, ThreadState, Instantiating
<1>7. ASSUME NEW c \in Caller,
             \/ ShutdownStarts(c) \/ MorePartsLeft(c) \/ DestroyPart(c) \/ PartsChanged(c)
             \/ PartDestroyed(c) \/ PartThrows(c) \/ ClearPipeline(c) \/ ShutdownDriver(c) \/ ShutdownThrows(c)
      PROVE  MainMoves \/ HookMoves
  <2>1. /\ UNCHANGED <<early, hasShutdown>>
        /\ thread[c].pc \in {"shutdown", "parts", "part", "parting", "driver", "driving"}
    BY <1>7 DEF ShutdownStarts, MorePartsLeft, DestroyPart, PartsChanged, PartDestroyed,
       PartThrows, ClearPipeline, ShutdownDriver, ShutdownThrows, In, marks
  <2>2. /\ thread'[c].pc \in
             {"shutdown", "parts", "part", "parting", "driver", "driving", "failed"}
        /\ \A d \in Caller \ {c} : thread'[d] = thread[d]
    <3>1. CASE ShutdownStarts(c)
      BY <1>0, <3>1 DEF ShutdownStarts, ThreadState
    <3>2. CASE DestroyPart(c)
      BY <1>0, <3>2 DEF DestroyPart, ThreadState
    <3>3. CASE \/ MorePartsLeft(c) \/ PartsChanged(c) \/ PartThrows(c) \/ ClearPipeline(c)
               \/ ShutdownDriver(c)
      BY <1>0, <3>3 DEF MorePartsLeft, PartsChanged, PartThrows, ClearPipeline, ShutdownDriver,
         Goto, ThreadState
    <3>4. CASE PartDestroyed(c)
      BY <1>0, <3>4 DEF PartDestroyed, ThreadState
    <3>5. CASE ShutdownThrows(c)
      BY <1>0, <3>5 DEF ShutdownThrows, Goto, CallShutdown, ThreadState
    <3>6. QED
      BY <1>7, <3>1, <3>2, <3>3, <3>4, <3>5
  <2>3. CASE c = main
    BY <1>0, <2>1, <2>2, <2>3 DEF MainMoves, Instantiating
  <2>4. CASE c = hook
    BY <1>0, <2>1, <2>2, <2>4 DEF HookMoves
  <2>5. QED
    BY <1>0, <2>3, <2>4
<1>8. CASE MainNext \/ MemoryFree
  BY <1>2, <1>3, <1>4, <1>5, <1>6, <1>8 DEF MainNext
<1>9. ASSUME NEW c \in Caller, ShutdownNext(c)
      PROVE  MainMoves \/ HookMoves \/ ShutdownSkips(c) \/ ShutdownDone(c)
  BY <1>7, <1>9 DEF ShutdownNext
<1>10. QED
  BY <1>1, <1>2, <1>8, <1>9 DEF ComposerNext, DriverNext

\* The steps that move main thread and hook keep what they say about themselves.
LEMMA EndingStep ==
  ASSUME TInv, CleanInv, [ComposerNext]_allVars
  PROVE  (MainDone /\ MainEnds /\ HookLate /\ HookDone /\ HookClean)'
<1>0. /\ main \in Caller /\ hook \in Caller /\ main # hook /\ Caller = {main, hook}
      /\ thread \in [Caller -> ThreadState] /\ hasShutdown \subseteq Caller
      /\ thread[hook].ret = "ended" /\ thread[main].ret \in {"nodesc", "ended", "failed"}
  BY ComposerAssumption DEF TInv, ComposerTypeOK, ThreadState, Places, Place
<1>1. thread[main].pc # "made" => Running' \subseteq Running
  BY NoneStarted
<1>2. CASE UNCHANGED <<thread, hasShutdown, early>>
  BY <1>1, <1>2 DEF CleanInv, MainDone, MainEnds, HookLate, HookDone, HookClean, Instantiating
<1>3. CASE MainMoves
  BY <1>1, <1>3
  DEF MainMoves, CleanInv, MainDone, MainEnds, HookLate, HookDone, HookClean, Instantiating
<1>4. CASE HookMoves
  BY <1>1, <1>4
  DEF HookMoves, CleanInv, MainDone, MainEnds, HookLate, HookDone, HookClean, Instantiating
<1>5. CASE ResetHasShutdown
  <2>1. /\ thread[main].pc = "reset" /\ thread[hook].pc # "ended"
        /\ hasShutdown' = {} /\ Goto(main, "next") /\ UNCHANGED early
    BY <1>5 DEF ResetHasShutdown, In, Halted, marks
  <2>2. thread'[main].pc = "next" /\ thread'[hook] = thread[hook]
    BY <1>0, <2>1 DEF Goto, ThreadState
  <2>3. QED
    BY <2>1, <2>2
    DEF CleanInv, MainDone, MainEnds, HookLate, HookDone, HookClean, Instantiating
<1>6. CASE HookStarts
  <2>1. /\ thread[hook].pc = "asleep" /\ CallShutdown(hook, "ended") /\ UNCHANGED hasShutdown
        /\ early' = (thread[main].pc \in Instantiating)
    BY <1>6 DEF HookStarts, In, Instantiating
  <2>2. thread'[main] = thread[main] /\ thread'[hook].pc = "shutdown"
    BY <1>0, <2>1 DEF CallShutdown, ThreadState
  <2>3. QED
    BY <1>1, <2>1, <2>2
    DEF CleanInv, MainDone, MainEnds, HookLate, HookDone, HookClean, Instantiating
<1>7. ASSUME NEW c \in Caller, ShutdownSkips(c)
      PROVE  (MainDone /\ MainEnds /\ HookLate /\ HookDone /\ HookClean)'
  <2>1. /\ thread[c].pc = "shutdown" /\ thread[hook].pc # "ended" /\ hasShutdown # {}
        /\ Goto(c, thread[c].ret) /\ UNCHANGED <<hasShutdown, early>>
    BY <1>7 DEF ShutdownSkips, In, Halted, marks
  <2>2. thread'[c].pc = thread[c].ret /\ \A d \in Caller \ {c} : thread'[d] = thread[d]
    BY <1>0, <2>1 DEF Goto, ThreadState
  <2>3. main \in hasShutdown /\ hook \notin hasShutdown
    BY <1>0, <2>1 DEF CleanInv, HookDone
  <2>4. thread[main].pc \notin Instantiating /\ Running' = {}
    BY <1>1, <2>3 DEF CleanInv, MainDone, Instantiating
  <2>5. thread'[main].pc \notin Instantiating
    BY <1>0, <2>2, <2>4 DEF Instantiating
  <2>6. QED
    BY <2>1, <2>3, <2>4, <2>5 DEF MainDone, MainEnds, HookLate, HookDone, HookClean
<1>8. ASSUME NEW c \in Caller, ShutdownDone(c)
      PROVE  (MainDone /\ MainEnds /\ HookLate /\ HookDone /\ HookClean)'
  <2>1. /\ thread[c].pc = "driving" /\ thread[hook].pc # "ended" /\ call[c].result = "void"
        /\ Goto(c, thread[c].ret) /\ hasShutdown' = hasShutdown \cup {c} /\ UNCHANGED early
    BY <1>8 DEF ShutdownDone, Returned, In, Halted, marks
  <2>2. thread'[c].pc = thread[c].ret /\ \A d \in Caller \ {c} : thread'[d] = thread[d]
    BY <1>0, <2>1 DEF Goto, ThreadState
  <2>3. CASE c = main
    <3>1. Running' = {}
      BY <1>1, <2>1, <2>3 DEF CleanInv, Sweeps
    <3>2. thread'[main].pc \notin Instantiating /\ thread'[hook] = thread[hook]
      BY <1>0, <2>2, <2>3 DEF Instantiating
    <3>3. QED
      BY <1>0, <2>1, <2>3, <3>1, <3>2
      DEF CleanInv, HookDone, MainDone, MainEnds, HookLate, HookClean
  <2>4. CASE c = hook
    <3>1. thread'[hook].pc = "ended" /\ thread'[main] = thread[main]
      BY <1>0, <2>2, <2>4
    <3>2. ~early => thread[main].pc \notin Instantiating /\ Running' = {}
      BY <1>1, <2>1, <2>4 DEF CleanInv, HookLate, Sweeps, Instantiating
    <3>3. main \in hasShutdown' => thread[main].pc \notin Instantiating /\ Running' = {}
      BY <1>0, <1>1, <2>1, <2>4 DEF CleanInv, MainDone, Instantiating
    <3>4. thread[main].pc = "ended" => main \in hasShutdown'
      BY <2>1 DEF CleanInv, MainEnds
    <3>5. QED
      BY <2>1, <3>1, <3>2, <3>3, <3>4 DEF HookDone, MainDone, MainEnds, HookLate, HookClean
  <2>5. QED
    BY <1>0, <2>3, <2>4
<1>9. QED
  BY <1>2, <1>3, <1>4, <1>5, <1>6, <1>7, <1>8, Moves

\* Every step keeps the invariant.
LEMMA CleanStep ==
  ASSUME TInv, CleanInv, [ComposerNext]_allVars
  PROVE  CleanInv'
<1>0. /\ main \in Caller /\ hook \in Caller /\ main # hook /\ Caller = {main, hook}
      /\ thread \in [Caller -> ThreadState]
  BY ComposerAssumption DEF TInv, ComposerTypeOK, ThreadState
<1>1. OrphanInv'
  BY DriverKept DEF CleanInv
<1>2. Sweeps(main)'
  <2>1. \A e \in Caller : e # main => ~At(e, "submit") /\ ~At(e, "put")
    BY OnlyMainSubmits
  <2>2. QED
    BY <1>0, <2>1, SweepsKept DEF CleanInv
<1>3. CASE thread[hook].pc = "asleep"
  <2>1. call'[hook].pc = "idle" /\ call'[hook].result = "none"
    BY <1>3, HookStill DEF CleanInv, HookAsleep
  <2>2. Sweeps(hook)'
    BY <1>0, <2>1, SweepElsewhere
  <2>3. QED
    BY <1>1, <1>2, <2>1, <2>2, EndingStep DEF CleanInv, HookAsleep
<1>4. CASE thread[hook].pc # "asleep"
  <2>1. early' = early /\ thread'[hook].pc # "asleep"
    <3>1. CASE UNCHANGED <<thread, hasShutdown, early>> \/ MainMoves \/ HookMoves
      BY <1>4, <3>1 DEF MainMoves, HookMoves
    <3>2. CASE ResetHasShutdown
      BY <1>0, <1>4, <3>2 DEF ResetHasShutdown, Goto, marks, ThreadState
    <3>3. CASE HookStarts
      BY <1>4, <3>3 DEF HookStarts, In
    <3>4. ASSUME NEW c \in Caller, ShutdownSkips(c) \/ ShutdownDone(c)
          PROVE  early' = early /\ thread'[hook].pc # "asleep"
      <4>1. Goto(c, thread[c].ret) /\ UNCHANGED early
        BY <3>4 DEF ShutdownSkips, ShutdownDone, marks
      <4>2. thread[c].ret \in {"nodesc", "ended", "failed"}
        BY <1>0 DEF ThreadState
      <4>3. QED
        BY <1>0, <1>4, <4>1, <4>2 DEF Goto, ThreadState
    <3>5. QED
      BY <3>1, <3>2, <3>3, <3>4, Moves
  <2>2. ~early => Sweeps(hook)'
    <3>1. ~early => \A e \in Caller : e # hook => ~At(e, "submit") /\ ~At(e, "put")
      BY <1>4, OnlyMainSubmits DEF CleanInv, HookLate, Instantiating
    <3>2. QED
      BY <1>0, <3>1, SweepsKept DEF CleanInv
  <2>3. QED
    BY <1>1, <1>2, <2>1, <2>2, EndingStep DEF CleanInv, HookAsleep
<1>5. QED
  BY <1>3, <1>4

\* At first nothing runs and nobody has called the driver.
LEMMA InitClean ==
  ASSUME ComposerInit
  PROVE  CleanInv
<1>0. main \in Caller /\ hook \in Caller /\ main # hook
  BY ComposerAssumption
<1>1. OrphanInv
  BY InitOrphans DEF ComposerInit
<1>2. \A c \in Caller : Sweeps(c) /\ call[c].result = "none"
  BY DEF ComposerInit, Init, Sweeps, Running, Idle
<1>3. thread[main].pc = "start" /\ thread[hook].pc = "asleep" /\ hasShutdown = {}
  BY <1>0 DEF ComposerInit
<1>4. QED
  BY <1>0, <1>1, <1>2, <1>3
  DEF CleanInv, MainDone, MainEnds, HookAsleep, HookLate, HookDone, HookClean

\* The composer's two promises rest on one invariant.
THEOREM ComposerInvariant == ComposerSpec => [](TInv /\ CleanInv)
<1>1. ComposerInit => TInv /\ CleanInv
  BY InitTInv, InitClean
<1>2. TInv /\ CleanInv /\ [ComposerNext]_allVars => (TInv /\ CleanInv)'
  BY TInvStep, CleanStep
<1>3. QED
  BY <1>1, <1>2, PTL DEF ComposerSpec

\* A run() that has returned normally, before the hook started, has left no job behind
\* (RunCleans), whatever was interrupted, failed half-way or was never added to
\* _instantiatedPipeline: it has gone through driver.shutdown() itself, since the hook,
\* the only other thread that could have, halts the JVM in the same moment.
THEOREM RunLeavesNothing == ComposerSpec => []RunCleans
<1>1. CleanInv => RunCleans
  BY DEF CleanInv, MainDone, MainEnds, RunCleans, In, Leftover, Running
<1>2. QED
  BY <1>1, ComposerInvariant, PTL

\* A hook that started when the instantiation was over and has returned has left no job
\* behind (HookCleansAfterInstantiation), also when it overlaps with the workers and with
\* the main thread's own shutdown().
THEOREM LateHookLeavesNothing == ComposerSpec => []HookCleansAfterInstantiation
<1>1. CleanInv => HookCleansAfterInstantiation
  BY DEF CleanInv, HookClean, HookCleansAfterInstantiation, Leftover, Running
<1>2. QED
  BY <1>1, ComposerInvariant, PTL

\* Also under the composer, which keeps no discipline about who uses a component when, a
\* running job is within reach of shutdown() (NoOrphans).
THEOREM ComposerOrphanFree == ComposerSpec => []NoOrphans
<1>1. CleanInv => NoOrphans
  BY DEF CleanInv, OrphanInv
<1>2. QED
  BY <1>1, ComposerInvariant, PTL
=============================================================================
