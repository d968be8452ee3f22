---------------------------- MODULE SlurmDriver ----------------------------
(***************************************************************************)
(* The Slurm driver of DUUI (driver/slurm): DUUISlurmDriver, the job table *)
(* of DUUISlurmInterface, the calls SlurmRest makes to slurmrestd, and the *)
(* port pool of PortManager they share.                                    *)
(*                                                                         *)
(* A caller is a thread of a composer.  instantiate() registers a          *)
(* component under a new uuid and then, once per unit of scale, takes a    *)
(* host port, submits a Slurm job that serves on it, notes job and port in *)
(* the job table, waits until the port answers and puts a ComponentInstance*)
(* into the component's queue.  destroy() cancels the instances that are   *)
(* in the queue and releases their ports; shutdown() cancels every job of  *)
(* the table.  Workers take an instance out of the queue for the time they *)
(* process one document.                                                   *)
(*                                                                         *)
(* Abstractions.  A queue of instances is the set of its members: who is   *)
(* served first does not matter here.  An instance is its job; its port is *)
(* hostPort[job].  The job script, the token and the HTTP texts are left   *)
(* out; each REST call has the outcomes the code tells apart.  A job is    *)
(* "live" until Slurm has been told, or has decided, to end it; then it is *)
(* "ending" while its processes are still there (module SlurmJobs has the  *)
(* life of a job inside Slurm, ClusterJobs what the two agree on).         *)
(* Submission and cancellation use the token of root, whom slurmctld never *)
(* denies a cancellation, and slurmrestd never sends the field "error" that*)
(* cancelJob() looks for: cancelJob() returns true or throws.              *)
(*                                                                         *)
(* Three collections are used while other threads change them.  The queue  *)
(* of instances is a ConcurrentLinkedQueue, whose iterator in destroy()    *)
(* meets an instance put back behind it and need not meet one taken away.  *)
(* The table of components and the job table are plain HashMaps: writes    *)
(* that overlap may lose entries, two overlapping removals may both find   *)
(* the entry, and a traversal that overlaps a write may miss entries and   *)
(* may or may not end in a ConcurrentModificationException.                *)
(***************************************************************************)
EXTENDS PortManager, FiniteSets

CONSTANTS
  Component,      \* pipeline components (DUUIPipelineComponent)
  Scale,          \* component -> number of instances
  ChosenPort,     \* component -> withSlurmHostPort, or NoPort
  RunAfterExit,   \* components with the slurmNoShutdown option
  Uuid,           \* model bound: one uuid per call of instantiate()
  Job,            \* model bound: one job id per accepted submission
  Caller,         \* threads that call instantiate, destroy, shutdown
  Worker,         \* threads that call run
  JoinsWorkers,   \* whether destroy() is called only when no worker uses
                  \* the component
  NoPort, NoComponent, NoUuid, NoJob

UserPorts == {ChosenPort[k] : k \in Component} \ {NoPort}

ASSUME DriverAssumption ==
  /\ Scale \in [Component -> Nat]
  /\ ChosenPort \in [Component -> Int \cup {NoPort}]
  /\ RunAfterExit \subseteq Component
  /\ JoinsWorkers \in BOOLEAN
  /\ NoPort \notin Int
  /\ NoComponent \notin Component
  /\ NoUuid \notin Uuid
  /\ NoJob \notin Job

\* The ports that only acquire() gives out: nothing keeps users from choosing a
\* port of the pool.
OwnPorts == PoolPorts \ UserPorts

VARIABLES
  active,     \* the keys of _active_components
  compOf,     \* uuid -> the component it was made for
  instances,  \* uuid -> the instances waiting in _instances
  jobMap,     \* the keys of _jobID_PortMap
  shutdown,   \* the composer's AtomicBoolean
  hostPort,   \* job -> the host port it was submitted with
  cluster,    \* job -> what Slurm knows of it
  trouble,    \* history, job -> what went wrong with it, if anything: its
              \* submission was not answered ("lost"), the table lost it
              \* ("unlisted")
  released,   \* history: jobs whose port destroy() gave back
  doubled,    \* history: ports destroy() gave back twice for the same job
  known,      \* history: uuids that instantiate() has returned and destroy()
              \* has not been called for
  call,       \* caller -> where it is in which driver method
  work        \* worker -> where it is in run()

driverVars == <<active, compOf, instances, jobMap>>
slurmVars == <<hostPort, cluster, trouble>>
history == <<released, doubled, known>>
vars == <<next, reuse_queue, active, compOf, instances, jobMap, shutdown,
          hostPort, cluster, trouble, released, doubled, known, call, work>>

Idle == [pc |-> "idle", uuid |-> NoUuid, i |-> 0, port |-> NoPort,
         job |-> NoJob, todo |-> {}, again |-> {}, flag |-> TRUE, result |-> "none"]

Result == {"none", "uuid", "null", "types", "true", "void", "exception"}

\* Slurm has been told, or has decided, to end the job.
Over == {"ending", "ended"}

\* What a caller keeps: its place, its local variables and what the last method
\* it called came to.
CallState ==
  [pc : {"idle", "register", "loop", "draw", "submit", "put", "await", "probe",
         "take", "ask", "remove", "cancel", "release", "sweep"},
   uuid : Uuid \cup {NoUuid}, i : Nat, port : Int \cup {NoPort},
   job : Job \cup {NoJob}, todo : SUBSET Job, again : SUBSET Job,
   flag : BOOLEAN, result : Result]

WorkState ==
  [pc : {"idle", "wait", "busy"}, uuid : Uuid \cup {NoUuid}, job : Job \cup {NoJob}]

\* The types of the state.  Not by shape alone: the ports that destroy() gives
\* to release() include those users chose, which must not get into the queue.
TypeOK ==
  /\ next \in Nat /\ next >= BASE
  /\ reuse_queue \in Seq(PoolPorts)
  /\ active \subseteq Uuid
  /\ compOf \in [Uuid -> Component \cup {NoComponent}]
  /\ instances \in [Uuid -> SUBSET Job]
  /\ jobMap \subseteq Job
  /\ shutdown \in BOOLEAN
  /\ hostPort \in [Job -> Int \cup {NoPort}]
  /\ cluster \in [Job -> {"none", "live"} \cup Over]
  /\ trouble \in [Job -> {"none", "lost", "unlisted"}]
  /\ released \subseteq Job
  /\ doubled \subseteq Int
  /\ known \subseteq Uuid
  /\ call \in [Caller -> CallState]
  /\ work \in [Worker -> WorkState]

Init ==
  /\ PoolInit
  /\ active = {}
  /\ compOf = [u \in Uuid |-> NoComponent]
  /\ instances = [u \in Uuid |-> {}]
  /\ jobMap = {}
  /\ shutdown = FALSE
  /\ hostPort = [j \in Job |-> NoPort]
  /\ cluster = [j \in Job |-> "none"]
  /\ trouble = [j \in Job |-> "none"]
  /\ released = {}
  /\ doubled = {}
  /\ known = {}
  /\ call = [c \in Caller |-> Idle]
  /\ work = [w \in Worker |-> [pc |-> "idle", uuid |-> NoUuid, job |-> NoJob]]

At(c, l) == call[c].pc = l
Return(c, r) == call' = [call EXCEPT ![c] = [Idle EXCEPT !.result = r]]
Throw(c) == Return(c, "exception")

\* The component caller c is busy with.
Comp(c) == compOf[call[c].uuid]

\* Some job answers on the port, perhaps one that is about to end.
Serving(p) == \E j \in Job : cluster[j] \in {"live", "ending"} /\ hostPort[j] = p
-----------------------------------------------------------------------------
(***************************************************************************)
(* instantiate()                                                           *)
(***************************************************************************)

\* A new uuid is chosen.  The model bound leaves enough job ids for the whole
\* loop.
Instantiate(c, k, u) ==
  /\ At(c, "idle")
  /\ compOf[u] = NoComponent
  /\ Cardinality({j \in Job : cluster[j] = "none"}) >= Scale[k]
  /\ compOf' = [compOf EXCEPT ![u] = k]
  /\ call' = [call EXCEPT ![c] = [Idle EXCEPT !.pc = "register", !.uuid = u]]
  /\ UNCHANGED <<poolVars, active, instances, jobMap, shutdown, slurmVars, history,
                 work>>

\* Caller c makes `keys' the keys of _active_components.
WriteComponents(c, keys) ==
  active' \in IF \E d \in Caller \ {c} : At(d, "register") \/ At(d, "remove")
                THEN SUBSET keys
                ELSE {keys}

\* The component is in the table before anything is started.
Register(c) ==
  /\ At(c, "register")
  /\ WriteComponents(c, active \cup {call[c].uuid})
  /\ call' = [call EXCEPT ![c].pc = "loop"]
  /\ UNCHANGED <<poolVars, compOf, instances, jobMap, shutdown, slurmVars, history,
                 work>>

\* The loop over the scale has ended.
LoopDone(c) ==
  /\ At(c, "loop")
  /\ call[c].i = Scale[Comp(c)]
  /\ Return(c, IF shutdown THEN "null" ELSE "uuid")
  /\ known' = IF shutdown THEN known ELSE known \cup {call[c].uuid}
  /\ UNCHANGED <<poolVars, driverVars, shutdown, slurmVars, released, doubled, work>>

\* The loop sees the shutdown flag; what was started so far stays.
LoopInterrupted(c) ==
  /\ At(c, "loop")
  /\ call[c].i < Scale[Comp(c)]
  /\ shutdown
  /\ Return(c, "null")
  /\ UNCHANGED <<poolVars, driverVars, shutdown, slurmVars, history, work>>

WantsPort(c) ==
  /\ At(c, "loop")
  /\ call[c].i < Scale[Comp(c)]
  /\ ~shutdown

GotPort(c, p) ==
  call' = [call EXCEPT ![c].pc = "submit", ![c].port = p]

\* The user chose the port.
AssignChosen(c) ==
  /\ WantsPort(c)
  /\ ChosenPort[Comp(c)] # NoPort
  /\ GotPort(c, ChosenPort[Comp(c)])
  /\ UNCHANGED <<poolVars, driverVars, shutdown, slurmVars, history, work>>

\* acquire() reuses a port.
AssignReused(c, p) ==
  /\ WantsPort(c)
  /\ ChosenPort[Comp(c)] = NoPort
  /\ PollReused(p)
  /\ GotPort(c, p)
  /\ UNCHANGED <<driverVars, shutdown, slurmVars, history, work>>

\* acquire() found nothing to reuse.
AssignMiss(c) ==
  /\ WantsPort(c)
  /\ ChosenPort[Comp(c)] = NoPort
  /\ PollEmpty
  /\ call' = [call EXCEPT ![c].pc = "draw"]
  /\ UNCHANGED <<driverVars, shutdown, slurmVars, history, work>>

\* acquire() draws a fresh port.
AssignFresh(c, p) ==
  /\ At(c, "draw")
  /\ DrawFresh(p)
  /\ GotPort(c, p)
  /\ UNCHANGED <<driverVars, shutdown, slurmVars, history, work>>

\* acquire() throws and so does instantiate().
AssignFail(c) ==
  /\ At(c, "draw")
  /\ DrawExhausted
  /\ Throw(c)
  /\ UNCHANGED <<driverVars, shutdown, slurmVars, history, work>>

\* slurmrestd starts a job.
Started(j, p) ==
  /\ cluster[j] = "none"
  /\ cluster' = [cluster EXCEPT ![j] = "live"]
  /\ hostPort' = [hostPort EXCEPT ![j] = p]

\* submit() returns the id of the new job.
SubmitAccepted(c, j) ==
  /\ At(c, "submit")
  /\ Started(j, call[c].port)
  /\ call' = [call EXCEPT ![c].pc = "put", ![c].job = j]
  /\ UNCHANGED <<poolVars, driverVars, shutdown, trouble, history, work>>

\* No token, no slurmrestd or an answer that is not 2xx: an exception, and
\* the port is not given back.
SubmitRejected(c) ==
  /\ At(c, "submit")
  /\ Throw(c)
  /\ UNCHANGED <<poolVars, driverVars, shutdown, slurmVars, history, work>>

\* The job was accepted but the answer did not arrive.
SubmitLost(c, j) ==
  /\ At(c, "submit")
  /\ Started(j, call[c].port)
  /\ trouble' = [trouble EXCEPT ![j] = "lost"]
  /\ Throw(c)
  /\ UNCHANGED <<poolVars, driverVars, shutdown, history, work>>

\* Caller c goes on to `mine' while it makes `keys' the keys of the HashMap.
WriteTable(c, keys, mine) ==
  LET overlap == \E d \in Caller \ {c} : At(d, "put") \/ At(d, "release")
      sweepers == {d \in Caller \ {c} : At(d, "sweep")}
  IN  /\ jobMap' \in IF overlap THEN SUBSET keys ELSE {keys}
      /\ trouble' = [j \in Job |-> IF trouble[j] = "none" /\ j \in keys \ jobMap'
                                     THEN "unlisted" ELSE trouble[j]]
      /\ \E sees \in [sweepers -> SUBSET Job], calm \in SUBSET sweepers :
           \* taking an entry out does not hide the others from a traversal
           /\ keys \subseteq jobMap => \A d \in sweepers : keys \subseteq sees[d]
           /\ call' = [d \in Caller |->
                IF d = c THEN mine
                ELSE IF d \in sweepers
                  THEN [call[d] EXCEPT !.todo = (@ \cup (keys \ jobMap)) \cap sees[d],
                                       !.flag = @ /\ d \in calm]
                  ELSE call[d]]

\* Mutant of RecordJob: the job is not noted.
RecordNothing(c) ==
  /\ At(c, "put")
  /\ call' = [call EXCEPT ![c].pc = "await"]
  /\ UNCHANGED <<poolVars, driverVars, shutdown, slurmVars, history, work>>

\* run()/run_json() note the job and its port.
RecordJob(c) ==
  /\ At(c, "put")
  /\ WriteTable(c, jobMap \cup {call[c].job}, [call[c] EXCEPT !.pc = "await"])
  /\ UNCHANGED <<poolVars, active, compOf, instances, shutdown, hostPort, cluster,
                 history, work>>

\* waitUntilHttpReachable() got its 200, and the table agrees on the port.
Reachable(c) ==
  /\ At(c, "await")
  /\ Serving(call[c].port)
  /\ call[c].job \in jobMap
  /\ call' = [call EXCEPT ![c].pc = "probe"]
  /\ UNCHANGED <<poolVars, driverVars, shutdown, slurmVars, history, work>>

\* Mutant of Unreachable: the port is given back while the job may still run.
UnreachableReleases(c) ==
  /\ At(c, "await")
  /\ Release(call[c].port)
  /\ Throw(c)
  /\ UNCHANGED <<driverVars, shutdown, slurmVars, history, work>>

\* One minute without an answer: an exception; the job goes on, and its port
\* is not given back.
Unreachable(c) ==
  /\ At(c, "await")
  /\ Throw(c)
  /\ UNCHANGED <<poolVars, driverVars, shutdown, slurmVars, history, work>>

NextRound(c) ==
  call' = [call EXCEPT ![c] = [Idle EXCEPT !.pc = "loop", !.uuid = call[c].uuid,
                                           !.i = call[c].i + 1]]

\* responsiveAfterTime() succeeded: the instance is offered to the workers.
ProbeAnswered(c) ==
  /\ At(c, "probe")
  /\ Serving(call[c].port)
  /\ instances' = [instances EXCEPT ![call[c].uuid] = @ \cup {call[c].job}]
  /\ NextRound(c)
  /\ UNCHANGED <<poolVars, active, compOf, jobMap, shutdown, slurmVars, history,
                 work>>

\* responsiveAfterTime() failed: the exception is swallowed and the loop goes
\* on with one instance less.
ProbeFailed(c) ==
  /\ At(c, "probe")
  /\ NextRound(c)
  /\ UNCHANGED <<poolVars, driverVars, shutdown, slurmVars, history, work>>
-----------------------------------------------------------------------------
(***************************************************************************)
(* get_typesystem()                                                        *)
(***************************************************************************)

GetTypesystem(c, u) ==
  /\ At(c, "idle")
  /\ u \in active
  /\ call' = [call EXCEPT ![c] = [Idle EXCEPT !.pc = "take", !.uuid = u]]
  /\ UNCHANGED <<poolVars, driverVars, shutdown, slurmVars, history, work>>

\* The uuid is not in the table.
GetTypesystemUnknown(c, u) ==
  /\ At(c, "idle")
  /\ u \notin active
  /\ Throw(c)
  /\ UNCHANGED <<poolVars, driverVars, shutdown, slurmVars, history, work>>

\* getComponent() polls until the queue has an instance.
TakeForTypes(c, j) ==
  /\ At(c, "take")
  /\ j \in instances[call[c].uuid]
  /\ instances' = [instances EXCEPT ![call[c].uuid] = @ \ {j}]
  /\ call' = [call EXCEPT ![c].pc = "ask", ![c].job = j]
  /\ UNCHANGED <<poolVars, active, compOf, jobMap, shutdown, slurmVars, history,
                 work>>

\* Any HTTP answer: the instance goes back into the queue.
TypesAnswered(c) ==
  /\ At(c, "ask")
  /\ instances' = [instances EXCEPT ![call[c].uuid] = @ \cup {call[c].job}]
  /\ Return(c, "types")
  /\ UNCHANGED <<poolVars, active, compOf, jobMap, shutdown, slurmVars, history,
                 work>>

\* A hundred failed tries: an exception, and the instance stays out.
TypesFailed(c) ==
  /\ At(c, "ask")
  /\ Throw(c)
  /\ UNCHANGED <<poolVars, driverVars, shutdown, slurmVars, history, work>>
-----------------------------------------------------------------------------
(***************************************************************************)
(* destroy()                                                               *)
(***************************************************************************)

\* destroy() has its token.
Destroy(c, u) ==
  /\ At(c, "idle")
  /\ call' = [call EXCEPT ![c] = [Idle EXCEPT !.pc = "remove", !.uuid = u]]
  /\ known' = known \ {u}
  /\ UNCHANGED <<poolVars, driverVars, shutdown, slurmVars, released, doubled, work>>

\* The component leaves the table, and the iteration over its instances begins;
\* with slurmNoShutdown nothing else is done.  Callers that remove the same
\* uuid at the same time may all get the component.
Remove(c) ==
  LET u == call[c].uuid
      rivals == {d \in Caller : At(d, "remove") /\ call[d].uuid = u}
      todo == IF compOf[u] \in RunAfterExit THEN {} ELSE instances[u]
  IN  /\ At(c, "remove")
      /\ u \in active
      /\ WriteComponents(c, active \ {u})
      /\ \E got \in SUBSET rivals :
           /\ c \in got
           /\ call' = [d \in Caller |->
                IF d \in got THEN [call[d] EXCEPT !.pc = "cancel", !.todo = todo]
                ELSE call[d]]
      /\ UNCHANGED <<poolVars, compOf, instances, jobMap, shutdown, slurmVars, history,
                     work>>

\* The uuid is not in the table.
RemoveUnknown(c) ==
  /\ At(c, "remove")
  /\ call[c].uuid \notin active
  /\ Throw(c)
  /\ UNCHANGED <<poolVars, driverVars, shutdown, slurmVars, history, work>>

\* Slurm ends the job, unless it has before; its processes get their signals.
Terminate(j) ==
  cluster' = [cluster EXCEPT ![j] = IF @ = "live" THEN "ending" ELSE @]

\* The instances the iterator of destroying caller c may hand out next: those
\* it has not met, and then those that were put back behind it.
Ahead(c) == IF call[c].todo # {} THEN call[c].todo ELSE call[c].again

\* The iterator has moved past j.
Met(c, j) ==
  [call[c] EXCEPT !.pc = "release", !.job = j, !.todo = @ \ {j},
                  !.again = IF j \in call[c].todo THEN @ ELSE @ \ {j}]

\* cancelJob() returns true: the answer is 2xx, whatever it says of the job.
CancelDone(c, j) ==
  /\ At(c, "cancel")
  /\ j \in Ahead(c)
  /\ Terminate(j)
  /\ call' = [call EXCEPT ![c] = Met(c, j)]
  /\ UNCHANGED <<poolVars, driverVars, shutdown, hostPort, trouble, history, work>>

\* cancelJob() throws, whether or not Slurm ended the job: destroy() is left
\* in the middle of its loop.
CancelThrows(c, j) ==
  /\ At(c, "cancel")
  /\ j \in Ahead(c)
  /\ Terminate(j) \/ UNCHANGED cluster
  /\ Throw(c)
  /\ UNCHANGED <<poolVars, driverVars, shutdown, hostPort, trouble, history, work>>

\* The port goes back to the pool and the job leaves the table; the processes
\* of the job may not have gone yet.
ReleaseInstance(c) ==
  /\ At(c, "release")
  /\ Release(hostPort[call[c].job])
  /\ WriteTable(c, jobMap \ {call[c].job},
                [call[c] EXCEPT !.pc = "cancel"])
  /\ released' = released \cup {call[c].job}
  /\ doubled' = IF call[c].job \in released
                  THEN doubled \cup {hostPort[call[c].job]} ELSE doubled
  /\ UNCHANGED <<active, compOf, instances, shutdown, hostPort, cluster, known, work>>

\* No call of cancelJob() has returned false.
DestroyReturns(c) ==
  /\ At(c, "cancel")
  /\ Ahead(c) = {}
  /\ Return(c, "true")
  /\ UNCHANGED <<poolVars, driverVars, shutdown, slurmVars, history, work>>
-----------------------------------------------------------------------------
(***************************************************************************)
(* shutdown()                                                              *)
(***************************************************************************)

\* The jobs of the table are cancelled one by one; the table, the instances
\* and the ports are left as they are.
Shutdown(c) ==
  /\ At(c, "idle")
  /\ call' = [call EXCEPT ![c] = [Idle EXCEPT !.pc = "sweep", !.todo = jobMap]]
  /\ UNCHANGED <<poolVars, driverVars, shutdown, slurmVars, history, work>>

Swept(c, j) == call' = [call EXCEPT ![c].todo = @ \ {j}]

SweepDone(c, j) ==
  /\ At(c, "sweep")
  /\ j \in call[c].todo
  /\ Terminate(j)
  /\ Swept(c, j)
  /\ UNCHANGED <<poolVars, driverVars, shutdown, hostPort, trouble, history, work>>

\* Mutant of SweepThrows: the exception is caught and the loop goes on.
SweepThrowsCaught(c, j) ==
  /\ At(c, "sweep")
  /\ j \in call[c].todo
  /\ Terminate(j) \/ UNCHANGED cluster
  /\ Swept(c, j)
  /\ UNCHANGED <<poolVars, driverVars, shutdown, hostPort, trouble, history, work>>

\* The first IOException ends the loop.
SweepThrows(c, j) ==
  /\ At(c, "sweep")
  /\ j \in call[c].todo
  /\ Terminate(j) \/ UNCHANGED cluster
  /\ Throw(c)
  /\ UNCHANGED <<poolVars, driverVars, shutdown, hostPort, trouble, history, work>>

\* The traversal ends, in an exception if it noticed a change of the table.
SweepReturns(c) ==
  /\ At(c, "sweep")
  /\ call[c].todo = {}
  /\ Return(c, IF call[c].flag THEN "void" ELSE "exception")
  /\ UNCHANGED <<poolVars, driverVars, shutdown, slurmVars, history, work>>

\* No token from "scontrol token": destroy() and shutdown() throw first thing.
NoToken(c) ==
  /\ At(c, "idle")
  /\ Throw(c)
  /\ UNCHANGED <<poolVars, driverVars, shutdown, slurmVars, history, work>>
-----------------------------------------------------------------------------
(***************************************************************************)
(* run() and the world outside                                             *)
(***************************************************************************)

\* run() looks the component up; an unknown uuid throws and changes nothing.
Run(w, u) ==
  /\ work[w].pc = "idle"
  /\ u \in active
  /\ work' = [work EXCEPT ![w].pc = "wait", ![w].uuid = u]
  /\ UNCHANGED <<poolVars, driverVars, shutdown, slurmVars, history, call>>

\* Callers in the middle of destroy(u), which iterate over its instances.
Destroying(u) ==
  {c \in Caller : call[c].uuid = u /\ call[c].pc \in {"cancel", "release"}}

\* Mutant of Take: peek() for poll(), the instance stays in the queue.
TakePeeks(w, j) ==
  /\ work[w].pc = "wait"
  /\ j \in instances[work[w].uuid]
  /\ work' = [work EXCEPT ![w].pc = "busy", ![w].job = j]
  /\ UNCHANGED <<poolVars, driverVars, shutdown, slurmVars, history, call>>

\* process(): getComponent() polls until it gets an instance.  An iterator that
\* has fetched the instance already hands it out, another one skips it.
Take(w, j) ==
  /\ work[w].pc = "wait"
  /\ j \in instances[work[w].uuid]
  /\ instances' = [instances EXCEPT ![work[w].uuid] = @ \ {j}]
  /\ work' = [work EXCEPT ![w].pc = "busy", ![w].job = j]
  /\ \E skip \in SUBSET Destroying(work[w].uuid) :
       call' = [c \in Caller |-> IF c \in skip
                                   THEN [call[c] EXCEPT !.todo = @ \ {j},
                                                        !.again = @ \ {j}]
                                   ELSE call[c]]
  /\ UNCHANGED <<poolVars, active, compOf, jobMap, shutdown, slurmVars, history>>

\* Mutant of PutBack: no finally, an instance that failed is not put back.
PutBackForgotten(w) ==
  /\ work[w].pc = "busy"
  /\ work' = [work EXCEPT ![w] = [pc |-> "idle", uuid |-> NoUuid, job |-> NoJob]]
  /\ UNCHANGED <<poolVars, driverVars, shutdown, slurmVars, history, call>>

\* process(), finally: addComponent(), after an answer or an exception.  The
\* instance is the last of the queue: an iterator that has not come to its end
\* meets it, perhaps for the second time.
PutBack(w) ==
  /\ work[w].pc = "busy"
  /\ instances' = [instances EXCEPT ![work[w].uuid] = @ \cup {work[w].job}]
  /\ work' = [work EXCEPT ![w] = [pc |-> "idle", uuid |-> NoUuid, job |-> NoJob]]
  /\ call' = [c \in Caller |-> IF c \in Destroying(work[w].uuid) /\ Ahead(c) # {}
                                THEN [call[c] EXCEPT !.again = @ \cup {work[w].job}]
                                ELSE call[c]]
  /\ UNCHANGED <<poolVars, active, compOf, jobMap, shutdown, slurmVars, history>>

\* Slurm: a job runs into its time limit, its script ends, or it loses its node
\* and is not requeued.
JobEnds(j) ==
  /\ cluster[j] = "live"
  /\ Terminate(j)
  /\ UNCHANGED <<poolVars, driverVars, shutdown, hostPort, trouble, history, call,
                 work>>

\* Slurm: the last processes of an ending job are gone.
JobGone(j) ==
  /\ cluster[j] = "ending"
  /\ cluster' = [cluster EXCEPT ![j] = "ended"]
  /\ UNCHANGED <<poolVars, driverVars, shutdown, hostPort, trouble, history, call,
                 work>>

\* Composer: interrupt() sets the flag, the next run() resets it.
ToggleShutdown ==
  /\ shutdown' = ~shutdown
  /\ UNCHANGED <<poolVars, driverVars, slurmVars, history, call, work>>

\* Mutant of Joined: a worker that waits for an instance is not counted.
JoinedBusy(u) == \A w \in Worker : work[w].pc = "busy" => work[w].uuid # u

\* No worker uses the component.
Joined(u) == \A w \in Worker : work[w].uuid # u

\* Callers know a component once instantiate() has returned its uuid, and use
\* it one at a time.
Usable(u) == u \in known /\ \A c \in Caller : call[c].uuid # u

\* The methods of the driver as callers enter them,
Enters(c) ==
  \/ \E k \in Component, u \in Uuid : Instantiate(c, k, u)
  \/ \E u \in Uuid : Usable(u) /\ GetTypesystem(c, u)
  \/ \E u \in Uuid : Usable(u) /\ GetTypesystemUnknown(c, u)
  \/ \E u \in Uuid : Usable(u) /\ (JoinsWorkers => Joined(u)) /\ Destroy(c, u)
  \/ Shutdown(c)
  \/ NoToken(c)

\* and what goes on inside them.
Continues(c) ==
  \/ Register(c) \/ LoopDone(c) \/ LoopInterrupted(c)
  \/ AssignChosen(c) \/ AssignMiss(c) \/ AssignFail(c)
  \/ \E p \in PoolPorts : AssignReused(c, p) \/ AssignFresh(c, p)
  \/ \E j \in Job : SubmitAccepted(c, j) \/ SubmitLost(c, j)
  \/ SubmitRejected(c) \/ RecordJob(c)
  \/ Reachable(c) \/ Unreachable(c) \/ ProbeAnswered(c) \/ ProbeFailed(c)
  \/ \E j \in Job : TakeForTypes(c, j)
  \/ TypesAnswered(c) \/ TypesFailed(c) \/ Remove(c) \/ RemoveUnknown(c)
  \/ \E j \in Job : CancelDone(c, j) \/ CancelThrows(c, j)
  \/ ReleaseInstance(c) \/ DestroyReturns(c)
  \/ \E j \in Job : SweepDone(c, j) \/ SweepThrows(c, j)
  \/ SweepReturns(c)

WorkerNext(w) ==
  \/ \E u \in Uuid : Usable(u) /\ Run(w, u)
  \/ \E j \in Job : Take(w, j)
  \/ PutBack(w)

Next ==
  \/ \E c \in Caller : Enters(c) \/ Continues(c)
  \/ \E w \in Worker : WorkerNext(w)
  \/ \E j \in Job : JobEnds(j) \/ JobGone(j)
  \/ ToggleShutdown

Spec == Init /\ [][Next]_vars
-----------------------------------------------------------------------------
(***************************************************************************)
(* Properties                                                              *)
(***************************************************************************)

\* Two jobs that Slurm has not been told to end never have the same pool port,
\* unless a user chose it or it was given back twice for one job: acquire(), the
\* failure paths of instantiate() and destroy() together never reuse the port of
\* a job before that job was cancelled.
PortExclusive ==
  \A j, k \in Job :
    /\ j # k /\ cluster[j] = "live" /\ cluster[k] = "live"
    /\ hostPort[j] \in OwnPorts \ doubled
    => hostPort[j] # hostPort[k]

\* destroy() gives the port of a job back at most once.  It holds where no worker
\* uses the component any more (JoinsWorkers); otherwise the iterator may meet an
\* instance again that a worker has put back.
GivenBackOnce == doubled = {}

\* A job that Slurm runs is in the job table, and so within reach of
\* shutdown(), unless its submission was not answered, an overlapping write of
\* the HashMap lost it, or its caller is about to note it: no failure path of
\* instantiate() or destroy() forgets a job.
NoOrphans ==
  \A j \in Job : cluster[j] = "live" /\ j \notin jobMap =>
    \/ trouble[j] # "none"
    \/ \E c \in Caller : At(c, "put") /\ call[c].job = j

\* After shutdown() has returned to a caller that is alone, no job of the
\* driver runs but those whose submission was not answered or that the table
\* lost.
CleanAfterShutdown ==
  \A c \in Caller : Caller = {c} /\ call[c].result = "void" =>
    \A j \in Job : cluster[j] = "live" => trouble[j] # "none"

\* An instance is with one worker or one caller, or in one queue: two
\* documents are never sent to the same annotator process at the same time.
InstanceOnce ==
  /\ \A v, w \in Worker : v # w /\ work[v].pc = "busy" => work[v].job # work[w].job
  /\ \A w \in Worker : work[w].pc = "busy" =>
       \A u \in Uuid : work[w].job \notin instances[u]
  /\ \A u, v \in Uuid : u # v => instances[u] \cap instances[v] = {}
  /\ \A c \in Caller : At(c, "ask") =>
       /\ \A u \in Uuid : call[c].job \notin instances[u]
       /\ \A w \in Worker : work[w].job # call[c].job

\* "Assigning a free port" (DUUISlurmDriver:265): a port that comes from the
\* pool is not one that a job still serves on.
AssignedPortIsFree ==
  \A c \in Caller : At(c, "submit") /\ ChosenPort[Comp(c)] = NoPort =>
    ~Serving(call[c].port)

\* The weaker form of the same sentence: a port that comes from the pool is not
\* the port of a job that Slurm has not been told to end.
AssignedPortUnused ==
  \A c \in Caller : At(c, "submit") /\ ChosenPort[Comp(c)] = NoPort =>
    \A j \in Job : cluster[j] = "live" => hostPort[j] # call[c].port
=============================================================================
