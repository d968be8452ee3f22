# A verification of DUUI's Slurm driver

DUUI (Docker Unified UIMA Interface) runs pipelines of text annotators. This
repository adds a driver that starts the annotators as jobs of a Slurm cluster
and takes them down again. The TLA+ modules here model that driver, the port
pool and the REST calls it rests on, the part of the composer that drives it
(one run of a pipeline with its document reader, worker threads, interruptions,
failures and the JVM's shutdown hook), and the part of the vendored Slurm the
driver relies on: the life of a batch job in slurmctld and slurmd. TLC checks
them on small instances; TLAPS proves the safety properties of all of them for
every number of threads, ports, documents, nodes and jobs.

Paths of Java files below are relative to
`src/DockerUnifiedUIMAInterface/src/main/java/org/texttechnologylab/DockerUnifiedUIMAInterface/`,
those of C files to `src/slurm/src/`.

## Inventory

| Part | State | Operations | Modelled by |
|---|---|---|---|
| Port pool, `driver/slurm/PortManager.java` | static `next` (AtomicInteger), `reuse_queue` (ConcurrentLinkedQueue) | `acquire`, `release`, HTTP polling; `remaining`, which nothing calls | `PortManager`, `PortClients`, `PortLease`; polling in `SlurmDriver` |
| Slurm driver, `driver/slurm/DUUISlurmDriver.java` | `_active_components` (HashMap uuid -> component), each component's `_instances` (ConcurrentLinkedQueue) | `instantiate`, `get_typesystem`, `run`, `destroy`, `shutdown` | `SlurmDriver` |
| Job table, `driver/slurm/DUUISlurmInterface.java` | `_jobID_PortMap` (plain HashMap) | `run`, `run_json`, `extractPort` | `SlurmDriver` |
| REST client, `driver/slurm/slurmInDocker/SlurmRest.java` | none of its own; the cluster's jobs | `generateRootToken`, `submit`, `cancelJob`; read-only queries | `SlurmDriver`; the cluster is `ClusterJobs` |
| Slurm daemons, `slurmctld/*.c`, `slurmd/*/*.c` | job records, node states, launch agents; slurmstepd processes, revoked credentials; messages | submit, launch, cancel, time limit, completion, requeue, purge, pings and registration of nodes | `SlurmJobs`, which implements `ClusterJobs` |
| Instance protocol, `driver/IDUUIInstantiatedPipelineComponent.java` | none | `getTypesystem`, `process` | `SlurmDriver` (taking and putting back) |
| Composer, `DUUIComposer.java` | `_instantiatedPipeline` (Vector), `_shutdownAtomic`, `_hasShutdown`, the hook | `run(DUUIDocumentReader)`, `instantiate_pipeline`, `shutdown_pipeline`, `shutdown`, `interrupt` | `Composer` |
| Worker thread, `DUUIWorkerDocumentReader` in `DUUIComposer.java` | its place in the flow | its `run` loop | `Composer` |
| Document reader, `io/reader/DUUIDocumentReader.java` | two queues, progress, memory counter | `getNextDocument`, `getAsyncNextByteArray` | `Reader`; in `Composer` as a number of documents |
| Other run modes of the composer (`run_async`, `AsyncCollectionReader`, `runSegmented`), `io/DUUIAsynchronousProcessor.java`, `io/reader/DUUISegmentationReader.java` | queues, CAS pool | | not modelled |
| Job scripts (`SlurmUtils.java`), Lua layer, formats, storage backends, monitoring, document handlers | | string building and I/O | not modelled |
| Docker, Remote, UIMA, Swarm, Kubernetes, Podman drivers | | same interface | not modelled (upstream code) |
| Container images, `docker-compose.yml`, scripts; the rest of the vendored Slurm | | | not modelled |

How the parts interact. `run()` on the user's thread calls
`instantiate_pipeline()`, which calls the driver's `instantiate` and
`get_typesystem` once per component; `instantiate` takes a port of the pool (or
the one the user chose), submits a job, notes it in the job table, polls the
port, probes the service and offers an instance to the workers. Workers take
documents from the reader and for each part of the pipeline call the driver's
`run`, which takes an instance out of the queue and puts it back in a `finally`.
`shutdown()` destroys the parts (cancel job, release port, forget job) and then
lets the driver cancel every job of the table. The JVM's hook calls the same
`shutdown()` on its own thread, at any time; `interrupt()` sets a flag that all
loops look at. While the workers run, the main thread reads documents ahead with
futures, as long as the reader's memory counter is not above its maximum.
slurmctld launches a submitted job by an RPC to slurmd on the chosen node, asks
slurmd to end it when it is cancelled, and hears from slurmstepd and slurmd when
it is over; all of these are messages that may be lost or late.

What is hard. No lock protects any of this. `acquire()` is two atomic steps.
The two HashMaps are written by several threads. `destroy()` iterates over a
queue others change. The pipeline vector is iterated by workers and cleared by
`shutdown_pipeline()`. Every REST call can fail before or after Slurm acted.
`instantiate()` has six exits with a different set of things left behind. What
makes each part correct:

* pool: a port has one user at a time and none is lost;
* driver: a running job is either reachable through the job table or one Slurm
  did not answer for; a port is reused only when its job was ended; an annotator
  process serves one document at a time; `shutdown()` that returns leaves nothing;
* composer: a run that returns and a hook that returns leave no job; a run ends;
  a completed document went through the pipeline;
* reader: a document is in one place, none is skipped, reading ahead stays
  bounded, the counter does not keep `run()` from ending;
* Slurm: a cancelled job never runs again and in the end has no process left, one
  run of a job is not taken for another, two copies do not run side by side.

The list of hazards, each at its line and with the properties that watch it, is
in `PROJECT.json`.

## Modules

`PortManager` gives the steps of `acquire()` (`PollReused`, `PollEmpty`,
`DrawFresh`, `DrawExhausted`) and of `release()` as action fragments
over `next` and `reuse_queue`. The bounds checks are those of the code:
`acquire` fails for `p >= MAX`, `release` ignores ports outside `BASE..MAX-1`.
The pool has therefore MAX - BASE = 100 ports, where the comment on the class
(`PortManager.java:19`) and `slurm_driver.md:46` count 101. `remaining()` is left
out: it changes nothing, nothing calls it, and as it reads the counter and then
the length of the queue, without a lock, its result is not even a number of
ports that were ever free.

`PortClients` lets threads use the pool in any interleaving: one action per step
of `acquire()`, `UseChosenPort` for `withSlurmHostPort`, `GiveBack` for
`release()` from `destroy()`. `PortLease` is the abstract specification (a port
is leased to one client, a lease starts only when nobody has it); the refinement
mapping is `Owners`. Users may choose any port, one of the pool too: the
repository's own `RestApi.java:257` chooses the first. The pool does not know, so
it hands such a port out a second time, and `release()` queues it although it was
never drawn. What is stated and proved is therefore about `OwnPorts`, the pool
ports no user chooses, which must not suffer from those that are. Because `acquire()` looks at the queue and then draws from
the counter, it may fail although a port was given back in between; callers take
that for an exhausted pool, and nothing here says otherwise.

`SlurmDriver` extends `PortManager`. A *caller* is a thread in one of the
driver's methods; `call[c]` is its place and its local variables. The groups of
actions follow the methods:

* `instantiate`: `Instantiate`, `Register`, then per unit of scale
  `AssignChosen | AssignReused | AssignMiss; AssignFresh | AssignFail`,
  `SubmitAccepted | SubmitRejected | SubmitLost`, `RecordJob`,
  `Reachable | Unreachable`, `ProbeAnswered | ProbeFailed`, and
  `LoopDone | LoopInterrupted`;
* `get_typesystem`: `GetTypesystem | GetTypesystemUnknown`, `TakeForTypes`,
  `TypesAnswered | TypesFailed`;
* `destroy`: `Destroy`, `Remove | RemoveUnknown`, then per instance
  `CancelDone | CancelThrows` and `ReleaseInstance`, and
  `DestroyReturns`; `NoToken` where the token cannot be had;
* `shutdown`: `Shutdown`, `SweepDone | SweepThrows`, `SweepReturns`;
* workers: `Run`, `Take`, `PutBack`; the world: `JobEnds`, `JobGone`,
  `ToggleShutdown`.

What Slurm shows of a job is `cluster[job]`: none, live, ending, ended, as in
`ClusterJobs`; `Started`, `Terminate`, `JobEnds` and `JobGone` stand for Slurm's
steps, which `SlurmJobs` has in detail.
`Terminate` is what an accepted DELETE does: the job begins to
end. Its processes are gone only with `JobGone`, which nothing in the driver
waits for. An exception of a call leaves open whether Slurm acted.

The collections are modelled by what their classes guarantee.
`ConcurrentLinkedQueue`'s weakly consistent iterator: an instance put back while
`destroy()` iterates is met again (`again`), one taken away may or may not be
met. `HashMap` without a lock: of two overlapping writes entries may be lost
(`WriteTable`, `WriteComponents`), two overlapping `remove` calls may both get
the component, and `forEach` overlapping a write may miss entries and may or may
not end in a ConcurrentModificationException.

`Composer` extends `SlurmDriver` with `thread[main]`, `thread[hook]` and
`loop[w]`, each thread's place in `run()`/`shutdown()`/the worker loop. It calls
the driver through the same actions: the step in which the composer calls a
method is the conjunction of its own change and the driver's first action, the
driver's inner steps are `DriverNext`, and the composer goes on when the call
has a result. `_instantiatedPipeline` is a Vector with its modification count,
so that iterators fail as they do in Java; `hasNext()`, which looks at the size
only, and `next()` are two steps (`MorePartsLeft; DestroyPart | PartsChanged`,
`MoreParts; RunPart | PartGone | FlowChanged`). Whether the reader's memory counter
is above its maximum after a round of reading ahead is left open
(`ReadAheadDone`, `MemoryFree`); `Reader` says when it is. `TypesThrow` is the
merge of the type systems or the creation of the first CAS that fails.
`_hasShutdown` is not volatile: a
thread sees its own writes, and may or may not see those of another.

`Reader` is `DUUIDocumentReader` under `run()`: `documentQueue` and
`loadedDocuments` as sequences, each future and each worker with its place, the
counters `currentMemorySize` (`mem`) and `progress`. `Check`, `Issue`, `Joined`,
`WaitDone`, `JoinWorkers` are the main thread; `FutureLoads`, `FutureFails`,
`FutureCounts` a future; `PollLoaded` to `Record` are `getNextDocument()` and
`pollDocument()`, the rest is the worker's loop. The listed document objects are
the ones the composer keeps per path, so that a worker's `setBytes()` changes
the size that the future of the same document adds afterwards, and an upload
sets it to 0 for a moment. Facts that the properties make explicit: the counter
drifts by what the listing got wrong (`OverListed`, `UnderListed`), and if it
reported more than the maximum too much, `run()` never leaves the loop that
reads ahead; with an output there is no bound on the counter's error; an
`IllegalArgumentException` while a document is opened drops it silently
(`dropped`).

`ClusterJobs` is the abstract life of a job the driver is written against.
`SlurmJobs` is the detailed one, and implements it by the mapping `Shown`.
slurmctld holds its job and node locks for the whole of a handler, so each
handler is one step on the job record (`Ended`, `Completed`, `Requeued`,
`EpilogComplete`, `NodeFailed`: what `deallocate_nodes()`, `job_complete()`,
`_job_requeue_op()`, `job_epilog_complete()` and the failure of a node make of
it). The agent's timeout is two: it completes the job under one lock
(`LaunchTimeout`) and notes the silent node under another (`NodeNotResp`).

slurmd takes no lock for the whole of a request. `_rpc_batch_job()` is: up to its
answer (`RecvLaunch | LaunchRevoked | LaunchUnconfirmed`), the second look at the
credential (`Check`), `_add_starting_step()` and the fork (`Start`), the third look
when slurmstepd has answered (`Recheck`), or its failure (`StartFails`).
`_rpc_terminate_job()` is `RecvTerminate`, the second signal of the waiting thread
(`WaiterKills`) and its end (`WaiterDone`). A terminate request waits for a step
that is being started, but one that arrives between `Check` and `Start` finds
nothing, and is answered as complete. `Recheck` was written for that (the
comment at `req.c` 2748-2751 says that the abort logic is run through), but 2755
skips it if the job is noted as finishing, which every terminate request does
(5373): the script runs until the node registers and slurmctld finds it. The note is kept in a ring that other jobs overwrite, so the
model leaves open whether it is still there. The history variable `overtaken` marks
the jobs to which this, or the same with an abort request, has happened. For them
a job that slurmctld has cleaned may get a process, and if it is requeued two runs
may meet. `ClusterSpec` and the liveness properties hold with them, since `Shown`
counts a launch that has passed its check as a process that may come; the three
invariants about runs and nodes are stated of the other jobs.

Messages are a set; any may be lost, delayed or overtaken. Times are numbers of
launches: a credential has the number of its run, a request to end the job the
number of runs so far, which is the order the code's timestamps give. The batch
host's revocation list (`revoked`) is what keeps a late launch from starting a
cancelled job. A job that `_job_requeue_op()` has held counts as over, since
only an administrator can let it run again; that it also takes a job that was
cancelled, when the launch fails afterwards, is why the mapping says so.

`MCPortClients`, `MCSlurmDriver`, `MCComposer`, `MCSlurmJobs`, `MCReader` hold the model values and
functions the `.cfg` files use. `*_proofs` modules hold the proofs, `SumTheorems`
what they need about sums over finite sets. Definitions
marked "Mutant of ..." are plausible bugs, used only to show that each property
can fail: `PROJECT.json` names which property each one breaks.

## Runs

| Run | Instance | Shows |
|---|---|---|
| `port_pool` | 3 threads, 3 ports, of which users choose one, besides one equal to MAX; counter up to MAX+2, 3 instances on chosen ports | `PoolPartition`, refinement `LeaseSpec` |
| `slurm_driver` | 1 caller, 2 workers, scale 2 + scale 1 on a chosen port outside the pool, 4 jobs, 2 pool ports | `PortExclusive`, `GivenBackOnce`, `NoOrphans`, `CleanAfterShutdown`, `InstanceOnce` |
| `slurm_driver_two` | 2 callers, 3 jobs, scale 1 each, one of 2 pool ports also chosen | `PortExclusive` with lost HashMap updates |
| `slurm_port_ending` | pool ports only | `AssignedPortIsFree` **fails**: the port of an ending job is assigned |
| `slurm_unjoined` | a worker not joined before `destroy()` | `AssignedPortUnused` **fails** |
| `composer` | 2 components, one with slurmNoShutdown, no document, hook, interrupt | `RunCleans`, `HookCleansAfterInstantiation` |
| `composer_ends` | 1 component, 1 worker, 2 documents | the same while a worker processes documents, and `RunEnds` (liveness) |
| `composer_hook` | 2 components | `HookCleansAllJobs` **fails** during the instantiation |
| `composer_partial` | 1 component, 1 document | `CompletedIsAnnotated` **fails** |
| `reader` | 3 documents, 2 futures, 2 workers, with and without an output | `OnePlace`, `MemoryBounded`, `CounterAgrees`, `NothingSkipped`, `RunReturns` (liveness) |
| `slurm_jobs` | 1 job, 2 nodes, 2 launches, none overtaken | `RunIsCurrent`, `OneCopy`, `GoneFromNodes` |
| `slurm_jobs_live` | 1 job, 1 node, 2 launches | refinement `ClusterSpec`; `CompletingEnds`, `ProcessesGo`, `LostRunNoticed` (liveness) |

Each failing run states what a comment or a message of the code says; the
findings in `PROJECT.json` quote it and tell the scenario. The failures of the
driver and the composer share
four causes: the pool keeps no record of who has a port; `destroy()` is the only place that gives a port back, and it does
so for each instance it meets, as soon as Slurm has accepted the cancellation
(the port of a job whose probe failed, which has no instance, stays with it for
the life of the JVM); `shutdown()` works on
the collections as they are while other threads still change them; and `run()`
shuts down without joining its workers on its failing paths. `NoOrphans` excuses a
job that the HashMap lost to two writes at once, and nothing in the driver repairs
such a loss, although the driver calls the table "a thread-safe hashmap<jobid,port>"
(`DUUISlurmDriver.java:300`) and it is a plain HashMap (`DUUISlurmInterface.java:22`).

Bounds. A uuid is used for one `instantiate()`, a job id for one submission:
`Uuid` and `Job` bound how often these happen. With two uuids and four jobs a
component of scale 2 is destroyed and instantiated again on the ports it gave
back (`slurm_driver`), with three jobs one of scale 1 is, by two callers at once
(`slurm_driver_two`); the proofs have any number of callers.
`NextBound` caps the counter of the pool,
which every failing `acquire()` increments; in `SlurmDriver` the number of uuids
does. The pool has two or three ports, so that it is exhausted and reused within
a few steps. Symmetry over uuids, jobs, workers and (in `SlurmDriver`, where no
formula names one) callers is used only for invariants. In `SlurmJobs` jobs meet
only in the state of a node, which may change at any time anyway, so one job
shows what happens to each of many; `MaxRuns` = 2 launches let everything late
of one run meet the next, and two nodes let them be on different ones. The
CONSTRAINT of `slurm_jobs` ends a behaviour where the job becomes `overtaken`, since
the invariants say nothing of it afterwards; `slurm_jobs_live` goes on, on one
node. The symmetry over nodes is used only for the invariants.
In `reader` each of the three documents exceeds the maximum, one is listed too
small and one too large by just the maximum, so that reading ahead stops, goes on and the
counter drifts within three documents; the last two are polled by two futures
and two workers at once.

Deadlock is checked where the system has no end (`PortClients`, `SlurmDriver`).
A `Composer` behaviour does end, when `run()` or the hook has returned, and so
does one of `Reader`. `SlurmJobs` has no end: nodes come and go.

Fairness. `FairSpec` assumes weak fairness of the main thread's steps, driver
calls included, and of each worker's steps: Java threads that can run do run.
Nothing is assumed of users, the hook, Slurm or the network; a call that may
fail may fail every time. That `waitUntilHttpReachable` gives up after a minute
is in the model (`Unreachable`); a worker's request for a document has a time
limit and three tries, so that the instance is put back. The requests of
`getTypesystem` and of the probe have no time limit: no fairness is assumed of
their answers (`Unanswered`). Nor is it of the memory counter (`Clogged`).
`getComponent()` has no limit either, so its caller may starve. The handlers that
read and write documents are assumed to return. `RunEnds` names the four ways in
which a run does hang: `Starved` (every probe of a component failed and was
swallowed, then `get_typesystem` spins on an empty queue), `Unanswered` (a
component accepts the request and does not answer), `Clogged` (the memory counter
stays above its maximum, so that `run()` never sees that the queue is empty; an
interruption gets it out) and `Abandoned` (every worker died while documents are
left, and `run()` sleeps until the reader is empty). `Reader!FairSpec` is weak
fairness of the main thread, each future and each worker.

`SlurmJobs!FairSpec`: weak fairness of slurmctld's timers (the agent's timeout,
pings, registrations) and of slurmd's threads, and that a killed script ends;
strong fairness of `ReKill`, which `purge_old_job()` calls again and again but
which skips a node while it does not respond, and of the arrival of requests to
end a job (aborts, which each registration sends again, included) and of the
answers to them: messages may be lost again and again, not for ever. Nothing is assumed of launches, of which one loss is final, of the
scripts, or of nodes, which may restart and fall silent at any time.

## Proofs

All proofs are for arbitrary sets of threads, components, workers, uuids, jobs,
nodes and documents, and any pool `BASE < MAX`. Every safety property that a
passing run checks, invariant or refinement, is proved. The assumptions on
constants are `PoolAssumption`, `ClientAssumption`, `DriverAssumption`,
`ComposerAssumption`, `SlurmAssumption` and `ReaderAssumption`; the last includes
that the listing is a finite sequence which names each document once. One further
hypothesis appears in the statement that needs it, `BackOnce`: `JoinsWorkers` (a
component is destroyed only when no worker uses it; `slurm_unjoined` shows it is
needed). Nothing is assumed of the ports users choose.

`PortClients_proofs`
* `TypeCorrect`: `TypeOK`, which is inductive.
* `PartitionHolds`: `PoolPartition`, inductive relative to `TypeOK`, although chosen
  ports of the pool may be in the queue undrawn and twice. `OnlyDrawn`
  makes a fresh port distinct from all others, `QueuedOnce` makes the head of
  the queue different from its tail.
* `ImplementsLease`: `Spec => LeaseSpec`. Each step is a `Lease`, a `GiveUp` or
  leaves `Owners` alone; `PoolPartition` gives the abstract guards, which the
  code does not check.

`SlurmDriver_proofs`
* `TypeCorrect`: `TypeOK` strengthened by `Shape`, which says what a caller's
  local variables hold at each place and that no collection names a job never
  submitted; without it `hostPort[job]` in `ReleaseInstance` has no type.
* `OrphanFree`: `NoOrphans` with `KnownToSlurm` and `CancelledFirst` (where a
  caller is about to forget a job, Slurm was told to end it).
  Without the latter `ReleaseInstance` would take a running job off the table.
  This and the types hold for `AnyNext`, the driver's steps without the callers'
  discipline, which is how the composer's proofs use them.
* `OneAtATime`: `InstanceOnce`, from `OneHolder`: a job is with one caller
  between its submission and `addInstance`, with one worker, with one type
  system request, or in one queue.
* `ShutdownCleans`: `CleanAfterShutdown`, from `Sweeps`: a shutdown() under way has
  not yet met the jobs that still run. `NoOrphans` gives it when the traversal
  begins.

`SlurmPorts_proofs`
* `PortsExclusive`: `PortExclusive`, without a hypothesis, from `QueueOnce` and
  `PortOnce`: every drawn pool port that no user chooses and that was not given
  back twice is with one job that was not released, with one caller about to
  submit, or once in the queue. `CancelledFirst` gives that a released job is over
  (`ReleasedOver`).
* `BackOnce`: `JoinsWorkers` implies `GivenBackOnce`, from two more invariants.
  `Sessions`: one caller at a time uses a component and `destroy()` is the last to.
  `ReleasedOnce`: no released instance is offered or met again. The two theorems
  together say that with joined workers no pool port that nobody chose is ever
  shared.

`Composer_proofs`
* `ComposerTypes`: `ComposerTypeOK` strengthened by `Places`: where a thread is in
  the driver when it is at a place in the composer, that the hook does nothing but
  shut down, and that an iterator over a vector that was not changed since is
  within it (`InVector`); without the last the next part has no type.
* `RunLeavesNothing` (`RunCleans`) and `LateHookLeavesNothing`
  (`HookCleansAfterInstantiation`), from `CleanInv`: the driver's `OrphanInv`;
  `Sweeps` for the main thread, and for a hook that started late; whoever has set
  `_hasShutdown` left nothing running, and the main thread returns normally only
  when it has set it. Two shutdown() calls overlap here, with each other and with
  the workers: what another destroy() takes off the table while a sweep goes on
  is a job Slurm was told to end (`SweepBeside`). A skipped shutdown() is the
  subtle case: the main thread may see the hook's `_hasShutdown` only if the JVM
  is halted, so that whoever skips does so because of its own, or the main
  thread's, completed sweep.
* `ComposerOrphanFree`: `NoOrphans` of the driver as the composer uses it.

`SlurmJobs_proofs`
* `TypeCorrect`, `RunCurrent`, `NoSecondCopy`, `NothingLeft`, from one inductive
  invariant `IInv`. `Records`, `Times` and `Once` hold of every job: the shape of
  its record, that requests carry the number of the present run, and that a run has
  one launch or one process. `Placed`, `Answers` and `NoneLate` hold of a job until
  it is `overtaken`: what runs or may start is the present run on its node, or on a
  node given up, or revoked; a node that says it is done with a job is; nothing
  that would end an earlier run is under way to the node of the present one. None
  of the three is inductive without the others, and none survives a kill request
  that finds no process where one is about to start: with `overtaken` in their
  statements the proofs show that this window is the only way to break them. A step
  is a launch, takes up or gives up one, advances what was launched (`Advances`) or
  launches, accepts and revokes nothing (`StartsNothing`); the invariant is kept by
  each kind as a whole.
* `ClusterRefinement`: `Spec => ClusterSpec` under the mapping `Shown`, for all jobs,
  overtaken or not. A launched job was shown as live and stays so. No other step
  brings a process where none was to come, and what it may make of a job's record
  (`Follows`) is one abstract step or none.

`Reader_proofs`
* `TypeCorrect`, `EachInOnePlace`, `AllThrough`, from `IInv`: `OnePlace` with the
  queues free of repetitions and with what progress counts. The count makes
  `NothingSkipped` provable: `run()` looks only at it and not at the workers.
* `ReadAheadBounded` and `CounterIsLoaded`, from `MInv`: while there is no output,
  the counter is the size of what is loaded plus what workers have taken and not
  yet subtracted, minus what futures have made available and not yet added, up to
  what the listing got wrong (`Accounted`). What is ahead exceeds the maximum by at
  most one largest document for each future begun in this round (`Bounded`); the
  futures belong to the round and to documents that have left the queue
  (`Rounds`).
* The sums are folds over finite sets, which the provers know nothing of.
  `SumTheorems` proves what is needed (adding an element, splitting, monotonicity,
  the sum of bounded values) without induction, by a smallest counterexample: the
  finite subsets that fail have one of least cardinality, and taking an element
  out of it gives a smaller one.

Every invariant above was checked with TLC on an instance of a run before it
was proved.

Only model-checked: liveness under fairness (`RunEnds`, `RunReturns`,
`CompletingEnds`, `ProcessesGo`, `LostRunNoticed`), which is out of the prover's
reach, and the runs that show a violation.

## Limits

* `PortExclusive` and `NoOrphans` are about live jobs. That an ending one may hold
  its port for a moment longer is what `slurm_port_ending` shows.
* `PortExclusive` is about the pool ports that no user chooses and that were not
  given back twice. `slurm_unjoined` shows what happens to the latter. A chosen
  pool port is neither checked nor taken out of the pool (`DUUISlurmDriver.java:269`),
  so `acquire()` gives it to another component as well, and `destroy()` queues it
  although it was never drawn; the repository's own `RestApi.java:257` chooses
  20000, the first port of the pool.
* A queue of instances is a set: the order of service is not modelled.
* Of what unsynchronised HashMap access may do, entries that come back, reads
  that miss an entry during a resize, and endless loops are left out.
* `getTypesystem` puts the instance back before it parses the answer; an
  exception of the parser would make it retry and put it back twice. The parser
  is assumed not to fail.
* `ReleaseInstance` does `release()` and the removal from the table in one step;
  no other step looks at both.
* The composer has the Slurm driver only, no monitor, no storage backend, and is
  not a service. The checks of the flag before the CAS pool, in its loop and
  before each worker are one action (`SpawnStops`).
* In `Composer` documents are a number; where they are and what the memory
  limit does is in `Reader`, which in turn has no driver: what the components do
  with a document succeeds or fails in one step. The CAS pool is left out of
  both; a worker that gets no CAS dies like one that cannot open its document.
* `Reader` lists each path once. `reset()` and `getNextCas()`, which `run()` does
  not call, are left out.
* `upload()` begins with an early return for a document that has upload progress.
  `Reader!Upload` leaves it out: only `upload()` itself sets the progress, at its
  end, and a document is then with no worker any more.
* `SlurmJobs` has batch jobs on one node, `ReturnToService=0`, and no prolog or
  epilog, as the deployment configures it. slurmctld does not restart. Times in
  seconds are not modelled, which makes two assumptions. A requeued job is
  launched only when no request, answer or launch thread of the run before is left
  (`Settled`): the code waits for the lifetime of the credential and one second
  more, which is assumed to outlast them; what a request later than that would do
  is not shown here. A revocation is forgotten only when no launch that it is to
  stop is left (`Expire`), which takes as long. A registration, on the other hand,
  may find a job missing as soon as the agent is through with its launch
  (`Register`), earlier than the code's BatchStartTimeout allows.
* The branch of `_rpc_batch_job()` for a launch of a job that is running on the node
  is left out: slurmd takes a job off that list with every terminate request, and by
  `Settled` no launch comes before. So are processes that survive SIGKILL.
  A report that the script could not be run requeues the job; the node is drained
  too, which is left out: a drained node gets no job until an administrator resumes
  it, and in the model a node need never be chosen.
* The JVM is halted in the moment the hook returns.
* `InterruptedException` in the composer is not modelled: nothing interrupts its
  threads.

## Not modelled

* The other run modes of the composer (`run_async`, `AsyncCollectionReader`, the
  segmented run with its MongoDB store) share `instantiate_pipeline()`,
  `shutdown()` and the driver with the one that is modelled; their queues and
  workers are not. `run_async()` shuts only the pipeline down when it fails,
  and leaves jobs without an instance to the hook.
* The other drivers have the same interface and are upstream code, without the
  port pool and the job table the properties here are about.
* Job scripts, the Lua layer, formats, storage backends, monitoring, Docker
  client, images and start scripts are string building and I/O.
* Slurm is vendored, in two identical copies of about 745,000 lines. Of it only
  the life of a batch job is modelled, because the driver's correctness depends
  on it. Packing of messages, scheduling and other plugins, accounting, client
  commands and test data have no state a property of this project is about. The
  map therefore covers a small share of all the lines under `src/`, and cannot
  cover a large one without leaving the program the project is about.

## Plan

Done: port pool with its abstract specification; Slurm driver; composer run with
a document reader; the reader itself; the life of a job in Slurm and its abstract
specification; proofs of the safety properties of all of them.

Next, in this order:

1. The lease of the pool one level up: that the driver, not only the threads of
   `PortClients`, implements `PortLease` with jobs as the clients, from the
   invariants of `SlurmPorts_proofs`.
2. `AsyncRun`: `run_async` and `run(AsyncCollectionReader)` with `DUUIWorker`,
   `DUUIWorkerAsyncReader` and the CAS pool (`DUUIComposer` 64-354, 1279-1444):
   a CAS is with one worker, all come back, and the failure path.
