------------------------------ MODULE Composer ------------------------------
(***************************************************************************)
(* The life of a pipeline of Slurm components: one call of                 *)
(* DUUIComposer.run(DUUIDocumentReader, ...) with its worker threads       *)
(* (DUUIWorkerDocumentReader), the JVM's shutdown hook and a user who may  *)
(* interrupt().                                                            *)
(*                                                                         *)
(* run() instantiates the components one after the other, starts the       *)
(* workers, waits until the documents are taken, joins the workers and     *)
(* calls shutdown(), which destroys the components in _instantiatedPipeline*)
(* and then lets the driver cancel whatever job its table still has.  The  *)
(* hook calls the same shutdown() at any moment, on its own thread; when   *)
(* it returns, the JVM is gone.                                            *)
(*                                                                         *)
(* Abstractions.  The documents are counted, their contents and the CAS    *)
(* pool are left out.  The only driver is the Slurm driver; there is no    *)
(* monitor and no storage backend, and the composer is not a service.  The *)
(* three places at which run() gives up before and while it starts the     *)
(* workers are one.                                                        *)
(***************************************************************************)
EXTENDS SlurmDriver

CONSTANTS
  Pipeline,       \* the components of the pipeline, in order
  Documents,      \* the number of documents
  IgnoreErrors,   \* withIgnoreErrors
  main, hook      \* the thread in run() and the shutdown hook

ASSUME ComposerAssumption ==
  /\ Pipeline \in Seq(Component)
  /\ Documents \in Nat
  /\ IgnoreErrors \in BOOLEAN
  /\ Caller = {main, hook}
  /\ main # hook

VARIABLES
  pipeline,     \* _instantiatedPipeline, a Vector, as the uuids of its parts
  modCount,     \* its modification count
  hasShutdown,  \* the threads that have set _hasShutdown, a plain field
  thread,       \* main and hook: where they are in the composer
  loop,         \* worker -> where it is in its loop
  documents,    \* documents not yet taken by a worker
  early,        \* history: the hook started during the instantiation
  partial       \* history: a document was completed without some component

vector == <<pipeline, modCount>>
marks == <<early, partial>>
composerVars == <<pipeline, modCount, hasShutdown, thread, loop, documents,
                  early, partial>>
allVars == <<vars, composerVars>>

Labels == {"start", "reset", "next", "made", "typed", "nodesc", "spawn", "feed", "reading",
           "full", "join", "asleep", "shutdown", "parts", "part", "parting", "driver",
           "driving", "ended", "failed"}

\* The types of the state.  Not by shape alone: the workers, none of which knows
\* of the others, never take more documents than the reader has.
ComposerTypeOK ==
  /\ TypeOK
  /\ pipeline \in Seq(Uuid)
  /\ modCount \in Nat
  /\ hasShutdown \subseteq Caller
  /\ thread \in [Caller -> [pc : Labels, k : Nat, uuid : Uuid \cup {NoUuid},
                            cursor : Nat, seen : Nat,
                            ret : {"nodesc", "ended", "failed"}]]
  /\ loop \in [Worker -> [pc : {"new", "poll", "taken", "parts", "part",
                                "running", "ended", "dead"},
                          cursor : Nat, seen : Nat]]
  /\ documents \in 0 .. Documents
  /\ early \in BOOLEAN
  /\ partial \in BOOLEAN

ComposerInit ==
  /\ Init
  /\ pipeline = <<>>
  /\ modCount = 0
  /\ hasShutdown = {}
  /\ thread = [c \in Caller |-> [pc |-> IF c = main THEN "start" ELSE "asleep", k |-> 1,
                                uuid |-> NoUuid, cursor |-> 0, seen |-> 0,
                                ret |-> "ended"]]
  /\ loop = [w \in Worker |-> [pc |-> "new", cursor |-> 0, seen |-> 0]]
  /\ documents = Documents
  /\ early = FALSE
  /\ partial = FALSE

\* The JVM is halted as soon as the hook has returned or died.
Halted == thread[hook].pc \in {"ended", "failed"}

\* Thread c, or worker w, runs and is at label l.
In(c, l) == ~Halted /\ thread[c].pc = l
Does(w, l) == ~Halted /\ loop[w].pc = l
Goto(c, l) == thread' = [thread EXCEPT ![c].pc = l]

\* The driver has returned to c with one of the results R.
Returned(c, R) == At(c, "idle") /\ call[c].result \in R

\* c calls shutdown(), after which it goes on at r.
CallShutdown(c, r) == thread' = [thread EXCEPT ![c].pc = "shutdown", ![c].ret = r]

SetShutdown(b) ==
  /\ shutdown' = b
  /\ UNCHANGED <<poolVars, driverVars, slurmVars, history, call, work>>

\* The vector and its readers.
HasNext(cursor) == cursor # Len(pipeline)
-----------------------------------------------------------------------------
(***************************************************************************)
(* run() and instantiate_pipeline(), on the main thread                    *)
(***************************************************************************)

RunStarts ==
  /\ In(main, "start")
  /\ SetShutdown(FALSE)
  /\ Goto(main, "reset")
  /\ UNCHANGED <<vector, hasShutdown, loop, documents, marks>>

ResetHasShutdown ==
  /\ In(main, "reset")
  /\ hasShutdown' = {}
  /\ Goto(main, "next")
  /\ UNCHANGED <<vars, vector, loop, documents, marks>>

\* The next component of the pipeline is instantiated.
InstantiateNext(u) ==
  /\ In(main, "next")
  /\ thread[main].k <= Len(Pipeline)
  /\ ~shutdown
  /\ Instantiate(main, Pipeline[thread[main].k], u)
  /\ thread' = [thread EXCEPT ![main].pc = "made", ![main].uuid = u]
  /\ UNCHANGED <<vector, hasShutdown, loop, documents, marks>>

\* instantiate_pipeline() returns null, as does run() after a shutdown().
InstantiationStops ==
  /\ In(main, "next")
  /\ shutdown
  /\ Goto(main, "nodesc")
  /\ UNCHANGED <<vars, vector, hasShutdown, loop, documents, marks>>

InstantiationDone ==
  /\ In(main, "next")
  /\ thread[main].k > Len(Pipeline)
  /\ ~shutdown
  /\ Goto(main, "spawn")
  /\ UNCHANGED <<vars, vector, hasShutdown, loop, documents, marks>>

\* The type systems of the components do not fit together, or no CAS can be made
\* of them before the first worker is started: run() calls shutdown() and rethrows.
TypesThrow ==
  /\ \/ In(main, "next") /\ thread[main].k > Len(Pipeline) /\ Len(Pipeline) > 1
     \/ In(main, "spawn") /\ \A w \in Worker : loop[w].pc = "new"
  /\ ~shutdown
  /\ CallShutdown(main, "failed")
  /\ UNCHANGED <<vars, vector, hasShutdown, loop, documents, marks>>

\* instantiate() returned a uuid: its type system is asked for.
AskTypes ==
  /\ In(main, "made")
  /\ Returned(main, {"uuid"})
  /\ \/ GetTypesystem(main, thread[main].uuid)
     \/ GetTypesystemUnknown(main, thread[main].uuid)
  /\ Goto(main, "typed")
  /\ UNCHANGED <<vector, hasShutdown, loop, documents, marks>>

\* instantiate() returned null: shutdown() is called, and null returned.
MadeNull ==
  /\ In(main, "made")
  /\ Returned(main, {"null"})
  /\ CallShutdown(main, "nodesc")
  /\ UNCHANGED <<vars, vector, hasShutdown, loop, documents, marks>>

\* The component becomes a part of _instantiatedPipeline only now.
AddPart ==
  /\ In(main, "typed")
  /\ Returned(main, {"types"})
  /\ pipeline' = Append(pipeline, thread[main].uuid)
  /\ modCount' = modCount + 1
  /\ thread' = [thread EXCEPT ![main].pc = "next", ![main].k = @ + 1]
  /\ UNCHANGED <<vars, hasShutdown, loop, documents, marks>>

\* instantiate() or get_typesystem() threw: run() calls shutdown() and rethrows.
InstantiationThrows ==
  /\ In(main, "made") \/ In(main, "typed")
  /\ Returned(main, {"exception"})
  /\ CallShutdown(main, "failed")
  /\ UNCHANGED <<vars, vector, hasShutdown, loop, documents, marks>>

\* Mutant of NoDescription: return without shutdown().
NoDescriptionReturns ==
  /\ In(main, "nodesc")
  /\ Goto(main, "ended")
  /\ UNCHANGED <<vars, vector, hasShutdown, loop, documents, marks>>

\* There is no type system: shutdown() and return.
NoDescription ==
  /\ In(main, "nodesc")
  /\ CallShutdown(main, "ended")
  /\ UNCHANGED <<vars, vector, hasShutdown, loop, documents, marks>>

\* A worker is started.
StartWorker(w) ==
  /\ In(main, "spawn")
  /\ ~shutdown
  /\ loop[w].pc = "new"
  /\ loop' = [loop EXCEPT ![w].pc = "poll"]
  /\ UNCHANGED <<vars, vector, hasShutdown, thread, documents, marks>>

\* run() gives up before all workers are started; those that are, run on.
SpawnStops ==
  /\ In(main, "spawn")
  /\ shutdown
  /\ \E w \in Worker : loop[w].pc = "new"
  /\ CallShutdown(main, "ended")
  /\ UNCHANGED <<vars, vector, hasShutdown, loop, documents, marks>>

SpawnDone ==
  /\ In(main, "spawn")
  /\ \A w \in Worker : loop[w].pc # "new"
  /\ Goto(main, "feed")
  /\ UNCHANGED <<vars, vector, hasShutdown, loop, documents, marks>>

\* Documents are read ahead of the workers;
ReadAhead ==
  /\ In(main, "feed")
  /\ documents > 0
  /\ ~shutdown
  /\ Goto(main, "reading")
  /\ UNCHANGED <<vars, vector, hasShutdown, loop, documents, marks>>

\* they were read, after which the reader's memory counter may be above its
\* maximum (how it gets there, and why it may stay there: module Reader),
ReadAheadDone ==
  /\ In(main, "reading")
  /\ Goto(main, "feed") \/ Goto(main, "full")
  /\ UNCHANGED <<vars, vector, hasShutdown, loop, documents, marks>>

\* or one could not be read: run() calls shutdown() and rethrows, also when it
\* was interrupted meanwhile.  The workers are not joined.
FeedThrows ==
  /\ In(main, "reading")
  /\ documents > 0
  /\ CallShutdown(main, "failed")
  /\ UNCHANGED <<vars, vector, hasShutdown, loop, documents, marks>>

\* The memory counter has sunk: the workers have taken documents.
MemoryFree ==
  /\ In(main, "full")
  /\ Goto(main, "feed")
  /\ UNCHANGED <<vars, vector, hasShutdown, loop, documents, marks>>

\* Every document has been taken, or the run is interrupted.
FeedDone ==
  /\ \/ In(main, "feed") /\ documents = 0
     \/ (In(main, "feed") \/ In(main, "full")) /\ shutdown
  /\ SetShutdown(TRUE)
  /\ Goto(main, "join")
  /\ UNCHANGED <<vector, hasShutdown, loop, documents, marks>>

\* Mutant of JoinWorkers: no shutdown() at the end.
JoinAndReturn ==
  /\ In(main, "join")
  /\ \A w \in Worker : loop[w].pc \in {"ended", "dead"}
  /\ Goto(main, "ended")
  /\ UNCHANGED <<vars, vector, hasShutdown, loop, documents, marks>>

\* The workers have ended: shutdown(), and run() returns.
JoinWorkers ==
  /\ In(main, "join")
  /\ \A w \in Worker : loop[w].pc \in {"ended", "dead"}
  /\ CallShutdown(main, "ended")
  /\ UNCHANGED <<vars, vector, hasShutdown, loop, documents, marks>>
-----------------------------------------------------------------------------
(***************************************************************************)
(* shutdown() and shutdown_pipeline(), on either thread                    *)
(***************************************************************************)

\* "Shutdown already happened. Skipping."
ShutdownSkips(c) ==
  /\ In(c, "shutdown")
  /\ hasShutdown # {}
  /\ Goto(c, thread[c].ret)
  /\ UNCHANGED <<vars, vector, hasShutdown, loop, documents, marks>>

\* Mutant of ShutdownStarts: _hasShutdown is set first and not last.
ShutdownMarksEarly(c) ==
  /\ In(c, "shutdown")
  /\ c \notin hasShutdown
  /\ hasShutdown' = hasShutdown \cup {c}
  /\ SetShutdown(TRUE)
  /\ thread' = [thread EXCEPT ![c].pc = IF pipeline = <<>> THEN "driver" ELSE "parts",
                              ![c].cursor = 0, ![c].seen = modCount]
  /\ UNCHANGED <<vector, loop, documents, marks>>

\* _hasShutdown is no volatile field: what another thread wrote may be unseen.
ShutdownStarts(c) ==
  /\ In(c, "shutdown")
  /\ c \notin hasShutdown
  /\ SetShutdown(TRUE)
  /\ thread' = [thread EXCEPT ![c].pc = IF pipeline = <<>> THEN "driver" ELSE "parts",
                              ![c].cursor = 0, ![c].seen = modCount]
  /\ UNCHANGED <<vector, hasShutdown, loop, documents, marks>>

\* hasNext() looks at the size of the vector only.
MorePartsLeft(c) ==
  /\ In(c, "parts")
  /\ HasNext(thread[c].cursor)
  /\ Goto(c, "part")
  /\ UNCHANGED <<vars, vector, hasShutdown, loop, documents, marks>>

\* next() hands out the next part, and destroy() is called for it.
DestroyPart(c) ==
  /\ In(c, "part")
  /\ modCount = thread[c].seen
  /\ LET u == pipeline[thread[c].cursor + 1]
     IN  /\ Destroy(c, u) \/ NoToken(c)
         /\ thread' = [thread EXCEPT ![c].pc = "parting", ![c].uuid = u]
  /\ UNCHANGED <<vector, hasShutdown, loop, documents, marks>>

\* The vector was changed by the other thread: ConcurrentModificationException,
\* caught in shutdown().
PartsChanged(c) ==
  /\ In(c, "part")
  /\ modCount # thread[c].seen
  /\ Goto(c, "driver")
  /\ UNCHANGED <<vars, vector, hasShutdown, loop, documents, marks>>

\* destroy() returned true: on to the next part.
PartDestroyed(c) ==
  /\ In(c, "parting")
  /\ Returned(c, {"true"})
  /\ thread' = [thread EXCEPT ![c].pc = "parts", ![c].cursor = @ + 1]
  /\ UNCHANGED <<vars, vector, hasShutdown, loop, documents, marks>>

\* destroy() threw: caught in shutdown(), the other parts are not destroyed.
PartThrows(c) ==
  /\ In(c, "parting")
  /\ Returned(c, {"exception"})
  /\ Goto(c, "driver")
  /\ UNCHANGED <<vars, vector, hasShutdown, loop, documents, marks>>

\* The iterator has no more parts: _instantiatedPipeline is cleared.
ClearPipeline(c) ==
  /\ In(c, "parts")
  /\ ~HasNext(thread[c].cursor)
  /\ pipeline' = <<>>
  /\ modCount' = modCount + 1
  /\ Goto(c, "driver")
  /\ UNCHANGED <<vars, hasShutdown, loop, documents, marks>>

\* driver.shutdown().
ShutdownDriver(c) ==
  /\ In(c, "driver")
  /\ Shutdown(c) \/ NoToken(c)
  /\ Goto(c, "driving")
  /\ UNCHANGED <<vector, hasShutdown, loop, documents, marks>>

ShutdownDone(c) ==
  /\ In(c, "driving")
  /\ Returned(c, {"void"})
  /\ hasShutdown' = hasShutdown \cup {c}
  /\ Goto(c, thread[c].ret)
  /\ UNCHANGED <<vars, vector, loop, documents, marks>>

\* The driver threw, and so does shutdown().  run() catches that once, calls
\* shutdown() again and rethrows.
ShutdownThrows(c) ==
  /\ In(c, "driving")
  /\ Returned(c, {"exception"})
  /\ IF c = main /\ thread[c].ret # "failed"
       THEN CallShutdown(c, "failed")
       ELSE Goto(c, "failed")
  /\ UNCHANGED <<vars, vector, hasShutdown, loop, documents, marks>>
-----------------------------------------------------------------------------
(***************************************************************************)
(* The workers                                                             *)
(***************************************************************************)

WorkerEnds(w) ==
  /\ Does(w, "poll")
  /\ shutdown
  /\ loop' = [loop EXCEPT ![w].pc = "ended"]
  /\ UNCHANGED <<vars, vector, hasShutdown, thread, documents, marks>>

\* Mutant of TakeDocument: the reader does not see that nothing is left.
TakeUnchecked(w) ==
  /\ Does(w, "poll")
  /\ ~shutdown
  /\ documents' = documents - 1
  /\ loop' = [loop EXCEPT ![w].pc = "taken"]
  /\ UNCHANGED <<vars, vector, hasShutdown, thread, marks>>

\* The reader hands out a document.
TakeDocument(w) ==
  /\ Does(w, "poll")
  /\ ~shutdown
  /\ documents > 0
  /\ documents' = documents - 1
  /\ loop' = [loop EXCEPT ![w].pc = "taken"]
  /\ UNCHANGED <<vars, vector, hasShutdown, thread, marks>>

\* The iteration over the parts of the pipeline begins.
StartFlow(w) ==
  /\ Does(w, "taken")
  /\ loop' = [loop EXCEPT ![w] = [pc |-> "parts", cursor |-> 0, seen |-> modCount]]
  /\ UNCHANGED <<vars, vector, hasShutdown, thread, documents, marks>>

\* The document is taken and cannot be read: the exception ends the thread, unless
\* it is an IllegalArgumentException, which is ignored.
ReadFails(w) ==
  /\ Does(w, "poll")
  /\ ~shutdown
  /\ documents > 0
  /\ documents' = documents - 1
  /\ \E l \in {"dead", "poll"} : loop' = [loop EXCEPT ![w].pc = l]
  /\ UNCHANGED <<vars, vector, hasShutdown, thread, marks>>

MoreParts(w) ==
  /\ Does(w, "parts")
  /\ HasNext(loop[w].cursor)
  /\ loop' = [loop EXCEPT ![w].pc = "part"]
  /\ UNCHANGED <<vars, vector, hasShutdown, thread, documents, marks>>

\* driver.run() for the next part.
RunPart(w) ==
  /\ Does(w, "part")
  /\ modCount = loop[w].seen
  /\ Run(w, pipeline[loop[w].cursor + 1])
  /\ loop' = [loop EXCEPT ![w].pc = "running"]
  /\ UNCHANGED <<vector, hasShutdown, thread, documents, marks>>

\* A document failed; the thread goes on only if errors are ignored.
DocumentFails(w) ==
  loop' = [loop EXCEPT ![w].pc = IF IgnoreErrors THEN "poll" ELSE "dead"]

\* The part has been destroyed: driver.run() throws.
PartGone(w) ==
  /\ Does(w, "part")
  /\ modCount = loop[w].seen
  /\ pipeline[loop[w].cursor + 1] \notin active
  /\ DocumentFails(w)
  /\ UNCHANGED <<vars, vector, hasShutdown, thread, documents, marks>>

\* ConcurrentModificationException outside the try block: the thread ends.
FlowChanged(w) ==
  /\ Does(w, "part")
  /\ modCount # loop[w].seen
  /\ loop' = [loop EXCEPT ![w].pc = "dead"]
  /\ UNCHANGED <<vars, vector, hasShutdown, thread, documents, marks>>

PartSucceeds(w) ==
  /\ Does(w, "running")
  /\ work[w].pc = "idle"
  /\ loop' = [loop EXCEPT ![w].pc = "parts", ![w].cursor = @ + 1]
  /\ UNCHANGED <<vars, vector, hasShutdown, thread, documents, marks>>

PartFails(w) ==
  /\ Does(w, "running")
  /\ work[w].pc = "idle"
  /\ DocumentFails(w)
  /\ UNCHANGED <<vars, vector, hasShutdown, thread, documents, marks>>

\* The parts are at an end: the document is completed.
DocumentDone(w) ==
  /\ Does(w, "parts")
  /\ ~HasNext(loop[w].cursor)
  /\ loop' = [loop EXCEPT ![w].pc = "poll"]
  /\ partial' = (partial \/ loop[w].cursor # Len(Pipeline))
  /\ UNCHANGED <<vars, vector, hasShutdown, thread, documents, early>>
-----------------------------------------------------------------------------
(***************************************************************************)
(* The world outside                                                       *)
(***************************************************************************)

\* interrupt() by the user, at any time during the run.
Interrupt ==
  /\ ~Halted
  /\ ~shutdown
  /\ thread[main].pc \notin {"start", "ended", "failed"}
  /\ SetShutdown(TRUE)
  /\ UNCHANGED composerVars

\* A signal, or the regular end of the JVM, starts the shutdown hook.
HookStarts ==
  /\ In(hook, "asleep")
  /\ CallShutdown(hook, "ended")
  /\ early' = (thread[main].pc \in {"start", "reset", "next", "made", "typed"})
  /\ UNCHANGED <<vars, vector, hasShutdown, loop, documents, partial>>
-----------------------------------------------------------------------------
MainNext ==
  \/ RunStarts \/ ResetHasShutdown
  \/ \E u \in Uuid : InstantiateNext(u)
  \/ InstantiationStops \/ InstantiationDone \/ AskTypes \/ MadeNull \/ AddPart
  \/ InstantiationThrows \/ TypesThrow \/ NoDescription
  \/ \E w \in Worker : StartWorker(w)
  \/ SpawnStops \/ SpawnDone \/ ReadAhead \/ ReadAheadDone \/ FeedThrows \/ FeedDone
  \/ JoinWorkers

ShutdownNext(c) ==
  \/ ShutdownSkips(c) \/ ShutdownStarts(c)
  \/ MorePartsLeft(c) \/ DestroyPart(c) \/ PartsChanged(c) \/ PartDestroyed(c)
  \/ PartThrows(c) \/ ClearPipeline(c)
  \/ ShutdownDriver(c) \/ ShutdownDone(c) \/ ShutdownThrows(c)

DriverNext(c) == ~Halted /\ Continues(c) /\ UNCHANGED composerVars

LoopNext(w) ==
  \/ WorkerEnds(w) \/ TakeDocument(w) \/ ReadFails(w) \/ StartFlow(w)
  \/ MoreParts(w) \/ RunPart(w) \/ PartGone(w) \/ FlowChanged(w)
  \/ PartSucceeds(w) \/ PartFails(w) \/ DocumentDone(w)
  \/ Does(w, "running") /\ PutBack(w) /\ UNCHANGED composerVars
  \/ Does(w, "running") /\ UNCHANGED composerVars /\ \E j \in Job : Take(w, j)

ComposerNext ==
  \/ MainNext
  \/ MemoryFree
  \/ \E c \in Caller : ShutdownNext(c) \/ DriverNext(c)
  \/ \E w \in Worker : LoopNext(w)
  \/ Interrupt
  \/ HookStarts
  \/ UNCHANGED composerVars /\ \E j \in Job : JobEnds(j) \/ JobGone(j)

ComposerSpec == ComposerInit /\ [][ComposerNext]_allVars

\* The main thread waits for the answer of a component to a request that has no
\* time limit: its type system, or the probe of a new instance.
Unanswered == At(main, "ask") \/ At(main, "probe")

\* The threads of the JVM go on while they can; users, Slurm and the operating
\* system need not act, components need not answer a request without time limit,
\* and the memory counter need not sink.
MainStep ==
  \/ MainNext
  \/ ShutdownNext(main)
  \/ ~Unanswered /\ DriverNext(main)

FairSpec ==
  /\ ComposerSpec
  /\ WF_allVars(MainStep)
  /\ \A w \in Worker : WF_allVars(LoopNext(w))
-----------------------------------------------------------------------------
(***************************************************************************)
(* Properties                                                              *)
(***************************************************************************)

\* A job that goes on although Slurm did all it was asked to do.
Leftover == {j \in Job : cluster[j] = "live" /\ trouble[j] = "none"}

\* run() that returns normally leaves no job behind, whatever was interrupted,
\* failed half-way or was never added to _instantiatedPipeline.
RunCleans == In(main, "ended") /\ In(hook, "asleep") => Leftover = {}

\* The hook that starts when the pipeline is instantiated and returns normally
\* leaves no job behind, also when it overlaps with the workers and with the
\* shutdown() of the main thread.
HookCleansAfterInstantiation ==
  thread[hook].pc = "ended" /\ ~early => Leftover = {}

\* "shutdown hook clean all jobs" (DUUISlurmDriver:595).
HookCleansAllJobs == thread[hook].pc = "ended" => Leftover = {}

\* "Completed" (DUUIStatus:7, set at DUUIComposer:702), after which "%s has been
\* processed after %d ms" is reported (723): a document with this status went through
\* every component of the pipeline.
CompletedIsAnnotated == ~partial

\* The main thread waits for an instance of a component that has none: every
\* probe failed and instantiate() swallowed it.
Starved == At(main, "take") /\ instances[call[main].uuid] = {}

\* Every worker died of an exception and documents are left.
Abandoned ==
  /\ In(main, "feed") \/ In(main, "reading")
  /\ documents > 0
  /\ \A w \in Worker : loop[w].pc = "dead"

\* The memory counter is above its maximum.
Clogged == In(main, "full")

\* run() ends, normally or with an exception, unless the JVM is halted first, or one
\* of the four ways to wait for ever is met: no other interleaving of main thread,
\* workers, hook, interruption and failing jobs makes it hang.
RunEnds ==
  \/ <>(In(main, "ended") \/ In(main, "failed") \/ Halted)
  \/ <>[](Starved \/ Abandoned \/ Unanswered \/ Clogged)
=============================================================================
