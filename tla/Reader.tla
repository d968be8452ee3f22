------------------------------- MODULE Reader -------------------------------
(***************************************************************************)
(* DUUIDocumentReader under DUUIComposer.run(): the main thread reads      *)
(* documents ahead, in batches of futures, while the memory counter allows *)
(* it; the workers take loaded documents, or read one themselves when none *)
(* is loaded.  Composer counts documents; this module says where each one  *)
(* is and what the counters currentMemorySize and progress make of it.     *)
(*                                                                         *)
(* The objects of the listing are the ones the composer keeps per path, so *)
(* that setBytes() in a worker changes the size that a future adds to the  *)
(* counter afterwards.  Each path is listed once.  What the components do  *)
(* with a document is one step that succeeds or fails, and the CAS pool is *)
(* left out: a worker that got no CAS dies as one does that cannot open    *)
(* its document.                                                           *)
(***************************************************************************)
EXTENDS Integers, Sequences, FiniteSetsExt, Functions

CONSTANTS
  Listing,        \* the paths listed, in the order of the queue
  Listed,         \* path -> size the listing reports
  Loaded,         \* path -> size of what is read
  Compressed,     \* paths that end in .gz or .xz
  Worker,
  NoDoc,
  MaximumMemory,
  Futures,        \* maxNumberOfFutures
  IgnoreErrors    \* withIgnoreErrors

Doc == {Listing[i] : i \in 1..Len(Listing)}

ASSUME ReaderAssumption ==
  /\ Listing \in Seq(Doc)
  /\ \A i, j \in 1..Len(Listing) : Listing[i] = Listing[j] => i = j
  /\ Listed \in [Doc -> Nat] /\ Loaded \in [Doc -> Nat]
  /\ Compressed \subseteq Doc /\ NoDoc \notin Doc
  /\ MaximumMemory \in Nat /\ Futures \in Nat \ {0}
  /\ IgnoreErrors \in BOOLEAN

VARIABLES
  output,      \* the reader has an output handler
  size,        \* the size fields of the listed documents
  status,      \* their status fields
  queue,       \* documentQueue
  loaded,      \* loadedDocuments
  mem,         \* currentMemorySize
  progress,    \* documents taken by workers
  main,        \* where run() is
  batch,       \* futures made in this round of the loop
  future,      \* futures under way: document -> what they do next
  breakit,     \* a future of the round found the queue empty
  failed,      \* a future of the round has failed
  worker,      \* worker -> where it is, and its document
  shutdown,    \* _shutdownAtomic, and who set it
  dropped      \* history: documents an exception left without a final status

documents == <<size, status, dropped>>
queues == <<queue, loaded>>
counters == <<mem, progress>>
feeding == <<main, batch, breakit, failed>>
vars == <<output, documents, queues, counters, feeding, future, worker, shutdown>>

Factor(d) == IF d \in Compressed THEN 10 ELSE 1

\* What a set of documents takes as the reader counts it, by their sizes in s.
Weight(S, s) == SumFunctionOnSet([d \in Doc |-> Factor(d) * s[d]], S)

Elements(q) == {q[i] : i \in 1..Len(q)}
Reading == {d \in Doc : future[d] = "reads"}

\* The types of the state.
TypeOK ==
  /\ output \in BOOLEAN
  /\ size \in [Doc -> Nat]
  /\ status \in [Doc -> {"WAITING", "OUTPUT", "COMPLETED", "FAILED"}]
  /\ queue \in Seq(Doc) /\ loaded \in Seq(Doc)
  /\ mem \in Int /\ progress \in 0..Len(Listing)
  /\ main \in {"check", "fill", "joining", "wait", "join", "ended", "failed"}
  /\ batch \in 0..Futures
  /\ future \in [Doc -> {"none", "reads", "counts"}]
  /\ breakit \in BOOLEAN /\ failed \in BOOLEAN
  /\ worker \in [Worker ->
       [pc : {"loop", "ask", "miss", "uncount", "count", "countread", "read", "record", "open",
              "upload", "restore", "ended", "dead"},
        doc : Doc \cup {NoDoc}]]
  /\ shutdown \in {"no", "interrupted", "done"}
  /\ dropped \subseteq Doc

Init ==
  /\ output \in BOOLEAN
  /\ size = Listed
  /\ status = [d \in Doc |-> "WAITING"]
  /\ queue = Listing /\ loaded = <<>>
  /\ mem = 0 /\ progress = 0
  /\ main = "check" /\ batch = 0 /\ breakit = FALSE /\ failed = FALSE
  /\ future = [d \in Doc |-> "none"]
  /\ worker = [w \in Worker |-> [pc |-> "loop", doc |-> NoDoc]]
  /\ shutdown = "no"
  /\ dropped = {}
-----------------------------------------------------------------------------
(* run(): reading ahead, on the main thread                                *)

\* Mutant: the counter is not looked at.
CheckNothing ==
  /\ main = "check"
  /\ main' = IF shutdown # "no" THEN "wait" ELSE "fill"
  /\ batch' = 0
  /\ UNCHANGED <<output, documents, queues, counters, breakit, failed, future, worker, shutdown>>

\* The loop is left when the run is over; else, once the counter is not above
\* the maximum, a round begins.  Above it the thread sleeps and looks again.
Check ==
  /\ main = "check"
  /\ \/ shutdown # "no" /\ main' = "wait"
     \/ shutdown = "no" /\ mem <= MaximumMemory /\ main' = "fill"
  /\ batch' = 0
  /\ UNCHANGED <<output, documents, queues, counters, breakit, failed, future, worker, shutdown>>

\* getAsyncNextByteArray(): an empty queue is answered at once.
Issue ==
  /\ main = "fill" /\ batch < Futures
  /\ batch' = batch + 1
  /\ IF queue = <<>>
     THEN breakit' = TRUE /\ UNCHANGED <<queue, future>>
     ELSE /\ queue' = Tail(queue)
          /\ future' = [future EXCEPT ![Head(queue)] = "reads"]
          /\ UNCHANGED breakit
  /\ main' = IF batch' = Futures THEN "joining" ELSE "fill"
  /\ UNCHANGED <<output, documents, loaded, counters, failed, worker, shutdown>>

\* The futures of the round are joined.  One that failed makes run() fail.
Joined ==
  /\ main = "joining"
  /\ \A d \in Doc : future[d] = "none"
  /\ main' = IF failed THEN "failed" ELSE IF breakit THEN "wait" ELSE "check"
  /\ shutdown' = IF failed /\ shutdown = "no" THEN "interrupted" ELSE shutdown
  /\ UNCHANGED <<output, documents, queues, counters, batch, breakit, failed, future, worker>>

\* Mutant: until nothing is left to be read.
WaitQueueEmpty ==
  /\ main = "wait"
  /\ queue = <<>> \/ shutdown # "no"
  /\ shutdown' = IF shutdown = "no" THEN "done" ELSE shutdown
  /\ main' = "join"
  /\ UNCHANGED <<output, documents, queues, counters, batch, breakit, failed, future, worker>>

\* hasNext() is false, or the run is interrupted.
WaitDone ==
  /\ main = "wait"
  /\ progress >= Len(Listing) \/ shutdown # "no"
  /\ shutdown' = IF shutdown = "no" THEN "done" ELSE shutdown
  /\ main' = "join"
  /\ UNCHANGED <<output, documents, queues, counters, batch, breakit, failed, future, worker>>

JoinWorkers ==
  /\ main = "join"
  /\ \A w \in Worker : worker[w].pc \in {"ended", "dead"}
  /\ main' = "ended"
  /\ UNCHANGED <<output, documents, queues, counters, batch, breakit, failed, future, worker,
                 shutdown>>

Interrupt ==
  /\ shutdown = "no"
  /\ shutdown' = "interrupted"
  /\ UNCHANGED <<output, documents, queues, counters, feeding, future, worker>>
-----------------------------------------------------------------------------
(* The futures                                                             *)

FutureLoads(d) ==
  /\ future[d] = "reads"
  /\ loaded' = Append(loaded, d)
  /\ future' = [future EXCEPT ![d] = "counts"]
  /\ UNCHANGED <<output, documents, queue, counters, feeding, worker, shutdown>>

\* readDocument() throws.
FutureFails(d) ==
  /\ future[d] = "reads"
  /\ future' = [future EXCEPT ![d] = "none"]
  /\ failed' = TRUE
  /\ dropped' = dropped \cup {d}
  /\ UNCHANGED <<output, size, status, queues, counters, main, batch, breakit, worker, shutdown>>

\* Only after the document can be taken is it counted, by the size the listed
\* document has by now.
FutureCounts(d) ==
  /\ future[d] = "counts"
  /\ mem' = mem + Factor(d) * size[d]
  /\ future' = [future EXCEPT ![d] = "none"]
  /\ UNCHANGED <<output, documents, queues, progress, feeding, worker, shutdown>>
-----------------------------------------------------------------------------
(* The workers: getNextDocument(), pollDocument()                          *)

At(w, l) == worker[w].pc = l
Goto(w, l) == worker' = [worker EXCEPT ![w].pc = l]

\* The worker is done with its document.
Leaves(w, l) == worker' = [worker EXCEPT ![w] = [pc |-> l, doc |-> NoDoc]]

WorkerChecks(w) ==
  /\ At(w, "loop")
  /\ Goto(w, IF shutdown = "no" THEN "ask" ELSE "ended")
  /\ UNCHANGED <<output, documents, queues, counters, feeding, future, shutdown>>

PollLoaded(w) ==
  /\ At(w, "ask")
  /\ IF loaded = <<>>
     THEN Goto(w, "miss") /\ UNCHANGED loaded
     ELSE /\ worker' = [worker EXCEPT ![w] = [pc |-> "uncount", doc |-> Head(loaded)]]
          /\ loaded' = Tail(loaded)
  /\ UNCHANGED <<output, documents, queue, counters, feeding, future, shutdown>>

\* Mutant: the document stays in the queue until it has been read.
PeekQueue(w) ==
  /\ At(w, "miss")
  /\ IF queue = <<>>
     THEN Goto(w, "loop")
     ELSE worker' = [worker EXCEPT ![w] = [pc |-> "countread", doc |-> Head(queue)]]
  /\ UNCHANGED <<output, documents, queues, counters, feeding, future, shutdown>>

\* Nothing loaded: the queue; without a document the worker sleeps and tries again.
PollQueue(w) ==
  /\ At(w, "miss")
  /\ IF queue = <<>>
     THEN Goto(w, "loop") /\ UNCHANGED queue
     ELSE /\ worker' = [worker EXCEPT ![w] = [pc |-> "countread", doc |-> Head(queue)]]
          /\ queue' = Tail(queue)
  /\ UNCHANGED <<output, documents, loaded, counters, feeding, future, shutdown>>

\* Mutant: without the factor.
UncountPlain(w) ==
  /\ At(w, "uncount")
  /\ mem' = mem - Loaded[worker[w].doc]
  /\ Goto(w, "count")
  /\ UNCHANGED <<output, documents, queues, progress, feeding, future, shutdown>>

\* A loaded document is subtracted by the size of what was read.
Uncount(w) ==
  /\ At(w, "uncount")
  /\ mem' = mem - Factor(worker[w].doc) * Loaded[worker[w].doc]
  /\ Goto(w, "count")
  /\ UNCHANGED <<output, documents, queues, progress, feeding, future, shutdown>>

\* Mutant: counted only when no document was loaded.
CountRead(w) ==
  /\ At(w, "count") \/ At(w, "countread")
  /\ progress' = IF At(w, "count") THEN progress ELSE progress + 1
  /\ Goto(w, IF At(w, "count") THEN "record" ELSE "read")
  /\ UNCHANGED <<output, documents, queues, mem, feeding, future, shutdown>>

Count(w) ==
  /\ At(w, "count") \/ At(w, "countread")
  /\ progress' = progress + 1
  /\ Goto(w, IF At(w, "count") THEN "record" ELSE "read")
  /\ UNCHANGED <<output, documents, queues, mem, feeding, future, shutdown>>

\* The document was not loaded and readDocument() throws: the thread dies.
ReadFails(w) ==
  /\ At(w, "read")
  /\ dropped' = dropped \cup {worker[w].doc}
  /\ Leaves(w, "dead")
  /\ UNCHANGED <<output, size, status, queues, counters, feeding, future, shutdown>>

\* What was not loaded is read.  addDocument() finds the listed document, which
\* gets the bytes and their size.
Record(w) ==
  /\ At(w, "record") \/ At(w, "read")
  /\ size' = [size EXCEPT ![worker[w].doc] = Loaded[worker[w].doc]]
  /\ Goto(w, "open")
  /\ UNCHANGED <<output, status, dropped, queues, counters, feeding, future, shutdown>>

\* Decoding and deserialising: an IllegalArgumentException (two DocumentMetaData) is
\* ignored and the worker goes on, any other exception ends the thread.
OpenFails(w) ==
  /\ At(w, "open")
  /\ dropped' = dropped \cup {worker[w].doc}
  /\ Leaves(w, "loop") \/ Leaves(w, "dead")
  /\ UNCHANGED <<output, size, status, queues, counters, feeding, future, shutdown>>
-----------------------------------------------------------------------------
(* The workers: processing and upload                                      *)

\* The document has been opened and the components are done with it.  If there is
\* an output it is uploaded next.
Process(w) ==
  /\ At(w, "open")
  /\ status' = [status EXCEPT ![worker[w].doc] = IF output THEN "OUTPUT" ELSE "COMPLETED"]
  /\ IF output THEN Goto(w, "upload") ELSE Leaves(w, "loop")
  /\ UNCHANGED <<output, size, dropped, queues, counters, feeding, future, shutdown>>

\* A component, or writeDocument(), fails.
Fails(w) ==
  /\ At(w, "open") \/ At(w, "upload")
  /\ status' = [status EXCEPT ![worker[w].doc] = "FAILED"]
  /\ Leaves(w, IF IgnoreErrors THEN "loop" ELSE "dead")
  /\ UNCHANGED <<output, size, dropped, queues, counters, feeding, future, shutdown>>

\* writeDocument() throws what is no IOException: the thread dies.
UploadThrows(w) ==
  /\ At(w, "upload")
  /\ dropped' = dropped \cup {worker[w].doc}
  /\ Leaves(w, "dead")
  /\ UNCHANGED <<output, size, status, queues, counters, feeding, future, shutdown>>

\* The bytes are given up, which makes the size 0 for a moment.  upload() would return
\* at once for a document with upload progress, which only upload() itself sets, at
\* its end: then the document is Finished, and by OnePlace with no worker.
Upload(w) ==
  /\ At(w, "upload")
  /\ size' = [size EXCEPT ![worker[w].doc] = 0]
  /\ Goto(w, "restore")
  /\ UNCHANGED <<output, status, dropped, queues, counters, feeding, future, shutdown>>

Restore(w) ==
  /\ At(w, "restore")
  /\ size' = [size EXCEPT ![worker[w].doc] = Loaded[worker[w].doc]]
  /\ status' = [status EXCEPT ![worker[w].doc] = "COMPLETED"]
  /\ Leaves(w, "loop")
  /\ UNCHANGED <<output, dropped, queues, counters, feeding, future, shutdown>>
-----------------------------------------------------------------------------
MainNext == Check \/ Issue \/ Joined \/ WaitDone \/ JoinWorkers

FutureNext(d) == FutureLoads(d) \/ FutureFails(d) \/ FutureCounts(d)

WorkerNext(w) ==
  \/ WorkerChecks(w) \/ PollLoaded(w) \/ PollQueue(w) \/ Uncount(w) \/ Count(w)
  \/ ReadFails(w) \/ Record(w) \/ OpenFails(w)
  \/ Process(w) \/ Fails(w) \/ UploadThrows(w) \/ Upload(w) \/ Restore(w)

Next ==
  \/ MainNext \/ Interrupt
  \/ \E d \in Doc : FutureNext(d)
  \/ \E w \in Worker : WorkerNext(w)

Spec == Init /\ [][Next]_vars

\* The threads of the JVM go on, and what they call returns.
FairSpec ==
  /\ Spec
  /\ WF_vars(MainNext)
  /\ \A d \in Doc : WF_vars(FutureNext(d))
  /\ \A w \in Worker : WF_vars(WorkerNext(w))
-----------------------------------------------------------------------------
(* Correctness                                                             *)

Held == {worker[w].doc : w \in Worker} \ {NoDoc}
Finished == {d \in Doc : status[d] \in {"COMPLETED", "FAILED"}}

\* Every document is at every moment in exactly one place: waiting, being read
\* ahead, loaded, with one worker, or through.  No two of the unlocked polls of
\* the two queues take the same one, and none gets lost between them.
OnePlace ==
  LET places == <<Elements(queue), Reading, Elements(loaded), Held, Finished \cup dropped>>
  IN  /\ UNION {places[i] : i \in 1..5} = Doc
      /\ \A i, j \in 1..5 : i # j => places[i] \cap places[j] = {}
      /\ \A v, w \in Worker : worker[v].doc = worker[w].doc /\ v # w => worker[v].doc = NoDoc

\* By how much listing reported too much, or too little.
Excess(s, t) == Weight({d \in Doc : s[d] > t[d]}, s) - Weight({d \in Doc : s[d] > t[d]}, t)
OverListed == Excess(Listed, Loaded)
UnderListed == Excess(Loaded, Listed)
Largest == Max({0} \cup {Factor(d) * Loaded[d] : d \in Doc})

\* What is read ahead exceeds the maximum by one round of futures at most, and by
\* what the listing left out, although documents are counted only after workers
\* may have taken them.  A document uploaded before its future has counted it may
\* be counted as 0, which is why there is no bound with an output.
MemoryBounded ==
  ~output => Weight(Elements(loaded) \cup Reading, Loaded)
               <= MaximumMemory + Futures * Largest + UnderListed

\* Between rounds and once everything taken has been subtracted, the counter is
\* what is loaded, up to what the listing got wrong.
CounterAgrees ==
  ~output /\ (\A d \in Doc : future[d] = "none") /\ (\A w \in Worker : ~At(w, "uncount")) =>
    /\ mem <= Weight(Elements(loaded), Loaded) + OverListed
    /\ mem >= Weight(Elements(loaded), Loaded) - UnderListed

\* When run() returns without having been interrupted, every document has been
\* processed, or an exception ended its worker or was ignored; none is left in a
\* queue or with a worker.
NothingSkipped ==
  main = "ended" /\ shutdown = "done" => Finished \cup dropped = Doc

\* Liveness: run() returns or throws, unless the workers have all died, or the
\* listing reported so much too much that the counter stays above the maximum when
\* nothing is loaded any more.
RunReturns ==
  OverListed <= MaximumMemory =>
    <>(main \in {"ended", "failed"} \/ \A w \in Worker : At(w, "dead"))
=============================================================================
