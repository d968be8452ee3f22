---------------------------- MODULE Reader_proofs ----------------------------
(***************************************************************************)
(* Proofs about the document reader, for any listing, sizes and number of  *)
(* workers and futures.                                                    *)
(***************************************************************************)
EXTENDS Reader, SumTheorems, FiniteSetTheorems, TLAPS

-----------------------------------------------------------------------------
(* The documents                                                           *)

\* The listing names each document once.
LEMMA DocCount ==
  IsFiniteSet(Doc) /\ Cardinality(Doc) = Len(Listing) /\ Len(Listing) \in Nat
<1>1. Listing \in Seq(Doc) /\ \A i, j \in 1..Len(Listing) : Listing[i] = Listing[j] => i = j
  BY ReaderAssumption
<1>2. Len(Listing) \in Nat /\ Listing \in [1..Len(Listing) -> Doc]
  BY <1>1
<1>3. \A d \in Doc : \E i \in 1..Len(Listing) : Listing[i] = d
  BY DEF Doc
<1>4. Listing \in Bijection(1..Len(Listing), Doc)
  BY <1>1, <1>2, <1>3 DEF Bijection, Injection, IsInjective, Surjection
<1>5. ExistsBijection(1..Len(Listing), Doc)
  BY <1>4 DEF ExistsBijection
<1>6. IsFiniteSet(1..Len(Listing))
  BY <1>2, FS_Interval
<1>7. QED
  BY <1>2, <1>5, <1>6, FS_Bijection, FS_CountingElements

\* A queue holds no document twice.
Distinct(q) == \A i, j \in 1..Len(q) : q[i] = q[j] => i = j

\* Taking the first document of a queue.
LEMMA Taken ==
  ASSUME NEW q \in Seq(Doc), Distinct(q), q # <<>>
  PROVE  /\ Head(q) \in Elements(q) /\ Head(q) \in Doc
         /\ Tail(q) \in Seq(Doc) /\ Distinct(Tail(q))
         /\ Elements(Tail(q)) = Elements(q) \ {Head(q)}
<1>1. /\ Len(q) \in Nat /\ Len(q) >= 1 /\ Head(q) = q[1]
      /\ Tail(q) \in Seq(Doc) /\ Len(Tail(q)) = Len(q) - 1
      /\ \A i \in 1..(Len(q) - 1) : Tail(q)[i] = q[i + 1]
      /\ \A i \in 1..Len(q) : q[i] \in Doc
  OBVIOUS
<1>2. Head(q) \in Elements(q) /\ Head(q) \in Doc
  BY <1>1 DEF Elements
<1>3. Distinct(Tail(q))
  BY <1>1 DEF Distinct
<1>4. Elements(Tail(q)) \subseteq Elements(q) \ {Head(q)}
  BY <1>1 DEF Elements, Distinct
<1>5. ASSUME NEW d \in Elements(q), d # Head(q)
      PROVE  d \in Elements(Tail(q))
  <2>1. PICK i \in 1..Len(q) : q[i] = d
    BY DEF Elements
  <2>2. i # 1 /\ i - 1 \in 1..(Len(q) - 1) /\ (i - 1) + 1 = i
    BY <1>1, <1>5, <2>1
  <2>3. Tail(q)[i - 1] = d
    BY <1>1, <2>1, <2>2
  <2>4. QED
    BY <1>1, <2>2, <2>3 DEF Elements
<1>6. QED
  BY <1>1, <1>2, <1>3, <1>4, <1>5

\* Adding a document at the end of a queue.
LEMMA Added ==
  ASSUME NEW q \in Seq(Doc), Distinct(q), NEW d \in Doc, d \notin Elements(q)
  PROVE  /\ Append(q, d) \in Seq(Doc) /\ Distinct(Append(q, d))
         /\ Elements(Append(q, d)) = Elements(q) \cup {d}
<1>1. /\ Len(q) \in Nat /\ Len(Append(q, d)) = Len(q) + 1
      /\ Append(q, d) \in Seq(Doc)
      /\ \A i \in 1..Len(q) : Append(q, d)[i] = q[i]
      /\ Append(q, d)[Len(q) + 1] = d
  OBVIOUS
<1>2. Elements(Append(q, d)) = Elements(q) \cup {d}
  BY <1>1 DEF Elements
<1>3. Distinct(Append(q, d))
  BY <1>1 DEF Distinct, Elements
<1>4. QED
  BY <1>1, <1>2, <1>3
-----------------------------------------------------------------------------
(* The invariant                                                           *)

Idle == {"loop", "ask", "miss", "ended", "dead"}
Taking == {"uncount", "count", "countread"}
Through == Finished \cup dropped

\* Documents that workers have taken and not counted yet.
Pending == {worker[w].doc : w \in {v \in Worker : worker[v].pc \in Taking}}

\* Documents that progress does not count.
Uncounted == Elements(queue) \cup Reading \cup Elements(loaded) \cup Pending

\* A worker between two documents has none, and no two have the same.
Holders ==
  /\ \A w \in Worker : worker[w].doc = NoDoc <=> worker[w].pc \in Idle
  /\ \A v, w \in Worker : worker[v].doc = worker[w].doc /\ v # w => worker[v].doc = NoDoc

\* Every document is in one place and no other.
Places ==
  \A d \in Doc :
    /\ d \in Elements(queue) \/ d \in Reading \/ d \in Elements(loaded) \/ d \in Held
         \/ d \in Through
    /\ d \in Elements(queue) => d \notin Reading /\ d \notin Elements(loaded)
    /\ d \in Elements(queue) \/ d \in Reading \/ d \in Elements(loaded) =>
         d \notin Held /\ d \notin Through
    /\ d \in Reading => d \notin Elements(loaded)
    /\ d \in Held => d \notin Through

\* A future that fails loses its document without counting it: progress may be less.
Counting == progress <= Cardinality(Doc \ Uncounted)

Ending ==
  /\ shutdown = "done" => Uncounted = {}
  /\ main = "ended" => \A w \in Worker : worker[w].pc \in {"ended", "dead"}

IInv ==
  /\ TypeOK /\ Distinct(queue) /\ Distinct(loaded)
  /\ Holders /\ Places /\ Counting /\ Ending

\* What is in a place is a document, and every document held is.
LEMMA PlacesAreDocs ==
  ASSUME TypeOK, Holders
  PROVE  /\ Elements(queue) \subseteq Doc /\ Reading \subseteq Doc
         /\ Elements(loaded) \subseteq Doc /\ Held \subseteq Doc /\ Through \subseteq Doc
         /\ Pending \subseteq Held /\ Uncounted \subseteq Doc
<1>1. \A w \in Worker : worker[w].doc \in Doc \cup {NoDoc}
  BY DEF TypeOK
<1>2. Held \subseteq Doc
  BY <1>1 DEF Held
<1>3. Elements(queue) \subseteq Doc /\ Elements(loaded) \subseteq Doc
  BY DEF TypeOK, Elements
<1>4. Reading \subseteq Doc
  BY DEF Reading
<1>5. Through \subseteq Doc
  BY DEF Through, Finished, TypeOK
<1>6. Pending \subseteq Held
  BY DEF Pending, Held, Holders, Idle, Taking
<1>7. QED
  BY <1>2, <1>3, <1>4, <1>5, <1>6 DEF Uncounted

\* A step that counts no document keeps the invariant if it keeps the documents in
\* their places and puts none back.
LEMMA Keeps ==
  ASSUME IInv, TypeOK', Distinct(queue)', Distinct(loaded)', Holders', Places',
         progress' = progress, Uncounted' \subseteq Uncounted,
         shutdown' = "done" => shutdown = "done",
         main' = "ended" => \A w \in Worker : worker'[w].pc \in {"ended", "dead"}
  PROVE  IInv'
<1>1. IsFiniteSet(Doc \ Uncounted') /\ IsFiniteSet(Doc \ Uncounted)
  BY DocCount, FS_Difference
<1>2. Cardinality(Doc \ Uncounted) <= Cardinality(Doc \ Uncounted')
  BY <1>1, FS_Subset
<1>3. Cardinality(Doc \ Uncounted) \in Nat /\ Cardinality(Doc \ Uncounted') \in Nat
  BY <1>1, FS_CardinalityType
<1>4. progress \in Nat
  BY DocCount DEF IInv, TypeOK
<1>5. Counting'
  BY <1>2, <1>3, <1>4 DEF IInv, Counting
<1>6. Ending'
  BY DEF IInv, Ending
<1>7. QED
  BY <1>5, <1>6 DEF IInv
-----------------------------------------------------------------------------
(* The main thread                                                         *)

\* Steps of run() that leave the documents where they are.
LEMMA MainKeeps ==
  ASSUME IInv, Check \/ Joined \/ JoinWorkers \/ Interrupt \/ UNCHANGED vars
  PROVE  IInv'
<1>1. UNCHANGED <<output, size, status, dropped, queue, loaded, mem, progress, future, worker>>
  BY DEF Check, Joined, JoinWorkers, Interrupt, vars, documents, queues, counters
<1>2. /\ shutdown' = "done" => shutdown = "done"
      /\ main' = "ended" => \A w \in Worker : worker'[w].pc \in {"ended", "dead"}
  BY <1>1 DEF Check, Joined, JoinWorkers, Interrupt, vars, feeding, IInv, Ending
<1>3. TypeOK'
  <2>1. /\ main' \in {"check", "fill", "joining", "wait", "join", "ended", "failed"}
        /\ batch' \in 0..Futures /\ breakit' \in BOOLEAN /\ failed' \in BOOLEAN
        /\ shutdown' \in {"no", "interrupted", "done"}
    BY ReaderAssumption DEF IInv, TypeOK, Check, Joined, JoinWorkers, Interrupt, vars, feeding
  <2>2. QED
    BY <1>1, <2>1 DEF IInv, TypeOK
<1>4. Holders' /\ Distinct(queue)' /\ Distinct(loaded)'
  BY <1>1 DEF IInv, Holders, Distinct
<1>5. /\ Elements(queue)' = Elements(queue) /\ Elements(loaded)' = Elements(loaded)
      /\ Reading' = Reading /\ Held' = Held /\ Through' = Through /\ Pending' = Pending
  BY <1>1 DEF Elements, Reading, Held, Through, Finished, Pending
<1>6. Places' /\ Uncounted' = Uncounted
  BY <1>5 DEF IInv, Places, Uncounted
<1>7. QED
  BY <1>1, <1>2, <1>3, <1>4, <1>6, Keeps

\* When every document is counted, none is in a queue or being read.
LEMMA WaitDoneKeeps ==
  ASSUME IInv, WaitDone
  PROVE  IInv'
<1>1. /\ UNCHANGED <<output, size, status, dropped, queue, loaded, mem, progress, future, worker,
                     batch, breakit, failed>>
      /\ main' = "join"
      /\ shutdown' = IF shutdown = "no" THEN "done" ELSE shutdown
      /\ progress >= Len(Listing) \/ shutdown # "no"
  BY DEF WaitDone, documents, queues, counters
<1>2. TypeOK'
  BY <1>1 DEF IInv, TypeOK
<1>3. /\ Elements(queue)' = Elements(queue) /\ Elements(loaded)' = Elements(loaded)
      /\ Reading' = Reading /\ Held' = Held /\ Through' = Through /\ Pending' = Pending
  BY <1>1 DEF Elements, Reading, Held, Through, Finished, Pending
<1>4. Places' /\ Uncounted' = Uncounted /\ Holders' /\ Distinct(queue)' /\ Distinct(loaded)'
  BY <1>1, <1>3 DEF IInv, Places, Uncounted, Holders, Distinct
<1>5. Counting'
  BY <1>1, <1>4 DEF IInv, Counting
<1>6. progress >= Len(Listing) => Uncounted = {}
  <2>1. IsFiniteSet(Doc) /\ Cardinality(Doc) = Len(Listing) /\ Len(Listing) \in Nat
    BY DocCount
  <2>2. /\ Cardinality(Doc \ Uncounted) <= Cardinality(Doc)
        /\ Cardinality(Doc) = Cardinality(Doc \ Uncounted) => Doc = Doc \ Uncounted
        /\ Cardinality(Doc \ Uncounted) \in Nat
    BY <2>1, FS_Subset, FS_CardinalityType
  <2>3. Uncounted \subseteq Doc
    BY PlacesAreDocs DEF IInv
  <2>4. progress \in Nat /\ progress <= Cardinality(Doc \ Uncounted)
    BY <2>1 DEF IInv, TypeOK, Counting
  <2>5. QED
    BY <2>1, <2>2, <2>3, <2>4
<1>7. Ending'
  BY <1>1, <1>4, <1>6 DEF IInv, Ending, TypeOK
<1>8. QED
  BY <1>2, <1>4, <1>5, <1>7 DEF IInv

\* A future takes the first document of the queue.
LEMMA IssueKeeps ==
  ASSUME IInv, Issue
  PROVE  IInv'
<1>1. /\ UNCHANGED <<output, size, status, dropped, loaded, mem, progress, worker, failed, shutdown>>
      /\ batch' = batch + 1 /\ batch < Futures /\ main = "fill"
      /\ main' = IF batch' = Futures THEN "joining" ELSE "fill"
  BY DEF Issue, documents, counters
<1>2. batch' \in 0..Futures
  BY <1>1, ReaderAssumption DEF IInv, TypeOK
<1>3. /\ Elements(loaded)' = Elements(loaded) /\ Held' = Held /\ Through' = Through
      /\ Pending' = Pending
  BY <1>1 DEF Elements, Held, Through, Finished, Pending
<1>4. Holders' /\ Distinct(loaded)'
  BY <1>1 DEF IInv, Holders, Distinct
<1>5. CASE queue = <<>>
  <2>1. breakit' = TRUE /\ UNCHANGED <<queue, future>>
    BY <1>5 DEF Issue
  <2>2. TypeOK'
    BY <1>1, <1>2, <2>1 DEF IInv, TypeOK
  <2>3. Elements(queue)' = Elements(queue) /\ Reading' = Reading /\ Distinct(queue)'
    BY <2>1 DEF Elements, Reading, IInv, Distinct
  <2>4. Places' /\ Uncounted' = Uncounted
    BY <1>3, <2>3 DEF IInv, Places, Uncounted
  <2>5. QED
    BY <1>1, <1>4, <2>2, <2>3, <2>4, Keeps
<1>6. CASE queue # <<>>
  <2>1. /\ queue' = Tail(queue) /\ future' = [future EXCEPT ![Head(queue)] = "reads"]
        /\ UNCHANGED breakit
    BY <1>6 DEF Issue
  <2>2. /\ Head(queue) \in Elements(queue) /\ Head(queue) \in Doc
        /\ queue' \in Seq(Doc) /\ Distinct(queue')
        /\ Elements(queue') = Elements(queue) \ {Head(queue)}
    BY <1>6, <2>1, Taken DEF IInv, TypeOK
  <2>3. future' \in [Doc -> {"none", "reads", "counts"}]
    BY <2>1, <2>2 DEF IInv, TypeOK
  <2>4. TypeOK'
    BY <1>1, <1>2, <2>1, <2>2, <2>3 DEF IInv, TypeOK
  <2>5. Reading' = Reading \cup {Head(queue)}
    BY <2>1, <2>2 DEF Reading, IInv, TypeOK
  <2>6. Elements(queue)' = Elements(queue) \ {Head(queue)} /\ Distinct(queue)'
    BY <2>2 DEF Elements, Distinct
  <2>7. Places'
    BY <1>3, <2>2, <2>5, <2>6 DEF IInv, Places
  <2>8. Uncounted' \subseteq Uncounted
    BY <1>3, <2>2, <2>5, <2>6 DEF Uncounted
  <2>9. QED
    BY <1>1, <1>4, <2>4, <2>6, <2>7, <2>8, Keeps
<1>7. QED
  BY <1>5, <1>6
-----------------------------------------------------------------------------
(* The futures                                                             *)

\* What a future has read can be taken.
LEMMA FutureLoadsKeeps ==
  ASSUME IInv, NEW d \in Doc, FutureLoads(d)
  PROVE  IInv'
<1>1. /\ UNCHANGED <<output, size, status, dropped, queue, mem, progress, main, batch, breakit,
                     failed, worker, shutdown>>
      /\ future[d] = "reads" /\ loaded' = Append(loaded, d)
      /\ future' = [future EXCEPT ![d] = "counts"]
  BY DEF FutureLoads, documents, counters, feeding
<1>2. d \in Reading /\ d \notin Elements(loaded)
  BY <1>1 DEF Reading, IInv, Places
<1>3. /\ loaded' \in Seq(Doc) /\ Distinct(loaded')
      /\ Elements(loaded') = Elements(loaded) \cup {d}
  BY <1>1, <1>2, Added DEF IInv, TypeOK
<1>4. TypeOK'
  BY <1>1, <1>3 DEF IInv, TypeOK
<1>5. Reading' = Reading \ {d}
  BY <1>1 DEF Reading, IInv, TypeOK
<1>6. /\ Elements(queue)' = Elements(queue) /\ Elements(loaded)' = Elements(loaded) \cup {d}
      /\ Held' = Held /\ Through' = Through /\ Pending' = Pending
  BY <1>1, <1>3 DEF Elements, Held, Through, Finished, Pending
<1>7. Holders' /\ Distinct(queue)' /\ Distinct(loaded)'
  BY <1>1, <1>3 DEF IInv, Holders, Distinct
<1>8. Places'
  BY <1>2, <1>5, <1>6 DEF IInv, Places
<1>9. Uncounted' \subseteq Uncounted
  BY <1>2, <1>5, <1>6 DEF Uncounted
<1>10. main' = "ended" => \A w \in Worker : worker'[w].pc \in {"ended", "dead"}
  BY <1>1 DEF IInv, Ending
<1>11. QED
  BY <1>1, <1>4, <1>7, <1>8, <1>9, <1>10, Keeps

\* A future that fails drops its document, one that counts it moves none.
LEMMA FutureEndsKeeps ==
  ASSUME IInv, NEW d \in Doc, FutureFails(d) \/ FutureCounts(d)
  PROVE  IInv'
<1>1. /\ UNCHANGED <<output, size, status, queue, loaded, progress, main, batch, breakit,
                     worker, shutdown>>
      /\ future' = [future EXCEPT ![d] = "none"]
      /\ \/ future[d] = "reads" /\ failed' = TRUE /\ dropped' = dropped \cup {d} /\ mem' = mem
         \/ future[d] = "counts" /\ UNCHANGED <<failed, dropped>>
              /\ mem' = mem + Factor(d) * size[d]
  BY DEF FutureFails, FutureCounts, documents, queues, counters, feeding
<1>2. mem' \in Int
  BY <1>1 DEF IInv, TypeOK, Factor
<1>3. TypeOK'
  BY <1>1, <1>2 DEF IInv, TypeOK
<1>4. /\ Elements(queue)' = Elements(queue) /\ Elements(loaded)' = Elements(loaded)
      /\ Held' = Held /\ Pending' = Pending /\ Finished' = Finished
  BY <1>1 DEF Elements, Held, Finished, Pending
<1>5. Holders' /\ Distinct(queue)' /\ Distinct(loaded)'
  BY <1>1 DEF IInv, Holders, Distinct
<1>6. Reading' = Reading \ {d}
  BY <1>1 DEF Reading, IInv, TypeOK
<1>7. \/ d \in Reading /\ Through' = Through \cup {d}
      \/ d \notin Reading /\ Through' = Through
  BY <1>1, <1>4 DEF Reading, Through
<1>8. Places'
  BY <1>4, <1>6, <1>7 DEF IInv, Places
<1>9. Uncounted' \subseteq Uncounted
  BY <1>4, <1>6 DEF Uncounted
<1>10. main' = "ended" => \A w \in Worker : worker'[w].pc \in {"ended", "dead"}
  BY <1>1 DEF IInv, Ending
<1>11. QED
  BY <1>1, <1>3, <1>5, <1>8, <1>9, <1>10, Keeps
-----------------------------------------------------------------------------
(* The workers                                                             *)

\* A worker that has none takes a document.
LEMMA WorkerTakes ==
  ASSUME IInv, NEW w \in Worker, worker[w].pc \in Idle, NEW d \in Doc, d \notin Held,
         NEW l \in Taking, worker' = [worker EXCEPT ![w] = [pc |-> l, doc |-> d]]
  PROVE  Holders' /\ Held' = Held \cup {d} /\ Pending' = Pending \cup {d}
<1>1. /\ worker'[w] = [pc |-> l, doc |-> d]
      /\ \A v \in Worker : v # w => worker'[v] = worker[v]
  BY DEF IInv, TypeOK
<1>2. worker[w].doc = NoDoc /\ d # NoDoc /\ l \notin Idle
  BY ReaderAssumption DEF IInv, Holders, Idle, Taking
<1>3. \A v \in Worker : worker[v].doc # d
  BY <1>2 DEF Held
<1>4. Holders'
  BY <1>1, <1>2, <1>3 DEF IInv, Holders
<1>5. Held' = Held \cup {d}
  BY <1>1, <1>2 DEF Held
<1>6. Pending' = Pending \cup {d}
  BY <1>1, <1>2 DEF Pending, Taking, Idle
<1>7. QED
  BY <1>4, <1>5, <1>6

\* A worker goes on with its document, or without one.
LEMMA WorkerGoes ==
  ASSUME IInv, NEW w \in Worker, NEW l,
         l \in Idle <=> worker[w].pc \in Idle, Goto(w, l)
  PROVE  /\ Holders' /\ Held' = Held
         /\ (l \in Taking <=> worker[w].pc \in Taking) => Pending' = Pending
         /\ l \notin Taking /\ worker[w].pc \in Taking => Pending' = Pending \ {worker[w].doc}
<1>1. /\ worker'[w].pc = l /\ worker'[w].doc = worker[w].doc
      /\ \A v \in Worker : v # w => worker'[v] = worker[v]
  BY DEF IInv, TypeOK, Goto
<1>2. Holders'
  BY <1>1 DEF IInv, Holders
<1>3. \A v \in Worker : worker'[v].doc = worker[v].doc
  BY <1>1
<1>4. Held' = Held
  BY <1>3 DEF Held
<1>5. (l \in Taking <=> worker[w].pc \in Taking) => Pending' = Pending
  <2>1. (l \in Taking <=> worker[w].pc \in Taking) =>
          \A v \in Worker : worker'[v].pc \in Taking <=> worker[v].pc \in Taking
    BY <1>1
  <2>2. QED
    BY <1>3, <2>1 DEF Pending
<1>6. l \notin Taking /\ worker[w].pc \in Taking => Pending' = Pending \ {worker[w].doc}
  <2> SUFFICES ASSUME l \notin Taking, worker[w].pc \in Taking
               PROVE  Pending' = Pending \ {worker[w].doc}
    OBVIOUS
  <2>1. worker[w].doc # NoDoc
    BY DEF IInv, Holders, Taking, Idle
  <2>2. \A v \in Worker : v # w => worker[v].doc # worker[w].doc
    BY <2>1 DEF IInv, Holders
  <2>3. QED
    BY <1>1, <1>3, <2>2 DEF Pending
<1>7. QED
  BY <1>2, <1>4, <1>5, <1>6

\* A worker is done with its document.
LEMMA WorkerLeaves ==
  ASSUME IInv, NEW w \in Worker, worker[w].pc \notin Idle \cup Taking,
         NEW l \in Idle, Leaves(w, l)
  PROVE  /\ Holders' /\ Held' = Held \ {worker[w].doc} /\ Pending' = Pending
         /\ worker[w].doc \in Held
<1>1. /\ worker'[w] = [pc |-> l, doc |-> NoDoc]
      /\ \A v \in Worker : v # w => worker'[v] = worker[v]
  BY DEF IInv, TypeOK, Leaves
<1>2. worker[w].doc # NoDoc
  BY DEF IInv, Holders
<1>3. \A v \in Worker : v # w => worker[v].doc # worker[w].doc
  BY <1>2 DEF IInv, Holders
<1>4. Holders'
  BY <1>1 DEF IInv, Holders
<1>5. Held' = Held \ {worker[w].doc} /\ worker[w].doc \in Held
  BY <1>1, <1>2, <1>3 DEF Held
<1>6. Pending' = Pending
  <2>1. l \notin Taking
    BY DEF Idle, Taking
  <2>2. QED
    BY <1>1, <2>1 DEF Pending
<1>7. QED
  BY <1>4, <1>5, <1>6

\* Steps of a worker that move and count nothing.
LEMMA WorkerGoesKeeps ==
  ASSUME IInv, NEW w \in Worker,
         \/ WorkerChecks(w) \/ Uncount(w) \/ Record(w) \/ Upload(w)
         \/ PollLoaded(w) /\ loaded = <<>>
         \/ PollQueue(w) /\ queue = <<>>
         \/ Process(w) /\ output
  PROVE  IInv'
<1>1. /\ UNCHANGED <<output, dropped, queue, loaded, progress, main, batch, breakit, failed,
                     future, shutdown>>
      /\ worker[w].pc \notin {"ended", "dead"}
  BY DEF WorkerChecks, Uncount, Record, Upload, PollLoaded, PollQueue, Process, At,
         documents, queues, counters, feeding
<1>2. PICK p : /\ Goto(w, p)
               /\ p \in {"loop", "ask", "miss", "count", "open", "upload", "restore", "ended"}
               /\ p \in Idle <=> worker[w].pc \in Idle
               /\ p \in Taking <=> worker[w].pc \in Taking
  <2>1. CASE WorkerChecks(w)
    BY <2>1 DEF WorkerChecks, At, Idle, Taking
  <2>2. CASE Uncount(w)
    BY <2>2 DEF Uncount, At, Idle, Taking
  <2>3. CASE Record(w)
    BY <2>3 DEF Record, At, Idle, Taking
  <2>4. CASE Upload(w)
    BY <2>4 DEF Upload, At, Idle, Taking
  <2>5. CASE PollLoaded(w) /\ loaded = <<>>
    BY <2>5 DEF PollLoaded, At, Idle, Taking
  <2>6. CASE PollQueue(w) /\ queue = <<>>
    BY <2>6 DEF PollQueue, At, Idle, Taking
  <2>7. CASE Process(w) /\ output
    BY <2>7 DEF Process, At, Idle, Taking
  <2>8. QED
    BY <2>1, <2>2, <2>3, <2>4, <2>5, <2>6, <2>7
<1>3. Holders' /\ Held' = Held /\ Pending' = Pending
  BY <1>2, WorkerGoes
<1>4. /\ mem' \in Int
      /\ size' \in [Doc -> Nat]
      /\ status' \in [Doc -> {"WAITING", "OUTPUT", "COMPLETED", "FAILED"}]
      /\ Finished' = Finished
  <2>1. worker[w].pc \notin Idle => worker[w].doc \in Doc /\ worker[w].doc \in Held
    BY DEF IInv, TypeOK, Holders, Held
  <2>2. /\ size \in [Doc -> Nat] /\ mem \in Int /\ Loaded \in [Doc -> Nat]
        /\ status \in [Doc -> {"WAITING", "OUTPUT", "COMPLETED", "FAILED"}]
    BY ReaderAssumption DEF IInv, TypeOK
  <2>3. CASE WorkerChecks(w) \/ PollLoaded(w) \/ PollQueue(w)
    BY <2>2, <2>3 DEF WorkerChecks, PollLoaded, PollQueue, documents, counters, Finished
  <2>4. CASE Uncount(w)
    <3>1. worker[w].doc \in Doc /\ mem' = mem - Factor(worker[w].doc) * Loaded[worker[w].doc]
      BY <2>1, <2>4 DEF Uncount, At, Idle
    <3>2. QED
      BY <2>2, <2>4, <3>1 DEF Uncount, Factor, documents, Finished
  <2>5. CASE Record(w) \/ Upload(w)
    <3>1. worker[w].doc \in Doc
      BY <2>1, <2>5 DEF Record, Upload, At, Idle
    <3>2. QED
      BY <2>2, <2>5, <3>1 DEF Record, Upload, counters, Finished
  <2>6. CASE Process(w) /\ output
    <3>1. worker[w].doc \in Doc /\ worker[w].doc \in Held
      BY <2>1, <2>6 DEF Process, At, Idle
    <3>2. worker[w].doc \notin Finished
      BY <3>1 DEF IInv, Places, Through
    <3>3. status' = [status EXCEPT ![worker[w].doc] = "OUTPUT"] /\ UNCHANGED <<size, mem>>
      BY <2>6 DEF Process, counters
    <3>4. QED
      BY <2>2, <3>1, <3>2, <3>3 DEF Finished
  <2>7. QED
    BY <2>3, <2>4, <2>5, <2>6
<1>5. worker' \in [Worker ->
       [pc : {"loop", "ask", "miss", "uncount", "count", "countread", "read", "record", "open",
              "upload", "restore", "ended", "dead"},
        doc : Doc \cup {NoDoc}]]
  BY <1>2 DEF IInv, TypeOK, Goto
<1>6. TypeOK'
  BY <1>1, <1>4, <1>5 DEF IInv, TypeOK
<1>7. /\ Elements(queue)' = Elements(queue) /\ Elements(loaded)' = Elements(loaded)
      /\ Reading' = Reading /\ Through' = Through
  BY <1>1, <1>4 DEF Elements, Reading, Through
<1>8. Places' /\ Uncounted' = Uncounted
  BY <1>3, <1>7 DEF IInv, Places, Uncounted
<1>9. Distinct(queue)' /\ Distinct(loaded)'
  BY <1>1 DEF IInv, Distinct
<1>10. main' # "ended"
  BY <1>1 DEF IInv, Ending
<1>11. QED
  BY <1>1, <1>3, <1>6, <1>8, <1>9, <1>10, Keeps

\* A worker takes the first document of one of the queues; nobody else has it.
LEMMA WorkerTakesKeeps ==
  ASSUME IInv, NEW w \in Worker,
         (PollLoaded(w) /\ loaded # <<>>) \/ (PollQueue(w) /\ queue # <<>>)
  PROVE  IInv'
<1>1. /\ UNCHANGED <<output, size, status, dropped, mem, progress, main, batch, breakit, failed,
                     future, shutdown>>
      /\ worker[w].pc \in {"ask", "miss"}
  BY DEF PollLoaded, PollQueue, At, documents, counters, feeding
<1>2. main' # "ended"
  BY <1>1 DEF IInv, Ending
<1>3. Reading' = Reading /\ Through' = Through
  BY <1>1 DEF Reading, Through, Finished
<1>4. worker[w].pc \in Idle
  BY <1>1 DEF Idle
<1>5. ASSUME NEW d \in Doc, NEW l \in Taking,
             worker' = [worker EXCEPT ![w] = [pc |-> l, doc |-> d]]
      PROVE  worker' \in [Worker ->
               [pc : {"loop", "ask", "miss", "uncount", "count", "countread", "read", "record",
                      "open", "upload", "restore", "ended", "dead"},
                doc : Doc \cup {NoDoc}]]
  BY <1>5 DEF IInv, TypeOK, Taking
<1>6. CASE PollLoaded(w) /\ loaded # <<>>
  <2>1. /\ worker' = [worker EXCEPT ![w] = [pc |-> "uncount", doc |-> Head(loaded)]]
        /\ loaded' = Tail(loaded) /\ queue' = queue
    BY <1>6 DEF PollLoaded
  <2>2. /\ Head(loaded) \in Elements(loaded) /\ Head(loaded) \in Doc
        /\ loaded' \in Seq(Doc) /\ Distinct(loaded')
        /\ Elements(loaded') = Elements(loaded) \ {Head(loaded)}
    BY <1>6, <2>1, Taken DEF IInv, TypeOK
  <2>3. Head(loaded) \notin Held
    BY <2>2 DEF IInv, Places
  <2>4. Holders' /\ Held' = Held \cup {Head(loaded)} /\ Pending' = Pending \cup {Head(loaded)}
    BY <1>4, <2>1, <2>2, <2>3, WorkerTakes DEF Taking
  <2>5. TypeOK'
    BY <1>1, <1>5, <2>1, <2>2 DEF IInv, TypeOK, Taking
  <2>6. /\ Elements(queue)' = Elements(queue) /\ Distinct(queue)' /\ Distinct(loaded)'
        /\ Elements(loaded)' = Elements(loaded) \ {Head(loaded)}
    BY <2>1, <2>2 DEF IInv, Elements, Distinct
  <2>7. Places'
    BY <1>3, <2>2, <2>4, <2>6 DEF IInv, Places
  <2>8. Uncounted' \subseteq Uncounted
    BY <1>3, <2>2, <2>4, <2>6 DEF Uncounted
  <2>9. QED
    BY <1>1, <1>2, <2>4, <2>5, <2>6, <2>7, <2>8, Keeps
<1>7. CASE PollQueue(w) /\ queue # <<>>
  <2>1. /\ worker' = [worker EXCEPT ![w] = [pc |-> "countread", doc |-> Head(queue)]]
        /\ queue' = Tail(queue) /\ loaded' = loaded
    BY <1>7 DEF PollQueue
  <2>2. /\ Head(queue) \in Elements(queue) /\ Head(queue) \in Doc
        /\ queue' \in Seq(Doc) /\ Distinct(queue')
        /\ Elements(queue') = Elements(queue) \ {Head(queue)}
    BY <1>7, <2>1, Taken DEF IInv, TypeOK
  <2>3. Head(queue) \notin Held
    BY <2>2 DEF IInv, Places
  <2>4. Holders' /\ Held' = Held \cup {Head(queue)} /\ Pending' = Pending \cup {Head(queue)}
    BY <1>4, <2>1, <2>2, <2>3, WorkerTakes DEF Taking
  <2>5. TypeOK'
    BY <1>1, <1>5, <2>1, <2>2 DEF IInv, TypeOK, Taking
  <2>6. /\ Elements(loaded)' = Elements(loaded) /\ Distinct(queue)' /\ Distinct(loaded)'
        /\ Elements(queue)' = Elements(queue) \ {Head(queue)}
    <3>1. Elements(loaded)' = Elements(loaded) /\ Distinct(loaded)'
      BY <2>1 DEF IInv, Elements, Distinct
    <3>2. Distinct(queue)'
      BY <2>2 DEF Distinct
    <3>3. Elements(queue)' = Elements(queue) \ {Head(queue)}
      BY <2>2 DEF Elements
    <3>4. QED
      BY <3>1, <3>2, <3>3
  <2>7. Places'
    BY <1>3, <2>2, <2>4, <2>6 DEF IInv, Places
  <2>8. Uncounted' \subseteq Uncounted
    BY <1>3, <2>2, <2>4, <2>6 DEF Uncounted
  <2>9. QED
    BY <1>1, <1>2, <2>4, <2>5, <2>6, <2>7, <2>8, Keeps
<1>8. QED
  BY <1>6, <1>7

\* A document is counted once, by the worker that took it.
LEMMA CountKeeps ==
  ASSUME IInv, NEW w \in Worker, Count(w)
  PROVE  IInv'
<1> DEFINE d == worker[w].doc
<1>1. /\ UNCHANGED <<output, size, status, dropped, queue, loaded, mem, main, batch, breakit,
                     failed, future, shutdown>>
      /\ progress' = progress + 1
      /\ worker[w].pc \in {"count", "countread"}
      /\ Goto(w, IF At(w, "count") THEN "record" ELSE "read")
  BY DEF Count, At, documents, queues, feeding
<1>2. worker[w].pc \in Taking /\ worker[w].pc \notin Idle
  BY <1>1 DEF Taking, Idle
<1>3. PICK l \in {"record", "read"} : Goto(w, l)
  BY <1>1
<1>4. l \notin Idle /\ l \notin Taking
  BY DEF Taking, Idle
<1>5. Holders' /\ Held' = Held /\ Pending' = Pending \ {d}
  BY <1>2, <1>3, <1>4, WorkerGoes
<1>6. d \in Doc /\ d \in Held /\ d \in Pending
  BY <1>2 DEF IInv, TypeOK, Holders, Held, Pending
<1>7. /\ Elements(queue)' = Elements(queue) /\ Elements(loaded)' = Elements(loaded)
      /\ Reading' = Reading /\ Through' = Through
  BY <1>1 DEF Elements, Reading, Through, Finished
<1>8. Places' /\ Distinct(queue)' /\ Distinct(loaded)'
  BY <1>1, <1>5, <1>7 DEF IInv, Places, Distinct
<1>9. Uncounted' = Uncounted \ {d} /\ d \in Uncounted
  BY <1>5, <1>6, <1>7 DEF IInv, Places, Uncounted
<1>10. Doc \ Uncounted' = (Doc \ Uncounted) \cup {d} /\ d \notin Doc \ Uncounted
  BY <1>6, <1>9
<1>11. IsFiniteSet(Doc \ Uncounted)
  BY DocCount, FS_Difference
<1>12. /\ IsFiniteSet(Doc \ Uncounted')
       /\ Cardinality(Doc \ Uncounted') = Cardinality(Doc \ Uncounted) + 1
  BY <1>10, <1>11, FS_AddElement
<1>13. /\ Cardinality(Doc \ Uncounted) \in Nat
       /\ Cardinality(Doc \ Uncounted') <= Len(Listing)
  BY <1>11, <1>12, DocCount, FS_Subset, FS_CardinalityType
<1>14. progress' \in 0..Len(Listing) /\ Counting'
  BY <1>1, <1>12, <1>13, DocCount DEF IInv, TypeOK, Counting
<1>15. worker' \in [Worker ->
         [pc : {"loop", "ask", "miss", "uncount", "count", "countread", "read", "record", "open",
                "upload", "restore", "ended", "dead"},
          doc : Doc \cup {NoDoc}]]
  BY <1>3 DEF IInv, TypeOK, Goto
<1>16. TypeOK'
  BY <1>1, <1>14, <1>15 DEF IInv, TypeOK
<1>17. Ending'
  <2>1. main' # "ended"
    BY <1>1 DEF IInv, Ending
  <2>2. shutdown' # "done"
    BY <1>1, <1>9 DEF IInv, Ending
  <2>3. QED
    BY <2>1, <2>2 DEF Ending
<1>18. QED
  BY <1>5, <1>8, <1>14, <1>16, <1>17 DEF IInv

\* A worker is done with a document: it has a final status, or an exception dropped it.
LEMMA WorkerLeavesKeeps ==
  ASSUME IInv, NEW w \in Worker,
         \/ ReadFails(w) \/ OpenFails(w) \/ Fails(w) \/ UploadThrows(w) \/ Restore(w)
         \/ Process(w) /\ ~output
  PROVE  IInv'
<1> DEFINE d == worker[w].doc
<1>1. /\ UNCHANGED <<output, queue, loaded, mem, progress, main, batch, breakit, failed, future,
                     shutdown>>
      /\ worker[w].pc \in {"read", "open", "upload", "restore"}
  BY DEF ReadFails, OpenFails, Fails, UploadThrows, Restore, Process, At, queues, counters, feeding
<1>2. worker[w].pc \notin Idle \cup Taking /\ main' # "ended"
  BY <1>1 DEF Idle, Taking, IInv, Ending
<1>3. d \in Doc /\ d \in Held /\ d \notin Through
  BY <1>2 DEF IInv, TypeOK, Holders, Held, Places
<1>4. PICK l \in {"loop", "dead"} : Leaves(w, l)
  BY DEF ReadFails, OpenFails, Fails, UploadThrows, Restore, Process
<1>5. Holders' /\ Held' = Held \ {d} /\ Pending' = Pending
  BY <1>2, <1>4, WorkerLeaves DEF Idle
<1>6. /\ size' \in [Doc -> Nat] /\ dropped' \subseteq Doc
      /\ status' \in [Doc -> {"WAITING", "OUTPUT", "COMPLETED", "FAILED"}]
      /\ Through' = Through \cup {d}
  <2>1. /\ size \in [Doc -> Nat] /\ Loaded \in [Doc -> Nat] /\ dropped \subseteq Doc
        /\ status \in [Doc -> {"WAITING", "OUTPUT", "COMPLETED", "FAILED"}]
    BY ReaderAssumption DEF IInv, TypeOK
  <2>2. CASE ReadFails(w) \/ OpenFails(w) \/ UploadThrows(w)
    BY <1>3, <2>1, <2>2 DEF ReadFails, OpenFails, UploadThrows, Through, Finished
  <2>3. CASE Fails(w) \/ Restore(w) \/ (Process(w) /\ ~output)
    <3>1. PICK t \in {"COMPLETED", "FAILED"} : status' = [status EXCEPT ![d] = t]
      BY <2>3 DEF Fails, Restore, Process
    <3>2. dropped' = dropped /\ size' \in [Doc -> Nat]
      BY <1>3, <2>1, <2>3 DEF Fails, Restore, Process
    <3>3. Finished' = Finished \cup {d}
      BY <1>3, <2>1, <3>1 DEF Finished
    <3>4. status' \in [Doc -> {"WAITING", "OUTPUT", "COMPLETED", "FAILED"}]
      BY <2>1, <3>1
    <3>5. QED
      BY <2>1, <3>2, <3>3, <3>4 DEF Through
  <2>4. QED
    BY <2>2, <2>3
<1>7. worker' \in [Worker ->
        [pc : {"loop", "ask", "miss", "uncount", "count", "countread", "read", "record", "open",
               "upload", "restore", "ended", "dead"},
         doc : Doc \cup {NoDoc}]]
  BY <1>4 DEF IInv, TypeOK, Leaves
<1>8. TypeOK'
  BY <1>1, <1>6, <1>7 DEF IInv, TypeOK
<1>9. /\ Elements(queue)' = Elements(queue) /\ Elements(loaded)' = Elements(loaded)
      /\ Reading' = Reading
  BY <1>1 DEF Elements, Reading
<1>10. Places'
  BY <1>3, <1>5, <1>6, <1>9 DEF IInv, Places
<1>11. Uncounted' = Uncounted
  BY <1>5, <1>9 DEF Uncounted
<1>12. Distinct(queue)' /\ Distinct(loaded)'
  BY <1>1 DEF IInv, Distinct
<1>13. QED
  BY <1>1, <1>2, <1>5, <1>8, <1>10, <1>11, <1>12, Keeps
-----------------------------------------------------------------------------
(* The theorems                                                            *)

\* The invariant holds at the start: every document is in the queue.
LEMMA InvariantInit == Init => IInv
<1> SUFFICES ASSUME Init PROVE IInv
  OBVIOUS
<1>1. /\ Listing \in Seq(Doc) /\ Listed \in [Doc -> Nat] /\ NoDoc \notin Doc
      /\ Futures \in Nat \ {0} /\ Distinct(Listing)
  BY ReaderAssumption DEF Distinct
<1>2. TypeOK
  <2>1. /\ queue \in Seq(Doc) /\ loaded \in Seq(Doc)
        /\ batch \in 0..Futures /\ progress \in 0..Len(Listing) /\ mem \in Int
    BY <1>1, DocCount DEF Init
  <2>2. /\ size \in [Doc -> Nat] /\ future \in [Doc -> {"none", "reads", "counts"}]
        /\ status \in [Doc -> {"WAITING", "OUTPUT", "COMPLETED", "FAILED"}]
        /\ dropped \subseteq Doc /\ output \in BOOLEAN
    BY <1>1 DEF Init
  <2>3. worker \in [Worker ->
          [pc : {"loop", "ask", "miss", "uncount", "count", "countread", "read", "record", "open",
                 "upload", "restore", "ended", "dead"},
           doc : Doc \cup {NoDoc}]]
    BY DEF Init
  <2>4. /\ main \in {"check", "fill", "joining", "wait", "join", "ended", "failed"}
        /\ breakit \in BOOLEAN /\ failed \in BOOLEAN
        /\ shutdown \in {"no", "interrupted", "done"}
    BY DEF Init
  <2>5. QED
    BY <2>1, <2>2, <2>3, <2>4 DEF TypeOK
<1>3. Distinct(queue) /\ Distinct(loaded)
  BY <1>1 DEF Init, Distinct
<1>4. Holders
  BY DEF Init, Holders, Idle
<1>5. /\ Elements(queue) = Doc /\ Elements(loaded) = {} /\ Reading = {} /\ Held = {}
      /\ Through = {}
  BY DEF Init, Elements, Doc, Reading, Held, Through, Finished
<1>6. Places
  BY <1>5 DEF Places
<1>7. Doc \ Uncounted = {}
  BY <1>5 DEF Uncounted
<1>8. Counting
  <2>1. Cardinality(Doc \ Uncounted) = 0
    BY <1>7, FS_EmptySet
  <2>2. QED
    BY <2>1 DEF Init, Counting
<1>9. Ending
  BY DEF Init, Ending
<1>10. QED
  BY <1>2, <1>3, <1>4, <1>6, <1>8, <1>9 DEF IInv

\* Every step keeps the invariant.
LEMMA InvariantNext == IInv /\ [Next]_vars => IInv'
<1> SUFFICES ASSUME IInv, [Next]_vars PROVE IInv'
  OBVIOUS
<1>1. CASE MainNext \/ Interrupt \/ UNCHANGED vars
  BY <1>1, MainKeeps, WaitDoneKeeps, IssueKeeps DEF MainNext
<1>2. ASSUME NEW d \in Doc, FutureNext(d)
      PROVE  IInv'
  BY <1>2, FutureLoadsKeeps, FutureEndsKeeps DEF FutureNext
<1>3. ASSUME NEW w \in Worker, WorkerNext(w)
      PROVE  IInv'
  <2>1. CASE WorkerChecks(w) \/ Uncount(w) \/ Record(w) \/ Upload(w)
    BY <2>1, WorkerGoesKeeps
  <2>2. CASE PollLoaded(w)
    <3>1. CASE loaded = <<>>
      BY <2>2, <3>1, WorkerGoesKeeps
    <3>2. CASE loaded # <<>>
      BY <2>2, <3>2, WorkerTakesKeeps
    <3>3. QED
      BY <3>1, <3>2
  <2>3. CASE PollQueue(w)
    <3>1. CASE queue = <<>>
      BY <2>3, <3>1, WorkerGoesKeeps
    <3>2. CASE queue # <<>>
      BY <2>3, <3>2, WorkerTakesKeeps
    <3>3. QED
      BY <3>1, <3>2
  <2>4. CASE ReadFails(w) \/ OpenFails(w) \/ Fails(w) \/ UploadThrows(w) \/ Restore(w)
    BY <2>4, WorkerLeavesKeeps
  <2>5. CASE Process(w)
    BY <2>5, WorkerGoesKeeps, WorkerLeavesKeeps
  <2>6. QED
    BY <1>3, <2>1, <2>2, <2>3, <2>4, <2>5, CountKeeps DEF WorkerNext
<1>4. QED
  BY <1>1, <1>2, <1>3 DEF Next

\* Documents stay in one place, and progress counts no more of them than were taken.
THEOREM Invariant == Spec => []IInv
  BY InvariantInit, InvariantNext, PTL DEF Spec

\* The types of the state are an invariant; progress never passes the length of
\* the listing.
THEOREM TypeCorrect == Spec => []TypeOK
<1>1. IInv => TypeOK
  BY DEF IInv
<1>2. QED
  BY <1>1, Invariant, PTL

\* Every document is at every moment in exactly one place (OnePlace).
THEOREM EachInOnePlace == Spec => []OnePlace
<1>1. ASSUME IInv PROVE OnePlace
  <2>1. /\ Elements(queue) \subseteq Doc /\ Reading \subseteq Doc
        /\ Elements(loaded) \subseteq Doc /\ Held \subseteq Doc /\ Through \subseteq Doc
    BY <1>1, PlacesAreDocs DEF IInv
  <2> DEFINE places == <<Elements(queue), Reading, Elements(loaded), Held, Finished \cup dropped>>
  <2>2. /\ places[1] = Elements(queue) /\ places[2] = Reading /\ places[3] = Elements(loaded)
        /\ places[4] = Held /\ places[5] = Through
    BY DEF Through
  <2> HIDE DEF places
  <2>3. UNION {places[i] : i \in 1..5} = Doc
    <3>1. ASSUME NEW i \in 1..5 PROVE places[i] \subseteq Doc
      BY <2>1, <2>2
    <3>2. ASSUME NEW d \in Doc PROVE \E i \in 1..5 : d \in places[i]
      <4>1. 1 \in 1..5 /\ 2 \in 1..5 /\ 3 \in 1..5 /\ 4 \in 1..5 /\ 5 \in 1..5
        OBVIOUS
      <4>2. QED
        BY <1>1, <2>2, <4>1 DEF IInv, Places
    <3>3. QED
      BY <3>1, <3>2
  <2>4. ASSUME NEW i \in 1..5, NEW j \in 1..5, i # j, NEW d \in places[i], d \in places[j]
        PROVE  FALSE
    <3>1. d \in Doc
      BY <2>1, <2>2
    <3>2. i \in {1, 2, 3, 4, 5} /\ j \in {1, 2, 3, 4, 5}
      OBVIOUS
    <3>3. QED
      BY <1>1, <2>2, <2>4, <3>1, <3>2 DEF IInv, Places
  <2>5. \A i, j \in 1..5 : i # j => places[i] \cap places[j] = {}
    BY <2>4
  <2>6. \A v, w \in Worker : worker[v].doc = worker[w].doc /\ v # w => worker[v].doc = NoDoc
    BY <1>1 DEF IInv, Holders
  <2>7. QED
    BY <2>3, <2>5, <2>6 DEF OnePlace, places
<1>2. QED
  BY <1>1, Invariant, PTL

\* A run that was not interrupted has left no document in a queue or with a worker
\* when it returns (NothingSkipped).
THEOREM AllThrough == Spec => []NothingSkipped
<1>1. ASSUME IInv, main = "ended", shutdown = "done"
      PROVE  Finished \cup dropped = Doc
  <2>1. Uncounted = {} /\ \A w \in Worker : worker[w].pc \in {"ended", "dead"}
    BY <1>1 DEF IInv, Ending
  <2>2. Held = {}
    BY <1>1, <2>1 DEF IInv, Holders, Held, Idle
  <2>3. Through \subseteq Doc
    BY <1>1, PlacesAreDocs DEF IInv
  <2>4. QED
    BY <1>1, <2>1, <2>2, <2>3 DEF IInv, Places, Uncounted, Through
<1>2. IInv => NothingSkipped
  BY <1>1 DEF NothingSkipped
<1>3. QED
  BY <1>2, Invariant, PTL
-----------------------------------------------------------------------------
(* What documents weigh                                                    *)

Sizing == [Doc -> Nat]

\* The weights of documents are natural numbers, and so is the weight of a set.
LEMMA WeightNat ==
  ASSUME NEW s \in Sizing, NEW S \in SUBSET Doc
  PROVE  /\ Weight(S, s) \in Nat /\ IsFiniteSet(S)
         /\ \A d \in Doc : Factor(d) * s[d] \in Nat
<1> DEFINE f == [d \in Doc |-> Factor(d) * s[d]]
<1>1. \A d \in Doc : Factor(d) * s[d] \in Nat
  BY DEF Factor, Sizing
<1>2. \A d \in Doc : f[d] = Factor(d) * s[d]
  OBVIOUS
<1>3. IsFiniteSet(S)
  BY DocCount, FS_Subset
<1> HIDE DEF f
<1>4. SumFunctionOnSet(f, S) \in Nat
  BY <1>1, <1>2, <1>3, SumNat
<1>5. QED
  BY <1>1, <1>3, <1>4 DEF Weight, f

\* One document more.
LEMMA WeightAdd ==
  ASSUME NEW s \in Sizing, NEW S \in SUBSET Doc, NEW d \in Doc, d \notin S
  PROVE  Weight(S \cup {d}, s) = Weight(S, s) + Factor(d) * s[d]
<1> DEFINE f == [e \in Doc |-> Factor(e) * s[e]]
<1>1. \A e \in Doc : Factor(e) * s[e] \in Nat
  BY WeightNat
<1>2. f[d] = Factor(d) * s[d] /\ \A e \in Doc : f[e] \in Int
  BY <1>1
<1> HIDE DEF f
<1>3. SumFunctionOnSet(f, S \cup {d}) = SumFunctionOnSet(f, S) + f[d]
  BY <1>2, DocCount, SumAdd
<1>4. QED
  BY <1>2, <1>3 DEF Weight, f

\* A set that is divided in two.
LEMMA WeightSplit ==
  ASSUME NEW s \in Sizing, NEW A \in SUBSET Doc, NEW B \in SUBSET Doc, A \cap B = {}
  PROVE  Weight(A \cup B, s) = Weight(A, s) + Weight(B, s)
<1> DEFINE f == [e \in Doc |-> Factor(e) * s[e]]
<1>1. \A e \in Doc : Factor(e) * s[e] \in Nat
  BY WeightNat
<1>2. \A e \in Doc : f[e] \in Int
  BY <1>1
<1> HIDE DEF f
<1>3. SumFunctionOnSet(f, A \cup B) = SumFunctionOnSet(f, A) + SumFunctionOnSet(f, B)
  BY <1>2, DocCount, SumSplit
<1>4. QED
  BY <1>3 DEF Weight, f

\* A part weighs no more than the whole.
LEMMA WeightSubset ==
  ASSUME NEW s \in Sizing, NEW A \in SUBSET Doc, NEW B \in SUBSET A
  PROVE  Weight(B, s) <= Weight(A, s)
<1> DEFINE C == A \ B
<1>1. B \in SUBSET Doc /\ C \in SUBSET Doc /\ B \cap C = {} /\ B \cup C = A
  OBVIOUS
<1> HIDE DEF C
<1>2. Weight(A, s) = Weight(B, s) + Weight(C, s)
  BY <1>1, WeightSplit
<1>3. Weight(B, s) \in Nat /\ Weight(C, s) \in Nat
  BY <1>1, WeightNat
<1>4. QED
  BY <1>2, <1>3

\* Sizes that are larger weigh no less.
LEMMA WeightMonotonic ==
  ASSUME NEW s \in Sizing, NEW t \in Sizing, NEW S \in SUBSET Doc,
         \A d \in S : s[d] <= t[d]
  PROVE  Weight(S, s) <= Weight(S, t)
<1> DEFINE f == [e \in Doc |-> Factor(e) * s[e]]
           g == [e \in Doc |-> Factor(e) * t[e]]
<1>1. \A e \in S : f[e] = Factor(e) * s[e] /\ g[e] = Factor(e) * t[e]
  OBVIOUS
<1>2. \A e \in S : f[e] \in Int /\ g[e] \in Int
  BY <1>1, WeightNat
<1>3. \A e \in S : f[e] <= g[e]
  BY <1>1 DEF Factor, Sizing
<1>4. IsFiniteSet(S)
  BY WeightNat
<1> HIDE DEF f, g
<1>5. SumFunctionOnSet(f, S) <= SumFunctionOnSet(g, S)
  BY <1>2, <1>3, <1>4, SumMonotonic
<1>6. QED
  BY <1>5 DEF Weight, f, g

\* No document weighs more than the largest.
LEMMA LargestBounds ==
  /\ Largest \in Nat
  /\ \A d \in Doc : Factor(d) * Loaded[d] <= Largest
<1> DEFINE f == [e \in Doc |-> Factor(e) * Loaded[e]]
<1>1. Loaded \in Sizing
  BY ReaderAssumption DEF Sizing
<1>2. \A e \in Doc : f[e] = Factor(e) * Loaded[e] /\ f[e] \in Nat
  BY <1>1, WeightNat
<1>3. {f[e] : e \in Doc} = {Factor(d) * Loaded[d] : d \in Doc}
  BY <1>2
<1> HIDE DEF f
<1> DEFINE V == {0} \cup {f[e] : e \in Doc}
<1>4. Max(V) \in Nat /\ \A e \in Doc : f[e] <= Max(V)
  BY <1>2, DocCount, MaxOfValues
<1>5. Largest = Max(V)
  BY <1>3 DEF Largest
<1>6. QED
  BY <1>2, <1>4, <1>5

\* What a set of documents weighs more by s than by t, where it does.
More(S, s, t) == {d \in S : s[d] > t[d]}
ExcessOn(S, s, t) == Weight(More(S, s, t), s) - Weight(More(S, s, t), t)

\* The excess of a set is at most that of all documents.
LEMMA ExcessBounds ==
  ASSUME NEW s \in Sizing, NEW t \in Sizing, NEW S \in SUBSET Doc
  PROVE  /\ ExcessOn(S, s, t) \in Nat /\ Excess(s, t) \in Nat
         /\ ExcessOn(S, s, t) <= Excess(s, t)
<1> DEFINE A == More(S, s, t)
           B == More(Doc \ S, s, t)
<1>1. A \in SUBSET Doc /\ B \in SUBSET Doc /\ A \cap B = {} /\ A \cup B = More(Doc, s, t)
  BY DEF More
<1>2. \A d \in A \cup B : t[d] <= s[d]
  BY DEF More, Sizing
<1>3. Weight(A, t) <= Weight(A, s) /\ Weight(B, t) <= Weight(B, s)
  BY <1>1, <1>2, WeightMonotonic
<1>4. /\ Weight(A, s) \in Nat /\ Weight(A, t) \in Nat
      /\ Weight(B, s) \in Nat /\ Weight(B, t) \in Nat
  BY <1>1, WeightNat
<1>5. /\ Weight(A \cup B, s) = Weight(A, s) + Weight(B, s)
      /\ Weight(A \cup B, t) = Weight(A, t) + Weight(B, t)
  BY <1>1, WeightSplit
<1>6. Excess(s, t) = Weight(A \cup B, s) - Weight(A \cup B, t)
  BY <1>1 DEF Excess, More
<1>7. ExcessOn(S, s, t) = Weight(A, s) - Weight(A, t)
  BY DEF ExcessOn
<1> HIDE DEF A, B
<1>8. QED
  BY <1>3, <1>4, <1>5, <1>6, <1>7

\* One document more adds to the excess what it weighs too much.
LEMMA ExcessAdd ==
  ASSUME NEW s \in Sizing, NEW t \in Sizing, NEW S \in SUBSET Doc, NEW d \in Doc, d \notin S
  PROVE  /\ ExcessOn(S \cup {d}, s, t) \in Nat /\ ExcessOn(S, s, t) \in Nat
         /\ ExcessOn(S \cup {d}, s, t) >= ExcessOn(S, s, t)
         /\ ExcessOn(S \cup {d}, s, t) >= ExcessOn(S, s, t) + Factor(d) * s[d] - Factor(d) * t[d]
<1> DEFINE A == More(S, s, t)
<1>1. A \in SUBSET Doc /\ d \notin A
  BY DEF More
<1>2. S \cup {d} \in SUBSET Doc
  OBVIOUS
<1>3. ExcessOn(S \cup {d}, s, t) \in Nat /\ ExcessOn(S, s, t) \in Nat
  BY <1>2, ExcessBounds
<1>4. /\ Factor(d) * s[d] \in Nat /\ Factor(d) * t[d] \in Nat
      /\ Weight(A, s) \in Nat /\ Weight(A, t) \in Nat
  BY <1>1, WeightNat
<1>5. CASE s[d] > t[d]
  <2>1. More(S \cup {d}, s, t) = A \cup {d}
    BY <1>5 DEF More
  <2>2. /\ Weight(A \cup {d}, s) = Weight(A, s) + Factor(d) * s[d]
        /\ Weight(A \cup {d}, t) = Weight(A, t) + Factor(d) * t[d]
    BY <1>1, WeightAdd
  <2>3. Factor(d) * s[d] >= Factor(d) * t[d]
    BY <1>5 DEF Factor, Sizing
  <2> HIDE DEF A
  <2>4. ExcessOn(S \cup {d}, s, t) = Weight(A \cup {d}, s) - Weight(A \cup {d}, t)
    BY <2>1 DEF ExcessOn
  <2>5. ExcessOn(S, s, t) = Weight(A, s) - Weight(A, t)
    BY DEF ExcessOn, A
  <2>6. QED
    BY <1>3, <1>4, <2>2, <2>3, <2>4, <2>5
<1>6. CASE ~(s[d] > t[d])
  <2>1. More(S \cup {d}, s, t) = A
    BY <1>6 DEF More
  <2>2. Factor(d) * s[d] <= Factor(d) * t[d]
    BY <1>6 DEF Factor, Sizing
  <2>3. ExcessOn(S \cup {d}, s, t) = ExcessOn(S, s, t)
    BY <2>1 DEF ExcessOn
  <2>4. QED
    BY <1>3, <1>4, <2>2, <2>3
<1>7. QED
  BY <1>5, <1>6
-----------------------------------------------------------------------------
(* The counter of the memory: the invariant                                *)

Filling == {"fill", "joining"}

\* Documents that workers have taken and not subtracted yet.
Unsubtracted == {worker[w].doc : w \in {v \in Worker : worker[v].pc = "uncount"}}

\* Documents read ahead whose weight has not been subtracted yet.
In == Elements(loaded) \cup Unsubtracted

\* Documents read ahead that have not been added yet: some may be taken, or
\* subtracted, already.
Counts == {d \in Doc : future[d] = "counts"}

\* Documents that no future will count any more.
Closed == {d \in Doc \ Elements(queue) : future[d] = "none"}

Ahead == Elements(loaded) \cup Reading

\* Futures belong to a round, and to documents that have left the queue.
Rounds ==
  /\ main \notin Filling => \A d \in Doc : future[d] = "none"
  /\ \A d \in Elements(queue) : future[d] = "none"

\* A document has the size that was listed or the one that was read.
Sizes ==
  /\ \A w \in Worker : worker[w].pc # "upload"
  /\ \A d \in Doc : size[d] \in {Listed[d], Loaded[d]}

\* The counter is what was read ahead and added, less what was taken, up to what
\* the listing got wrong for documents that have been counted.
Accounted ==
  /\ mem <= Weight(In, Loaded) - Weight(Counts, Loaded) + ExcessOn(Closed, Listed, Loaded)
  /\ mem >= Weight(In, Loaded) - Weight(Counts, Loaded) - ExcessOn(Closed, Loaded, Listed)

\* The futures that what is ahead may be above the maximum by.
Rooms == IF main \in Filling THEN batch ELSE Futures

Bounded == Weight(Ahead, Loaded) <= MaximumMemory + UnderListed + Rooms * Largest

MInv == Rounds /\ (~output => Sizes /\ Accounted /\ Bounded)

\* Multiples of a number.
LEMMA Products ==
  ASSUME NEW a \in Nat, NEW b \in Nat, NEW l \in Nat, a <= b
  PROVE  /\ a * l \in Nat /\ b * l \in Nat /\ a * l <= b * l
         /\ (a + 1) * l = a * l + l
<1>1. a * l \in Nat /\ b * l \in Nat /\ (a + 1) * l = a * l + l
  OBVIOUS
<1>2. b - a \in Nat /\ (b - a) * l \in Nat
  OBVIOUS
<1>3. b * l = a * l + (b - a) * l
  OBVIOUS
<1>4. QED
  BY <1>1, <1>2, <1>3

\* The sets of the invariant are sets of documents.
LEMMA SetsOfDocs ==
  ASSUME TypeOK, Holders
  PROVE  In \in SUBSET Doc /\ Counts \in SUBSET Doc /\ Closed \in SUBSET Doc /\ Ahead \in SUBSET Doc
<1>1. Unsubtracted \subseteq Doc
  BY DEF Unsubtracted, TypeOK, Holders, Idle
<1>2. QED
  BY <1>1, PlacesAreDocs DEF In, Counts, Closed, Ahead

\* The constants of the invariant are natural numbers.
LEMMA SizesAreNat ==
  /\ Listed \in Sizing /\ Loaded \in Sizing
  /\ MaximumMemory \in Nat /\ Futures \in Nat /\ UnderListed \in Nat /\ OverListed \in Nat
<1>1. Listed \in Sizing /\ Loaded \in Sizing /\ MaximumMemory \in Nat /\ Futures \in Nat
  BY ReaderAssumption DEF Sizing
<1>2. UnderListed \in Nat /\ OverListed \in Nat
  <2>1. {} \in SUBSET Doc
    OBVIOUS
  <2>2. QED
    BY <1>1, <2>1, ExcessBounds DEF UnderListed, OverListed
<1>3. QED
  BY <1>1, <1>2

\* The counter agrees as well after a step that leaves it, and at most closes one
\* document more.
LEMMA AccountedStays ==
  ASSUME IInv, Accounted, mem' = mem, In' = In, Counts' = Counts,
         Closed' = Closed \/ \E d \in Doc \ Closed : Closed' = Closed \cup {d}
  PROVE  Accounted'
<1> DEFINE W == Weight(In, Loaded) - Weight(Counts, Loaded)
<1>1. In \in SUBSET Doc /\ Counts \in SUBSET Doc /\ Closed \in SUBSET Doc
  BY SetsOfDocs DEF IInv
<1>2. W \in Int /\ mem \in Int
  BY <1>1, SizesAreNat, WeightNat DEF IInv, TypeOK
<1>3. /\ ExcessOn(Closed', Listed, Loaded) >= ExcessOn(Closed, Listed, Loaded)
      /\ ExcessOn(Closed', Loaded, Listed) >= ExcessOn(Closed, Loaded, Listed)
      /\ ExcessOn(Closed', Listed, Loaded) \in Nat /\ ExcessOn(Closed, Listed, Loaded) \in Nat
      /\ ExcessOn(Closed', Loaded, Listed) \in Nat /\ ExcessOn(Closed, Loaded, Listed) \in Nat
  <2>1. CASE Closed' = Closed
    BY <1>1, <2>1, SizesAreNat, ExcessBounds
  <2>2. CASE \E d \in Doc \ Closed : Closed' = Closed \cup {d}
    BY <1>1, <2>2, SizesAreNat, ExcessAdd
  <2>3. QED
    BY <2>1, <2>2
<1>4. /\ mem <= W + ExcessOn(Closed, Listed, Loaded)
      /\ mem >= W - ExcessOn(Closed, Loaded, Listed)
  BY DEF Accounted
<1> HIDE DEF W
<1>5. /\ mem <= W + ExcessOn(Closed', Listed, Loaded)
      /\ mem >= W - ExcessOn(Closed', Loaded, Listed)
  BY <1>2, <1>3, <1>4
<1>6. QED
  BY <1>5 DEF Accounted, W, ExcessOn, Weight, More

\* The bound holds as well after a step that reads nothing more ahead and makes no
\* room smaller.
LEMMA BoundedStays ==
  ASSUME IInv, Bounded, Ahead' \subseteq Ahead, Rooms' \in Nat, Rooms' >= Rooms
  PROVE  Bounded'
<1>1. Ahead \in SUBSET Doc
  BY SetsOfDocs DEF IInv
<1>2. Weight(Ahead', Loaded) <= Weight(Ahead, Loaded)
  BY <1>1, SizesAreNat, WeightSubset
<1>3. Weight(Ahead', Loaded) \in Nat /\ Weight(Ahead, Loaded) \in Nat
  BY <1>1, SizesAreNat, WeightNat
<1>4. Rooms \in Nat /\ Largest \in Nat /\ MaximumMemory \in Nat /\ UnderListed \in Nat
  BY LargestBounds, SizesAreNat DEF Rooms, IInv, TypeOK
<1>5. /\ Rooms * Largest <= Rooms' * Largest
      /\ Rooms * Largest \in Nat /\ Rooms' * Largest \in Nat
  BY <1>4, Products
<1>6. Weight(Ahead', Loaded) <= MaximumMemory + UnderListed + Rooms' * Largest
  BY <1>2, <1>3, <1>4, <1>5 DEF Bounded
<1>7. QED
  BY <1>6 DEF Bounded, Weight, UnderListed, Excess, Largest
-----------------------------------------------------------------------------
(* The counter of the memory: the main thread                              *)

\* The main thread looks at the counter when nothing is being read or counted: what
\* is loaded is then at most the maximum and what the listing left out.
LEMMA CheckBounds ==
  ASSUME IInv, Rounds, Accounted, main = "check", mem <= MaximumMemory
  PROVE  Weight(Ahead, Loaded) <= MaximumMemory + UnderListed
<1>1. In \in SUBSET Doc /\ Closed \in SUBSET Doc /\ Ahead \in SUBSET Doc
  BY SetsOfDocs DEF IInv
<1>2. Counts = {} /\ Reading = {}
  BY DEF Rounds, Filling, Counts, Reading
<1>3. Ahead \in SUBSET In
  BY <1>2 DEF Ahead, In
<1>4. Weight(Ahead, Loaded) <= Weight(In, Loaded)
  BY <1>1, <1>3, SizesAreNat, WeightSubset
<1>5. Weight(Counts, Loaded) = 0
  BY <1>2, SumEmpty DEF Weight
<1>6. ExcessOn(Closed, Loaded, Listed) <= UnderListed /\ ExcessOn(Closed, Loaded, Listed) \in Nat
  BY <1>1, SizesAreNat, ExcessBounds DEF UnderListed
<1>7. /\ Weight(Ahead, Loaded) \in Nat /\ Weight(In, Loaded) \in Nat /\ mem \in Int
      /\ UnderListed \in Nat /\ MaximumMemory \in Nat
  BY <1>1, SizesAreNat, WeightNat DEF IInv, TypeOK
<1>8. QED
  BY <1>4, <1>5, <1>6, <1>7 DEF Accounted

\* Steps of run() other than the making of a future.
LEMMA MainMemory ==
  ASSUME IInv, MInv, Check \/ Joined \/ WaitDone \/ JoinWorkers \/ Interrupt \/ UNCHANGED vars
  PROVE  MInv'
<1>1. UNCHANGED <<output, size, queue, loaded, mem, future, worker>>
  BY DEF Check, Joined, WaitDone, JoinWorkers, Interrupt, vars, documents, queues, counters
<1>2. Rounds'
  <2>1. \/ \A d \in Doc : future[d] = "none"
        \/ main' = main
    BY DEF Check, Joined, WaitDone, JoinWorkers, Interrupt, vars, feeding, MInv, Rounds, Filling
  <2>2. Elements(queue)' = Elements(queue)
    BY <1>1 DEF Elements
  <2>3. QED
    BY <1>1, <2>1, <2>2 DEF MInv, Rounds
<1>3. /\ In' = In /\ Counts' = Counts /\ Closed' = Closed /\ Ahead' = Ahead
  BY <1>1 DEF In, Counts, Closed, Ahead, Elements, Unsubtracted, Reading
<1>4. ASSUME ~output' PROVE Sizes' /\ Accounted' /\ Bounded'
  <2>1. Sizes /\ Accounted /\ Bounded /\ Rounds
    BY <1>1, <1>4 DEF MInv
  <2>2. Sizes'
    BY <1>1, <2>1 DEF Sizes
  <2>3. Accounted'
    BY <1>1, <1>3, <2>1, AccountedStays
  <2>4. CASE Check /\ main' = "fill"
    <3>1. main = "check" /\ mem <= MaximumMemory /\ batch' = 0 /\ Rooms' = 0
      BY <2>4 DEF Check, Rooms, Filling
    <3>2. Weight(Ahead, Loaded) <= MaximumMemory + UnderListed
      BY <2>1, <3>1, CheckBounds
    <3>3. Rooms' * Largest = 0 /\ MaximumMemory \in Nat /\ UnderListed \in Nat
      BY <3>1, LargestBounds, SizesAreNat
    <3>4. Weight(Ahead', Loaded) <= MaximumMemory + UnderListed + Rooms' * Largest
      BY <1>3, <3>2, <3>3
    <3>5. QED
      BY <2>2, <2>3, <3>4 DEF Bounded, Weight, UnderListed, Excess, Largest
  <2>5. CASE ~(Check /\ main' = "fill")
    <3>1. batch \in Nat /\ batch <= Futures /\ Futures \in Nat
      BY SizesAreNat DEF IInv, TypeOK
    <3>2. (main' = main /\ batch' = batch) \/ main' \notin Filling
      BY <2>5 DEF Check, Joined, WaitDone, JoinWorkers, Interrupt, vars, feeding, Filling
    <3>3. Rooms' \in Nat /\ Rooms' >= Rooms
      BY <3>1, <3>2 DEF Rooms
    <3>4. QED
      BY <1>3, <2>1, <2>2, <2>3, <3>3, BoundedStays
  <2>6. QED
    BY <2>2, <2>3, <2>4, <2>5
<1>5. QED
  BY <1>2, <1>4 DEF MInv

\* A future more in the round, and at most one document more that is read ahead.
LEMMA IssueMemory ==
  ASSUME IInv, MInv, Issue
  PROVE  MInv'
<1>1. /\ UNCHANGED <<output, size, loaded, mem, worker>>
      /\ main = "fill" /\ main' \in Filling /\ batch < Futures /\ batch' = batch + 1
  BY DEF Issue, documents, counters, Filling
<1>2. In' = In
  BY <1>1 DEF In, Elements, Unsubtracted
<1>3. batch \in Nat /\ Rooms = batch /\ Rooms' = batch + 1
  BY <1>1 DEF Rooms, Filling, IInv, TypeOK
<1>4. CASE queue = <<>>
  <2>1. UNCHANGED <<queue, future>>
    BY <1>4 DEF Issue
  <2>2. Rounds'
    BY <1>1, <2>1 DEF MInv, Rounds, Elements
  <2>3. Counts' = Counts /\ Closed' = Closed /\ Ahead' = Ahead
    BY <1>1, <2>1 DEF Counts, Closed, Ahead, Elements, Reading
  <2>4. ASSUME ~output' PROVE Sizes' /\ Accounted' /\ Bounded'
    <3>1. Sizes /\ Accounted /\ Bounded
      BY <1>1, <2>4 DEF MInv
    <3>2. Sizes'
      BY <1>1, <3>1 DEF Sizes
    <3>3. Accounted'
      BY <1>1, <1>2, <2>3, <3>1, AccountedStays
    <3>4. Rooms' \in Nat /\ Rooms' >= Rooms
      BY <1>3
    <3>5. QED
      BY <2>3, <3>1, <3>2, <3>3, <3>4, BoundedStays
  <2>5. QED
    BY <2>2, <2>4 DEF MInv
<1>5. CASE queue # <<>>
  <2> DEFINE d == Head(queue)
  <2>1. queue' = Tail(queue) /\ future' = [future EXCEPT ![d] = "reads"]
    BY <1>5 DEF Issue
  <2>2. d \in Elements(queue) /\ d \in Doc /\ Elements(queue') = Elements(queue) \ {d}
    BY <1>5, <2>1, Taken DEF IInv, TypeOK
  <2>3. Elements(queue)' = Elements(queue) \ {d}
    BY <2>2 DEF Elements
  <2> HIDE DEF d
  <2>4. /\ future'[d] = "reads" /\ future[d] = "none"
        /\ \A e \in Doc : e # d => future'[e] = future[e]
    BY <2>1, <2>2 DEF IInv, TypeOK, MInv, Rounds
  <2>5. Rounds'
    BY <1>1, <2>3, <2>4, PlacesAreDocs DEF MInv, Rounds, IInv
  <2>6. Counts' = Counts
    BY <2>4 DEF Counts
  <2>7. Closed' = Closed
    BY <2>2, <2>3, <2>4 DEF Closed
  <2>8. Ahead' = Ahead \cup {d} /\ d \notin Ahead
    <3>1. Reading' = Reading \cup {d}
      BY <2>2, <2>4 DEF Reading
    <3>2. d \notin Reading /\ d \notin Elements(loaded)
      BY <2>2 DEF IInv, Places
    <3>3. Elements(loaded)' = Elements(loaded)
      BY <1>1 DEF Elements
    <3>4. QED
      BY <3>1, <3>2, <3>3 DEF Ahead
  <2>9. ASSUME ~output' PROVE Sizes' /\ Accounted' /\ Bounded'
    <3>1. Sizes /\ Accounted /\ Bounded
      BY <1>1, <2>9 DEF MInv
    <3>2. Sizes'
      BY <1>1, <3>1 DEF Sizes
    <3>3. Accounted'
      BY <1>1, <1>2, <2>6, <2>7, <3>1, AccountedStays
    <3>4. Ahead \in SUBSET Doc
      BY SetsOfDocs DEF IInv
    <3>5. Weight(Ahead', Loaded) = Weight(Ahead, Loaded) + Factor(d) * Loaded[d]
      BY <2>2, <2>8, <3>4, SizesAreNat, WeightAdd
    <3>6. /\ Weight(Ahead, Loaded) \in Nat /\ Factor(d) * Loaded[d] \in Nat
          /\ Factor(d) * Loaded[d] <= Largest /\ Largest \in Nat
          /\ MaximumMemory \in Nat /\ UnderListed \in Nat
      BY <2>2, <3>4, SizesAreNat, WeightNat, LargestBounds
    <3>7. Rooms' * Largest = Rooms * Largest + Largest /\ Rooms * Largest \in Nat
      BY <1>3, <3>6, Products
    <3>8. Weight(Ahead, Loaded) <= MaximumMemory + UnderListed + Rooms * Largest
      BY <3>1 DEF Bounded
    <3>9. Weight(Ahead', Loaded) <= MaximumMemory + UnderListed + Rooms' * Largest
      BY <3>5, <3>6, <3>7, <3>8
    <3>10. QED
      BY <3>2, <3>3, <3>9 DEF Bounded, Weight, UnderListed, Excess, Largest
  <2>10. QED
    BY <2>5, <2>9 DEF MInv
<1>6. QED
  BY <1>4, <1>5
-----------------------------------------------------------------------------
(* The counter of the memory: the futures                                  *)

\* What has been read weighs on both sides until it is counted.
LEMMA FutureLoadsMemory ==
  ASSUME IInv, MInv, NEW d \in Doc, FutureLoads(d)
  PROVE  MInv'
<1>1. /\ UNCHANGED <<output, size, queue, mem, main, batch, worker>>
      /\ future[d] = "reads" /\ loaded' = Append(loaded, d)
      /\ future' = [future EXCEPT ![d] = "counts"]
  BY DEF FutureLoads, documents, counters, feeding
<1>2. d \in Reading /\ d \notin Elements(loaded) /\ d \notin Held /\ d \notin Elements(queue)
  BY <1>1 DEF Reading, IInv, Places
<1>3. Elements(loaded)' = Elements(loaded) \cup {d}
  <2>1. Elements(loaded') = Elements(loaded) \cup {d}
    BY <1>1, <1>2, Added DEF IInv, TypeOK
  <2>2. QED
    BY <2>1 DEF Elements
<1>4. future'[d] = "counts" /\ \A e \in Doc : e # d => future'[e] = future[e]
  BY <1>1 DEF IInv, TypeOK
<1>5. Elements(queue)' = Elements(queue) /\ Unsubtracted' = Unsubtracted
  BY <1>1 DEF Elements, Unsubtracted
<1>6. d \notin Unsubtracted
  BY <1>2 DEF Unsubtracted, Held, IInv, Holders, Idle
<1>7. /\ In' = In \cup {d} /\ d \notin In
      /\ Counts' = Counts \cup {d} /\ d \notin Counts
  BY <1>1, <1>2, <1>3, <1>4, <1>5, <1>6 DEF In, Counts
<1>8. Closed' = Closed
  BY <1>1, <1>4, <1>5 DEF Closed
<1>9. Ahead' \subseteq Ahead
  BY <1>2, <1>3, <1>4 DEF Ahead, Reading
<1>10. Rounds'
  <2>1. main' \in Filling
    BY <1>1 DEF MInv, Rounds
  <2>2. QED
    BY <1>2, <1>4, <1>5, <2>1, PlacesAreDocs DEF MInv, Rounds, IInv
<1>11. ASSUME ~output' PROVE Sizes' /\ Accounted' /\ Bounded'
  <2>1. Sizes /\ Accounted /\ Bounded
    BY <1>1, <1>11 DEF MInv
  <2>2. Sizes'
    BY <1>1, <2>1 DEF Sizes
  <2>3. In \in SUBSET Doc /\ Counts \in SUBSET Doc /\ Closed \in SUBSET Doc
    BY SetsOfDocs DEF IInv
  <2>4. /\ Weight(In', Loaded) = Weight(In, Loaded) + Factor(d) * Loaded[d]
        /\ Weight(Counts', Loaded) = Weight(Counts, Loaded) + Factor(d) * Loaded[d]
    BY <1>7, <2>3, SizesAreNat, WeightAdd
  <2>5. /\ Weight(In, Loaded) \in Nat /\ Weight(Counts, Loaded) \in Nat
        /\ Factor(d) * Loaded[d] \in Nat
    BY <2>3, SizesAreNat, WeightNat
  <2>6. Weight(In', Loaded) - Weight(Counts', Loaded) = Weight(In, Loaded) - Weight(Counts, Loaded)
    BY <2>4, <2>5
  <2>7. Accounted'
    BY <1>1, <1>8, <2>1, <2>6 DEF Accounted, ExcessOn, Weight, More
  <2>8. Rooms' = Rooms /\ Rooms' \in Nat
    BY <1>1, SizesAreNat DEF Rooms, IInv, TypeOK
  <2>9. Rooms' >= Rooms
    BY <2>8
  <2>10. QED
    BY <1>9, <2>1, <2>2, <2>7, <2>8, <2>9, BoundedStays
<1>12. QED
  BY <1>10, <1>11 DEF MInv

\* A future that fails closes its document without counting it.
LEMMA FutureFailsMemory ==
  ASSUME IInv, MInv, NEW d \in Doc, FutureFails(d)
  PROVE  MInv'
<1>1. /\ UNCHANGED <<output, size, queue, loaded, mem, main, batch, worker>>
      /\ future[d] = "reads" /\ future' = [future EXCEPT ![d] = "none"]
  BY DEF FutureFails, queues, counters
<1>2. d \in Reading /\ d \notin Elements(queue)
  BY <1>1 DEF Reading, IInv, Places
<1>3. future'[d] = "none" /\ \A e \in Doc : e # d => future'[e] = future[e]
  BY <1>1 DEF IInv, TypeOK
<1>4. /\ Elements(queue)' = Elements(queue) /\ Elements(loaded)' = Elements(loaded)
      /\ Unsubtracted' = Unsubtracted
  BY <1>1 DEF Elements, Unsubtracted
<1>5. In' = In /\ Counts' = Counts
  BY <1>1, <1>3, <1>4 DEF In, Counts
<1>6. Closed' = Closed \cup {d} /\ d \in Doc \ Closed
  BY <1>1, <1>2, <1>3, <1>4 DEF Closed
<1>7. Ahead' \subseteq Ahead
  BY <1>3, <1>4 DEF Ahead, Reading
<1>8. Rounds'
  BY <1>1, <1>3, <1>4, PlacesAreDocs DEF MInv, Rounds, IInv
<1>9. ASSUME ~output' PROVE Sizes' /\ Accounted' /\ Bounded'
  <2>1. Sizes /\ Accounted /\ Bounded
    BY <1>1, <1>9 DEF MInv
  <2>2. Sizes'
    BY <1>1, <2>1 DEF Sizes
  <2>3. Accounted'
    BY <1>1, <1>5, <1>6, <2>1, AccountedStays
  <2>4. Rooms' = Rooms /\ Rooms' \in Nat
    BY <1>1, SizesAreNat DEF Rooms, IInv, TypeOK
  <2>5. Rooms' >= Rooms
    BY <2>4
  <2>6. QED
    BY <1>7, <2>1, <2>2, <2>3, <2>4, <2>5, BoundedStays
<1>10. QED
  BY <1>8, <1>9 DEF MInv

\* A document is counted by the size it has by then: what that differs from what was
\* read by is what the listing got wrong.
LEMMA FutureCountsMemory ==
  ASSUME IInv, MInv, NEW d \in Doc, FutureCounts(d)
  PROVE  MInv'
<1>1. /\ UNCHANGED <<output, size, queue, loaded, main, batch, worker>>
      /\ future[d] = "counts" /\ future' = [future EXCEPT ![d] = "none"]
      /\ mem' = mem + Factor(d) * size[d]
  BY DEF FutureCounts, documents, queues, feeding
<1>2. d \notin Elements(queue)
  BY <1>1 DEF MInv, Rounds
<1>3. future'[d] = "none" /\ \A e \in Doc : e # d => future'[e] = future[e]
  BY <1>1 DEF IInv, TypeOK
<1>4. /\ Elements(queue)' = Elements(queue) /\ Elements(loaded)' = Elements(loaded)
      /\ Unsubtracted' = Unsubtracted
  BY <1>1 DEF Elements, Unsubtracted
<1>5. In' = In /\ Counts = Counts' \cup {d} /\ d \notin Counts' /\ Counts' \in SUBSET Doc
  BY <1>1, <1>3, <1>4 DEF In, Counts
<1>6. Closed' = Closed \cup {d} /\ d \in Doc \ Closed
  BY <1>1, <1>2, <1>3, <1>4 DEF Closed
<1>7. Ahead' = Ahead
  BY <1>1, <1>3, <1>4 DEF Ahead, Reading
<1>8. Rounds'
  BY <1>1, <1>3, <1>4, PlacesAreDocs DEF MInv, Rounds, IInv
<1>9. ASSUME ~output' PROVE Sizes' /\ Accounted' /\ Bounded'
  <2>1. Sizes /\ Accounted /\ Bounded
    BY <1>1, <1>9 DEF MInv
  <2>2. Sizes'
    BY <1>1, <2>1 DEF Sizes
  <2>3. In \in SUBSET Doc /\ Closed \in SUBSET Doc
    BY SetsOfDocs DEF IInv
  <2>4. Weight(Counts, Loaded) = Weight(Counts', Loaded) + Factor(d) * Loaded[d]
    BY <1>5, SizesAreNat, WeightAdd
  <2>5. /\ Weight(In, Loaded) \in Nat /\ Weight(Counts', Loaded) \in Nat
        /\ Factor(d) * Loaded[d] \in Nat /\ Factor(d) * Listed[d] \in Nat /\ mem \in Int
    BY <1>5, <2>3, SizesAreNat, WeightNat DEF IInv, TypeOK
  <2>6. /\ ExcessOn(Closed', Listed, Loaded) \in Nat /\ ExcessOn(Closed, Listed, Loaded) \in Nat
        /\ ExcessOn(Closed', Listed, Loaded) >= ExcessOn(Closed, Listed, Loaded)
        /\ ExcessOn(Closed', Listed, Loaded)
             >= ExcessOn(Closed, Listed, Loaded) + Factor(d) * Listed[d] - Factor(d) * Loaded[d]
    BY <1>6, <2>3, SizesAreNat, ExcessAdd
  <2>7. /\ ExcessOn(Closed', Loaded, Listed) \in Nat /\ ExcessOn(Closed, Loaded, Listed) \in Nat
        /\ ExcessOn(Closed', Loaded, Listed) >= ExcessOn(Closed, Loaded, Listed)
        /\ ExcessOn(Closed', Loaded, Listed)
             >= ExcessOn(Closed, Loaded, Listed) + Factor(d) * Loaded[d] - Factor(d) * Listed[d]
    BY <1>6, <2>3, SizesAreNat, ExcessAdd
  <2>8. \/ mem' = mem + Factor(d) * Listed[d]
        \/ mem' = mem + Factor(d) * Loaded[d]
    BY <1>1, <2>1 DEF Sizes
  <2>9. /\ mem <= Weight(In, Loaded) - Weight(Counts, Loaded) + ExcessOn(Closed, Listed, Loaded)
        /\ mem >= Weight(In, Loaded) - Weight(Counts, Loaded) - ExcessOn(Closed, Loaded, Listed)
    BY <2>1 DEF Accounted
  <2>10. mem' <= Weight(In, Loaded) - Weight(Counts', Loaded) + ExcessOn(Closed', Listed, Loaded)
    BY <2>4, <2>5, <2>6, <2>8, <2>9
  <2>11. mem' >= Weight(In, Loaded) - Weight(Counts', Loaded) - ExcessOn(Closed', Loaded, Listed)
    BY <2>4, <2>5, <2>7, <2>8, <2>9
  <2>12. Accounted'
    BY <1>5, <2>10, <2>11 DEF Accounted, ExcessOn, Weight, More
  <2>13. Rooms' = Rooms /\ Rooms' \in Nat
    BY <1>1, SizesAreNat DEF Rooms, IInv, TypeOK
  <2>14. Rooms' >= Rooms
    BY <2>13
  <2>15. QED
    BY <1>7, <2>1, <2>2, <2>12, <2>13, <2>14, BoundedStays
<1>10. QED
  BY <1>8, <1>9 DEF MInv
-----------------------------------------------------------------------------
(* The counter of the memory: the workers                                  *)

\* Steps of a worker that take nothing from the queues and subtract nothing.
LEMMA WorkerMemory ==
  ASSUME IInv, MInv, NEW w \in Worker,
         \/ WorkerChecks(w) \/ Count(w) \/ ReadFails(w) \/ Record(w) \/ OpenFails(w)
         \/ Process(w) \/ Fails(w) \/ UploadThrows(w) \/ Upload(w) \/ Restore(w)
         \/ PollLoaded(w) /\ loaded = <<>>
         \/ PollQueue(w) /\ queue = <<>>
  PROVE  MInv'
<1>1. /\ UNCHANGED <<output, queue, loaded, mem, main, batch, future>>
      /\ worker[w].pc # "uncount"
  BY DEF WorkerChecks, Count, ReadFails, Record, OpenFails, Process, Fails, UploadThrows, Upload,
         Restore, PollLoaded, PollQueue, At, documents, queues, counters, feeding
<1>2. PICK l : l # "uncount" /\ (l = "upload" => output) /\ (Goto(w, l) \/ Leaves(w, l))
  <2>1. CASE WorkerChecks(w)
    BY <2>1 DEF WorkerChecks
  <2>2. CASE Count(w)
    BY <2>2 DEF Count
  <2>3. CASE Record(w)
    BY <2>3 DEF Record
  <2>4. CASE Process(w)
    BY <2>4 DEF Process
  <2>5. CASE Upload(w)
    BY <2>5 DEF Upload
  <2>6. CASE PollLoaded(w) /\ loaded = <<>>
    BY <2>6 DEF PollLoaded
  <2>7. CASE PollQueue(w) /\ queue = <<>>
    BY <2>7 DEF PollQueue
  <2>8. CASE ReadFails(w) \/ OpenFails(w) \/ Fails(w) \/ UploadThrows(w) \/ Restore(w)
    BY <2>8 DEF ReadFails, OpenFails, Fails, UploadThrows, Restore
  <2>9. QED
    BY <2>1, <2>2, <2>3, <2>4, <2>5, <2>6, <2>7, <2>8
<1>3. worker'[w].pc = l /\ \A v \in Worker : v # w => worker'[v] = worker[v]
  BY <1>2 DEF Goto, Leaves, IInv, TypeOK
<1>4. Unsubtracted' = Unsubtracted
  BY <1>1, <1>2, <1>3 DEF Unsubtracted
<1>5. In' = In /\ Counts' = Counts /\ Closed' = Closed /\ Ahead' = Ahead
  BY <1>1, <1>4 DEF In, Counts, Closed, Ahead, Elements, Reading
<1>6. Rounds'
  BY <1>1 DEF MInv, Rounds, Elements
<1>7. ASSUME ~output' PROVE Sizes' /\ Accounted' /\ Bounded'
  <2>1. Sizes /\ Accounted /\ Bounded /\ ~output
    BY <1>1, <1>7 DEF MInv
  <2>2. \A v \in Worker : worker'[v].pc # "upload"
    BY <1>2, <1>3, <2>1 DEF Sizes
  <2>3. size' = size \/ size' = [size EXCEPT ![worker[w].doc] = Loaded[worker[w].doc]]
    <3>1. CASE Upload(w)
      BY <2>1, <3>1 DEF Upload, At, Sizes
    <3>2. CASE Record(w) \/ Restore(w)
      BY <3>2 DEF Record, Restore
    <3>3. CASE ReadFails(w) \/ OpenFails(w) \/ Process(w) \/ Fails(w) \/ UploadThrows(w)
      BY <3>3 DEF ReadFails, OpenFails, Process, Fails, UploadThrows
    <3>4. CASE WorkerChecks(w) \/ Count(w) \/ PollLoaded(w) \/ PollQueue(w)
      BY <3>4 DEF WorkerChecks, Count, PollLoaded, PollQueue, documents
    <3>5. QED
      BY <3>1, <3>2, <3>3, <3>4
  <2>4. \A d \in Doc : size'[d] \in {Listed[d], Loaded[d]}
    BY <2>1, <2>3 DEF Sizes, IInv, TypeOK
  <2>5. Sizes'
    BY <2>2, <2>4 DEF Sizes
  <2>6. Accounted'
    BY <1>1, <1>5, <2>1, AccountedStays
  <2>7. Rooms' = Rooms /\ Rooms' \in Nat
    BY <1>1, SizesAreNat DEF Rooms, IInv, TypeOK
  <2>8. Rooms' >= Rooms
    BY <2>7
  <2>9. QED
    BY <1>5, <2>1, <2>5, <2>6, <2>7, <2>8, BoundedStays
<1>8. QED
  BY <1>6, <1>7 DEF MInv

\* A loaded document that is taken is not subtracted yet, one that was not loaded will
\* not be counted at all.
LEMMA TakingMemory ==
  ASSUME IInv, MInv, NEW w \in Worker,
         (PollLoaded(w) /\ loaded # <<>>) \/ (PollQueue(w) /\ queue # <<>>)
  PROVE  MInv'
<1>1. /\ UNCHANGED <<output, size, mem, main, batch, future>>
      /\ worker[w].pc \in {"ask", "miss"}
  BY DEF PollLoaded, PollQueue, At, documents, counters, feeding
<1>2. Counts' = Counts /\ Reading' = Reading
  BY <1>1 DEF Counts, Reading
<1>3. /\ In' = In /\ Ahead' \subseteq Ahead /\ Elements(queue)' \subseteq Elements(queue)
      /\ Closed' = Closed \/ \E d \in Doc \ Closed : Closed' = Closed \cup {d}
      /\ \A v \in Worker : worker'[v].pc # "upload" \/ worker'[v] = worker[v]
  <2>1. CASE PollLoaded(w) /\ loaded # <<>>
    <3> DEFINE d == Head(loaded)
    <3>1. /\ worker' = [worker EXCEPT ![w] = [pc |-> "uncount", doc |-> d]]
          /\ loaded' = Tail(loaded) /\ queue' = queue
      BY <2>1 DEF PollLoaded
    <3>2. d \in Elements(loaded) /\ Elements(loaded') = Elements(loaded) \ {d}
      BY <2>1, <3>1, Taken DEF IInv, TypeOK
    <3>3. Elements(loaded)' = Elements(loaded) \ {d} /\ Elements(queue)' = Elements(queue)
      BY <3>1, <3>2 DEF Elements
    <3> HIDE DEF d
    <3>4. /\ worker'[w].pc = "uncount" /\ worker'[w].doc = d
          /\ \A v \in Worker : v # w => worker'[v] = worker[v]
      BY <3>1 DEF IInv, TypeOK
    <3>5. Unsubtracted' = Unsubtracted \cup {d}
      BY <1>1, <3>4 DEF Unsubtracted
    <3>6. In' = In /\ Ahead' \subseteq Ahead
      BY <1>2, <3>2, <3>3, <3>5 DEF In, Ahead
    <3>7. Closed' = Closed
      BY <1>1, <3>3 DEF Closed
    <3>8. QED
      BY <3>3, <3>4, <3>6, <3>7
  <2>2. CASE PollQueue(w) /\ queue # <<>>
    <3> DEFINE d == Head(queue)
    <3>1. /\ worker' = [worker EXCEPT ![w] = [pc |-> "countread", doc |-> d]]
          /\ queue' = Tail(queue) /\ loaded' = loaded
      BY <2>2 DEF PollQueue
    <3>2. d \in Elements(queue) /\ d \in Doc /\ Elements(queue') = Elements(queue) \ {d}
      BY <2>2, <3>1, Taken DEF IInv, TypeOK
    <3>3. Elements(queue)' = Elements(queue) \ {d} /\ Elements(loaded)' = Elements(loaded)
      <4>1. Elements(queue)' = Elements(queue) \ {d}
        BY <3>2 DEF Elements
      <4>2. Elements(loaded)' = Elements(loaded)
        BY <3>1 DEF Elements
      <4>3. QED
        BY <4>1, <4>2
    <3> HIDE DEF d
    <3>4. /\ worker'[w].pc = "countread"
          /\ \A v \in Worker : v # w => worker'[v] = worker[v]
      BY <3>1 DEF IInv, TypeOK
    <3>5. Unsubtracted' = Unsubtracted
      BY <1>1, <3>4 DEF Unsubtracted
    <3>6. In' = In /\ Ahead' \subseteq Ahead
      BY <1>2, <3>3, <3>5 DEF In, Ahead
    <3>7. future[d] = "none"
      BY <3>2 DEF MInv, Rounds
    <3>8. Closed' = Closed \cup {d} /\ d \in Doc \ Closed
      BY <1>1, <3>2, <3>3, <3>7 DEF Closed
    <3>9. QED
      BY <3>3, <3>4, <3>6, <3>8
  <2>3. QED
    BY <2>1, <2>2
<1>4. Rounds'
  BY <1>1, <1>3 DEF MInv, Rounds
<1>5. ASSUME ~output' PROVE Sizes' /\ Accounted' /\ Bounded'
  <2>1. Sizes /\ Accounted /\ Bounded
    BY <1>1, <1>5 DEF MInv
  <2>2. Sizes'
    BY <1>1, <1>3, <2>1 DEF Sizes
  <2>3. Accounted'
    BY <1>1, <1>2, <1>3, <2>1, AccountedStays
  <2>4. Rooms' = Rooms /\ Rooms' \in Nat
    BY <1>1, SizesAreNat DEF Rooms, IInv, TypeOK
  <2>5. Rooms' >= Rooms
    BY <2>4
  <2>6. QED
    BY <1>3, <2>1, <2>2, <2>3, <2>4, <2>5, BoundedStays
<1>6. QED
  BY <1>4, <1>5 DEF MInv

\* A worker subtracts what was read.
LEMMA UncountMemory ==
  ASSUME IInv, MInv, NEW w \in Worker, Uncount(w)
  PROVE  MInv'
<1> DEFINE d == worker[w].doc
<1>1. /\ UNCHANGED <<output, size, queue, loaded, main, batch, future>>
      /\ worker[w].pc = "uncount" /\ Goto(w, "count")
      /\ mem' = mem - Factor(d) * Loaded[d]
  BY DEF Uncount, At, documents, queues, feeding
<1>2. /\ worker'[w].pc = "count"
      /\ \A v \in Worker : v # w => worker'[v] = worker[v]
  BY <1>1 DEF Goto, IInv, TypeOK
<1>3. d # NoDoc /\ d \in Doc /\ d \in Held
  BY <1>1 DEF IInv, TypeOK, Holders, Idle, Held
<1>4. \A v \in Worker : v # w => worker[v].doc # d
  BY <1>3 DEF IInv, Holders
<1>5. Unsubtracted' = Unsubtracted \ {d} /\ d \in Unsubtracted
  BY <1>1, <1>2, <1>4 DEF Unsubtracted
<1> HIDE DEF d
<1>6. d \notin Elements(loaded)
  BY <1>3 DEF IInv, Places
<1>7. In = In' \cup {d} /\ d \notin In'
  <2>1. Elements(loaded)' = Elements(loaded)
    BY <1>1 DEF Elements
  <2>2. QED
    BY <1>5, <1>6, <2>1 DEF In
<1>8. Counts' = Counts /\ Closed' = Closed /\ Ahead' = Ahead
  BY <1>1 DEF Counts, Closed, Ahead, Elements, Reading
<1>9. Rounds'
  BY <1>1 DEF MInv, Rounds, Elements
<1>10. ASSUME ~output' PROVE Sizes' /\ Accounted' /\ Bounded'
  <2>1. Sizes /\ Accounted /\ Bounded
    BY <1>1, <1>10 DEF MInv
  <2>2. Sizes'
    BY <1>1, <1>2, <2>1 DEF Sizes
  <2>3. In \in SUBSET Doc /\ Counts \in SUBSET Doc /\ Closed \in SUBSET Doc /\ In' \in SUBSET Doc
    BY <1>7, SetsOfDocs DEF IInv
  <2>4. Weight(In, Loaded) = Weight(In', Loaded) + Factor(d) * Loaded[d]
    BY <1>3, <1>7, <2>3, SizesAreNat, WeightAdd
  <2>5. /\ Weight(In', Loaded) \in Nat /\ Weight(Counts, Loaded) \in Nat
        /\ Factor(d) * Loaded[d] \in Nat /\ mem \in Int
        /\ ExcessOn(Closed, Listed, Loaded) \in Nat /\ ExcessOn(Closed, Loaded, Listed) \in Nat
    BY <1>3, <2>3, SizesAreNat, WeightNat, ExcessBounds DEF IInv, TypeOK
  <2>6. /\ mem <= Weight(In, Loaded) - Weight(Counts, Loaded) + ExcessOn(Closed, Listed, Loaded)
        /\ mem >= Weight(In, Loaded) - Weight(Counts, Loaded) - ExcessOn(Closed, Loaded, Listed)
    BY <2>1 DEF Accounted
  <2>7. /\ mem' <= Weight(In', Loaded) - Weight(Counts, Loaded) + ExcessOn(Closed, Listed, Loaded)
        /\ mem' >= Weight(In', Loaded) - Weight(Counts, Loaded) - ExcessOn(Closed, Loaded, Listed)
    BY <1>1, <2>4, <2>5, <2>6
  <2>8. Accounted'
    BY <1>8, <2>7 DEF Accounted, ExcessOn, Weight, More
  <2>9. Rooms' = Rooms /\ Rooms' \in Nat
    BY <1>1, SizesAreNat DEF Rooms, IInv, TypeOK
  <2>10. Rooms' >= Rooms
    BY <2>9
  <2>11. QED
    BY <1>8, <2>1, <2>2, <2>8, <2>9, <2>10, BoundedStays
<1>11. QED
  BY <1>9, <1>10 DEF MInv
-----------------------------------------------------------------------------
(* The counter of the memory: the theorems                                 *)

\* Nothing is ahead and nothing counted at the start.
LEMMA MemoryInit == Init => MInv
<1> SUFFICES ASSUME Init PROVE MInv
  OBVIOUS
<1>1. Rounds
  BY DEF Init, Rounds, Elements, Doc
<1>2. Sizes
  BY DEF Init, Sizes
<1>3. In = {} /\ Counts = {} /\ Closed = {} /\ Ahead = {}
  BY DEF Init, In, Counts, Closed, Ahead, Elements, Unsubtracted, Reading, Doc
<1>4. Weight({}, Loaded) = 0 /\ Weight({}, Listed) = 0
  BY SumEmpty DEF Weight
<1>5. ExcessOn({}, Listed, Loaded) = 0 /\ ExcessOn({}, Loaded, Listed) = 0
  <2>1. More({}, Listed, Loaded) = {} /\ More({}, Loaded, Listed) = {}
    BY DEF More
  <2>2. QED
    BY <1>4, <2>1 DEF ExcessOn
<1>6. Accounted
  BY <1>3, <1>4, <1>5 DEF Init, Accounted
<1>7. Bounded
  <2>1. Rooms = Futures
    BY DEF Init, Rooms, Filling
  <2>2. /\ Futures \in Nat /\ Largest \in Nat /\ MaximumMemory \in Nat /\ UnderListed \in Nat
        /\ Futures * Largest \in Nat
    BY SizesAreNat, LargestBounds, Products
  <2>3. QED
    BY <1>3, <1>4, <2>1, <2>2 DEF Bounded
<1>8. QED
  BY <1>1, <1>2, <1>6, <1>7 DEF MInv

\* Every step keeps the invariant of the counter.
LEMMA MemoryNext == IInv /\ MInv /\ [Next]_vars => MInv'
<1> SUFFICES ASSUME IInv, MInv, [Next]_vars PROVE MInv'
  OBVIOUS
<1>1. CASE MainNext \/ Interrupt \/ UNCHANGED vars
  BY <1>1, MainMemory, IssueMemory DEF MainNext
<1>2. ASSUME NEW d \in Doc, FutureNext(d) PROVE MInv'
  BY <1>2, FutureLoadsMemory, FutureFailsMemory, FutureCountsMemory DEF FutureNext
<1>3. ASSUME NEW w \in Worker, WorkerNext(w) PROVE MInv'
  <2>1. CASE \/ WorkerChecks(w) \/ Count(w) \/ ReadFails(w) \/ Record(w) \/ OpenFails(w)
             \/ Process(w) \/ Fails(w) \/ UploadThrows(w) \/ Upload(w) \/ Restore(w)
    BY <2>1, WorkerMemory
  <2>2. CASE PollLoaded(w)
    BY <2>2, WorkerMemory, TakingMemory
  <2>3. CASE PollQueue(w)
    BY <2>3, WorkerMemory, TakingMemory
  <2>4. QED
    BY <1>3, <2>1, <2>2, <2>3, UncountMemory DEF WorkerNext
<1>4. QED
  BY <1>1, <1>2, <1>3 DEF Next

\* The counter accounts for what is read ahead, at every moment of a run.
THEOREM MemoryInvariant == Spec => [](IInv /\ MInv)
<1>1. Init => IInv /\ MInv
  BY InvariantInit, MemoryInit
<1>2. (IInv /\ MInv) /\ [Next]_vars => (IInv /\ MInv)'
  BY InvariantNext, MemoryNext
<1>3. QED
  BY <1>1, <1>2, PTL DEF Spec

\* Without an output, what is read ahead exceeds the maximum by one round of futures at
\* most, and by what the listing left out (MemoryBounded).
THEOREM ReadAheadBounded == Spec => []MemoryBounded
<1>1. ASSUME IInv, MInv, ~output
      PROVE  Weight(Elements(loaded) \cup Reading, Loaded)
               <= MaximumMemory + Futures * Largest + UnderListed
  <2>1. Bounded
    BY <1>1 DEF MInv
  <2>2. /\ Futures \in Nat /\ Largest \in Nat /\ MaximumMemory \in Nat /\ UnderListed \in Nat
        /\ Rooms \in Nat /\ Rooms <= Futures
    BY <1>1, SizesAreNat, LargestBounds DEF Rooms, IInv, TypeOK
  <2>3. /\ Rooms * Largest <= Futures * Largest
        /\ Rooms * Largest \in Nat /\ Futures * Largest \in Nat
    BY <2>2, Products
  <2>4. Weight(Ahead, Loaded) \in Nat
    BY <1>1, SetsOfDocs, SizesAreNat, WeightNat DEF IInv
  <2>5. Weight(Ahead, Loaded) <= MaximumMemory + Futures * Largest + UnderListed
    BY <2>1, <2>2, <2>3, <2>4 DEF Bounded
  <2>6. QED
    BY <2>5 DEF Ahead
<1>2. IInv /\ MInv => MemoryBounded
  BY <1>1 DEF MemoryBounded
<1>3. QED
  BY <1>2, MemoryInvariant, PTL

\* Between rounds, and once what was taken is subtracted, the counter is what is loaded,
\* up to what the listing got wrong (CounterAgrees).
THEOREM CounterIsLoaded == Spec => []CounterAgrees
<1>1. ASSUME IInv, MInv, ~output, \A d \in Doc : future[d] = "none",
             \A w \in Worker : ~At(w, "uncount")
      PROVE  /\ mem <= Weight(Elements(loaded), Loaded) + OverListed
             /\ mem >= Weight(Elements(loaded), Loaded) - UnderListed
  <2>1. Counts = {} /\ In = Elements(loaded)
    BY <1>1 DEF Counts, In, Unsubtracted, At
  <2>2. Weight(Counts, Loaded) = 0
    BY <2>1, SumEmpty DEF Weight
  <2>3. Closed \in SUBSET Doc /\ In \in SUBSET Doc
    BY <1>1, SetsOfDocs DEF IInv
  <2>4. /\ ExcessOn(Closed, Listed, Loaded) <= OverListed
        /\ ExcessOn(Closed, Loaded, Listed) <= UnderListed
        /\ ExcessOn(Closed, Listed, Loaded) \in Nat /\ ExcessOn(Closed, Loaded, Listed) \in Nat
    BY <2>3, SizesAreNat, ExcessBounds DEF OverListed, UnderListed
  <2>5. Weight(In, Loaded) \in Nat /\ mem \in Int /\ OverListed \in Nat /\ UnderListed \in Nat
    BY <1>1, <2>3, SizesAreNat, WeightNat DEF IInv, TypeOK
  <2>6. Accounted
    BY <1>1 DEF MInv
  <2>7. /\ mem <= Weight(In, Loaded) + OverListed
        /\ mem >= Weight(In, Loaded) - UnderListed
    BY <2>2, <2>4, <2>5, <2>6 DEF Accounted
  <2>8. QED
    BY <2>1, <2>7
<1>2. IInv /\ MInv => CounterAgrees
  BY <1>1 DEF CounterAgrees
<1>3. QED
  BY <1>2, MemoryInvariant, PTL
=============================================================================
