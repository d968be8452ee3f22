-------------------------- MODULE SlurmJobs_proofs --------------------------
(***************************************************************************)
(* Proofs about the life of a job in Slurm, for every set of jobs and      *)
(* nodes and any number of launches.                                       *)
(***************************************************************************)
EXTENDS SlurmJobs, TLAPS

\* The job is over for good: only an administrator lets it run again.
Final(r) == r.state \in Finished \cup {"PURGED"} \/ (r.state = "PENDING" /\ r.held)

\* A job has a node only while it runs or completes.
RecordShape(r) ==
  /\ r.completing => r.alloc
  /\ r.alloc => r.state = "RUNNING" \/ r.completing
  /\ r.completing => r.state \in {"PENDING"} \cup Finished
  /\ r.alloc => r.host \in Node
  /\ r.state \in {"none", "RUNNING"} => ~r.held

\* slurmctld counts job j on node n.
Here(j, n) == job[j].alloc /\ job[j].host = n

\* The launches of j for n, on their way or accepted, will come to nothing.
Quiet(n, j) ==
  /\ \A m \in net : m.type = "launch" /\ m.job = j /\ m.node = n => m.time <= revoked[n][j]
  /\ \A s \in steps : s.job = j /\ s.node = n =>
       /\ s.phase # "checked"
       /\ s.phase = "accepted" => s.run <= revoked[n][j]

Records ==
  /\ \A j \in Job : RecordShape(job[j])
  /\ \A j \in Job : job[j].alloc => node[job[j].host] # "down"
  /\ \A j \in Job \ overtaken : job[j].state = "RUNNING" => job[j].alloc

\* Requests carry the number of the present run, and nothing else is being launched.
Times ==
  /\ \A m \in net :
       /\ m.type \in {"launch", "terminate", "abort"} => m.time = job[m.job].runs
       /\ m.type = "terminate" => m.start = m.time
       /\ m.type = "abort" => m.start <= m.time
  /\ \A s \in steps :
       /\ s.run <= job[s.job].runs
       /\ s.phase \in Launching => s.run = job[s.job].runs

\* One launch, or one process, for each run.
Once ==
  /\ \A s, t \in steps : s.job = t.job /\ s.run = t.run => s = t
  /\ \A l, m \in net : l.type = "launch" /\ m.type = "launch" /\ l.job = m.job => l = m
  /\ \A m \in net, s \in steps : m.type = "launch" /\ m.job = s.job => s.run # m.time

\* What runs, or may yet start, is the present run on its node, or is on a
\* node that was given up.  This and what follows hold of a job until a kill
\* request has overtaken one of its launches.
Placed ==
  /\ \A s \in steps : s.job \notin overtaken =>
       \/ node[s.node] = "down"
       \/ Here(s.job, s.node) /\ s.run = job[s.job].runs
       \/ s.phase = "accepted" /\ s.run <= revoked[s.node][s.job]
  /\ \A m \in net : m.type = "launch" /\ m.job \notin overtaken =>
       \/ node[m.node] = "down"
       \/ Here(m.job, m.node)
       \/ m.time <= revoked[m.node][m.job]

\* A node that says it is done with a job is.
Answers ==
  /\ \A m \in net : m.type = "epilog" /\ m.job \notin overtaken =>
       /\ Active(m.node, m.job) = {}
       /\ <<m.node, m.job>> \notin waiter
       /\ Quiet(m.node, m.job)
  /\ \A n \in Node, j \in Job \ overtaken : <<n, j>> \in waiter =>
       /\ node[n] = "down" \/ (job[j].completing /\ job[j].host = n)
       /\ Quiet(n, j)

\* Nothing that would end an earlier run is under way to the node of a running job.
NoneLate ==
  \A m \in net : /\ m.type \in {"terminate", "abort", "epilog"}
                 /\ job[m.job].state = "RUNNING" /\ m.job \notin overtaken
    => m.node # job[m.job].host

IInv == TypeOK /\ Records /\ Times /\ Once /\ Placed /\ Answers /\ NoneLate
-----------------------------------------------------------------------------
(* What handlers make of a job record.                                     *)

\* Record q may follow r when the job is not launched.
Follows(r, q) ==
  /\ q \in JobRecord
  /\ RecordShape(q)
  /\ q.runs = r.runs
  /\ q.alloc => r.alloc /\ q.host = r.host
  /\ q.state = "RUNNING" => r.state = "RUNNING"
  /\ Final(r) => Final(q)
  /\ q.state = "none" => r.state = "none"
  /\ r.state = "none" => q.state \in {"none", "PENDING"} /\ ~q.held

\* The job keeps its node, or has none.
Stays(r, q) == Follows(r, q) /\ q.alloc = r.alloc

\* The job has no node afterwards.
Frees(r, q) == Follows(r, q) /\ ~q.alloc

USE DEF Finished

\* A record that is left alone.
LEMMA SameRecord ==
  ASSUME NEW r \in JobRecord, RecordShape(r)
  PROVE  Stays(r, r)
BY DEF Stays, Follows, RecordShape, Final, JobRecord

\* Ended(): the job keeps its node until the node has answered.
LEMMA EndedRecord ==
  ASSUME NEW r \in JobRecord, RecordShape(r), r.state = "RUNNING",
         NEW s \in {"PENDING", "CANCELLED", "DONE"}
  PROVE  Stays(r, Ended(r, s)) /\ Ended(r, s).state = s
BY DEF Stays, Follows, RecordShape, Final, JobRecord, Ended

\* job_complete(): afterwards the job does not run, and still has its node.
LEMMA CompletedRecord ==
  ASSUME NEW r \in JobRecord, RecordShape(r), NEW b \in BOOLEAN
  PROVE  Stays(r, Completed(r, b)) /\ Completed(r, b).state # "RUNNING"
BY EndedRecord, SameRecord DEF Completed

\* The last node of a job is done: the job has none left.
LEMMA CleanedRecord ==
  ASSUME NEW r \in JobRecord, RecordShape(r), r.alloc
  PROVE  Frees(r, Cleaned(r)) /\ Cleaned(r).state = r.state
BY DEF Frees, Follows, RecordShape, Final, JobRecord, Cleaned

\* A job whose node is given up has no node left, whatever it was doing.
LEMMA FailedRecord ==
  ASSUME NEW r \in JobRecord, RecordShape(r)
  PROVE  Frees(r, NodeFailed(r)) /\ NodeFailed(r).state # "RUNNING"
BY DEF Frees, Follows, RecordShape, Final, JobRecord, Cleaned, NodeFailed

\* A requeue after a failed launch ends the run; the job waits, held.
LEMMA RequeuedRecord ==
  ASSUME NEW r \in JobRecord, RecordShape(r)
  PROVE  Stays(r, Requeued(r)) /\ Requeued(r).state # "RUNNING"
BY DEF Stays, Follows, RecordShape, Final, JobRecord, Cleaned, Requeued, Ended

\* A cancelled job does not run again.
LEMMA CancelledRecord ==
  ASSUME NEW r \in JobRecord, RecordShape(r), r.state \in {"PENDING", "RUNNING"}
  PROVE  Stays(r, Cancelled(r)) /\ Cancelled(r).state # "RUNNING"
BY DEF Stays, Follows, RecordShape, Final, JobRecord, Cancelled, Ended
-----------------------------------------------------------------------------
(* Steps that start nothing.                                               *)

\* Request m to end a job may be sent.
Sendable(m) ==
  /\ m \in Message
  /\ \/ m.type = "requeue"
     \/ /\ m.type \in {"terminate", "abort"}
        /\ m.time = job[m.job].runs
        /\ m.type = "terminate" => m.start = m.time
        /\ m.start <= m.time
        /\ job'[m.job].state = "RUNNING" /\ m.job \notin overtaken
             => m.node # job'[m.job].host

\* No job is launched, accepted or revoked; a job that loses its node loses it
\* because the node is given up or has said that it is done.
StartsNothing ==
  /\ job' = [j \in Job |-> job'[j]]
  /\ \A j \in Job : Follows(job[j], job'[j])
  /\ \A j \in Job : job[j].alloc /\ ~job'[j].alloc =>
       \/ node'[job[j].host] = "down"
       \/ \E m \in net : m.type = "epilog" /\ m.job = j /\ m.node = job[j].host
  /\ node' \in [Node -> {"up", "noresp", "down"}]
  /\ \A n \in Node : node[n] = "down" => node'[n] = "down"
  /\ \A j \in Job : job'[j].alloc => node'[job'[j].host] # "down"
  /\ \A j \in Job \ overtaken : job'[j].state = "RUNNING" => job'[j].alloc
  /\ agent' \subseteq agent
  /\ \A m \in net' : m \in net \/ Sendable(m)
  /\ steps' \subseteq steps
  /\ waiter' \subseteq waiter
  /\ UNCHANGED <<revoked, overtaken>>
  /\ rebooted' \subseteq Node

\* Such a step keeps the invariant.
LEMMA StartsNothingKeeps ==
  ASSUME IInv, StartsNothing
  PROVE  IInv'
<1> USE DEF IInv
<1>1. TypeOK'
  BY DEF TypeOK, StartsNothing, Follows, Sendable
<1>2. Records'
  BY DEF Records, StartsNothing, Follows
<1>3. /\ \A j \in Job : job'[j].runs = job[j].runs
      /\ \A m \in net : m \in Message
      /\ \A s \in steps : s \in Stepd
  BY DEF StartsNothing, Follows, TypeOK
<1>4. Times'
  BY <1>3 DEF Times, StartsNothing, Sendable, Message, Stepd
<1>5. Once'
  BY <1>3 DEF Once, StartsNothing, Sendable, Message, Stepd
<1>6. ASSUME NEW n \in Node, NEW j \in Job, Here(j, n)
      PROVE  \/ node'[n] = "down"
             \/ Here(j, n)'
             \/ \E m \in net : m.type = "epilog" /\ m.job = j /\ m.node = n
  BY <1>6 DEF Here, StartsNothing, Follows
<1>7. ASSUME NEW n \in Node, NEW j \in Job, Quiet(n, j)
      PROVE  Quiet(n, j)'
  BY <1>7 DEF Quiet, StartsNothing, Sendable
<1>8. Placed'
  <2>1. ASSUME NEW s \in steps', s.job \notin overtaken'
        PROVE  \/ node'[s.node] = "down"
               \/ Here(s.job, s.node)' /\ s.run = job'[s.job].runs
               \/ s.phase = "accepted" /\ s.run <= revoked'[s.node][s.job]
    <3>1. s \in steps /\ s.job \in Job /\ s.node \in Node /\ s.job \notin overtaken
      BY <1>3, <2>1 DEF StartsNothing, Stepd
    <3>2. CASE node[s.node] = "down"
      BY <3>1, <3>2 DEF StartsNothing
    <3>3. CASE s.phase = "accepted" /\ s.run <= revoked[s.node][s.job]
      BY <3>1, <3>3 DEF StartsNothing
    <3>4. CASE Here(s.job, s.node) /\ s.run = job[s.job].runs
      <4>1. CASE \E m \in net : m.type = "epilog" /\ m.job = s.job /\ m.node = s.node
        <5>1. Active(s.node, s.job) = {} /\ Quiet(s.node, s.job)
          BY <3>1, <4>1 DEF Answers
        <5>2. s.phase = "accepted" /\ s.run <= revoked[s.node][s.job]
          BY <3>1, <5>1 DEF Active, Quiet
        <5>3. QED
          BY <5>2 DEF StartsNothing
      <4>2. QED
        BY <1>3, <1>6, <3>1, <3>4, <4>1
    <3>5. QED
      BY <3>1, <3>2, <3>3, <3>4 DEF Placed
  <2>2. ASSUME NEW m \in net', m.type = "launch", m.job \notin overtaken'
        PROVE  \/ node'[m.node] = "down"
               \/ Here(m.job, m.node)'
               \/ m.time <= revoked'[m.node][m.job]
    <3>1. m \in net /\ m.job \in Job /\ m.node \in Node /\ m.job \notin overtaken
      BY <1>3, <2>2 DEF StartsNothing, Sendable, Message
    <3>2. CASE \E e \in net : e.type = "epilog" /\ e.job = m.job /\ e.node = m.node
      BY <2>2, <3>1, <3>2 DEF Answers, Quiet, StartsNothing
    <3>3. QED
      BY <1>6, <2>2, <3>1, <3>2 DEF Placed, StartsNothing
  <2>3. QED
    BY <2>1, <2>2 DEF Placed
<1>9. Answers'
  <2>1. ASSUME NEW m \in net', m.type = "epilog", m.job \notin overtaken'
        PROVE  /\ Active(m.node, m.job)' = {}
               /\ <<m.node, m.job>> \notin waiter'
               /\ Quiet(m.node, m.job)'
    <3>1. m \in net /\ m.job \in Job /\ m.node \in Node /\ m.job \notin overtaken
      BY <1>3, <2>1 DEF StartsNothing, Sendable, Message
    <3>2. QED
      BY <1>7, <2>1, <3>1 DEF Answers, Active, StartsNothing
  <2>2. ASSUME NEW n \in Node, NEW j \in Job \ overtaken', <<n, j>> \in waiter'
        PROVE  /\ node'[n] = "down" \/ (job'[j].completing /\ job'[j].host = n)
               /\ Quiet(n, j)'
    <3>1. <<n, j>> \in waiter /\ j \in Job \ overtaken
      BY <2>2 DEF StartsNothing
    <3>2. Quiet(n, j)'
      BY <1>7, <3>1 DEF Answers
    <3>3. CASE job[j].completing /\ job[j].host = n
      <4>1. job[j].alloc /\ job[j].state # "RUNNING"
        BY <3>3 DEF Records, RecordShape
      <4>2. ~ \E m \in net : m.type = "epilog" /\ m.job = j /\ m.node = n
        BY <3>1 DEF Answers
      <4>3. CASE job'[j].alloc
        BY <3>2, <3>3, <4>1, <4>3 DEF StartsNothing, Follows, RecordShape
      <4>4. QED
        BY <3>2, <3>3, <4>1, <4>2, <4>3 DEF StartsNothing
    <3>4. QED
      BY <3>1, <3>2, <3>3 DEF Answers, StartsNothing
  <2>3. QED
    BY <2>1, <2>2 DEF Answers
<1>10. NoneLate'
  <2> SUFFICES ASSUME NEW m \in net', m.type \in {"terminate", "abort", "epilog"},
                      job'[m.job].state = "RUNNING", m.job \notin overtaken'
               PROVE  m.node # job'[m.job].host
    BY DEF NoneLate
  <2>1. CASE m \in net
    <3>1. m.job \in Job \ overtaken
      BY <1>3, <2>1 DEF Message, StartsNothing
    <3>2. job'[m.job].alloc /\ job[m.job].state = "RUNNING"
      BY <3>1 DEF StartsNothing, Follows
    <3>3. job'[m.job].host = job[m.job].host
      BY <3>1, <3>2 DEF StartsNothing, Follows
    <3>4. QED
      BY <2>1, <3>1, <3>2, <3>3 DEF NoneLate
  <2>2. CASE m \notin net
    BY <2>2 DEF StartsNothing, Sendable
  <2>3. QED
    BY <2>1, <2>2
<1>11. QED
  BY <1>1, <1>2, <1>4, <1>5, <1>8, <1>9, <1>10

\* The request that ends the run of a job may be sent.
LEMMA StopsSendable ==
  ASSUME IInv, NEW j \in Job, NEW q, job'[j] = q, NEW m \in Stops(j, job[j], q)
  PROVE  Sendable(m)
<1>1. /\ job[j] \in JobRecord /\ RecordShape(job[j])
      /\ job[j].state = "RUNNING" /\ q.state # "RUNNING" /\ job[j].alloc
      /\ m = Kill("terminate", j, job[j], job[j].host)
  BY DEF IInv, TypeOK, Records, Stops
<1>2. job[j].host \in Node /\ job[j].runs \in Time
  BY <1>1 DEF RecordShape, JobRecord
<1>3. m = [type |-> "terminate", job |-> j, node |-> job[j].host, time |-> job[j].runs,
           start |-> job[j].runs]
  BY <1>1 DEF Kill
<1>4. QED
  BY <1>1, <1>2, <1>3, SlurmAssumption DEF Sendable, Message, Time

\* A handler that changes the record of one job, and sends what that sends.
LEMMA UpdateStartsNothing ==
  ASSUME IInv, NEW j \in Job, NEW q, NEW gone,
         Stays(job[j], q), Update(j, q, gone),
         node' \in [Node -> {"up", "noresp", "down"}],
         \A n \in Node : node'[n] = "down" <=> node[n] = "down",
         agent' \subseteq agent, steps' \subseteq steps,
         UNCHANGED <<waiter, revoked, rebooted, overtaken>>
  PROVE  StartsNothing
<1>1. /\ job \in [Job -> JobRecord] /\ rebooted \subseteq Node
      /\ job' = [job EXCEPT ![j] = q]
      /\ net' = (net \ gone) \cup Stops(j, job[j], q)
  BY DEF IInv, TypeOK, Update
<1>2. \A i \in Job : job'[i] = IF i = j THEN q ELSE job[i]
  BY <1>1
<1>3. ASSUME NEW i \in Job PROVE Stays(job[i], job'[i])
  BY <1>1, <1>2, SameRecord DEF IInv, Records
<1>4. \A m \in net' : m \in net \/ Sendable(m)
  BY <1>1, <1>2, StopsSendable
<1>5. ASSUME NEW i \in Job, job'[i].alloc PROVE node'[job'[i].host] # "down"
  <2>1. job[i].alloc /\ job'[i].host = job[i].host
    BY <1>3, <1>5 DEF Stays, Follows
  <2>2. job[i].host \in Node /\ node[job[i].host] # "down"
    BY <2>1 DEF IInv, Records, RecordShape
  <2>3. QED
    BY <2>1, <2>2
<1>6. \A i \in Job \ overtaken : job'[i].state = "RUNNING" => job'[i].alloc
  BY <1>3 DEF IInv, Records, Stays, Follows
<1>7. QED
  BY <1>1, <1>2, <1>3, <1>4, <1>5, <1>6 DEF StartsNothing, Stays

\* A step that leaves the records alone and sends no request.
LEMMA IdleStartsNothing ==
  ASSUME IInv, UNCHANGED <<job, agent, revoked, overtaken>>,
         node' \in [Node -> {"up", "noresp", "down"}],
         \A n \in Node : node'[n] = "down" <=> node[n] = "down",
         \A m \in net' : m \in net \/ Sendable(m),
         steps' \subseteq steps, waiter' \subseteq waiter, rebooted' \subseteq Node
  PROVE  StartsNothing
<1>1. job \in [Job -> JobRecord]
  BY DEF IInv, TypeOK
<1>2. ASSUME NEW i \in Job PROVE Stays(job[i], job'[i])
  BY <1>1, SameRecord DEF IInv, Records
<1>3. ASSUME NEW i \in Job, job'[i].alloc PROVE node'[job'[i].host] # "down"
  BY <1>3 DEF IInv, Records, RecordShape
<1>4. \A i \in Job \ overtaken : job'[i].state = "RUNNING" => job'[i].alloc
  BY DEF IInv, Records
<1>5. QED
  BY <1>1, <1>2, <1>3, <1>4 DEF StartsNothing, Stays
-----------------------------------------------------------------------------
(* The handlers of slurmctld, except the launch.                           *)

\* A job is submitted: it has no node yet.
LEMMA SubmitStartsNothing ==
  ASSUME IInv, NEW j \in Job, Submit(j)
  PROVE  StartsNothing
<1> DEFINE q == [job[j] EXCEPT !.state = "PENDING"]
<1>1. job[j] \in JobRecord /\ RecordShape(job[j]) /\ job[j].state = "none"
  BY DEF IInv, TypeOK, Records, Submit
<1>2. Stays(job[j], q)
  BY <1>1 DEF Stays, Follows, RecordShape, Final, JobRecord
<1>3. Update(j, q, {})
  BY <1>1 DEF Submit, Update, Stops
<1>4. QED
  BY <1>2, <1>3, UpdateStartsNothing DEF IInv, TypeOK, Submit, daemons

\* The agent gives a launch up: the run ends, the node is not DOWN yet.
LEMMA LaunchTimeoutStartsNothing ==
  ASSUME IInv, NEW j \in Job, LaunchTimeout(j)
  PROVE  StartsNothing
<1>1. job[j] \in JobRecord /\ RecordShape(job[j]) /\ node \in [Node -> {"up", "noresp", "down"}]
  BY DEF IInv, TypeOK, Records
<1>2. Stays(job[j], Completed(job[j], TRUE))
  BY <1>1, CompletedRecord
<1>3. /\ Update(j, Completed(job[j], TRUE), {})
      /\ agent' \subseteq agent /\ steps' = steps
      /\ UNCHANGED <<waiter, revoked, rebooted, overtaken>>
  BY DEF LaunchTimeout, daemons
<1>4. /\ node' \in [Node -> {"up", "noresp", "down"}]
      /\ \A n \in Node : node'[n] = "down" <=> node[n] = "down"
  BY <1>1 DEF LaunchTimeout
<1>5. QED
  BY <1>2, <1>3, <1>4, UpdateStartsNothing

\* A job is cancelled, or reaches its time limit.
LEMMA EndStartsNothing ==
  ASSUME IInv, NEW j \in Job, Cancel(j) \/ TimeLimit(j)
  PROVE  StartsNothing
<1>1. job[j] \in JobRecord /\ RecordShape(job[j]) /\ node \in [Node -> {"up", "noresp", "down"}]
  BY DEF IInv, TypeOK, Records
<1>2. CASE Cancel(j)
  BY <1>1, <1>2, CancelledRecord, UpdateStartsNothing DEF Cancel, daemons
<1>3. CASE TimeLimit(j)
  BY <1>1, <1>3, EndedRecord, UpdateStartsNothing DEF TimeLimit, daemons
<1>4. QED
  BY <1>2, <1>3

\* A completing job has a node that is not DOWN: its kill is only sent again.
LEMMA ReKillStartsNothing ==
  ASSUME IInv, NEW j \in Job, ReKill(j)
  PROVE  StartsNothing
<1>1. /\ job[j] \in JobRecord /\ RecordShape(job[j])
      /\ job[j].completing /\ job[j].alloc /\ job[j].state \notin {"RUNNING", "PURGED"}
      /\ job[j].host \in Node /\ node[job[j].host] # "down"
  BY DEF IInv, TypeOK, Records, RecordShape, ReKill
<1>2. /\ net' = net \cup {Kill("terminate", j, job[j], job[j].host)}
      /\ UNCHANGED <<job, node, agent, steps, waiter, revoked, rebooted, overtaken>>
  BY <1>1 DEF ReKill, daemons
<1>3. Kill("terminate", j, job[j], job[j].host) =
        [type |-> "terminate", job |-> j, node |-> job[j].host, time |-> job[j].runs,
         start |-> job[j].runs]
  BY <1>1 DEF Kill
<1>4. Sendable(Kill("terminate", j, job[j], job[j].host))
  BY <1>1, <1>2, <1>3, SlurmAssumption DEF Sendable, Message, Time, JobRecord
<1>5. QED
  BY <1>2, <1>4, IdleStartsNothing DEF IInv, TypeOK

\* The record of a job that is over goes.
LEMMA PurgeStartsNothing ==
  ASSUME IInv, NEW j \in Job, Purge(j)
  PROVE  StartsNothing
<1> DEFINE q == [job[j] EXCEPT !.state = "PURGED", !.host = NoNode]
<1>1. /\ job[j] \in JobRecord /\ RecordShape(job[j])
      /\ job[j].state \in Finished /\ ~job[j].completing
      /\ job' = [job EXCEPT ![j] = q] /\ net' = net
  BY DEF IInv, TypeOK, Records, Purge
<1>2. Stays(job[j], q)
  BY <1>1 DEF Stays, Follows, RecordShape, Final, JobRecord
<1>3. Update(j, q, {})
  BY <1>1 DEF Update, Stops
<1>4. QED
  BY <1>2, <1>3, UpdateStartsNothing DEF IInv, TypeOK, Purge, daemons

\* slurmd asks for a requeue; the request may be of an earlier run.
LEMMA RequeueStartsNothing ==
  ASSUME IInv, NEW m \in net, RecvRequeue(m)
  PROVE  StartsNothing
<1>1. m.job \in Job
  BY DEF IInv, TypeOK, Message
<1>2. job[m.job] \in JobRecord /\ RecordShape(job[m.job])
  BY <1>1 DEF IInv, TypeOK, Records
<1>3. QED
  BY <1>1, <1>2, RequeuedRecord, UpdateStartsNothing DEF IInv, TypeOK, RecvRequeue, daemons

\* Only a node that is done with a job says so, and the job that loses its node
\* is not running, unless one of its launches was overtaken.
LEMMA EpilogStartsNothing ==
  ASSUME IInv, NEW m \in net, RecvEpilog(m)
  PROVE  StartsNothing
<1> DEFINE j == m.job
           r == job[m.job]
           q == EpilogComplete(job[m.job], m.node)
<1>1. /\ j \in Job /\ r \in JobRecord /\ RecordShape(r) /\ m.type = "epilog"
      /\ job' = [job EXCEPT ![j] = q]
      /\ net' \subseteq net
      /\ UNCHANGED <<node, agent, steps, waiter, revoked, rebooted, overtaken>>
      /\ job \in [Job -> JobRecord] /\ rebooted \subseteq Node
      /\ node \in [Node -> {"up", "noresp", "down"}]
  BY DEF IInv, TypeOK, Records, RecvEpilog, daemons, Message
<1>2. r.state = "RUNNING" /\ j \notin overtaken => r.host # m.node
  BY <1>1 DEF IInv, NoneLate
<1>3. CASE q = r
  BY <1>1, <1>3, IdleStartsNothing
<1>4. CASE q # r
  <2>1. r.host = m.node /\ r.alloc /\ q = Cleaned(r)
    BY <1>4 DEF EpilogComplete
  <2>2. j \notin overtaken => r.state # "RUNNING"
    BY <1>2, <2>1
  <2>3. Frees(r, q) /\ q.state = r.state
    BY <1>1, <2>1, CleanedRecord
  <2> HIDE DEF q
  <2>4. \A i \in Job : job'[i] = IF i = j THEN q ELSE job[i]
    BY <1>1
  <2>5. ASSUME NEW i \in Job, i # j
        PROVE  Stays(job[i], job'[i]) /\ (job'[i].alloc => node'[job'[i].host] # "down")
    BY <1>1, <2>4, <2>5, SameRecord DEF IInv, Records
  <2>6. ASSUME NEW i \in Job
        PROVE  /\ Follows(job[i], job'[i])
               /\ job[i].alloc /\ ~job'[i].alloc => i = j
               /\ job'[i].alloc => node'[job'[i].host] # "down"
    BY <1>1, <2>3, <2>4, <2>5 DEF Stays, Frees
  <2>7. ASSUME NEW i \in Job \ overtaken, job'[i].state = "RUNNING"
        PROVE  job'[i].alloc
    BY <2>2, <2>3, <2>4, <2>7 DEF IInv, Records
  <2>8. QED
    BY <1>1, <2>1, <2>6, <2>7 DEF StartsNothing
<1>5. QED
  BY <1>3, <1>4

\* A node that goes DOWN takes the jobs that are counted on it along.
LEMMA NodeDownStartsNothing ==
  ASSUME IInv, NEW n \in Node, NodeDown(n)
  PROVE  StartsNothing
<1> DEFINE failed == [j \in Job |-> IF OnNode(job[j], n) THEN NodeFailed(job[j]) ELSE job[j]]
<1>1. /\ job \in [Job -> JobRecord] /\ rebooted \subseteq Node
      /\ node \in [Node -> {"up", "noresp", "down"}]
      /\ \A j \in Job : RecordShape(job[j])
  BY DEF IInv, TypeOK, Records
<1>2. /\ node' = [node EXCEPT ![n] = "down"]
      /\ job' = failed
      /\ net' = net \cup UNION {Stops(j, job[j], failed[j]) : j \in Job}
      /\ UNCHANGED <<agent, steps, waiter, revoked, rebooted, overtaken>>
  BY DEF NodeDown, daemons
<1>3. ASSUME NEW j \in Job
      PROVE  \/ OnNode(job[j], n) /\ Frees(job[j], job'[j]) /\ job'[j].state # "RUNNING"
             \/ ~OnNode(job[j], n) /\ Stays(job[j], job'[j]) /\ job'[j] = job[j]
  BY <1>1, <1>2, FailedRecord, SameRecord
<1>4. \A m \in net' : m \in net \/ Sendable(m)
  BY <1>2, StopsSendable
<1>5. ASSUME NEW j \in Job
      PROVE  /\ job[j].alloc /\ ~job'[j].alloc => node'[job[j].host] = "down"
             /\ job'[j].alloc => node'[job'[j].host] # "down"
  <2>1. CASE OnNode(job[j], n) /\ Frees(job[j], job'[j])
    BY <1>1, <1>2, <2>1 DEF OnNode, Frees
  <2>2. CASE ~OnNode(job[j], n) /\ Stays(job[j], job'[j]) /\ job'[j] = job[j]
    BY <1>1, <1>2, <2>2 DEF OnNode, Stays, IInv, Records, RecordShape
  <2>3. QED
    BY <1>3, <2>1, <2>2
<1>6. job' = [j \in Job |-> job'[j]]
  BY <1>2
<1>7. \A j \in Job : Follows(job[j], job'[j])
  BY <1>3 DEF Stays, Frees
<1>8. \A j \in Job \ overtaken : job'[j].state = "RUNNING" => job'[j].alloc
  BY <1>3 DEF IInv, Records
<1>9. QED
  BY <1>1, <1>2, <1>4, <1>5, <1>6, <1>7, <1>8 DEF StartsNothing

\* A node registers: jobs that are missing are requeued, and those of a node that
\* restarted lose it.
LEMMA RegisterStartsNothing ==
  ASSUME IInv, NEW n \in Node, NEW recent \in SUBSET Job, NEW unopened \in BOOLEAN,
         Register(n, recent, unopened)
  PROVE  StartsNothing
<1> DEFINE there == {s.job : s \in Found(n, unopened)}
           Stray(j) == \/ job[j].state = "PURGED"
                       \/ job[j].state = "RUNNING" /\ ~OnNode(job[j], n)
                       \/ job[j].state = "PENDING" /\ ~job[j].completing
           Ends(j) == job[j].completing \/ (job[j].state \in Finished /\ j \notin recent)
           missing == {j \in Job \ (there \cup agent) :
                         job[j].state = "RUNNING" /\ OnNode(job[j], n)}
           asked == [j \in Job |-> IF j \in missing THEN Completed(job[j], TRUE) ELSE job[j]]
           crash == n \in rebooted /\ node[n] # "down"
           after == [j \in Job |-> IF crash /\ OnNode(asked[j], n) THEN NodeFailed(asked[j])
                                   ELSE asked[j]]
           aborts == {Kill("abort", j, job[j], n) : j \in {i \in there : Stray(i)}}
           kills == {Kill("terminate", j, job[j], n) : j \in {i \in there : Ends(i)}}
<1>1. /\ job \in [Job -> JobRecord] /\ rebooted \subseteq Node /\ steps \subseteq Stepd
      /\ node \in [Node -> {"up", "noresp", "down"}]
      /\ \A j \in Job : RecordShape(job[j])
  BY DEF IInv, TypeOK, Records
<1>2. /\ job' = after
      /\ net' = net \cup aborts \cup kills \cup UNION {Stops(j, job[j], after[j]) : j \in Job}
      /\ node' = [node EXCEPT ![n] = IF crash \/ @ = "down" THEN "down" ELSE "up"]
      /\ rebooted' = rebooted \ {n}
      /\ UNCHANGED <<agent, steps, waiter, revoked, overtaken>>
  BY DEF Register
<1>3. ASSUME NEW j \in Job
      PROVE  Stays(job[j], asked[j])
  BY <1>1, CompletedRecord, SameRecord
<1> HIDE DEF asked
<1>4. ASSUME NEW j \in Job
      PROVE  /\ Follows(job[j], job'[j])
             /\ \/ crash /\ OnNode(job[j], n) /\ ~job'[j].alloc /\ job'[j].state # "RUNNING"
                \/ ~(crash /\ OnNode(job[j], n)) /\ Stays(job[j], job'[j])
  <2>1. asked[j] \in JobRecord /\ RecordShape(asked[j])
    BY <1>3 DEF Stays, Follows
  <2>2. OnNode(asked[j], n) <=> OnNode(job[j], n)
    BY <1>3 DEF OnNode, Stays, Follows
  <2>3. CASE crash /\ OnNode(asked[j], n)
    <3>1. job'[j] = NodeFailed(asked[j])
      BY <1>2, <2>3
    <3>2. Frees(asked[j], job'[j]) /\ job'[j].state # "RUNNING"
      BY <2>1, <3>1, FailedRecord
    <3>3. job[j].state # "none"
      BY <1>1, <2>2, <2>3 DEF OnNode, RecordShape
    <3>4. Follows(job[j], job'[j])
      BY <1>3, <3>2, <3>3 DEF Frees, Stays, Follows
    <3>5. QED
      BY <2>2, <2>3, <3>2, <3>4 DEF Frees
  <2>4. CASE ~(crash /\ OnNode(asked[j], n))
    BY <1>2, <1>3, <2>2, <2>4 DEF Stays
  <2>5. QED
    BY <2>3, <2>4
<1>5. /\ node' \in [Node -> {"up", "noresp", "down"}]
      /\ \A i \in Node : node[i] = "down" => node'[i] = "down"
      /\ \A i \in Node : node'[i] = "down" => node[i] = "down" \/ (i = n /\ crash)
      /\ crash => node'[n] = "down"
  BY <1>1, <1>2
<1>6. ASSUME NEW j \in Job
      PROVE  /\ job[j].alloc /\ ~job'[j].alloc => node'[job[j].host] = "down"
             /\ job'[j].alloc => node'[job'[j].host] # "down"
  <2>1. CASE crash /\ OnNode(job[j], n) /\ ~job'[j].alloc
    BY <1>5, <2>1 DEF OnNode
  <2>2. CASE ~(crash /\ OnNode(job[j], n)) /\ Stays(job[j], job'[j])
    <3>1. job'[j].alloc => job[j].alloc /\ job'[j].host = job[j].host /\ job[j].host \in Node
      BY <1>1, <2>2 DEF Stays, Follows, RecordShape
    <3>2. job[j].alloc => node[job[j].host] # "down"
      BY DEF IInv, Records
    <3>3. QED
      BY <1>5, <2>2, <3>1, <3>2 DEF OnNode, Stays
  <2>3. QED
    BY <1>4, <2>1, <2>2
<1>7. ASSUME NEW j \in there
      PROVE  /\ Stray(j) => Sendable(Kill("abort", j, job[j], n))
             /\ Ends(j) => Sendable(Kill("terminate", j, job[j], n))
  <2>1. j \in Job /\ job[j] \in JobRecord /\ RecordShape(job[j])
    BY <1>1 DEF Stepd, Found
  <2>2. job[j].runs \in Time
    BY <2>1 DEF JobRecord
  <2>3. Follows(job[j], job'[j])
    BY <1>4, <2>1
  <2>4. ASSUME Stray(j)
        PROVE  Sendable(Kill("abort", j, job[j], n))
    <3>1. job'[j].state = "RUNNING" /\ j \notin overtaken => n # job'[j].host
      <4>1. job[j].state = "RUNNING" /\ j \notin overtaken => job[j].alloc
        BY <2>1 DEF IInv, Records
      <4>2. CASE Stays(job[j], job'[j])
        BY <2>1, <2>3, <2>4, <4>1, <4>2 DEF OnNode, Stays, Follows
      <4>3. QED
        BY <1>4, <2>1, <4>2
    <3>2. PICK t \in {0, job[j].runs} :
            Kill("abort", j, job[j], n) =
              [type |-> "abort", job |-> j, node |-> n, time |-> job[j].runs, start |-> t]
      BY DEF Kill
    <3>3. t \in Time /\ t <= job[j].runs
      BY <2>2, SlurmAssumption DEF Time
    <3> HIDE DEF Stray, there
    <3>4. QED
      BY <2>1, <2>2, <3>1, <3>2, <3>3 DEF Sendable, Message
  <2>5. ASSUME Ends(j)
        PROVE  Sendable(Kill("terminate", j, job[j], n))
    <3>1. /\ job[j].state \notin {"RUNNING", "PURGED"}
          /\ ~(job[j].state = "PENDING" /\ ~job[j].completing)
      BY <2>1, <2>5 DEF RecordShape
    <3>2. job'[j].state # "RUNNING"
      BY <2>3, <3>1 DEF Follows
    <3>3. Kill("terminate", j, job[j], n) =
            [type |-> "terminate", job |-> j, node |-> n, time |-> job[j].runs,
             start |-> job[j].runs]
      BY <3>1 DEF Kill
    <3>4. QED
      BY <2>1, <2>2, <3>2, <3>3, SlurmAssumption DEF Sendable, Message, Time
  <2>6. QED
    BY <2>4, <2>5
<1>8. \A m \in net' : m \in net \/ Sendable(m)
  <2>1. \A j \in Job : \A m \in Stops(j, job[j], after[j]) : Sendable(m)
    BY <1>2, StopsSendable
  <2> HIDE DEF after, there, Stray, Ends
  <2>2. QED
    BY <1>2, <1>7, <2>1
<1>9. job' = [j \in Job |-> job'[j]]
  BY <1>2
<1>10. \A j \in Job \ overtaken : job'[j].state = "RUNNING" => job'[j].alloc
  BY <1>4 DEF IInv, Records, Stays, Follows
<1>11. QED
  BY <1>1, <1>2, <1>4, <1>5, <1>6, <1>8, <1>9, <1>10 DEF StartsNothing
-----------------------------------------------------------------------------
(* What nodes and processes do, when nothing is launched or revoked.       *)

\* A launch finds its credential revoked.
LEMMA LaunchRevokedStartsNothing ==
  ASSUME IInv, NEW m \in net, LaunchRevoked(m)
  PROVE  StartsNothing
<1>1. m.job \in Job /\ node \in [Node -> {"up", "noresp", "down"}] /\ rebooted \subseteq Node
  BY DEF IInv, TypeOK, Message
<1>2. job[m.job] \in JobRecord /\ RecordShape(job[m.job])
  BY <1>1 DEF IInv, TypeOK, Records
<1>3. UNCHANGED <<node, steps, waiter, revoked, rebooted, overtaken>>
  BY DEF LaunchRevoked, daemons
<1>4. CASE agent' = agent \ {m.job} /\ Update(m.job, Completed(job[m.job], FALSE), {m})
  BY <1>1, <1>2, <1>3, <1>4, CompletedRecord, UpdateStartsNothing
<1>5. CASE net' = net \ {m} /\ UNCHANGED <<agent, job>>
  BY <1>1, <1>3, <1>5, IdleStartsNothing
<1>6. QED
  BY <1>4, <1>5 DEF LaunchRevoked

\* A step reports its end, perhaps of a run that is not the present one.
LEMMA ReportStartsNothing ==
  ASSUME IInv, NEW s \in steps, Report(s)
  PROVE  StartsNothing
<1> DEFINE q(b) == [Completed(job[s.job], b) EXCEPT !.step = FALSE]
<1>1. s.job \in Job /\ node \in [Node -> {"up", "noresp", "down"}] /\ rebooted \subseteq Node
  BY DEF IInv, TypeOK, Stepd
<1>2. job[s.job] \in JobRecord /\ RecordShape(job[s.job])
  BY <1>1 DEF IInv, TypeOK, Records
<1>3. steps' \subseteq steps /\ UNCHANGED <<node, agent, waiter, revoked, rebooted, overtaken>>
  BY DEF Report
<1>4. ASSUME NEW b \in BOOLEAN, Update(s.job, q(b), {})
      PROVE  StartsNothing
  <2>1. Stays(job[s.job], Completed(job[s.job], b))
    BY <1>2, CompletedRecord
  <2>2. Stays(job[s.job], q(b))
    BY <2>1 DEF Stays, Follows, RecordShape, Final, JobRecord
  <2> HIDE DEF q
  <2>3. QED
    BY <1>1, <1>3, <1>4, <2>2, UpdateStartsNothing
<1>5. CASE UNCHANGED <<job, net>>
  BY <1>1, <1>3, <1>5, IdleStartsNothing
<1>6. QED
  BY <1>4, <1>5 DEF Report

\* Nodes stop answering, answer again or restart, messages are lost, processes die.
LEMMA EventStartsNothing ==
  ASSUME IInv,
         \/ UNCHANGED vars
         \/ \E n \in Node : NodeNotResp(n) \/ NodeDidResp(n) \/ Reboot(n)
         \/ \E m \in net : Lose(m)
         \/ \E s \in steps : StepdDies(s) \/ StartFails(s)
  PROVE  StartsNothing
<1>1. /\ node \in [Node -> {"up", "noresp", "down"}] /\ rebooted \subseteq Node
      /\ steps \subseteq Stepd
  BY DEF IInv, TypeOK
<1>2. CASE UNCHANGED vars
  BY <1>1, <1>2, IdleStartsNothing DEF vars, daemons
<1>3. CASE \E n \in Node : NodeNotResp(n) \/ NodeDidResp(n)
  BY <1>1, <1>3, IdleStartsNothing DEF NodeNotResp, NodeDidResp, daemons
<1>4. CASE \E n \in Node : Reboot(n)
  BY <1>1, <1>4, IdleStartsNothing DEF Reboot
<1>5. CASE \E m \in net : Lose(m)
  BY <1>1, <1>5, IdleStartsNothing DEF Lose, daemons
<1>6. CASE \E s \in steps : StepdDies(s)
  BY <1>1, <1>6, IdleStartsNothing DEF StepdDies
<1>7. ASSUME NEW s \in steps, StartFails(s)
      PROVE  StartsNothing
  <2>1. Sendable(Notice("requeue", s.job, s.node))
    BY <1>1, SlurmAssumption DEF Sendable, Message, Stepd, Time, Notice
  <2>2. QED
    BY <1>1, <1>7, <2>1, IdleStartsNothing DEF StartFails
<1>8. QED
  BY <1>2, <1>3, <1>4, <1>5, <1>6, <1>7
-----------------------------------------------------------------------------
(* Steps that advance, signal or revoke what has been launched.            *)

\* What has been accepted goes on unless it is revoked, a launch and a process
\* never go back, revocations only grow, and a node says that it is done with a
\* job, or waits for it, only when that is so or a launch of the job was overtaken.
Advances ==
  /\ UNCHANGED <<job, node, agent, rebooted>>
  /\ overtaken \subseteq overtaken' /\ overtaken' \subseteq Job
  /\ \A m \in net' : m \in net \/ (m \in Message /\ m.type = "epilog")
  /\ \A m \in net' : m \notin net /\ m.job \notin overtaken' =>
       /\ Active(m.node, m.job)' = {}
       /\ <<m.node, m.job>> \notin waiter'
       /\ Quiet(m.node, m.job)'
       /\ job[m.job].state = "RUNNING" => m.node # job[m.job].host
  /\ steps' \subseteq Stepd
  /\ \A s \in steps' : \E t \in steps :
       /\ s.job = t.job /\ s.node = t.node /\ s.run = t.run
       /\ s.phase = "accepted" => s = t
       /\ s.phase # "accepted" /\ t.phase = "accepted" => t.run > revoked'[t.node][t.job]
       /\ s.phase = "checked" => t.phase \in {"accepted", "checked"}
       /\ s.phase = "started" => t.phase \in Launching
       /\ t.phase = "reporting" => s.phase = "reporting"
  /\ \A s, t \in steps' : s.job = t.job /\ s.run = t.run => s = t
  /\ waiter' \subseteq Node \X Job
  /\ \A n \in Node, j \in Job \ overtaken' : <<n, j>> \in waiter' =>
       \/ <<n, j>> \in waiter
       \/ /\ Active(n, j) # {}
          /\ node[n] = "down" \/ (job[j].completing /\ job[j].host = n)
          /\ Quiet(n, j)'
  /\ revoked' \in [Node -> [Job -> Time]]
  /\ \A n \in Node, j \in Job : revoked[n][j] <= revoked'[n][j]

\* Such a step keeps the invariant.
LEMMA AdvancesKeeps ==
  ASSUME IInv, Advances
  PROVE  IInv'
<1> USE DEF IInv
<1>1. TypeOK'
  BY DEF TypeOK, Advances
<1>2. Records'
  BY DEF Records, Advances
<1>3. /\ \A m \in net : m \in Message
      /\ \A m \in net' : m \in Message
      /\ \A s \in steps : s \in Stepd
      /\ \A s \in steps' : s \in Stepd
      /\ revoked \in [Node -> [Job -> Time]]
      /\ revoked' \in [Node -> [Job -> Time]]
  BY DEF Advances, TypeOK
<1>4. Times'
  <2>1. ASSUME NEW s \in steps'
        PROVE  /\ s.run <= job'[s.job].runs
               /\ s.phase \in Launching => s.run = job'[s.job].runs
    <3>1. PICK t \in steps : /\ s.job = t.job /\ s.run = t.run
                             /\ s.phase \in Launching => t.phase \in Launching
      BY DEF Advances, Launching
    <3>2. QED
      BY <3>1 DEF Times, Advances
  <2>2. \A m \in net' : m.type # "epilog" => m \in net
    BY DEF Advances
  <2>3. QED
    BY <2>1, <2>2 DEF Times, Advances
<1>5. Once'
  <2>1. ASSUME NEW m \in net', NEW s \in steps', m.type = "launch", m.job = s.job
        PROVE  s.run # m.time
    <3>1. PICK t \in steps : s.job = t.job /\ s.run = t.run
      BY DEF Advances
    <3>2. m \in net
      BY <2>1 DEF Advances
    <3>3. QED
      BY <2>1, <3>1, <3>2 DEF Once
  <2>2. \A m \in net' : m.type = "launch" => m \in net
    BY DEF Advances
  <2>3. \A s, t \in steps' : s.job = t.job /\ s.run = t.run => s = t
    BY DEF Advances
  <2>4. QED
    BY <2>1, <2>2, <2>3 DEF Once
<1>6. ASSUME NEW n \in Node, NEW j \in Job
      PROVE  /\ revoked[n][j] \in Nat /\ revoked'[n][j] \in Nat
             /\ revoked[n][j] <= revoked'[n][j]
  BY <1>3, SlurmAssumption DEF Advances, Time
<1>7. ASSUME NEW n \in Node, NEW j \in Job, Quiet(n, j)
      PROVE  Quiet(n, j)'
  <2>1. ASSUME NEW m \in net', m.type = "launch", m.job = j, m.node = n
        PROVE  m.time <= revoked'[n][j]
    <3>1. m \in net /\ m.time \in Nat
      <4>1. m \in net
        BY <2>1 DEF Advances
      <4>2. QED
        BY <1>3, <4>1, SlurmAssumption DEF Message, Time
    <3>2. m.time <= revoked[n][j]
      BY <1>7, <2>1, <3>1 DEF Quiet
    <3>3. QED
      BY <1>6, <3>1, <3>2
  <2>2. ASSUME NEW s \in steps', s.phase = "checked", s.job = j, s.node = n
        PROVE  FALSE
    <3>1. PICK t \in steps :
            /\ t.job = j /\ t.node = n /\ t.phase \in {"accepted", "checked"}
            /\ t.phase = "accepted" => t.run > revoked'[n][j]
      BY <2>2 DEF Advances
    <3>2. t.phase = "accepted" /\ t.run <= revoked[n][j] /\ t.run \in Nat
      BY <1>3, <1>7, <3>1, SlurmAssumption DEF Quiet, Stepd, Time
    <3>3. QED
      BY <1>6, <3>1, <3>2
  <2>3. ASSUME NEW s \in steps', s.phase = "accepted", s.job = j, s.node = n
        PROVE  s.run <= revoked'[n][j]
    <3>1. s \in steps /\ s.run \in Nat
      BY <1>3, <2>3, SlurmAssumption DEF Advances, Stepd, Time
    <3>2. s.run <= revoked[n][j]
      BY <1>7, <2>3, <3>1 DEF Quiet
    <3>3. QED
      BY <1>6, <3>1, <3>2
  <2>4. QED
    BY <2>1, <2>2, <2>3 DEF Quiet
<1>8. ASSUME NEW n \in Node, NEW j \in Job, Quiet(n, j), Active(n, j) = {}
      PROVE  Active(n, j)' = {}
  <2> SUFFICES ASSUME NEW s \in steps', s.node = n, s.job = j,
                      s.phase \notin {"accepted", "checked"}
               PROVE  FALSE
    BY DEF Active
  <2>1. PICK t \in steps :
          /\ t.job = j /\ t.node = n
          /\ t.phase = "accepted" => t.run > revoked'[n][j]
    BY DEF Advances
  <2>2. t.phase = "accepted"
    BY <1>8, <2>1 DEF Active, Quiet
  <2>3. t.run <= revoked[n][j] /\ t.run \in Nat
    BY <1>3, <1>8, <2>1, <2>2, SlurmAssumption DEF Quiet, Stepd, Time
  <2>4. QED
    BY <1>6, <2>1, <2>2, <2>3
<1>9. Placed'
  <2>1. ASSUME NEW s \in steps', s.job \notin overtaken'
        PROVE  \/ node'[s.node] = "down"
               \/ Here(s.job, s.node)' /\ s.run = job'[s.job].runs
               \/ s.phase = "accepted" /\ s.run <= revoked'[s.node][s.job]
    <3>1. PICK t \in steps :
            /\ s.job = t.job /\ s.node = t.node /\ s.run = t.run
            /\ s.phase = "accepted" => s = t
            /\ s.phase # "accepted" /\ t.phase = "accepted"
                 => t.run > revoked'[t.node][t.job]
      BY DEF Advances
    <3>2. t.job \in Job /\ t.node \in Node /\ t.run \in Nat /\ t.job \notin overtaken
      BY <1>3, <2>1, <3>1, SlurmAssumption DEF Stepd, Time, Advances
    <3>3. CASE t.phase = "accepted" /\ t.run <= revoked[t.node][t.job]
      BY <1>6, <3>1, <3>2, <3>3
    <3>4. QED
      BY <3>1, <3>2, <3>3 DEF Placed, Advances, Here
  <2>2. ASSUME NEW m \in net', m.type = "launch", m.job \notin overtaken'
        PROVE  \/ node'[m.node] = "down"
               \/ Here(m.job, m.node)'
               \/ m.time <= revoked'[m.node][m.job]
    <3>1. /\ m \in net /\ m.job \in Job /\ m.node \in Node /\ m.time \in Nat
          /\ m.job \notin overtaken
      <4>1. m \in net /\ m.job \notin overtaken
        BY <2>2 DEF Advances
      <4>2. QED
        BY <1>3, <4>1, SlurmAssumption DEF Message, Time
    <3>2. CASE m.time <= revoked[m.node][m.job]
      BY <1>6, <3>1, <3>2
    <3>3. QED
      BY <2>2, <3>1, <3>2 DEF Placed, Advances, Here
  <2>3. QED
    BY <2>1, <2>2 DEF Placed
<1>10. Answers'
  <2>1. ASSUME NEW m \in net', m.type = "epilog", m.job \notin overtaken'
        PROVE  /\ Active(m.node, m.job)' = {}
               /\ <<m.node, m.job>> \notin waiter'
               /\ Quiet(m.node, m.job)'
    <3>1. m.job \in Job /\ m.node \in Node /\ m.job \notin overtaken
      BY <1>3, <2>1 DEF Message, Advances
    <3>2. CASE m \in net
      <4>1. /\ Active(m.node, m.job) = {} /\ Quiet(m.node, m.job)
            /\ <<m.node, m.job>> \notin waiter
        BY <2>1, <3>1, <3>2 DEF Answers
      <4>2. QED
        BY <1>7, <1>8, <2>1, <3>1, <4>1 DEF Advances
    <3>3. CASE m \notin net
      BY <2>1, <3>3 DEF Advances
    <3>4. QED
      BY <3>2, <3>3
  <2>2. ASSUME NEW n \in Node, NEW j \in Job \ overtaken', <<n, j>> \in waiter'
        PROVE  /\ node'[n] = "down" \/ (job'[j].completing /\ job'[j].host = n)
               /\ Quiet(n, j)'
    <3>1. j \in Job \ overtaken
      BY DEF Advances
    <3>2. QED
      BY <1>7, <2>2, <3>1 DEF Answers, Advances
  <2>3. QED
    BY <2>1, <2>2 DEF Answers
<1>11. NoneLate'
  <2> SUFFICES ASSUME NEW m \in net', m.type \in {"terminate", "abort", "epilog"},
                      job'[m.job].state = "RUNNING", m.job \notin overtaken'
               PROVE  m.node # job'[m.job].host
    BY DEF NoneLate
  <2>1. m.job \notin overtaken /\ job' = job
    BY DEF Advances
  <2>2. CASE m \in net
    BY <2>1, <2>2 DEF NoneLate
  <2>3. CASE m \notin net
    <3>1. job[m.job].state = "RUNNING" => m.node # job[m.job].host
      BY <2>3 DEF Advances
    <3>2. QED
      BY <2>1, <3>1
  <2>4. QED
    BY <2>2, <2>3
<1>12. QED
  BY <1>1, <1>2, <1>4, <1>5, <1>9, <1>10, <1>11

\* One step takes the place of another, of the same run.
LEMMA ReplaceAdvances ==
  ASSUME IInv, NEW s \in steps, NEW q \in Stepd,
         q.job = s.job, q.node = s.node, q.run = s.run,
         q.phase # "accepted", q.phase = "checked" => s.phase = "accepted",
         q.phase = "started" => s.phase = "checked",
         s.phase = "accepted" => s.run > revoked[s.node][s.job],
         s.phase # "reporting",
         steps' = (steps \ {s}) \cup {q},
         UNCHANGED <<job, node, agent, net, waiter, revoked, rebooted, overtaken>>
  PROVE  Advances
<1>1. /\ steps \subseteq Stepd /\ waiter \subseteq Node \X Job
      /\ revoked \in [Node -> [Job -> Time]] /\ overtaken \subseteq Job
  BY DEF IInv, TypeOK
<1>2. \A t \in steps' : t = q \/ (t \in steps /\ t # s)
  OBVIOUS
<1>3. steps' \subseteq Stepd
  BY <1>1
<1>4. ASSUME NEW t \in steps'
      PROVE  \E u \in steps :
               /\ t.job = u.job /\ t.node = u.node /\ t.run = u.run
               /\ t.phase = "accepted" => t = u
               /\ t.phase # "accepted" /\ u.phase = "accepted"
                    => u.run > revoked'[u.node][u.job]
               /\ t.phase = "checked" => u.phase \in {"accepted", "checked"}
               /\ t.phase = "started" => u.phase \in Launching
               /\ u.phase = "reporting" => t.phase = "reporting"
  BY <1>2 DEF Launching
<1>5. \A t, u \in steps' : t.job = u.job /\ t.run = u.run => t = u
  BY <1>2 DEF IInv, Once
<1>6. \A n \in Node, j \in Job : revoked[n][j] <= revoked'[n][j]
  BY <1>1, SlurmAssumption DEF Time
<1>7. QED
  BY <1>1, <1>3, <1>4, <1>5, <1>6 DEF Advances

\* A step is started, its credential looked at again, or its script ends.
LEMMA StepAdvances ==
  ASSUME IInv, NEW s \in steps, Start(s) \/ Recheck(s) \/ ScriptEnds(s)
  PROVE  Advances
<1>1. s \in Stepd
  BY DEF IInv, TypeOK
<1>2. \A phase \in {"started", "active", "killed", "reporting"} :
        [s EXCEPT !.phase = phase] \in Stepd
  BY <1>1 DEF Stepd
<1>3. CASE Start(s)
  BY <1>1, <1>2, <1>3, ReplaceAdvances DEF Start, Stepd
<1>4. CASE Recheck(s)
  <2>1. PICK phase \in {"active", "killed"} :
          steps' = (steps \ {s}) \cup {[s EXCEPT !.phase = phase]}
    BY <1>4 DEF Recheck
  <2>2. QED
    BY <1>1, <1>2, <1>4, <2>1, ReplaceAdvances DEF Recheck, Stepd
<1>5. CASE ScriptEnds(s)
  BY <1>1, <1>2, <1>5, ReplaceAdvances DEF ScriptEnds, Stepd
<1>6. QED
  BY <1>3, <1>4, <1>5

\* A launch thread goes on, unless the credential was revoked meanwhile.
LEMMA CheckKeeps ==
  ASSUME IInv, NEW s \in steps, Check(s)
  PROVE  StartsNothing \/ Advances
<1>1. s \in Stepd /\ rebooted \subseteq Node /\ node \in [Node -> {"up", "noresp", "down"}]
      /\ revoked \in [Node -> [Job -> Time]]
  BY DEF IInv, TypeOK
<1>2. /\ UNCHANGED <<job, node, agent, net, waiter, revoked, rebooted, overtaken>>
      /\ s.phase = "accepted"
  BY DEF Check
<1>3. CASE s.run <= revoked[s.node][s.job]
  <2>1. steps' \subseteq steps
    BY <1>3 DEF Check
  <2>2. QED
    BY <1>1, <1>2, <2>1, IdleStartsNothing
<1>4. CASE ~(s.run <= revoked[s.node][s.job])
  <2>1. s.run > revoked[s.node][s.job]
    BY <1>1, <1>4, SlurmAssumption DEF Stepd, Time
  <2>2. [s EXCEPT !.phase = "checked"] \in Stepd
    BY <1>1 DEF Stepd
  <2>3. steps' = (steps \ {s}) \cup {[s EXCEPT !.phase = "checked"]}
    BY <1>4 DEF Check
  <2>4. QED
    BY <1>1, <1>2, <2>1, <2>2, <2>3, ReplaceAdvances DEF Stepd
<1>5. QED
  BY <1>3, <1>4

\* The node has waited for the processes of the job, which has not been launched
\* there since.
LEMMA WaiterDoneAdvances ==
  ASSUME IInv, NEW n \in Node, NEW j \in Job, WaiterDone(n, j)
  PROVE  Advances
<1> DEFINE m == Notice("epilog", j, n)
<1>1. /\ steps \subseteq Stepd /\ waiter \subseteq Node \X Job
      /\ revoked \in [Node -> [Job -> Time]] /\ overtaken \subseteq Job
  BY DEF IInv, TypeOK
<1>2. /\ <<n, j>> \in waiter /\ Active(n, j) = {}
      /\ waiter' = waiter \ {<<n, j>>}
      /\ net' = net \cup {m}
      /\ UNCHANGED <<job, node, agent, steps, revoked, rebooted, overtaken>>
  BY DEF WaiterDone
<1>3. j \notin overtaken =>
        Quiet(n, j) /\ (node[n] = "down" \/ (job[j].completing /\ job[j].host = n))
  BY <1>2 DEF IInv, Answers
<1>4. job[j].state = "RUNNING" /\ j \notin overtaken => n # job[j].host
  <2>1. job[j].state = "RUNNING" /\ j \notin overtaken =>
          ~job[j].completing /\ node[job[j].host] # "down"
    BY DEF IInv, Records, RecordShape
  <2>2. QED
    BY <1>3, <2>1
<1>5. Active(n, j)' = {}
  BY <1>2 DEF Active
<1>6. j \notin overtaken => Quiet(n, j)'
  BY <1>2, <1>3 DEF Quiet, Notice
<1>7. m \in Message /\ m.type = "epilog" /\ m.job = j /\ m.node = n
  BY SlurmAssumption DEF Message, Time, Notice
<1> HIDE DEF m
<1>8. \A s, t \in steps' : s.job = t.job /\ s.run = t.run => s = t
  BY <1>2 DEF IInv, Once
<1>9. \A i \in Node, k \in Job : revoked[i][k] <= revoked'[i][k]
  BY <1>1, <1>2, SlurmAssumption DEF Time
<1>10. \A l \in net' : l \in net \/ l = m
  BY <1>2
<1>11. <<n, j>> \notin waiter' /\ waiter' \subseteq waiter
  BY <1>2
<1>12. QED
  BY <1>1, <1>2, <1>4, <1>5, <1>6, <1>7, <1>8, <1>9, <1>10, <1>11 DEF Advances, Launching
-----------------------------------------------------------------------------
(* Requests to end a job, on its node.                                     *)

\* What a request to end a job tells its processes.
LEMMA SignalSteps ==
  ASSUME IInv, NEW n \in Node, NEW j \in Job, NEW S \in SUBSET Active(n, j), Signal(S)
  PROVE  /\ steps' \subseteq Stepd
         /\ \A s \in steps' : \E t \in steps :
              /\ s.job = t.job /\ s.node = t.node /\ s.run = t.run
              /\ s = t \/ (s.phase = "killed" /\ t.phase \in {"started", "active"})
         /\ \A s, t \in steps' : s.job = t.job /\ s.run = t.run => s = t
         /\ S = {} => steps' = steps
<1> DEFINE f(s) == IF s.phase \in {"started", "active"} THEN [s EXCEPT !.phase = "killed"] ELSE s
<1>1. steps \subseteq Stepd
  BY DEF IInv, TypeOK
<1>2. steps' = (steps \ S) \cup {f(s) : s \in S} /\ S \subseteq steps
  BY DEF Signal, Active
<1>3. ASSUME NEW s \in Stepd
      PROVE  /\ f(s) \in Stepd
             /\ f(s).job = s.job /\ f(s).node = s.node /\ f(s).run = s.run
             /\ f(s) = s \/ (f(s).phase = "killed" /\ s.phase \in {"started", "active"})
  BY DEF Stepd
<1> HIDE DEF f
<1>4. ASSUME NEW s \in steps'
      PROVE  \E t \in steps : \/ s = t /\ t \notin S
                              \/ s = f(t) /\ t \in S
  BY <1>2
<1>5. ASSUME NEW s \in steps'
      PROVE  /\ s \in Stepd
             /\ \E t \in steps :
                  /\ s.job = t.job /\ s.node = t.node /\ s.run = t.run
                  /\ s = t \/ (s.phase = "killed" /\ t.phase \in {"started", "active"})
  BY <1>1, <1>3, <1>4
<1>6. ASSUME NEW s \in steps', NEW t \in steps', s.job = t.job, s.run = t.run
      PROVE  s = t
  <2>1. PICK a \in steps : \/ s = a /\ a \notin S
                           \/ s = f(a) /\ a \in S
    BY <1>4
  <2>2. PICK b \in steps : \/ t = b /\ b \notin S
                           \/ t = f(b) /\ b \in S
    BY <1>4
  <2>3. a.job = b.job /\ a.run = b.run
    BY <1>1, <1>3, <1>6, <2>1, <2>2
  <2>4. a = b
    BY <2>3 DEF IInv, Once
  <2>5. QED
    BY <2>1, <2>2, <2>4
<1>7. S = {} => steps' = steps
  BY <1>2
<1>8. QED
  BY <1>5, <1>6, <1>7

\* A request names a run that is not later than its time: revocations grow.
LEMMA RevokeGrows ==
  ASSUME IInv, NEW m \in net, m.type \in {"terminate", "abort"}, Revoke(m)
  PROVE  /\ revoked' \in [Node -> [Job -> Time]]
         /\ \A n \in Node, j \in Job : revoked[n][j] <= revoked'[n][j]
         /\ m.type = "terminate" => job[m.job].runs <= revoked'[m.node][m.job]
<1> DEFINE old == revoked[m.node][m.job]
           new == IF old = 0 \/ old < m.start THEN m.time ELSE old
<1>1. /\ m.node \in Node /\ m.job \in Job /\ m.time \in Time /\ m.start \in Time
      /\ revoked \in [Node -> [Job -> Time]]
  BY DEF IInv, TypeOK, Message
<1>2. /\ m.time = job[m.job].runs /\ m.start <= m.time
      /\ m.type = "terminate" => m.start = m.time
  BY <1>1, SlurmAssumption DEF IInv, Times, Time
<1>3. revoked' = [revoked EXCEPT ![m.node][m.job] = new]
  BY DEF Revoke
<1>4. old \in Time
  BY <1>1
<1>5. /\ new \in Time /\ old <= new
      /\ m.type = "terminate" => m.time <= new
  BY <1>1, <1>2, <1>4, SlurmAssumption DEF Time
<1>6. revoked'[m.node][m.job] = new
  BY <1>1, <1>3
<1>7. revoked' \in [Node -> [Job -> Time]]
  BY <1>1, <1>3, <1>5
<1>8. ASSUME NEW n \in Node, NEW j \in Job
      PROVE  revoked[n][j] <= revoked'[n][j]
  <2>1. CASE n = m.node /\ j = m.job
    BY <1>5, <1>6, <2>1
  <2>2. CASE ~(n = m.node /\ j = m.job)
    <3>1. revoked'[n][j] = revoked[n][j]
      BY <1>1, <1>3, <2>2
    <3>2. revoked[n][j] \in Nat
      BY <1>1, SlurmAssumption DEF Time
    <3>3. QED
      BY <3>1, <3>2
  <2>3. QED
    BY <2>1, <2>2
<1>9. QED
  BY <1>2, <1>5, <1>6, <1>7, <1>8

\* A kill request marks the job as overtaken, or misses nothing of it.
LEMMA OvertakesJob ==
  ASSUME IInv, NEW n \in Node, NEW j \in Job, NEW S, Overtakes(n, j, S)
  PROVE  /\ overtaken \subseteq overtaken' /\ overtaken' \subseteq Job
         /\ j \notin overtaken' => \A s \in steps \ S :
              s.job = j /\ s.node = n => s.phase \notin {"checked", "started"}
BY DEF IInv, TypeOK, Overtakes

\* An abort revokes and signals, and is not answered.
LEMMA AbortAdvances ==
  ASSUME IInv, NEW m \in net, NEW unopened \in BOOLEAN, RecvAbort(m, unopened)
  PROVE  Advances
<1> DEFINE there == Active(m.node, m.job) \cap Found(m.node, unopened)
<1>1. m.node \in Node /\ m.job \in Job /\ waiter \subseteq Node \X Job
  BY DEF IInv, TypeOK, Message
<1>2. /\ m.type = "abort" /\ Revoke(m) /\ Signal(there) /\ Overtakes(m.node, m.job, there)
      /\ net' = net \ {m}
      /\ UNCHANGED <<job, node, agent, waiter, rebooted>>
  BY DEF RecvAbort
<1>3. there \in SUBSET Active(m.node, m.job)
  OBVIOUS
<1> HIDE DEF there
<1>4. /\ steps' \subseteq Stepd
      /\ \A s \in steps' : \E t \in steps :
           /\ s.job = t.job /\ s.node = t.node /\ s.run = t.run
           /\ s = t \/ (s.phase = "killed" /\ t.phase \in {"started", "active"})
      /\ \A s, t \in steps' : s.job = t.job /\ s.run = t.run => s = t
  BY <1>1, <1>2, <1>3, SignalSteps
<1>5. overtaken \subseteq overtaken' /\ overtaken' \subseteq Job
  BY <1>1, <1>2, OvertakesJob
<1>6. QED
  BY <1>1, <1>2, <1>4, <1>5, RevokeGrows DEF Advances, Launching

\* The thread that waits signals what has come since.
LEMMA WaiterKillsAdvances ==
  ASSUME IInv, NEW n \in Node, NEW j \in Job, WaiterKills(n, j)
  PROVE  Advances
<1>1. /\ waiter \subseteq Node \X Job /\ overtaken \subseteq Job
      /\ revoked \in [Node -> [Job -> Time]]
  BY DEF IInv, TypeOK
<1>2. /\ Signal(Active(n, j))
      /\ UNCHANGED <<job, node, agent, net, waiter, revoked, rebooted, overtaken>>
  BY DEF WaiterKills
<1>3. Active(n, j) \in SUBSET Active(n, j)
  OBVIOUS
<1>4. /\ steps' \subseteq Stepd
      /\ \A s \in steps' : \E t \in steps :
           /\ s.job = t.job /\ s.node = t.node /\ s.run = t.run
           /\ s = t \/ (s.phase = "killed" /\ t.phase \in {"started", "active"})
      /\ \A s, t \in steps' : s.job = t.job /\ s.run = t.run => s = t
  BY <1>2, <1>3, SignalSteps
<1>5. \A i \in Node, k \in Job : revoked[i][k] <= revoked'[i][k]
  BY <1>1, <1>2, SlurmAssumption DEF Time
<1>6. QED
  BY <1>1, <1>2, <1>4, <1>5 DEF Advances, Launching

\* The run that a request to terminate names is the present one, and afterwards
\* no launch of it comes to anything, unless the request has overtaken it.
LEMMA TerminateKeeps ==
  ASSUME IInv, NEW m \in net, RecvTerminate(m)
  PROVE  StartsNothing \/ Advances
<1> DEFINE n == m.node
           j == m.job
           there == Active(m.node, m.job)
           e == Notice("epilog", m.job, m.node)
<1>1. /\ n \in Node /\ j \in Job /\ waiter \subseteq Node \X Job /\ m \in Message
      /\ node \in [Node -> {"up", "noresp", "down"}] /\ rebooted \subseteq Node
  BY DEF IInv, TypeOK, Message
<1>2. m.type = "terminate" /\ UNCHANGED <<job, node, agent>>
  BY DEF RecvTerminate
<1>3. CASE <<n, j>> \in waiter
  <2>1. net' = net \ {m} /\ UNCHANGED <<steps, waiter, revoked, rebooted, overtaken>>
    BY <1>3 DEF RecvTerminate, daemons
  <2>2. QED
    BY <1>1, <1>2, <2>1, IdleStartsNothing
<1>4. CASE <<n, j>> \notin waiter
  <2>1. /\ Revoke(m) /\ Signal(there) /\ Overtakes(n, j, there)
        /\ waiter' = IF there # {} THEN waiter \cup {<<n, j>>} ELSE waiter
        /\ net' = (net \ {m}) \cup (IF there # {} THEN {} ELSE {e})
        /\ UNCHANGED rebooted
    BY <1>4 DEF RecvTerminate
  <2>2. /\ revoked' \in [Node -> [Job -> Time]]
        /\ \A i \in Node, k \in Job : revoked[i][k] <= revoked'[i][k]
        /\ job[j].runs <= revoked'[n][j]
    BY <1>2, <2>1, RevokeGrows
  <2>3. /\ steps' \subseteq Stepd
        /\ \A s \in steps' : \E t \in steps :
             /\ s.job = t.job /\ s.node = t.node /\ s.run = t.run
             /\ s = t \/ (s.phase = "killed" /\ t.phase \in {"started", "active"})
        /\ \A s, t \in steps' : s.job = t.job /\ s.run = t.run => s = t
        /\ there = {} => steps' = steps
    <3>1. there \in SUBSET Active(n, j)
      OBVIOUS
    <3>2. QED
      BY <1>1, <2>1, <3>1, SignalSteps
  <2>4. /\ overtaken \subseteq overtaken' /\ overtaken' \subseteq Job
        /\ j \notin overtaken' => \A s \in steps : s.job = j /\ s.node = n => s.phase # "checked"
    <3>1. \A s \in there : s.phase # "checked"
      BY DEF Active
    <3>2. QED
      BY <1>1, <2>1, <3>1, OvertakesJob
  <2>5. e \in Message /\ e.type = "epilog" /\ e.node = n /\ e.job = j
    BY <1>1, SlurmAssumption DEF Notice, Message, Time
  <2> HIDE DEF e
  <2>6. ASSUME j \notin overtaken' PROVE Quiet(n, j)'
    <3>1. \A l \in net' : l.type = "launch" => l \in net
      BY <1>1, <2>1, <2>5 DEF Message
    <3>2. \A s \in steps' : s.phase \in {"accepted", "checked"} => s \in steps
      BY <2>3
    <3>3. QED
      BY <2>2, <2>4, <2>6, <3>1, <3>2 DEF Quiet, IInv, Times, Launching
  <2>7. j \notin overtaken' /\ job[j].state = "RUNNING" => n # job[j].host
    BY <1>2, <2>4 DEF IInv, NoneLate
  <2>8. there # {} /\ j \notin overtaken' =>
          node[n] = "down" \/ (job[j].completing /\ job[j].host = n)
    <3>1. ASSUME NEW s \in there, node[n] # "down", j \notin overtaken'
          PROVE  job[j].completing /\ job[j].host = n
      <4>1. Here(j, n)
        BY <2>4, <3>1 DEF Active, IInv, Placed
      <4>2. QED
        BY <1>1, <2>7, <3>1, <4>1 DEF Here, IInv, Records, RecordShape
    <3>2. QED
      BY <3>1
  <2>9. CASE there # {}
    <3>1. waiter' = waiter \cup {<<n, j>>} /\ net' \subseteq net
      BY <2>1, <2>9
    <3>2. QED
      BY <1>1, <1>2, <2>1, <2>2, <2>3, <2>4, <2>6, <2>8, <2>9, <3>1 DEF Advances, Launching
  <2>10. CASE there = {}
    <3>1. /\ waiter' = waiter /\ net' = (net \ {m}) \cup {e} /\ steps' = steps
      BY <2>1, <2>3, <2>10
    <3>2. Active(n, j)' = {}
      BY <2>10, <3>1 DEF Active
    <3>3. QED
      BY <1>1, <1>2, <1>4, <2>1, <2>2, <2>3, <2>4, <2>5, <2>6, <2>7, <3>1, <3>2
         DEF Advances, Launching
  <2>11. QED
    BY <2>9, <2>10
<1>5. QED
  BY <1>3, <1>4
-----------------------------------------------------------------------------
(* The launch of a job, and what its node makes of it.                     *)

\* A launched job has nothing under way, and what runs of it is on nodes that
\* were given up.
LEMMA LaunchKeeps ==
  ASSUME IInv, NEW j \in Job, NEW n \in Node, Launch(j, n)
  PROVE  IInv'
<1> USE DEF IInv
<1> DEFINE q == [job[j] EXCEPT !.state = "RUNNING", !.host = n, !.alloc = TRUE,
                               !.step = TRUE, !.runs = job[j].runs + 1]
           l == [type |-> "launch", job |-> j, node |-> n, time |-> job[j].runs + 1,
                 start |-> 0]
<1>1. /\ job \in [Job -> JobRecord] /\ RecordShape(job[j]) /\ job[j] \in JobRecord
      /\ net \subseteq Message /\ steps \subseteq Stepd
  BY DEF TypeOK, Records
<1>2. /\ job[j].state = "PENDING" /\ ~job[j].completing /\ ~job[j].held
      /\ job[j].runs < MaxRuns /\ node[n] = "up" /\ Settled(j)
      /\ job' = [job EXCEPT ![j] = q]
      /\ agent' = agent \cup {j}
      /\ net' = net \cup {l}
      /\ UNCHANGED <<node, steps, waiter, revoked, rebooted, overtaken>>
  BY DEF Launch, daemons
<1>3. job[j].runs \in Time /\ job[j].runs + 1 \in Time /\ 0 \in Time
  BY <1>1, <1>2, SlurmAssumption DEF JobRecord, Time
<1>4. /\ q \in JobRecord /\ q.state = "RUNNING" /\ q.host = n /\ q.alloc
      /\ q.runs = job[j].runs + 1 /\ RecordShape(q)
  BY <1>1, <1>2, <1>3 DEF JobRecord, RecordShape
<1>5. /\ l \in Message /\ l.type = "launch" /\ l.job = j /\ l.node = n
      /\ l.time = job[j].runs + 1
  BY <1>3 DEF Message
<1> HIDE DEF q, l
<1>6. /\ job'[j] = q
      /\ \A i \in Job : i # j => job'[i] = job[i]
  BY <1>1, <1>2
<1>7. /\ \A m \in net : m.job # j /\ m.job \in Job
      /\ \A s \in steps : s.job \in Job /\ (s.job = j => s.phase \notin Launching)
  BY <1>1, <1>2 DEF Settled, Message, Stepd
<1>8. \A m \in net' : m \in net \/ m = l
  BY <1>2
<1>9. TypeOK'
  BY <1>1, <1>2, <1>4, <1>5 DEF TypeOK
<1>10. Records'
  BY <1>2, <1>4, <1>6 DEF Records
<1>11. ASSUME NEW s \in steps, s.job = j
       PROVE  s.run \in Nat /\ s.run <= job[j].runs /\ s.run < job[j].runs + 1
  BY <1>1, <1>3, <1>11, SlurmAssumption DEF Times, Stepd, Time
<1>12. Times'
  <2>1. ASSUME NEW m \in net'
        PROVE  /\ m.type \in {"launch", "terminate", "abort"} => m.time = job'[m.job].runs
               /\ m.type = "terminate" => m.start = m.time
               /\ m.type = "abort" => m.start <= m.time
    BY <1>4, <1>5, <1>6, <1>7, <1>8 DEF Times
  <2>2. ASSUME NEW s \in steps
        PROVE  /\ s.run <= job'[s.job].runs
               /\ s.phase \in Launching => s.run = job'[s.job].runs
    <3>1. CASE s.job = j
      BY <1>3, <1>4, <1>6, <1>7, <1>11, <3>1, SlurmAssumption DEF Time
    <3>2. CASE s.job # j
      BY <1>6, <1>7, <3>2 DEF Times
    <3>3. QED
      BY <3>1, <3>2
  <2>3. QED
    BY <1>2, <2>1, <2>2 DEF Times
<1>13. Once'
  <2>1. ASSUME NEW m \in net', NEW s \in steps, m.type = "launch", m.job = s.job
        PROVE  s.run # m.time
    <3>1. CASE m = l
      BY <1>5, <1>11, <2>1, <3>1
    <3>2. QED
      BY <1>8, <2>1, <3>1 DEF Once
  <2>2. ASSUME NEW m \in net', NEW k \in net', m.type = "launch", k.type = "launch",
               m.job = k.job
        PROVE  m = k
    BY <1>5, <1>7, <1>8, <2>2 DEF Once
  <2>3. QED
    BY <1>2, <2>1, <2>2 DEF Once
<1>14. \A i \in Job, k \in Node : i # j => (Here(i, k)' <=> Here(i, k))
  BY <1>6 DEF Here
<1>15. Placed'
  <2>1. ASSUME NEW s \in steps, s.job \notin overtaken
        PROVE  \/ node[s.node] = "down"
               \/ Here(s.job, s.node)' /\ s.run = job'[s.job].runs
               \/ s.phase = "accepted" /\ s.run <= revoked[s.node][s.job]
    <3>1. CASE s.job = j
      <4>1. ~job[j].alloc
        BY <1>1, <1>2 DEF RecordShape
      <4>2. QED
        BY <1>7, <2>1, <3>1, <4>1 DEF Placed, Here, Launching
    <3>2. CASE s.job # j
      BY <1>1, <1>6, <1>14, <2>1, <3>2 DEF Placed, Stepd
    <3>3. QED
      BY <3>1, <3>2
  <2>2. ASSUME NEW m \in net', m.type = "launch", m.job \notin overtaken
        PROVE  \/ node[m.node] = "down"
               \/ Here(m.job, m.node)'
               \/ m.time <= revoked[m.node][m.job]
    <3>1. CASE m = l
      BY <1>4, <1>5, <1>6, <3>1 DEF Here
    <3>2. CASE m \in net
      BY <1>1, <1>7, <1>14, <2>2, <3>2 DEF Placed, Message
    <3>3. QED
      BY <1>8, <3>1, <3>2
  <2>3. QED
    BY <1>2, <2>1, <2>2 DEF Placed
<1>16. Answers'
  <2>1. ASSUME NEW i \in Job, NEW k \in Node, i # j \/ k # n, Quiet(k, i)
        PROVE  Quiet(k, i)'
    BY <1>2, <1>5, <1>8, <2>1 DEF Quiet
  <2>2. ASSUME NEW m \in net', m.type = "epilog", m.job \notin overtaken
        PROVE  /\ Active(m.node, m.job)' = {}
               /\ <<m.node, m.job>> \notin waiter'
               /\ Quiet(m.node, m.job)'
    <3>1. m \in net /\ m.job # j /\ m.job \in Job /\ m.node \in Node
      BY <1>1, <1>5, <1>7, <1>8, <2>2 DEF Message
    <3>2. QED
      BY <1>2, <2>1, <2>2, <3>1 DEF Answers, Active
  <2>3. ASSUME NEW k \in Node, NEW i \in Job \ overtaken, <<k, i>> \in waiter'
        PROVE  /\ node'[k] = "down" \/ (job'[i].completing /\ job'[i].host = k)
               /\ Quiet(k, i)'
    <3>1. CASE i = j
      BY <1>2, <2>1, <2>3, <3>1 DEF Answers
    <3>2. CASE i # j
      BY <1>2, <1>6, <2>1, <2>3, <3>2 DEF Answers
    <3>3. QED
      BY <3>1, <3>2
  <2>4. QED
    BY <1>2, <2>2, <2>3 DEF Answers
<1>17. NoneLate'
  BY <1>2, <1>5, <1>6, <1>7, <1>8 DEF NoneLate
<1>18. QED
  BY <1>9, <1>10, <1>12, <1>13, <1>15, <1>16, <1>17

\* There is nothing else of the run that a launch is for, so that only this
\* launch can be concerned by what its node does to the revocation.
LEMMA OnlyLaunch ==
  ASSUME IInv, NEW m \in net, m.type = "launch"
  PROVE  /\ m \in Message /\ m.job \in Job /\ m.node \in Node /\ m.time \in Time
         /\ m.time = job[m.job].runs
         /\ \A s \in steps : s.job = m.job => s.phase \notin Launching /\ s.run # m.time
         /\ \A l \in net : l.type = "launch" /\ l.job = m.job => l = m
<1>1. m \in Message
  BY DEF IInv, TypeOK
<1>2. m.job \in Job /\ m.node \in Node /\ m.time \in Time
  BY <1>1 DEF Message
<1>3. m.time = job[m.job].runs
  BY DEF IInv, Times
<1>4. ASSUME NEW s \in steps, s.job = m.job
      PROVE  s.phase \notin Launching /\ s.run # m.time
  <2>1. s.run # m.time
    BY <1>4 DEF IInv, Once
  <2>2. s.phase \in Launching => s.run = job[s.job].runs
    BY DEF IInv, Times
  <2>3. QED
    BY <1>3, <1>4, <2>1, <2>2
<1>5. \A l \in net : l.type = "launch" /\ l.job = m.job => l = m
  BY DEF IInv, Once
<1>6. QED
  BY <1>1, <1>2, <1>3, <1>4, <1>5

\* slurmd has accepted a launch: nobody has said that the run is over.
LEMMA RecvLaunchKeeps ==
  ASSUME IInv, NEW m \in net, RecvLaunch(m)
  PROVE  IInv'
<1> USE DEF IInv
<1> DEFINE q == [job |-> m.job, node |-> m.node, run |-> m.time, phase |-> "accepted"]
<1>1. /\ m.type = "launch" /\ m.job \in agent
      /\ revoked[m.node][m.job] < m.time
      /\ revoked' = [revoked EXCEPT ![m.node][m.job] = 0]
      /\ steps' = steps \cup {q}
      /\ net' = net \ {m}
      /\ agent' \in {agent, agent \ {m.job}}
      /\ UNCHANGED <<job, node, waiter, rebooted, overtaken>>
  BY DEF RecvLaunch
<1>2. /\ m \in Message /\ m.job \in Job /\ m.node \in Node /\ m.time \in Time
      /\ m.time = job[m.job].runs
      /\ \A s \in steps : s.job = m.job => s.phase \notin Launching /\ s.run # m.time
      /\ \A l \in net : l.type = "launch" /\ l.job = m.job => l = m
  BY <1>1, OnlyLaunch
<1>3. /\ q \in Stepd /\ q.job = m.job /\ q.node = m.node /\ q.run = m.time
      /\ q.phase = "accepted"
  BY <1>2 DEF Stepd
<1> HIDE DEF q
<1>4. \A s \in steps' : s \in steps \/ s = q
  BY <1>1
<1>5. /\ net \subseteq Message /\ steps \subseteq Stepd
      /\ revoked \in [Node -> [Job -> Time]] /\ 0 \in Time
  BY SlurmAssumption DEF TypeOK, Time
<1>6. revoked' \in [Node -> [Job -> Time]]
  BY <1>1, <1>5
<1>7. \A n \in Node, j \in Job : n # m.node \/ j # m.job => revoked'[n][j] = revoked[n][j]
  BY <1>1, <1>5
<1>8. ~(m.time <= revoked[m.node][m.job])
  BY <1>1, <1>2, <1>5, SlurmAssumption DEF Time
<1>9. ~Quiet(m.node, m.job)
  BY <1>1, <1>8 DEF Quiet
<1>10. TypeOK'
  BY <1>1, <1>3, <1>6 DEF TypeOK
<1>11. Records'
  BY <1>1 DEF Records
<1>12. Times'
  <2>1. m.time <= m.time
    BY <1>2, SlurmAssumption DEF Time
  <2>2. QED
    BY <1>1, <1>2, <1>3, <1>4, <2>1 DEF Times
<1>13. Once'
  <2>1. \A s, t \in steps' : s.job = t.job /\ s.run = t.run => s = t
    BY <1>2, <1>3, <1>4 DEF Once
  <2>2. \A l \in net', s \in steps' : l.type = "launch" /\ l.job = s.job => s.run # l.time
    BY <1>1, <1>2, <1>3, <1>4 DEF Once
  <2>3. QED
    BY <1>1, <2>1, <2>2 DEF Once
<1>14. Placed'
  <2>1. m.job \notin overtaken => node[m.node] = "down" \/ Here(m.job, m.node)
    BY <1>1, <1>8 DEF Placed
  <2>2. ASSUME NEW s \in steps', s.job \notin overtaken
        PROVE  \/ node[s.node] = "down"
               \/ Here(s.job, s.node) /\ s.run = job[s.job].runs
               \/ s.phase = "accepted" /\ s.run <= revoked'[s.node][s.job]
    <3>1. CASE s = q
      BY <1>2, <1>3, <2>1, <2>2, <3>1
    <3>2. CASE s \in steps
      <4>1. s.node \in Node /\ s.job \in Job
        BY <1>5, <3>2 DEF Stepd
      <4>2. QED
        BY <1>2, <1>7, <2>2, <3>2, <4>1 DEF Placed, Launching
    <3>3. QED
      BY <1>4, <3>1, <3>2
  <2>3. ASSUME NEW l \in net', l.type = "launch", l.job \notin overtaken
        PROVE  \/ node[l.node] = "down"
               \/ Here(l.job, l.node)
               \/ l.time <= revoked'[l.node][l.job]
    <3>1. l \in net /\ l.job # m.job
      BY <1>1, <1>2, <2>3
    <3>2. l.job \in Job /\ l.node \in Node
      BY <1>5, <3>1 DEF Message
    <3>3. QED
      BY <1>7, <2>3, <3>1, <3>2 DEF Placed
  <2>4. QED
    BY <1>1, <2>2, <2>3 DEF Placed, Here
<1>15. ASSUME NEW n \in Node, NEW j \in Job, Quiet(n, j)
       PROVE  Quiet(n, j)'
  <2>1. n # m.node \/ j # m.job
    BY <1>9, <1>15
  <2>2. revoked'[n][j] = revoked[n][j]
    BY <1>7, <2>1
  <2>3. QED
    BY <1>1, <1>3, <1>4, <1>15, <2>1, <2>2 DEF Quiet
<1>16. \A n \in Node, j \in Job : Active(n, j)' = Active(n, j)
  BY <1>1, <1>3 DEF Active
<1>17. Answers'
  <2>1. \A l \in net' : l.job \in Job /\ l.node \in Node /\ l \in net
    BY <1>1, <1>5 DEF Message
  <2>2. QED
    BY <1>1, <1>15, <1>16, <2>1 DEF Answers
<1>18. NoneLate'
  BY <1>1 DEF NoneLate
<1>19. QED
  BY <1>10, <1>11, <1>12, <1>13, <1>14, <1>17, <1>18

\* A launch that is given up leaves nothing that its revocation would concern.
LEMMA LaunchUnconfirmedKeeps ==
  ASSUME IInv, NEW m \in net, LaunchUnconfirmed(m)
  PROVE  IInv'
<1> USE DEF IInv
<1> DEFINE q == Notice("requeue", m.job, m.node)
           new == IF revoked[m.node][m.job] < m.time THEN 0 ELSE revoked[m.node][m.job]
<1>1. /\ m.type = "launch"
      /\ revoked' = [revoked EXCEPT ![m.node][m.job] = IF @ < m.time THEN 0 ELSE @]
      /\ net' = (net \ {m}) \cup {q}
      /\ UNCHANGED <<job, node, agent, steps, waiter, rebooted, overtaken>>
  BY DEF LaunchUnconfirmed
<1>2. /\ m \in Message /\ m.job \in Job /\ m.node \in Node /\ m.time \in Time
      /\ \A s \in steps : s.job = m.job => s.phase \notin Launching /\ s.run # m.time
      /\ \A l \in net : l.type = "launch" /\ l.job = m.job => l = m
  BY <1>1, OnlyLaunch
<1>3. q \in Message /\ q.type = "requeue"
  BY <1>2, SlurmAssumption DEF Message, Notice, Time
<1> HIDE DEF q
<1>4. /\ net \subseteq Message /\ steps \subseteq Stepd
      /\ revoked \in [Node -> [Job -> Time]] /\ 0 \in Time
  BY SlurmAssumption DEF TypeOK, Time
<1>5. revoked' \in [Node -> [Job -> Time]]
  BY <1>1, <1>2, <1>4
<1>6. \A n \in Node, j \in Job : n # m.node \/ j # m.job => revoked'[n][j] = revoked[n][j]
  BY <1>1, <1>4
<1>7. \A l \in net' : l \in Message /\ (l.type # "requeue" => l \in net /\ l # m)
  BY <1>1, <1>3, <1>4
<1>8. \A l \in net' : l.type = "launch" => l \in net /\ l.job # m.job
  BY <1>2, <1>7
<1>9. TypeOK'
  BY <1>1, <1>5, <1>7 DEF TypeOK
<1>10. Records'
  BY <1>1 DEF Records
<1>11. Times'
  BY <1>1, <1>7 DEF Times
<1>12. Once'
  BY <1>1, <1>7 DEF Once
<1>13. Placed'
  <2>1. ASSUME NEW s \in steps, s.job \notin overtaken
        PROVE  \/ node[s.node] = "down"
               \/ Here(s.job, s.node) /\ s.run = job[s.job].runs
               \/ s.phase = "accepted" /\ s.run <= revoked'[s.node][s.job]
    <3>1. s.node \in Node /\ s.job \in Job
      BY <1>4 DEF Stepd
    <3>2. QED
      BY <1>2, <1>6, <2>1, <3>1 DEF Placed, Launching
  <2>2. ASSUME NEW l \in net', l.type = "launch", l.job \notin overtaken
        PROVE  \/ node[l.node] = "down"
               \/ Here(l.job, l.node)
               \/ l.time <= revoked'[l.node][l.job]
    <3>1. l \in net /\ l.job # m.job /\ l.job \in Job /\ l.node \in Node
      BY <1>4, <1>8, <2>2 DEF Message
    <3>2. QED
      BY <1>6, <2>2, <3>1 DEF Placed
  <2>3. QED
    BY <1>1, <2>1, <2>2 DEF Placed, Here
<1>14. ASSUME NEW n \in Node, NEW j \in Job, Quiet(n, j)
       PROVE  Quiet(n, j)'
  <2>1. CASE j = m.job
    BY <1>1, <1>2, <1>8, <2>1 DEF Quiet, Launching
  <2>2. CASE j # m.job
    BY <1>1, <1>6, <1>8, <1>14, <2>2 DEF Quiet
  <2>3. QED
    BY <2>1, <2>2
<1>15. Answers'
  <2>1. \A l \in net' : l.job \in Job /\ l.node \in Node
    BY <1>7 DEF Message
  <2>2. \A n \in Node, j \in Job : Active(n, j)' = Active(n, j)
    BY <1>1 DEF Active
  <2>3. QED
    BY <1>1, <1>7, <1>14, <2>1, <2>2 DEF Answers
<1>16. NoneLate'
  BY <1>1, <1>7 DEF NoneLate
<1>17. QED
  BY <1>9, <1>10, <1>11, <1>12, <1>13, <1>15, <1>16

\* A revocation is forgotten when no launch is left that it is to stop.
LEMMA ExpireKeeps ==
  ASSUME IInv, NEW n \in Node, NEW j \in Job, Expire(n, j)
  PROVE  IInv'
<1> USE DEF IInv
<1>1. /\ \A m \in net : m.type = "launch" /\ m.job = j /\ m.node = n => m.time > revoked[n][j]
      /\ \A s \in steps : s.phase \in Launching /\ s.job = j /\ s.node = n
                            => s.run > revoked[n][j]
      /\ revoked' = [revoked EXCEPT ![n][j] = 0]
      /\ UNCHANGED <<job, node, agent, net, steps, waiter, rebooted, overtaken>>
  BY DEF Expire
<1>2. /\ net \subseteq Message /\ steps \subseteq Stepd
      /\ revoked \in [Node -> [Job -> Time]] /\ 0 \in Time
  BY SlurmAssumption DEF TypeOK, Time
<1>3. \A k \in Node, i \in Job : k # n \/ i # j => revoked'[k][i] = revoked[k][i]
  BY <1>1, <1>2
<1>4. ASSUME NEW m \in net, m.type = "launch", m.time <= revoked[m.node][m.job]
      PROVE  revoked'[m.node][m.job] = revoked[m.node][m.job]
  <2>1. m.node \in Node /\ m.job \in Job /\ m.time \in Nat /\ revoked[n][j] \in Nat
    BY <1>2, SlurmAssumption DEF Message, Time
  <2>2. QED
    BY <1>1, <1>3, <1>4, <2>1
<1>5. ASSUME NEW s \in steps, s.phase = "accepted", s.run <= revoked[s.node][s.job]
      PROVE  revoked'[s.node][s.job] = revoked[s.node][s.job]
  <2>1. s.node \in Node /\ s.job \in Job /\ s.run \in Nat /\ revoked[n][j] \in Nat
    BY <1>2, SlurmAssumption DEF Stepd, Time
  <2>2. QED
    BY <1>1, <1>3, <1>5, <2>1 DEF Launching
<1>6. TypeOK'
  BY <1>1, <1>2 DEF TypeOK
<1>7. Records' /\ Times' /\ Once' /\ NoneLate'
  BY <1>1 DEF Records, Times, Once, NoneLate
<1>8. Placed'
  BY <1>1, <1>4, <1>5 DEF Placed, Here
<1>9. ASSUME NEW k \in Node, NEW i \in Job, Quiet(k, i)
      PROVE  Quiet(k, i)'
  <2>1. \A m \in net : m.type = "launch" /\ m.job = i /\ m.node = k
                         => m.time <= revoked'[k][i]
    BY <1>4, <1>9 DEF Quiet
  <2>2. \A s \in steps : s.job = i /\ s.node = k =>
          s.phase # "checked" /\ (s.phase = "accepted" => s.run <= revoked'[k][i])
    BY <1>5, <1>9 DEF Quiet
  <2>3. QED
    BY <1>1, <2>1, <2>2 DEF Quiet
<1>10. Answers'
  <2>1. \A m \in net : m.job \in Job /\ m.node \in Node
    BY <1>2 DEF Message
  <2>2. \A k \in Node, i \in Job : Active(k, i)' = Active(k, i)
    BY <1>1 DEF Active
  <2>3. QED
    BY <1>1, <1>9, <2>1, <2>2 DEF Answers
<1>11. QED
  BY <1>6, <1>7, <1>8, <1>10
-----------------------------------------------------------------------------
(* The invariant.                                                          *)

\* Every step is a launch, the arrival of a launch, the end of a revocation, or
\* of one of the two kinds above.
LEMMA StepKinds ==
  ASSUME IInv, [Next]_vars
  PROVE  \/ StartsNothing
         \/ Advances
         \/ \E j \in Job, n \in Node : Launch(j, n) \/ Expire(n, j)
         \/ \E m \in net : RecvLaunch(m) \/ LaunchUnconfirmed(m)
<1>1. ASSUME NEW j \in Job,
             \/ Submit(j) \/ LaunchTimeout(j) \/ Cancel(j) \/ TimeLimit(j)
             \/ ReKill(j) \/ Purge(j)
             \/ \E n \in Node : WaiterKills(n, j) \/ WaiterDone(n, j)
      PROVE  StartsNothing \/ Advances
  BY <1>1, SubmitStartsNothing, LaunchTimeoutStartsNothing, EndStartsNothing,
     ReKillStartsNothing, PurgeStartsNothing, WaiterKillsAdvances, WaiterDoneAdvances
<1>2. ASSUME NEW m \in net,
             \/ RecvEpilog(m) \/ RecvRequeue(m) \/ LaunchRevoked(m) \/ Lose(m)
             \/ RecvTerminate(m) \/ \E unopened \in BOOLEAN : RecvAbort(m, unopened)
      PROVE  StartsNothing \/ Advances
  BY <1>2, EpilogStartsNothing, RequeueStartsNothing, LaunchRevokedStartsNothing,
     EventStartsNothing, TerminateKeeps, AbortAdvances
<1>3. ASSUME NEW s \in steps,
             \/ Check(s) \/ Start(s) \/ Recheck(s) \/ StartFails(s)
             \/ ScriptEnds(s) \/ Report(s) \/ StepdDies(s)
      PROVE  StartsNothing \/ Advances
  BY <1>3, CheckKeeps, EventStartsNothing, StepAdvances, ReportStartsNothing
<1>4. ASSUME NEW n \in Node,
             \/ NodeNotResp(n) \/ NodeDidResp(n) \/ NodeDown(n) \/ Reboot(n)
             \/ \E recent \in SUBSET Job, unopened \in BOOLEAN : Register(n, recent, unopened)
      PROVE  StartsNothing
  BY <1>4, EventStartsNothing, NodeDownStartsNothing, RegisterStartsNothing
<1>5. CASE UNCHANGED vars
  BY <1>5, EventStartsNothing
<1>6. QED
  BY <1>1, <1>2, <1>3, <1>4, <1>5 DEF Next

\* The invariant holds at the start.
LEMMA InvariantInit == Init => IInv
<1> SUFFICES ASSUME Init PROVE IInv
  OBVIOUS
<1>1. TypeOK
  BY SlurmAssumption DEF Init, TypeOK, JobRecord, Time
<1>2. Records
  BY DEF Init, Records, RecordShape
<1>3. Times /\ Once /\ Placed /\ Answers /\ NoneLate
  BY DEF Init, Times, Once, Placed, Answers, NoneLate
<1>4. QED
  BY <1>1, <1>2, <1>3 DEF IInv

\* Every step keeps the invariant.
LEMMA InvariantNext == IInv /\ [Next]_vars => IInv'
  BY StepKinds, StartsNothingKeeps, AdvancesKeeps, LaunchKeeps, RecvLaunchKeeps,
     LaunchUnconfirmedKeeps, ExpireKeeps

\* The records, the requests under way and the processes stay in step, whatever
\* is lost, delayed or reordered.
THEOREM Invariant == Spec => []IInv
  BY InvariantInit, InvariantNext, PTL DEF Spec

\* The types of the state are an invariant.
THEOREM TypeCorrect == Spec => []TypeOK
<1>1. IInv => TypeOK
  BY DEF IInv
<1>2. QED
  BY <1>1, Invariant, PTL

\* A running job keeps its node, and no late request, answer or report of an
\* earlier run is taken for its present one, until a kill request has overtaken one
\* of its launches (RunIsCurrent).
THEOREM RunCurrent == Spec => []RunIsCurrent
<1>1. ASSUME IInv PROVE RunIsCurrent
  <2> SUFFICES ASSUME NEW j \in Job \ overtaken, job[j].state = "RUNNING"
               PROVE  /\ job[j].alloc /\ ~job[j].completing /\ node[job[j].host] # "down"
                      /\ \A s \in steps : s.job = j /\ s.node = job[j].host
                                             => s.run = job[j].runs
                      /\ <<job[j].host, j>> \notin waiter
    BY DEF RunIsCurrent
  <2>1. /\ job[j].alloc /\ ~job[j].completing /\ node[job[j].host] # "down"
        /\ job[j].host \in Node
    BY <1>1 DEF IInv, Records, RecordShape
  <2>2. ASSUME NEW s \in steps, s.job = j, s.node = job[j].host
        PROVE  s.run = job[j].runs
    BY <1>1, <2>1, <2>2 DEF IInv, Placed, Times, Launching
  <2>3. <<job[j].host, j>> \notin waiter
    BY <1>1, <2>1 DEF IInv, Answers
  <2>4. QED
    BY <2>1, <2>2, <2>3
<1>2. QED
  BY <1>1, Invariant, PTL

\* Two copies of a job exist only if slurmctld gave up the node of one, or a kill
\* request has overtaken a launch of the job (OneCopy).
THEOREM NoSecondCopy == Spec => []OneCopy
<1>1. ASSUME IInv PROVE OneCopy
  <2> SUFFICES ASSUME NEW s \in steps, NEW t \in steps, s.job = t.job, s # t,
                      s.job \notin overtaken,
                      node[s.node] # "down", node[t.node] # "down"
               PROVE  FALSE
    BY DEF OneCopy
  <2>1. s.run = job[s.job].runs
    BY <1>1 DEF IInv, Placed, Times, Launching
  <2>2. t.run = job[t.job].runs
    BY <1>1 DEF IInv, Placed, Times, Launching
  <2>3. QED
    BY <1>1, <2>1, <2>2 DEF IInv, Once
<1>2. QED
  BY <1>1, Invariant, PTL

\* A job that is over and not completing has left a process, or a launch that
\* will be one, only on nodes that are DOWN, until a kill request has overtaken one
\* of its launches (GoneFromNodes).
THEOREM NothingLeft == Spec => []GoneFromNodes
<1>1. ASSUME IInv PROVE GoneFromNodes
  <2> SUFFICES ASSUME NEW j \in Job \ overtaken, job[j].state \in Finished \cup {"PURGED"},
                      ~job[j].completing, NEW n \in Node, ServesAt(n, j)
               PROVE  node[n] = "down"
    BY DEF GoneFromNodes
  <2>1. ~job[j].alloc
    BY <1>1 DEF IInv, Records, RecordShape
  <2>2. revoked[n][j] \in Nat
    BY <1>1, SlurmAssumption DEF IInv, TypeOK, Time
  <2>3. ASSUME NEW s \in steps, s.job = j, s.node = n,
               \/ s.phase \in {"checked", "started", "active", "killed"}
               \/ s.phase = "accepted" /\ s.run > revoked[n][j]
        PROVE  node[n] = "down"
    <3>1. s.run \in Nat
      BY <1>1, SlurmAssumption DEF IInv, TypeOK, Stepd, Time
    <3>2. QED
      BY <1>1, <2>1, <2>2, <2>3, <3>1 DEF IInv, Placed, Here
  <2>4. ASSUME NEW m \in net, m.job = j, m.node = n, m.type = "launch",
               m.time > revoked[n][j]
        PROVE  node[n] = "down"
    <3>1. m.time \in Nat
      BY <1>1, SlurmAssumption DEF IInv, TypeOK, Message, Time
    <3>2. QED
      BY <1>1, <2>1, <2>2, <2>4, <3>1 DEF IInv, Placed, Here
  <2>5. QED
    BY <2>3, <2>4 DEF ServesAt
<1>2. QED
  BY <1>1, Invariant, PTL
-----------------------------------------------------------------------------
(* The daemons implement ClusterJobs.                                      *)

\* How a job is shown.
ShownAs(j) ==
  /\ job[j].state = "none" => Shown(j) = "none"
  /\ job[j].state # "none" /\ ~Final(job[j]) => Shown(j) = "live"
  /\ Final(job[j]) => Shown(j) = IF job[j].completing \/ Serves(j) THEN "ending" ELSE "ended"

AllShown == \A j \in Job : ShownAs(j)

\* Every job is shown so, before a step and after it.
LEMMA ShownIs == IInv => AllShown
<1> SUFFICES ASSUME IInv, NEW j \in Job PROVE ShownAs(j)
  BY DEF AllShown
<1>1. job[j] \in JobRecord
  BY DEF IInv, TypeOK
<1>2. CASE job[j].state = "none"
  BY <1>2 DEF ShownAs, Shown, Final
<1>3. CASE job[j].state # "none" /\ ~Final(job[j])
  BY <1>1, <1>3 DEF ShownAs, Shown, Final, JobRecord
<1>4. CASE Final(job[j])
  BY <1>4 DEF ShownAs, Shown, Final
<1>5. QED
  BY <1>2, <1>3, <1>4

\* The same after a step.
LEMMA ShownIsNext == IInv' => AllShown'
  BY ShownIs, PTL

\* A job that nothing is launched for takes a step of its abstract life, or none.
LEMMA ShownStep ==
  ASSUME IInv, IInv', NEW j \in Job, Follows(job[j], job'[j]), Serves(j)' => Serves(j)
  PROVE  Shown(j)' = Shown(j) \/ <<Shown(j), Shown(j)'>> \in Abstract!Step
<1> DEFINE r == job[j]
           q == job'[j]
<1>1. r \in JobRecord /\ RecordShape(r) /\ q \in JobRecord /\ RecordShape(q)
  BY DEF IInv, TypeOK, Records
<1>2. /\ r.state = "none" => Shown(j) = "none"
      /\ r.state # "none" /\ ~Final(r) => Shown(j) = "live"
      /\ Final(r) => Shown(j) = IF r.completing \/ Serves(j) THEN "ending" ELSE "ended"
  BY ShownIs DEF AllShown, ShownAs
<1>3. /\ q.state = "none" => Shown(j)' = "none"
      /\ q.state # "none" /\ ~Final(q) => Shown(j)' = "live"
      /\ Final(q) => Shown(j)' = IF q.completing \/ Serves(j)' THEN "ending" ELSE "ended"
  BY ShownIsNext DEF AllShown, ShownAs, Final
<1>4. Final(r) /\ q.completing => r.completing
  BY <1>1 DEF Follows, RecordShape, Final
<1>5. /\ Final(r) => Final(q)
      /\ q.state = "none" => r.state = "none"
      /\ r.state = "none" => q.state \in {"none", "PENDING"} /\ ~q.held
  BY DEF Follows
<1>6. r.state = "none" => ~Final(q)
  BY <1>5 DEF Final
<1> HIDE DEF r, q
<1>7. CASE r.state = "none"
  BY <1>2, <1>3, <1>6, <1>7 DEF Abstract!Step
<1>8. CASE r.state # "none" /\ ~Final(r)
  BY <1>2, <1>3, <1>5, <1>8 DEF Abstract!Step
<1>9. CASE Final(r)
  BY <1>2, <1>3, <1>4, <1>5, <1>9 DEF Abstract!Step
<1>10. QED
  BY <1>7, <1>8, <1>9

\* A step that starts nothing, or advances what was launched, brings no process
\* where none was to come.
LEMMA ServesNoMore ==
  ASSUME IInv, StartsNothing \/ Advances, NEW j \in Job, Serves(j)'
  PROVE  Serves(j)
<1>1. PICK n \in Node : ServesAt(n, j)'
  BY DEF Serves
<1>2. \A m \in net' : m.type = "launch" => m \in net
  BY DEF StartsNothing, Advances, Sendable
<1>3. agent' \subseteq agent
  BY DEF StartsNothing, Advances
<1>4. \A s \in steps : s.run \in Nat
  BY SlurmAssumption DEF IInv, TypeOK, Stepd, Time
<1>5. \A m \in net : m.time \in Nat
  BY SlurmAssumption DEF IInv, TypeOK, Message, Time
<1>6. /\ revoked[n][j] \in Nat /\ revoked'[n][j] \in Nat
      /\ revoked[n][j] <= revoked'[n][j]
  <2>1. revoked[n][j] \in Nat
    BY SlurmAssumption DEF IInv, TypeOK, Time
  <2>2. CASE StartsNothing
    BY <2>1, <2>2 DEF StartsNothing
  <2>3. CASE Advances
    BY <2>1, <2>3, SlurmAssumption DEF Advances, Time
  <2>4. QED
    BY <2>2, <2>3
<1>7. CASE \E m \in net' : /\ m.job = j /\ m.node = n /\ m.type = "launch" /\ j \in agent'
                           /\ m.time > revoked'[n][j]
  <2>1. PICK m \in net : /\ m.job = j /\ m.node = n /\ m.type = "launch" /\ j \in agent
                         /\ m.time > revoked'[n][j]
    BY <1>2, <1>3, <1>7
  <2>2. m.time > revoked[n][j]
    BY <1>5, <1>6, <2>1
  <2>3. QED
    BY <2>1, <2>2 DEF Serves, ServesAt
<1>8. ASSUME NEW s \in steps', s.job = j, s.node = n,
             \/ s.phase \in {"checked", "started", "active", "killed"}
             \/ s.phase = "accepted" /\ s.run > revoked'[n][j]
      PROVE  Serves(j)
  <2>1. PICK t \in steps :
          /\ t.job = j /\ t.node = n /\ t.run = s.run
          /\ s.phase = "accepted" => s = t
          /\ s.phase # "accepted" /\ t.phase = "accepted" => t.run > revoked'[n][j]
          /\ t.phase = "reporting" => s.phase = "reporting"
    <3>1. CASE StartsNothing
      <4>1. s \in steps
        BY <3>1 DEF StartsNothing
      <4>2. QED
        BY <1>8, <4>1
    <3>2. CASE Advances
      BY <1>8, <3>2 DEF Advances
    <3>3. QED
      BY <3>1, <3>2
  <2>2. t.phase \in {"accepted", "checked", "started", "active", "killed"}
    BY <1>8, <2>1 DEF IInv, TypeOK, Stepd
  <2>3. t.phase = "accepted" => t.run > revoked[n][j]
    BY <1>4, <1>6, <1>8, <2>1
  <2>4. QED
    BY <2>1, <2>2, <2>3 DEF Serves, ServesAt
<1>9. QED
  BY <1>1, <1>7, <1>8 DEF ServesAt

\* Nor does a node that takes up a launch, or gives it up.
LEMMA ServesNoMoreByLaunch ==
  ASSUME IInv, NEW l \in net, RecvLaunch(l) \/ LaunchUnconfirmed(l),
         NEW j \in Job, Serves(j)'
  PROVE  Serves(j)
<1>1. l.type = "launch"
  BY DEF RecvLaunch, LaunchUnconfirmed
<1>2. /\ l \in Message /\ l.job \in Job /\ l.node \in Node /\ l.time \in Time
      /\ \A s \in steps : s.job = l.job => s.phase \notin Launching /\ s.run # l.time
      /\ \A m \in net : m.type = "launch" /\ m.job = l.job => m = l
  BY <1>1, OnlyLaunch
<1>3. revoked \in [Node -> [Job -> Time]]
  BY DEF IInv, TypeOK
<1>4. \A n \in Node, i \in Job : i # l.job => revoked'[n][i] = revoked[n][i]
  BY <1>3 DEF RecvLaunch, LaunchUnconfirmed
<1>5. /\ \A m \in net' : m.type = "launch" => m \in net /\ m.job # l.job
      /\ agent' \subseteq agent
  <2>1. CASE RecvLaunch(l)
    BY <1>2, <2>1 DEF RecvLaunch
  <2>2. CASE LaunchUnconfirmed(l)
    BY <1>2, <2>2 DEF LaunchUnconfirmed, Notice
  <2>3. QED
    BY <2>1, <2>2
<1>6. \A s \in steps' : s \in steps \/ (s.job = l.job /\ s.phase = "accepted" /\ RecvLaunch(l))
  BY DEF RecvLaunch, LaunchUnconfirmed
<1>7. PICK n \in Node : ServesAt(n, j)'
  BY DEF Serves
<1>8. CASE j # l.job
  <2>1. ServesAt(n, j)
    BY <1>4, <1>5, <1>6, <1>7, <1>8 DEF ServesAt
  <2>2. QED
    BY <2>1 DEF Serves
<1>9. CASE j = l.job
  <2>1. CASE RecvLaunch(l)
    <3>1. ServesAt(l.node, j)
      BY <1>2, <1>3, <1>9, <2>1, SlurmAssumption DEF ServesAt, RecvLaunch, Time
    <3>2. QED
      BY <1>2, <3>1 DEF Serves
  <2>2. CASE ~RecvLaunch(l)
    <3>1. \E t \in steps : t.job = j /\ t.node = n /\ t.phase \in {"active", "killed"}
      BY <1>2, <1>5, <1>6, <1>7, <1>9, <2>2 DEF ServesAt, Launching
    <3>2. QED
      BY <3>1 DEF Serves, ServesAt
  <2>3. QED
    BY <2>1, <2>2
<1>10. QED
  BY <1>8, <1>9

\* Nor does the end of a revocation.
LEMMA ServesNoMoreByExpiry ==
  ASSUME IInv, NEW k \in Node, NEW i \in Job, Expire(k, i), NEW j \in Job, Serves(j)'
  PROVE  Serves(j)
<1>1. PICK n \in Node : ServesAt(n, j)'
  BY DEF Serves
<1>2. /\ revoked \in [Node -> [Job -> Time]]
      /\ UNCHANGED <<agent, net, steps>>
      /\ revoked' = [revoked EXCEPT ![k][i] = 0]
  BY DEF IInv, TypeOK, Expire
<1>3. CASE n = k /\ j = i
  BY <1>1, <1>2, <1>3 DEF Serves, ServesAt, Expire, Launching
<1>4. CASE n # k \/ j # i
  <2>1. revoked'[n][j] = revoked[n][j]
    BY <1>2, <1>4
  <2>2. QED
    BY <1>1, <1>2, <2>1 DEF Serves, ServesAt
<1>5. QED
  BY <1>3, <1>4

\* A launched job was shown as live, and stays so; no other job changes.
LEMMA LaunchShown ==
  ASSUME IInv, IInv', NEW i \in Job, NEW n \in Node, Launch(i, n), NEW j \in Job
  PROVE  Shown(j)' = Shown(j)
<1>1. ShownAs(j) /\ ShownAs(j)'
  BY ShownIs, ShownIsNext DEF AllShown
<1>2. job \in [Job -> JobRecord]
  BY DEF IInv, TypeOK
<1>3. CASE j = i
  <2>1. job[j].state = "PENDING" /\ ~job[j].held /\ job'[j].state = "RUNNING"
    BY <1>2, <1>3 DEF Launch, JobRecord
  <2>2. ~Final(job[j]) /\ ~Final(job'[j])
    BY <2>1 DEF Final
  <2>3. QED
    BY <1>1, <2>1, <2>2 DEF ShownAs, Final
<1>4. CASE j # i
  <2>1. job'[j] = job[j]
    BY <1>2, <1>4 DEF Launch
  <2>2. Serves(j)' <=> Serves(j)
    <3>1. \A k \in Node : ServesAt(k, j)' <=> ServesAt(k, j)
      BY <1>4 DEF Launch, ServesAt, daemons
    <3>2. QED
      BY <3>1 DEF Serves
  <2>3. QED
    BY <1>1, <2>1, <2>2 DEF ShownAs, Final
<1>5. QED
  BY <1>3, <1>4

\* Every step of the daemons is a step of the abstract life of the jobs, or none.
LEMMA ClusterNext == IInv /\ IInv' /\ [Next]_vars => Abstract!Next
<1> SUFFICES ASSUME IInv, IInv', [Next]_vars PROVE Abstract!Next
  OBVIOUS
<1>1. ASSUME NEW j \in Job
      PROVE  Shown(j)' = Shown(j) \/ <<Shown(j), Shown(j)'>> \in Abstract!Step
  <2>1. CASE \E i \in Job, n \in Node : Launch(i, n)
    BY <2>1, LaunchShown
  <2>2. CASE \/ StartsNothing \/ Advances
             \/ \E m \in net : RecvLaunch(m) \/ LaunchUnconfirmed(m)
             \/ \E n \in Node, i \in Job : Expire(n, i)
    <3>1. Serves(j)' => Serves(j)
      BY <2>2, ServesNoMore, ServesNoMoreByLaunch, ServesNoMoreByExpiry
    <3>2. Follows(job[j], job'[j])
      <4>1. CASE StartsNothing
        BY <4>1 DEF StartsNothing
      <4>2. CASE ~StartsNothing
        <5>1. job' = job
          BY <2>2, <4>2 DEF Advances, RecvLaunch, LaunchUnconfirmed, Expire
        <5>2. job[j] \in JobRecord /\ RecordShape(job[j])
          BY DEF IInv, TypeOK, Records
        <5>3. QED
          BY <5>1, <5>2, SameRecord DEF Stays
      <4>3. QED
        BY <4>1, <4>2
    <3>3. QED
      BY <3>1, <3>2, ShownStep
  <2>3. QED
    BY <2>1, <2>2, StepKinds
<1>2. ASSUME NEW j \in Job
      PROVE  Shown(j)' \in {"none", "live", "ending", "ended"}
  BY ShownIsNext DEF AllShown, ShownAs, Final
<1>3. QED
  BY <1>1, <1>2 DEF Abstract!Next

\* The daemons keep the promise the driver relies on (ClusterSpec): a job that is
\* cancelled or has ended never runs again, and one that is shown as ended has no
\* process anywhere and never gets one.
THEOREM ClusterRefinement == Spec => ClusterSpec
<1>1. Init => Abstract!Init
  <2> SUFFICES ASSUME Init PROVE Abstract!Init
    OBVIOUS
  <2>1. \A j \in Job : Shown(j) = "none"
    BY DEF Init, Shown
  <2>2. QED
    BY <2>1 DEF Abstract!Init
<1>2. QED
  BY <1>1, Invariant, ClusterNext, PTL DEF Spec, ClusterSpec, Abstract!Spec
=============================================================================
