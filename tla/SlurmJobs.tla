----------------------------- MODULE SlurmJobs -----------------------------
(***************************************************************************)
(* The life of a batch job inside Slurm: slurmctld's job and node tables,  *)
(* slurmd on every node, and the messages between them, which may be lost, *)
(* delayed and reordered.  The jobs of the Slurm driver are batch jobs on  *)
(* one node, submitted and cancelled through slurmrestd.                   *)
(*                                                                         *)
(* slurmctld takes its job and node locks for the whole of every handler,  *)
(* so that each is one step.  A kill request names the job and carries the *)
(* time it was made; a launch carries the time of its credential.  A time  *)
(* is the number of launches of the job so far: kill requests made while a *)
(* run was current have its number.  Every request is sent once            *)
(* (agent_args->retry = 0); what sends again is re_kill_job() and the      *)
(* registration of a node.                                                 *)
(*                                                                         *)
(* Configuration (docker-compose.yml, slurm.conf): jobs may be requeued,   *)
(* ReturnToService is 0, so that a node that went DOWN stays DOWN, there   *)
(* is no prolog or epilog program.  Left out: restarts of slurmctld, what  *)
(* an administrator may do, suspended, array, het and federated jobs.      *)
(***************************************************************************)
EXTENDS Naturals

CONSTANTS
  Job,      \* job ids; slurmctld does not use one again
  Node,
  NoNode,
  MaxRuns   \* model bound: launches of one job

ASSUME SlurmAssumption == NoNode \notin Node /\ MaxRuns \in Nat \ {0}

VARIABLES
  job,       \* slurmctld's job_record_t
  node,      \* slurmctld's state of each node
  agent,     \* jobs whose launch request an agent thread waits for an answer to
  net,       \* requests and messages under way
  steps,     \* slurmstepd processes, and launch threads of slurmd
  waiter,    \* <<node, job>>: slurmd waits for the job's processes to end
  revoked,   \* node -> job -> time up to which credentials are revoked, or 0
  rebooted,  \* nodes that restarted and have not registered since
  overtaken  \* history: jobs of which a kill request missed a process being started

daemons == <<steps, waiter, revoked, rebooted, overtaken>>
vars == <<job, node, agent, net, daemons>>

Time == 0..MaxRuns
Finished == {"CANCELLED", "DONE"}

\* A job record: the base state, the COMPLETING flag, whether the job is held,
\* the batch host, whether node_cnt still counts it, and whether there is a
\* record of the batch step.
JobRecord ==
  [state : {"none", "PENDING", "RUNNING", "PURGED"} \cup Finished,
   completing : BOOLEAN, held : BOOLEAN, host : Node \cup {NoNode},
   alloc : BOOLEAN, step : BOOLEAN, runs : Time]

Message ==
  [type : {"launch", "terminate", "abort", "epilog", "requeue"},
   job : Job, node : Node, time : Time, start : Time]

Stepd ==
  [job : Job, node : Node, run : Time,
   phase : {"accepted", "checked", "started", "active", "killed", "reporting"}]

\* A launch thread of slurmd is at work on it; from "started" on there is a process.
Launching == {"accepted", "checked", "started"}

\* The types of the state.
TypeOK ==
  /\ job \in [Job -> JobRecord]
  /\ node \in [Node -> {"up", "noresp", "down"}]
  /\ agent \subseteq Job
  /\ net \subseteq Message
  /\ steps \subseteq Stepd
  /\ waiter \subseteq Node \X Job
  /\ revoked \in [Node -> [Job -> Time]]
  /\ rebooted \subseteq Node
  /\ overtaken \subseteq Job

Init ==
  /\ job = [j \in Job |-> [state |-> "none", completing |-> FALSE, held |-> FALSE,
                           host |-> NoNode, alloc |-> FALSE, step |-> FALSE, runs |-> 0]]
  /\ node = [n \in Node |-> "up"]
  /\ agent = {} /\ net = {} /\ steps = {} /\ waiter = {}
  /\ revoked = [n \in Node |-> [j \in Job |-> 0]]
  /\ rebooted = {} /\ overtaken = {}
-----------------------------------------------------------------------------
(* What slurmctld's handlers do to one job record.                         *)

\* Mutant: the request goes to the job's host.
KillAtHost(type, j, r, n) ==
  [type |-> type, job |-> j, node |-> r.host, time |-> r.runs, start |-> r.runs]

\* create_kill_job_msg(), abort_job_on_node(): a job that waits to run again, or
\* that is not known any more, has no start time.
Kill(type, j, r, n) ==
  [type |-> type, job |-> j, node |-> n, time |-> r.runs,
   start |-> IF r.state = "PURGED" \/ (r.state = "PENDING" /\ ~r.completing) THEN 0
             ELSE r.runs]

\* What slurmd sends names the job and not the run.
Notice(type, j, n) == [type |-> type, job |-> j, node |-> n, time |-> 0, start |-> 0]

\* The last node is done: cleanup_completing(), batch_requeue_fini().
Cleaned(r) ==
  [r EXCEPT !.completing = FALSE, !.alloc = FALSE, !.step = FALSE,
            !.host = IF r.state = "PENDING" THEN NoNode ELSE @]

\* Mutant: the job does not wait for its node.
EndedAtOnce(r, s) == [r EXCEPT !.state = s, !.alloc = FALSE]

\* The run ends with base state s: COMPLETING until the node has answered,
\* unless the job has no node left.  deallocate_nodes() sends the request.
Ended(r, s) == [r EXCEPT !.state = s, !.completing = r.alloc]

\* kill_running_job_by_node_name(): nothing is awaited from the node any more.
NodeFailed(r) ==
  IF r.state = "RUNNING" THEN Cleaned([r EXCEPT !.state = "PENDING"])
  ELSE IF r.completing THEN Cleaned(r) ELSE r

\* Mutant: only a job that is completing is left alone.
CompletedAgain(r, requeue) ==
  IF r.state \in {"none", "PURGED"} \/ r.completing THEN r
  ELSE Ended(r, IF requeue THEN "PENDING" ELSE "DONE")

\* Mutant: a request to run the job again is left alone too.
CompletedOnly(r, requeue) ==
  IF r.state = "RUNNING" /\ ~requeue THEN Ended(r, "DONE") ELSE r

\* job_complete(): a replay for a job that is done, is completing or waits to
\* run again does nothing.
Completed(r, requeue) ==
  IF r.state = "RUNNING" THEN Ended(r, IF requeue THEN "PENDING" ELSE "DONE") ELSE r

\* The request deallocate_nodes() sends when r becomes q and its run ends.
Stops(j, r, q) ==
  IF r.state = "RUNNING" /\ q.state # "RUNNING" /\ r.alloc
  THEN {Kill("terminate", j, r, r.host)} ELSE {}

\* job_epilog_complete(), make_node_idle(): also for a job that runs.
EpilogComplete(r, n) ==
  IF r.state \in {"none", "PURGED"} \/ (r.state = "PENDING" /\ ~r.completing)
     \/ r.host # n \/ ~r.alloc
  THEN r ELSE Cleaned(r)

\* _job_requeue_op() after a failed launch: the job is held.
Requeued(r) ==
  CASE r.state = "RUNNING" -> [Ended(r, "PENDING") EXCEPT !.held = TRUE]
    [] r.state \in Finished /\ r.completing -> [r EXCEPT !.state = "PENDING", !.held = TRUE]
    [] r.state \in Finished /\ ~r.completing ->
         Cleaned([r EXCEPT !.state = "PENDING", !.held = TRUE])
    [] OTHER -> r

\* Job j gets record q, and what that sends is sent; the messages in gone leave.
Update(j, q, gone) ==
  /\ job' = [job EXCEPT ![j] = q]
  /\ net' = (net \ gone) \cup Stops(j, job[j], q)
-----------------------------------------------------------------------------
(* slurmctld                                                               *)

Submit(j) ==
  /\ job[j].state = "none"
  /\ job' = [job EXCEPT ![j].state = "PENDING"]
  /\ UNCHANGED <<node, agent, net, daemons>>

\* Mutant: a requeued job may begin at once.
SettledAtOnce(j) == j \notin agent

\* A requeued job begins cred_expiration() + 1 seconds later: by then no request,
\* answer or launch thread of the run before is left.
Settled(j) ==
  /\ j \notin agent
  /\ \A m \in net : m.job # j
  /\ \A s \in steps : s.job = j => s.phase \notin Launching

\* select_nodes(), launch_job().
Launch(j, n) ==
  /\ job[j].state = "PENDING" /\ ~job[j].completing /\ ~job[j].held
  /\ job[j].runs < MaxRuns
  /\ node[n] = "up"
  /\ Settled(j)
  /\ job' = [job EXCEPT ![j] = [@ EXCEPT !.state = "RUNNING", !.host = n, !.alloc = TRUE,
                                         !.step = TRUE, !.runs = job[j].runs + 1]]
  /\ agent' = agent \cup {j}
  /\ net' = net \cup {[type |-> "launch", job |-> j, node |-> n,
                       time |-> job[j].runs + 1, start |-> 0]}
  /\ UNCHANGED <<node, daemons>>

\* The agent gets no answer: the job is to run again.  That the node does not
\* respond is noted later, under another lock (NodeNotResp).
LaunchTimeout(j) ==
  /\ j \in agent
  /\ agent' = agent \ {j}
  /\ Update(j, Completed(job[j], TRUE), {})
  /\ UNCHANGED <<node, daemons>>

\* job_signal(SIGKILL).
Cancelled(r) ==
  IF r.state = "PENDING" THEN [r EXCEPT !.state = "CANCELLED"] ELSE Ended(r, "CANCELLED")

Cancel(j) ==
  /\ job[j].state \in {"PENDING", "RUNNING"}
  /\ Update(j, Cancelled(job[j]), {})
  /\ UNCHANGED <<node, agent, daemons>>

TimeLimit(j) ==
  /\ job[j].state = "RUNNING"
  /\ Update(j, Ended(job[j], "DONE"), {})
  /\ UNCHANGED <<node, agent, daemons>>

\* Mutant: only DOWN nodes are looked at; no request is sent again.
ReKillDown(j) ==
  /\ job[j].completing
  /\ node[job[j].host] = "down"
  /\ job' = [job EXCEPT ![j] = Cleaned(@)]
  /\ UNCHANGED <<node, agent, net, daemons>>

\* purge_old_job(): a kill is sent again to a node that responds; a DOWN node
\* would count as done.
ReKill(j) ==
  /\ job[j].completing
  /\ node[job[j].host] # "noresp"
  /\ IF node[job[j].host] = "down"
     THEN job' = [job EXCEPT ![j] = Cleaned(@)] /\ UNCHANGED net
     ELSE net' = net \cup {Kill("terminate", j, job[j], job[j].host)} /\ UNCHANGED job
  /\ UNCHANGED <<node, agent, daemons>>

Purge(j) ==
  /\ job[j].state \in Finished /\ ~job[j].completing /\ ~job[j].step
  /\ job' = [job EXCEPT ![j].state = "PURGED", ![j].host = NoNode]
  /\ UNCHANGED <<node, agent, net, daemons>>

RecvEpilog(m) ==
  /\ m.type = "epilog"
  /\ job' = [job EXCEPT ![m.job] = EpilogComplete(@, m.node)]
  /\ net' = net \ {m}
  /\ UNCHANGED <<node, agent, daemons>>

RecvRequeue(m) ==
  /\ m.type = "requeue"
  /\ Update(m.job, Requeued(job[m.job]), {m})
  /\ UNCHANGED <<node, agent, daemons>>

\* A ping or another request is not answered.
NodeNotResp(n) ==
  /\ node[n] = "up"
  /\ node' = [node EXCEPT ![n] = "noresp"]
  /\ UNCHANGED <<job, agent, net, daemons>>

NodeDidResp(n) ==
  /\ node[n] = "noresp"
  /\ node' = [node EXCEPT ![n] = "up"]
  /\ UNCHANGED <<job, agent, net, daemons>>

OnNode(r, n) == r.host = n /\ r.alloc

\* ping_nodes(): no answer for SlurmdTimeout; set_node_down_ptr().
NodeDown(n) ==
  LET failed == [j \in Job |-> IF OnNode(job[j], n) THEN NodeFailed(job[j]) ELSE job[j]]
  IN  /\ node[n] = "noresp"
      /\ node' = [node EXCEPT ![n] = "down"]
      /\ job' = failed
      /\ net' = net \cup UNION {Stops(j, job[j], failed[j]) : j \in Job}
      /\ UNCHANGED <<agent, daemons>>

\* Processes whose socket slurmd finds on node n; one that is being started may not
\* have opened it yet.
Found(n, unopened) ==
  {s \in steps : s.node = n /\ (s.phase \notin Launching \/ (s.phase = "started" /\ ~unopened))}

\* A node registers: validate_jobs_on_node() and then validate_node_specs().
\* recent are jobs that ended so lately that a process of theirs is no error.
\* A batch job that should be on the node and is not, some time after the agent is
\* through with its launch, is requeued.  A node that restarted unexpectedly goes
\* DOWN.
Register(n, recent, unopened) ==
  LET there == {s.job : s \in Found(n, unopened)}
      Stray(j) == \/ job[j].state = "PURGED"
                  \/ job[j].state = "RUNNING" /\ ~OnNode(job[j], n)
                  \/ job[j].state = "PENDING" /\ ~job[j].completing
      Over(j) == job[j].completing \/ (job[j].state \in Finished /\ j \notin recent)
      missing == {j \in Job \ (there \cup agent) :
                    job[j].state = "RUNNING" /\ OnNode(job[j], n)}
      asked == [j \in Job |-> IF j \in missing THEN Completed(job[j], TRUE) ELSE job[j]]
      crash == n \in rebooted /\ node[n] # "down"
      after == [j \in Job |-> IF crash /\ OnNode(asked[j], n) THEN NodeFailed(asked[j])
                              ELSE asked[j]]
  IN  /\ job' = after
      /\ net' = net \cup {Kill("abort", j, job[j], n) : j \in {i \in there : Stray(i)}}
                    \cup {Kill("terminate", j, job[j], n) : j \in {i \in there : Over(i)}}
                    \cup UNION {Stops(j, job[j], after[j]) : j \in Job}
      /\ node' = [node EXCEPT ![n] = IF crash \/ @ = "down" THEN "down" ELSE "up"]
      /\ rebooted' = rebooted \ {n}
      /\ UNCHANGED <<agent, steps, waiter, revoked, overtaken>>
-----------------------------------------------------------------------------
(* slurmd and slurmstepd                                                   *)

\* Processes of job j on node n; a launch thread is not one yet.
Active(n, j) ==
  {s \in steps : s.node = n /\ s.job = j /\ s.phase \notin {"accepted", "checked"}}

\* cred_revoke(): not again, unless for a later run.
Revoke(m) ==
  LET old == revoked[m.node][m.job] IN
  revoked' = [revoked EXCEPT ![m.node][m.job] = IF old = 0 \/ old < m.start THEN m.time ELSE old]

\* The revocation is forgotten cred_expiration() seconds after the job was through
\* on the node, when no launch that it is to stop is left.
Expire(n, j) ==
  /\ revoked[n][j] # 0
  /\ <<n, j>> \notin waiter
  /\ \A m \in net : m.type = "launch" /\ m.job = j /\ m.node = n => m.time > revoked[n][j]
  /\ \A s \in steps : s.phase \in Launching /\ s.job = j /\ s.node = n => s.run > revoked[n][j]
  /\ revoked' = [revoked EXCEPT ![n][j] = 0]
  /\ UNCHANGED <<job, node, agent, net, steps, waiter, rebooted, overtaken>>

\* Mutant: the processes are not told.
SignalNobody(S) == UNCHANGED steps

Signal(S) ==
  steps' = (steps \ S) \cup
             {IF s.phase \in {"started", "active"} THEN [s EXCEPT !.phase = "killed"] ELSE s : s \in S}

\* A kill request for job j on node n that finds the processes in S misses the
\* others, those about to be started too.
Overtakes(n, j, S) ==
  overtaken' = overtaken \cup
    {i \in {j} : \E s \in steps \ S : s.job = j /\ s.node = n /\ s.phase \in {"checked", "started"}}

\* _rpc_batch_job() up to its answer.  A later credential than the one revoked
\* clears the revocation (cred_handle_reissue).  The answer gets to the agent,
\* or it is lost.  Nobody launches what nobody waits for any more.
RecvLaunch(m) ==
  LET old == revoked[m.node][m.job] IN
  /\ m.type = "launch" /\ m.job \in agent
  /\ old < m.time
  /\ revoked' = [revoked EXCEPT ![m.node][m.job] = 0]
  /\ steps' = steps \cup {[job |-> m.job, node |-> m.node, run |-> m.time, phase |-> "accepted"]}
  /\ net' = net \ {m}
  /\ agent' \in {agent, agent \ {m.job}}
  /\ UNCHANGED <<job, node, waiter, rebooted, overtaken>>

\* The credential was revoked before the launch arrived; told so, the agent ends
\* the job.
LaunchRevoked(m) ==
  /\ m.type = "launch" /\ m.job \in agent
  /\ m.time <= revoked[m.node][m.job]
  /\ \/ /\ agent' = agent \ {m.job}
        /\ Update(m.job, Completed(job[m.job], FALSE), {m})
     \/ /\ net' = net \ {m}
        /\ UNCHANGED <<agent, job>>
  /\ UNCHANGED <<node, daemons>>

\* The agent has gone: the launch is given up and slurmd asks for a requeue.
LaunchUnconfirmed(m) ==
  /\ m.type = "launch" /\ m.job \notin agent
  /\ revoked' = [revoked EXCEPT ![m.node][m.job] = IF @ < m.time THEN 0 ELSE @]
  /\ net' = (net \ {m}) \cup {Notice("requeue", m.job, m.node)}
  /\ UNCHANGED <<job, node, agent, steps, waiter, rebooted, overtaken>>

\* _rpc_batch_job() after its answer: once more the credential is looked at.
Check(s) ==
  /\ s.phase = "accepted"
  /\ steps' = (steps \ {s}) \cup (IF s.run <= revoked[s.node][s.job] THEN {}
                                  ELSE {[s EXCEPT !.phase = "checked"]})
  /\ UNCHANGED <<job, node, agent, net, waiter, revoked, rebooted, overtaken>>

\* _forkexec_slurmstepd(): from here on (_add_starting_step) a terminate request
\* waits for the step.  A step of the job that has its socket is in the way.
Start(s) ==
  /\ s.phase = "checked"
  /\ Active(s.node, s.job) = {}
  /\ steps' = (steps \ {s}) \cup {[s EXCEPT !.phase = "started"]}
  /\ UNCHANGED <<job, node, agent, net, waiter, revoked, rebooted, overtaken>>

\* The job was killed while it was launched.
Interim(s) == s.run <= revoked[s.node][s.job]

\* slurmstepd has answered, and the credential is looked at again: what was killed
\* in the interim is ended, unless slurmd has noted that the job is finishing.
\* Every terminate request is noted, until those of other jobs make it forgotten;
\* which of the two is left open.  The kill that slurmd asks for is Cancel(j).
Recheck(s) ==
  /\ s.phase = "started"
  /\ \E phase \in IF Interim(s) THEN {"active", "killed"} ELSE {"active"} :
       steps' = (steps \ {s}) \cup {[s EXCEPT !.phase = phase]}
  /\ UNCHANGED <<job, node, agent, net, waiter, revoked, rebooted, overtaken>>

\* slurmstepd does not start: slurmd asks for a requeue, or for a kill (Cancel)
\* when the job was killed in the interim.
StartFails(s) ==
  /\ s.phase \in {"checked", "started"}
  /\ steps' = steps \ {s}
  /\ \/ net' = net \cup {Notice("requeue", s.job, s.node)}
     \/ Interim(s) /\ UNCHANGED net
  /\ UNCHANGED <<job, node, agent, waiter, revoked, rebooted, overtaken>>

\* The batch script ends, by itself or killed; slurmstepd goes on to report it.
ScriptEnds(s) ==
  /\ s.phase \in {"started", "active", "killed"}
  /\ steps' = (steps \ {s}) \cup {[s EXCEPT !.phase = "reporting"]}
  /\ UNCHANGED <<job, node, agent, net, waiter, revoked, rebooted, overtaken>>

\* REQUEST_COMPLETE_BATCH_SCRIPT, sent until it is answered.  slurmctld ignores
\* it from another node than the batch host, and when the step is gone.  If slurmd
\* could not run the script the job is to run again, and the node is drained, from
\* which an administrator may resume it at any time.
Report(s) ==
  LET r == job[s.job]
      wrong == r.host # NoNode /\ r.host # s.node
      late == ~(r.state = "PENDING" /\ ~r.completing) /\ ~r.step
      heard == ~wrong /\ ~late /\ r.state \notin {"none", "PURGED"}
  IN  /\ s.phase = "reporting"
      /\ IF heard THEN \E requeue \in BOOLEAN :
                          Update(s.job, [Completed(r, requeue) EXCEPT !.step = FALSE], {})
                  ELSE UNCHANGED <<job, net>>
      /\ steps' \in {steps, steps \ {s}}
      /\ UNCHANGED <<node, agent, waiter, revoked, rebooted, overtaken>>

StepdDies(s) ==
  /\ s.phase \notin {"accepted", "checked"}
  /\ steps' = steps \ {s}
  /\ UNCHANGED <<job, node, agent, net, waiter, revoked, rebooted, overtaken>>

\* Mutant: the answer says complete whether there are processes or not.
TerminateAnswers(m) ==
  /\ m.type = "terminate"
  /\ Revoke(m)
  /\ Signal(Active(m.node, m.job))
  /\ Overtakes(m.node, m.job, Active(m.node, m.job))
  /\ net' = (net \ {m}) \cup {Notice("epilog", m.job, m.node)}
  /\ UNCHANGED <<job, node, agent, waiter, rebooted>>

\* _rpc_terminate_job(): one thread waits per job; without processes the answer
\* says that the job is complete.
RecvTerminate(m) ==
  LET here == <<m.node, m.job>>
      there == Active(m.node, m.job)
  IN  /\ m.type = "terminate"
      /\ \/ /\ here \in waiter
            /\ net' = net \ {m} /\ UNCHANGED daemons
         \/ /\ here \notin waiter
            /\ Revoke(m)
            /\ Signal(there)
            /\ Overtakes(m.node, m.job, there)
            /\ waiter' = IF there # {} THEN waiter \cup {here} ELSE waiter
            /\ net' = (net \ {m}) \cup (IF there # {} THEN {} ELSE {Notice("epilog", m.job, m.node)})
            /\ UNCHANGED rebooted
      /\ UNCHANGED <<job, node, agent>>

\* KillWait seconds later the thread that waits signals whatever is there by then.
WaiterKills(n, j) ==
  /\ <<n, j>> \in waiter
  /\ \E s \in Active(n, j) : s.phase \in {"started", "active"}
  /\ Signal(Active(n, j))
  /\ UNCHANGED <<job, node, agent, net, waiter, revoked, rebooted, overtaken>>

WaiterDone(n, j) ==
  /\ <<n, j>> \in waiter
  /\ Active(n, j) = {}
  /\ waiter' = waiter \ {<<n, j>>}
  /\ net' = net \cup {Notice("epilog", j, n)}
  /\ UNCHANGED <<job, node, agent, steps, revoked, rebooted, overtaken>>

\* _rpc_abort_job() does not wait for a step that is being started.
RecvAbort(m, unopened) ==
  LET there == Active(m.node, m.job) \cap Found(m.node, unopened)
  IN  /\ m.type = "abort"
      /\ Revoke(m)
      /\ Signal(there)
      /\ Overtakes(m.node, m.job, there)
      /\ net' = net \ {m}
      /\ UNCHANGED <<job, node, agent, waiter, rebooted>>

\* The revocations are on disk (save_cred_state).
Reboot(n) ==
  /\ n \notin rebooted
  /\ steps' = {s \in steps : s.node # n}
  /\ waiter' = {w \in waiter : w[1] # n}
  /\ rebooted' = rebooted \cup {n}
  /\ UNCHANGED <<job, node, agent, net, revoked, overtaken>>

Lose(m) ==
  /\ net' = net \ {m}
  /\ UNCHANGED <<job, node, agent, daemons>>
-----------------------------------------------------------------------------
Next ==
  \/ \E j \in Job : \/ Submit(j) \/ LaunchTimeout(j) \/ Cancel(j) \/ TimeLimit(j)
                    \/ ReKill(j) \/ Purge(j)
                    \/ \E n \in Node : \/ Launch(j, n) \/ Expire(n, j)
                                      \/ WaiterKills(n, j) \/ WaiterDone(n, j)
  \/ \E m \in net : \/ RecvEpilog(m) \/ RecvRequeue(m) \/ RecvLaunch(m) \/ LaunchRevoked(m)
                    \/ LaunchUnconfirmed(m) \/ RecvTerminate(m) \/ Lose(m)
                    \/ \E unopened \in BOOLEAN : RecvAbort(m, unopened)
  \/ \E s \in steps : \/ Check(s) \/ Start(s) \/ Recheck(s) \/ StartFails(s)
                      \/ ScriptEnds(s) \/ Report(s) \/ StepdDies(s)
  \/ \E n \in Node : \/ NodeNotResp(n) \/ NodeDidResp(n) \/ NodeDown(n) \/ Reboot(n)
                     \/ \E recent \in SUBSET Job, unopened \in BOOLEAN :
                          Register(n, recent, unopened)

Spec == Init /\ [][Next]_vars

\* slurmctld's timers (agents, pings, purge_old_job, registrations) come round
\* again and again, slurmd's threads go on, a killed script ends and its report
\* gets through, no message is under way for ever, and of the kill requests sent
\* again and again to a node, and of the answers, some arrive.
Fairness ==
  \A j \in Job, n \in Node :
    /\ WF_vars(LaunchTimeout(j))
    /\ SF_vars(ReKill(j))
    /\ SF_vars(\E m \in net : m.job = j /\ m.node = n /\ RecvTerminate(m))
    /\ SF_vars(\E m \in net : m.job = j /\ m.node = n /\ RecvEpilog(m))
    /\ WF_vars(\E s \in Active(n, j) :
          \/ s.phase = "killed" /\ ScriptEnds(s)
          \/ Report(s) /\ steps' = steps \ {s})
    /\ WF_vars(\E s \in steps :
          /\ s.job = j /\ s.node = n
          /\ Check(s) \/ Start(s) \/ StartFails(s) \/ Recheck(s))
    /\ WF_vars(\E m \in net : m.job = j /\ m.type = "requeue" /\ (RecvRequeue(m) \/ Lose(m)))
    /\ WF_vars(\E m \in net : m.job = j /\ m.type = "launch" /\ (RecvLaunch(m) \/ Lose(m)))
    /\ SF_vars(\E m \in net : m.job = j /\ m.node = n /\ RecvAbort(m, FALSE))
    /\ WF_vars(\E m \in net : m.job = j /\ m.type = "abort" /\ (RecvAbort(m, FALSE) \/ Lose(m)))
    /\ WF_vars(WaiterKills(n, j) \/ WaiterDone(n, j))
    /\ WF_vars(NodeDidResp(n) \/ NodeDown(n))
    /\ WF_vars(Register(n, {}, FALSE))

FairSpec == Spec /\ Fairness
-----------------------------------------------------------------------------
(* Correctness                                                             *)

\* A process of the job may still be on the node or come there.
ServesAt(n, j) ==
  \/ \E t \in steps : /\ t.job = j /\ t.node = n
                      /\ \/ t.phase \in {"checked", "started", "active", "killed"}
                         \/ t.phase = "accepted" /\ t.run > revoked[n][j]
  \/ \E m \in net : /\ m.job = j /\ m.node = n /\ m.type = "launch" /\ j \in agent
                    /\ m.time > revoked[n][j]

Serves(j) == \E n \in Node : ServesAt(n, j)

\* The refinement mapping.  A held job waits for an administrator.
Shown(j) ==
  CASE job[j].state = "none" -> "none"
    [] job[j].state = "RUNNING" \/ (job[j].state = "PENDING" /\ ~job[j].held) -> "live"
    [] OTHER -> IF job[j].completing \/ Serves(j) THEN "ending" ELSE "ended"

Abstract == INSTANCE ClusterJobs WITH cluster <- [j \in Job |-> Shown(j)]

\* Refinement: the daemons keep the promise the driver relies on.  A job that is
\* cancelled or has ended never runs again, and one that has ended has no process
\* anywhere and never gets one, whatever requests and answers are still under way.
ClusterSpec == Abstract!Spec

\* A running job keeps its node, and what runs of it there is its present run: no
\* late request, answer or report of an earlier run is taken for the present one.
\* This and the next two hold of a job until a kill request has overtaken one of
\* its launches.
RunIsCurrent ==
  \A j \in Job \ overtaken : job[j].state = "RUNNING" =>
    /\ job[j].alloc /\ ~job[j].completing /\ node[job[j].host] # "down"
    /\ \A s \in steps : s.job = j /\ s.node = job[j].host => s.run = job[j].runs
    /\ <<job[j].host, j>> \notin waiter

\* "do not launch second copy" (req.c): processes of two runs of a job exist at
\* the same time only if slurmctld gave up the node of all but one.
OneCopy ==
  \A s, t \in steps :
    s.job = t.job /\ s # t /\ s.job \notin overtaken =>
      node[s.node] = "down" \/ node[t.node] = "down"

\* A job that slurmctld no longer counts on any node has left a process, or a
\* launch that will be one, only on a node that is DOWN.
GoneFromNodes ==
  \A j \in Job \ overtaken : job[j].state \in Finished \cup {"PURGED"} /\ ~job[j].completing =>
    \A n \in Node : ServesAt(n, j) => node[n] = "down"

\* Liveness: no job completes for ever, however many kill requests and answers are
\* lost; its node answers in the end or is given up.
CompletingEnds == \A j \in Job : job[j].completing ~> ~job[j].completing

\* Liveness: a job that is cancelled or has ended is rid of its processes, except
\* on a node that went DOWN.
ProcessesGo ==
  \A j \in Job : Shown(j) = "ending" ~>
    (Shown(j) = "ended" \/ \E n \in Node : node[n] = "down" /\ ServesAt(n, j))

\* Liveness: that a run never came to life, or died without a report, is noticed.
LostRunNoticed ==
  \A j \in Job : job[j].state = "RUNNING" /\ ~Serves(j) /\ j \notin overtaken
                   ~> job[j].state # "RUNNING" \/ Serves(j)
=============================================================================
