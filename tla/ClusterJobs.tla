---------------------------- MODULE ClusterJobs ----------------------------
(***************************************************************************)
(* What the Slurm driver relies on: the life of a job as slurmrestd shows  *)
(* it.  A submitted job is live until it is cancelled or ends; then it is  *)
(* ending while one of its processes may still be there, and ended when    *)
(* none is and none will be.  No job ever comes back.  SlurmDriver is      *)
(* written against this module, and SlurmJobs, the daemons, implements it. *)
(***************************************************************************)
CONSTANT Job

VARIABLE cluster

Step == {<<"none", "live">>, <<"live", "ending">>, <<"live", "ended">>,
         <<"ending", "ended">>}

Init == cluster = [j \in Job |-> "none"]

\* The failure of a node may end, or finish ending, several jobs at once.
Next ==
  /\ cluster' \in [Job -> {"none", "live", "ending", "ended"}]
  /\ \A j \in Job : cluster'[j] # cluster[j] => <<cluster[j], cluster'[j]>> \in Step

Spec == Init /\ [][Next]_cluster
=============================================================================
