---------------------------- MODULE MCSlurmJobs ----------------------------
(* SlurmJobs for TLC: the constants get their values in the cfg files.     *)
EXTENDS SlurmJobs, TLC

Symmetric == Permutations(Node)

\* As long as no launch has been overtaken by a kill request.
NoneOvertaken == overtaken = {}
=============================================================================
