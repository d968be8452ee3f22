\* One job on one node, launched up to twice, with the fairness of the daemons.
SPECIFICATION FairSpec
CONSTANTS
  Job = {j1}
  Node = {n1}
  NoNode = NoNode
  MaxRuns = 2
PROPERTIES ClusterSpec CompletingEnds ProcessesGo LostRunNoticed
