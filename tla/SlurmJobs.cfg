\* One job on two nodes, launched up to twice, until a launch is overtaken: of the job
\* whose launch was, the invariants say nothing.
SPECIFICATION Spec
CONSTANTS
  Job = {j1}
  Node = {n1, n2}
  NoNode = NoNode
  MaxRuns = 2
SYMMETRY Symmetric
CONSTRAINT NoneOvertaken
INVARIANTS TypeOK RunIsCurrent OneCopy GoneFromNodes
