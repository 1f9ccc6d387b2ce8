\* Two bridge processes share the store; a Task may be replaced twice.
CONSTANTS
  Procs = {p1, p2}
  NoProc = NoProc
  Gone = Gone
  SlowSigning = FALSE
  MaxActions = 3
  MaxFaults = 2
SPECIFICATION FairSpec
INVARIANTS
  WorkflowInv
  CancelReachesCoordination
PROPERTIES
  ImplementsTask
  OutcomeIsFinal
  EveryTaskEnds
CHECK_DEADLOCK FALSE
