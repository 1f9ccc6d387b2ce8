\* Commands one after the other, stopped or failing at any file operation.
CONSTANTS
  Procs = {1}
  NoFile = NoFile
  Roles = {"proposer", "maintainer", "verifier"}
  Urls = {"u1", "u2"}
  Sources = {"s1"}
  Signers = {"d1"}
  Placeholder = "tbd"
  MaxKeys = 2
  MaxFaults = 2
  MaxCommands = 5
SPECIFICATION Spec
INVARIANTS
  HomeIsWhole
  UndoIsPossible
CHECK_DEADLOCK FALSE
