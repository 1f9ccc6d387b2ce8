\* Two Actions; two faults, but the state file can be written.
CONSTANTS
  Envelopes = {e1, e2}
  IdOf <- MCIdOf
  Versions = {v1, v2}
  NoVersion = NoVersion
  PageSize = 2
  SaveFaults = FALSE
  MaxFaults = 2
  MaxQueue = 1
SPECIFICATION FairSpec
INVARIANTS
  ExactResubmission
  RelayInv
PROPERTY RelayedIsAnswered
CHECK_DEADLOCK FALSE
