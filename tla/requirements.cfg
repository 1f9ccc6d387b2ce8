\* Three signers; they may all have decided, so the run may stop.
CONSTANTS
  a = a  b = b  c = c
  Dids = {a, b, c}
  Candidates <- MCCandidates
SPECIFICATION CollectSpec
INVARIANT VerdictIsExact
PROPERTY UnreachableIsFinal
CHECK_DEADLOCK FALSE
