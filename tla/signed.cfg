\* Lifetime 1 s, skew 1 s, the client's clock a second ahead, an entry life of 2 s.
CONSTANTS
  alice = alice  bob = bob  h1 = h1  h2 = h2
  Calls <- MCCalls
  Foreign <- MCForeign
  Handlers = {h1, h2}
  Flaws = {"none", "unsigned", "candidate", "signature", "body", "audience", "request"}
  Lifetime = 1
  Skew = 1
  Ahead = 2
  Ttl = 4
  MaxTries = 2
  MaxClock = 5
SYMMETRY MCSymmetry
SPECIFICATION Spec
INVARIANTS
  ReplayRefused
  RequestAppliedOnce
CHECK_DEADLOCK FALSE
