SPECIFICATION Spec
CONSTANTS
  p = p  a = a  b = b  c = c
  e1 = e1  e2 = e2  id = id  k = k
  Dids = {p, a, b}
  Envelopes = {e1, e2}
  NoEnvelope = NoEnvelope
  ActionIds = {id}
  IdOf <- MCIdOf
  ProposerOf <- MCProposerOf
  Requests <- RaceRequests
  NoRequest = NoRequest
  IdemKeys = {k}
  NoKey = NoKey
  Clients = {c1, c2}
  Enforced = TRUE
INVARIANTS
  CoordInv
  CancelledNeverCompleted
  AcceptedIsCounted
PROPERTY DecisionsFinal
