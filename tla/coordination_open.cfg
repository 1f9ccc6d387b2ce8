SPECIFICATION FairSpec
CONSTANTS
  p = p  a = a  b = b  c = c
  e1 = e1  e2 = e2  id = id  k = k
  Dids = {p, a, b, c}
  Envelopes = {e1}
  NoEnvelope = NoEnvelope
  ActionIds = {id}
  IdOf <- MCIdOf
  ProposerOf <- MCProposerOf
  Requests <- OpenRequests
  NoRequest = NoRequest
  IdemKeys = {k}
  NoKey = NoKey
  Clients = {c1, c2}
  Enforced = FALSE
INVARIANTS
  StateMatchesDecisions
PROPERTIES
  EveryRequestAnswered
  ReadyIsCollected
