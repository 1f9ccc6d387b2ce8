\* One Action ID with two envelopes, one HTTP client and the relay worker;
\* journal writes may throw, be short or be torn.
CONSTANTS
  a1 = a1  l1 = l1
  e1 = e1  e2 = e2
  r1 = r1  r2 = r2  r3 = r3
  ActionIds = {a1}
  LegacyIds = {l1}
  Envelopes = {e1, e2}
  NoEnvelope = NoEnvelope
  Legacy <- MCLegacy
  IdOf <- FaultsIdOf
  DiskFaults = TRUE
  Requests = {r1, r3}
  NoRequest = NoRequest
  EnvOf <- FaultsEnvOf
  Clients = {c1}
  Worker = w
  MaxReceipts = 2
SPECIFICATION Spec
INVARIANTS
  AtMostOnce
  LedgerInv
  DeliveredIsDurable
  SessionsReleased
PROPERTY ImplementsLifecycle
CHECK_DEADLOCK FALSE
