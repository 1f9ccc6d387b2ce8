\* One envelope in two different requests, two HTTP clients and the relay
\* worker, under fairness; the disk does not fail.
CONSTANTS
  a1 = a1  l1 = l1
  e1 = e1  e2 = e2
  r1 = r1  r2 = r2  r3 = r3
  ActionIds = {a1}
  LegacyIds = {l1}
  Envelopes = {e1}
  NoEnvelope = NoEnvelope
  Legacy <- MCLegacy
  IdOf <- RaceIdOf
  DiskFaults = FALSE
  Requests = {r1, r2}
  NoRequest = NoRequest
  EnvOf <- RaceEnvOf
  Clients = {c1, c2}
  Worker = w
  MaxReceipts = 2
SPECIFICATION FairSpec
INVARIANTS
  OneDispatchReceipt
  OutcomeOnlyToSameRequest
  NotInProcessMeansFailed
PROPERTIES
  EverySubmissionReturns
  RestartResolves
