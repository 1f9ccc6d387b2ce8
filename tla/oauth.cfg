\* Two calls, the refresh they share and a login, or a call and two commands;
\* two tokens, a crash or failed write.
CONSTANTS
  c1 = c1  c2 = c2
  Calls = {c1, c2}
  Tx = Tx
  Deployments <- MCDeployments
  Requests <- MCRequests
  Servers <- MCServers
  Offline = "offline_access"
  MaxTokens = 2
  MaxFaults = 1
SPECIFICATION FairSpec
CONSTRAINT UntilRaced
INVARIANTS
  SessionInv
  RefreshTokenNotReused
PROPERTY EveryCallAnswered
CHECK_DEADLOCK FALSE
