---------------------------- MODULE MCOAuthSession ----------------------------
EXTENDS OAuthSession

CONSTANTS c1, c2

\* Two requests: configured scopes with a static client, and nothing configured
Configured ==
  [client |-> "static", scopes |-> <<{"read"}>>, by |-> "me", owner |-> "me",
   shared |-> {"me"}]
Automatic ==
  [client |-> Unset, scopes |-> <<>>, by |-> "me", owner |-> Unset, shared |-> {}]

MCRequests == {Configured, Automatic}

\* Two calls after a login where nothing is configured, or one call and two
\* commands at any time
MCDeployments ==
  {[calls |-> {c1, c2}, commands |-> 1,
    expects |-> [client |-> Unset, scopes |-> <<>>, owner |-> Unset, shared |-> {}]],
   [calls |-> {c1}, commands |-> 2,
    expects |-> [client |-> "static", scopes |-> <<{"read"}>>, owner |-> "me",
                 shared |-> {"me"}]]}

MCServers ==
  {[cimd |-> TRUE, register |-> FALSE, resource |-> {"read", "write"},
    server |-> {"offline_access"}, challenge |-> {}]}

\* What happens after a race is left aside.
UntilRaced == ~raced
==============================================================================
