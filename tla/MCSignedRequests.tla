--------------------------- MODULE MCSignedRequests ---------------------------
EXTENDS SignedRequests, TLC

CONSTANTS alice, bob, h1, h2

\* Handlers are interchangeable.
MCSymmetry == Permutations({h1, h2})

\* A call that is retried, and one whose client signs with another key
MCCalls ==
  {[did |-> alice, signer |-> alice, key |-> "k", body |-> "b1"],
   [did |-> bob, signer |-> alice, key |-> "k", body |-> "b1"]}

Of(flaw) ==
  [did |-> alice, keyid |-> alice, nonce |-> <<flaw>>, created |-> 0,
   expires |-> Lifetime, key |-> "k", body |-> "b2", flaw |-> flaw]

\* One sound message that uses the key for another request, one of each flaw,
\* and one signed by a key that is not the sender's
MCForeign ==
  {Of(flaw) : flaw \in Flaws} \cup
  {[Of("none") EXCEPT !.keyid = bob, !.nonce = <<"other">>]}
==============================================================================
