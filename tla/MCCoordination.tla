--------------------------- MODULE MCCoordination ---------------------------
(***************************************************************************)
(* Instances of the Coordination Service for TLC: a proposer p, signers    *)
(* a, b, c, and envelopes e1 and e2 that carry the same Action ID.         *)
(***************************************************************************)
EXTENDS CoordinationService

CONSTANTS p, a, b, c, e1, e2, id, k

MCIdOf == [e \in Envelopes |-> id]
MCProposerOf == [e \in Envelopes |-> p]

Path(eligible, n) == [eligible |-> eligible, threshold |-> n, decision |-> "approve"]

Reqs(anyOf, allOf, overrides, approvers, rejecters) ==
  [anyOf |-> anyOf, allOf |-> allOf, overrides |-> overrides,
   approvers |-> approvers, rejecters |-> rejecters, dated |-> TRUE]

Both == Reqs({Path({a, b}, 2)}, {}, {}, {}, {})
Undated == [Both EXCEPT !.dated = FALSE]
EitherOrVeto == Reqs({Path({a}, 1)}, {Path({a, b}, 1)}, {b}, {}, {b})
Unachievable == Reqs({Path({a}, 2)}, {}, {}, {}, {})

Create(e, R, key) ==
  [op |-> "create", env |-> e, id |-> id, did |-> p, decision |-> "propose",
   reqs |-> R, key |-> key]
Approve(e, s, dec, key) ==
  [op |-> "approve", env |-> e, id |-> id, did |-> s, decision |-> dec,
   reqs |-> NoRequirements, key |-> key]
Cancel(e, s, key) ==
  [op |-> "cancel", env |-> e, id |-> id, did |-> s, decision |-> "propose",
   reqs |-> NoRequirements, key |-> key]

\* Two creations of one Action ID, decisions of both signers, a cancellation;
\* the key k is used for several mutations.
RaceRequests ==
  {Create(e1, Both, k), Create(e2, EitherOrVeto, NoKey),
   Approve(e1, a, "approve", k), Approve(e1, a, "reject", k),
   Approve(e1, b, "approve", NoKey), Approve(e2, a, "approve", NoKey),
   Cancel(e1, p, k)}

\* Without authentication anyone may send anything: the proposer, and c, whom
\* no requirement names.
OpenRequests ==
  {Create(e1, EitherOrVeto, NoKey), Create(e1, Undated, NoKey),
   Create(e1, Unachievable, NoKey),
   Approve(e1, a, "approve", k), Approve(e1, b, "reject", NoKey),
   Approve(e1, c, "approve", NoKey), Approve(e1, p, "approve", NoKey),
   Cancel(e1, p, k)}
=============================================================================
