------------------------ MODULE ApprovalRequirements ------------------------
(***************************************************************************)
(* Whether the decisions taken so far satisfy an approval expression, may  *)
(* still satisfy it, or have made it unreachable                           *)
(* (sdk/protocol/src/lib/approval-requirements.ts).                        *)
(*                                                                         *)
(* The lists of thresholds are sets: the code asks only for some or every  *)
(* member.  The overrideSigners list is the set of its signers with the    *)
(* subsets whose permissions include "approve" and "reject".               *)
(***************************************************************************)
EXTENDS Naturals, FiniteSets

CONSTANT Dids

ASSUME DidsFinite == IsFiniteSet(Dids)

Decision == {"propose", "approve", "reject", "abstain"}

Undecided == "none"

\* Each signer's final decision, as immutableDecisionMap collects them.
Decisions == [Dids -> Decision \cup {Undecided}]

NoDecisions == [s \in Dids |-> Undecided]

Threshold == [eligible: SUBSET Dids, threshold: Nat, decision: Decision]

\* `dated' tells whether the Authorization Requirements carry an expiresAt.
Requirements == [anyOf: SUBSET Threshold, allOf: SUBSET Threshold,
                 overrides: SUBSET Dids, approvers: SUBSET Dids,
                 rejecters: SUBSET Dids, dated: BOOLEAN]

-----------------------------------------------------------------------------
Matching(t, d) == {s \in t.eligible : d[s] = t.decision}

Open(t, d) == {s \in t.eligible : d[s] = Undecided}

\* Mutated form of ThresholdStatus: signers still to decide are not counted.
ThresholdStatusHasty(t, d) ==
  IF Cardinality(Matching(t, d)) >= t.threshold THEN "satisfied"
  ELSE IF Cardinality(Matching(t, d)) + Cardinality(Open(t, d)) > t.threshold THEN "pending"
  ELSE "unreachable"

ThresholdStatus(t, d) ==
  IF Cardinality(Matching(t, d)) >= t.threshold THEN "satisfied"
  ELSE IF Cardinality(Matching(t, d)) + Cardinality(Open(t, d)) >= t.threshold THEN "pending"
  ELSE "unreachable"

\* The threshold paths alone, without the overrides.
PathsSatisfied(R, d) ==
  /\ R.anyOf = {} \/ \E t \in R.anyOf : ThresholdStatus(t, d) = "satisfied"
  /\ \A t \in R.allOf : ThresholdStatus(t, d) = "satisfied"

PathsReachable(R, d) ==
  /\ R.anyOf = {} \/ \E t \in R.anyOf : ThresholdStatus(t, d) # "unreachable"
  /\ \A t \in R.allOf : ThresholdStatus(t, d) # "unreachable"

\* Mutated form of Evaluate: an override that may still approve is forgotten.
EvaluateForgetsOverride(R, d) ==
  IF \E s \in R.rejecters : d[s] = "reject" THEN "unreachable"
  ELSE IF \E s \in R.approvers : d[s] = "approve" THEN "satisfied"
  ELSE IF PathsSatisfied(R, d) THEN "satisfied"
  ELSE IF PathsReachable(R, d) THEN "pending"
  ELSE "unreachable"

\* evaluateApprovalRequirements: a reject override first, then an approve
\* override, then the paths, then an override that may still approve.
Evaluate(R, d) ==
  IF \E s \in R.rejecters : d[s] = "reject" THEN "unreachable"
  ELSE IF \E s \in R.approvers : d[s] = "approve" THEN "satisfied"
  ELSE IF PathsSatisfied(R, d) THEN "satisfied"
  ELSE IF PathsReachable(R, d) THEN "pending"
  ELSE IF \E s \in R.approvers : d[s] = Undecided THEN "pending"
  ELSE "unreachable"

-----------------------------------------------------------------------------
\* Decisions e go on from decisions d: what was decided stays.
Extends(d, e) == \A s \in Dids : d[s] # Undecided => e[s] = d[s]

ApproveOnly(R) == \A t \in R.anyOf \cup R.allOf : t.decision = "approve"
=============================================================================
