------------------------- MODULE ApprovalCollection -------------------------
(***************************************************************************)
(* Decisions are collected one signer at a time against fixed              *)
(* requirements; the verdict of evaluateApprovalRequirements is compared   *)
(* with a reference definition and followed over time.                     *)
(***************************************************************************)
EXTENDS ApprovalRequirements

CONSTANT Candidates   \* the requirements considered

ASSUME CandidatesAssumption == Candidates \subseteq Requirements

VARIABLES required, decided

collectVars == <<required, decided>>

CollectInit ==
  /\ required \in Candidates
  /\ decided = NoDecisions

\* immutableDecisionMap: a signer decides once.
Collect(s, dec) ==
  /\ decided[s] = Undecided
  /\ decided' = [decided EXCEPT ![s] = dec]
  /\ required' = required

CollectNext == \E s \in Dids, dec \in Decision : Collect(s, dec)

CollectSpec == CollectInit /\ [][CollectNext]_collectVars

-----------------------------------------------------------------------------
\* The reference: a threshold is met when that many of its signers decided as
\* it asks; an expression is met when nobody with that right rejected it and
\* an override approved it or its paths are met.
ThresholdMet(t, e) ==
  \E S \in SUBSET t.eligible :
    Cardinality(S) = t.threshold /\ \A s \in S : e[s] = t.decision

Met(e) ==
  /\ \A s \in required.rejecters : e[s] # "reject"
  /\ \/ \E s \in required.approvers : e[s] = "approve"
     \/ /\ required.anyOf # {} => \E t \in required.anyOf : ThresholdMet(t, e)
        /\ \A t \in required.allOf : ThresholdMet(t, e)

\* Every way the undecided signers may still decide.
Futures == {e \in [Dids -> Decision] : Extends(decided, e)}

\* The verdict is what the decisions say: "satisfied" when the expression is
\* met, "unreachable" only when no future meets it, and, where every threshold
\* asks for approvals, "pending" only when some future does.
VerdictIsExact ==
  LET verdict == Evaluate(required, decided)
  IN  /\ verdict = "satisfied" <=> Met(decided)
      /\ verdict = "unreachable" => \A e \in Futures : ~Met(e)
      /\ verdict = "pending" /\ ApproveOnly(required) => \E e \in Futures : Met(e)

\* Giving up is final: a workflow that was called rejected could not have been
\* saved by any decision that came later.
UnreachableIsFinal ==
  [][Evaluate(required, decided) = "unreachable"
       => Evaluate(required', decided') = "unreachable"]_collectVars
=============================================================================
