------------------------ MODULE MCApprovalCollection ------------------------
(***************************************************************************)
(* Up to two alternative paths and one mandatory path over three signers,  *)
(* one of whom may approve or reject alone.                                *)
(***************************************************************************)
EXTENDS ApprovalCollection

CONSTANTS a, b, c

Paths ==
  {t \in [eligible: {{a}, {a, b}, {b, c}, Dids}, threshold: 1 .. 3,
          decision: {"approve", "reject"}] :
     /\ t.threshold <= Cardinality(t.eligible)
     /\ t.decision = "reject" => t.eligible = {b, c}}

MCCandidates ==
  {[anyOf |-> any, allOf |-> all, overrides |-> app \cup rej,
    approvers |-> app, rejecters |-> rej, dated |-> FALSE] :
      any \in {S \in SUBSET Paths : Cardinality(S) <= 2},
      all \in {{}} \cup {{t} : t \in Paths},
      app \in {{}, {a}}, rej \in {{}, {a}, {c}}}
=============================================================================
