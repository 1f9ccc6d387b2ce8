-------------------------- MODULE CoordinationStore --------------------------
(***************************************************************************)
(* The approval workflows of the Coordination Service                      *)
(* (cli/src/coordination/store.ts).  Workflows are found by Action ID      *)
(* (value only: the scope is not part of the key) and by envelope hash.    *)
(* Expiry is lazy: a workflow whose envelope has expired becomes "expired" *)
(* when something looks at it.                                             *)
(***************************************************************************)
EXTENDS ApprovalRequirements

CONSTANTS
  Envelopes,   \* Action Envelopes, told apart by their hash
  NoEnvelope,
  ActionIds,   \* Action ID values
  IdOf,        \* IdOf[e] is the Action ID in envelope e
  ProposerOf   \* ProposerOf[e] is the proposer in envelope e

ASSUME StoreConstants ==
  /\ NoEnvelope \notin Envelopes
  /\ IdOf \in [Envelopes -> ActionIds]
  /\ ProposerOf \in [Envelopes -> Dids]

VARIABLES
  wf,       \* actionsByEnvelopeHash
  byId,     \* actionsById, as the envelope of the workflow it holds
  expired   \* envelopes past expiresAt

storeVars == <<wf, byId, expired>>

States == {"none", "awaitingApprovals", "readyForSubmission", "rejected",
           "expired", "cancelled"}

\* One decision per signer: a signer's later submissions are refused or add
\* nothing, so the list of approvals is a function.
Workflow == [state: States, reqs: Requirements, decisions: Decisions]

NoRequirements == [anyOf |-> {}, allOf |-> {}, overrides |-> {}, approvers |-> {},
                   rejecters |-> {}, dated |-> FALSE]

NoWorkflow == [state |-> "none", reqs |-> NoRequirements, decisions |-> NoDecisions]

-----------------------------------------------------------------------------
Expirable(x) == x.state \in {"awaitingApprovals", "readyForSubmission"}

EffectiveState(e) ==
  IF Expirable(wf[e]) /\ e \in expired THEN "expired" ELSE wf[e].state

\* The workflow after expireIfNeeded.
ExpireIfNeeded(e) ==
  IF Expirable(wf[e]) /\ e \in expired
  THEN [state |-> "expired", reqs |-> wf[e].reqs, decisions |-> wf[e].decisions]
  ELSE wf[e]

\* validateAuthorizationRequirements of well-formed requirements.
ValidRequirements(R) ==
  /\ R.anyOf \cup R.allOf # {} \/ R.overrides # {}
  /\ \A t \in R.anyOf \cup R.allOf : t.threshold \in 1 .. Cardinality(t.eligible)

\* Mutated form of ValidateCreate: the Action ID is not looked up.
ValidateCreateByHash(e, R) ==
  IF R.dated /\ e \in expired THEN "expired"
  ELSE IF ~ValidRequirements(R) THEN "INVALID_REQUEST"
  ELSE "ok"

ValidateCreate(e, R) ==
  IF R.dated /\ e \in expired THEN "expired"
  ELSE IF ~ValidRequirements(R) THEN "INVALID_REQUEST"
  ELSE IF byId[IdOf[e]] \notin {NoEnvelope, e} THEN "ACTION_ID_CONFLICT"
  ELSE "ok"

\* createWorkflow: the existing workflow of this envelope, whatever the
\* requirements of this request, or a new one.
CreateWorkflow(e, R) ==
  \/ /\ wf[e].state # "none"
     /\ wf' = [wf EXCEPT ![e] = ExpireIfNeeded(e)]
     /\ UNCHANGED <<byId, expired>>
  \/ /\ wf[e].state = "none"
     /\ wf' = [wf EXCEPT ![e] = [state |-> "awaitingApprovals", reqs |-> R,
                                 decisions |-> NoDecisions]]
     /\ byId' = [byId EXCEPT ![IdOf[e]] = e]
     /\ UNCHANGED expired

-----------------------------------------------------------------------------
\* Eligible by some threshold, or an override signer.
EligibleSigner(e, s) ==
  \/ \E t \in wf[e].reqs.anyOf \cup wf[e].reqs.allOf : s \in t.eligible
  \/ s \in wf[e].reqs.overrides

\* Mutated form of ApprovalPreflight: a second decision of a signer is not
\* compared with the first.
PreflightLastWins(e, s, dec) ==
  IF EffectiveState(e) \in {"none", "cancelled", "expired"} THEN "ACTION_NOT_FOUND"
  ELSE IF s = ProposerOf[e] THEN "SELF_APPROVAL_DENIED"
  ELSE IF wf[e].state # "awaitingApprovals" /\ wf[e].decisions[s] = Undecided
       THEN "ACTION_NOT_AWAITING_APPROVALS"
  ELSE "ok"

\* approvalPreflight of an approval whose bindings are sound: signer s decides
\* dec on envelope e.
ApprovalPreflight(e, s, dec) ==
  IF EffectiveState(e) \in {"none", "cancelled", "expired"} THEN "ACTION_NOT_FOUND"
  ELSE IF s = ProposerOf[e] THEN "SELF_APPROVAL_DENIED"
  ELSE IF wf[e].decisions[s] \notin {Undecided, dec} THEN "SIGNER_DECISION_CONFLICT"
  ELSE IF wf[e].state # "awaitingApprovals" /\ wf[e].decisions[s] = Undecided
       THEN "ACTION_NOT_AWAITING_APPROVALS"
  ELSE "ok"

\* The decisions that count: the proposer's own is left out.
Counted(e, d) == [s \in Dids |-> IF s = ProposerOf[e] THEN Undecided ELSE d[s]]

\* The state submitApproval leaves behind when the decisions are d.
NextState(e, d) ==
  LET status == Evaluate(wf[e].reqs, Counted(e, d))
  IN  IF wf[e].state # "awaitingApprovals" THEN wf[e].state
      ELSE IF status = "satisfied" THEN "readyForSubmission"
      ELSE IF status = "unreachable" THEN "rejected"
      ELSE "awaitingApprovals"

\* Mutated form of SubmitApproval: the state is worked out from the decisions
\* before this one.
SubmitApprovalLate(e, s, dec) ==
  LET d == [wf[e].decisions EXCEPT ![s] = dec]
  IN  /\ wf' = [wf EXCEPT ![e] = [state |-> NextState(e, wf[e].decisions),
                                  reqs |-> wf[e].reqs, decisions |-> d]]
      /\ UNCHANGED <<byId, expired>>

\* submitApproval: a duplicate adds nothing, but the state is worked out again.
SubmitApproval(e, s, dec) ==
  LET d == [wf[e].decisions EXCEPT ![s] = dec]
  IN  /\ wf' = [wf EXCEPT ![e] = [state |-> NextState(e, d),
                                  reqs |-> wf[e].reqs, decisions |-> d]]
      /\ UNCHANGED <<byId, expired>>

-----------------------------------------------------------------------------
ValidateCancel(a, did) ==
  LET e == byId[a]
  IN  IF e = NoEnvelope THEN "ACTION_NOT_FOUND"
      ELSE IF wf[e].state = "cancelled" THEN "ACTION_NOT_FOUND"
      ELSE IF ProposerOf[e] # did THEN "NOT_PROPOSER"
      ELSE IF EffectiveState(e) = "expired" THEN "ACTION_EXPIRED"
      ELSE IF wf[e].state = "readyForSubmission" THEN "ACTION_READY"
      ELSE IF wf[e].state = "rejected" THEN "ACTION_REJECTED"
      ELSE "ok"

CancelAction(a) ==
  LET e == byId[a]
  IN  /\ wf' = [wf EXCEPT ![e] = [state |-> "cancelled", reqs |-> wf[e].reqs,
                                  decisions |-> wf[e].decisions]]
      /\ UNCHANGED <<byId, expired>>

\* The workflows a poll walks through.
Listed == {e \in Envelopes : byId[IdOf[e]] = e}

\* poll begins by expiring every workflow it lists.
ExpireListed ==
  /\ wf' = [e \in Envelopes |-> IF e \in Listed THEN ExpireIfNeeded(e) ELSE wf[e]]
  /\ UNCHANGED <<byId, expired>>

StoreInit ==
  /\ wf = [e \in Envelopes |-> NoWorkflow]
  /\ byId = [a \in ActionIds |-> NoEnvelope]
  /\ expired = {}

StoreTypeOK ==
  /\ wf \in [Envelopes -> Workflow]
  /\ byId \in [ActionIds -> Envelopes \cup {NoEnvelope}]
  /\ expired \subseteq Envelopes
=============================================================================
