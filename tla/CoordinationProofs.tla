------------------------- MODULE CoordinationProofs -------------------------
(***************************************************************************)
(* The Coordination Service's safety properties, for any number of         *)
(* signers, envelopes, requests and concurrent clients, authenticated or   *)
(* not.                                                                    *)
(***************************************************************************)
EXTENDS CoordinationService, TLAPS

\* What the store's own operations preserve.
StoreInv == StoreTypeOK /\ MapsInv /\ StateMatchesDecisions

WorkflowsEvolve == \A e \in Envelopes : Evolves(wf[e], wf'[e])

-----------------------------------------------------------------------------
LEMMA EvaluateRange ==
  ASSUME NEW Q, NEW x
  PROVE  Evaluate(Q, x) \in {"satisfied", "pending", "unreachable"}
BY DEF Evaluate

LEMMA VerdictRange ==
  ASSUME NEW r \in Requests
  PROVE  Verdict(r) \in Refusals \cup {"ok"}
BY DEF Verdict, ValidateCreate, ApprovalPreflight, ValidateCancel, Refusals

LEMMA SuccessRange ==
  ASSUME NEW r \in Requests
  PROVE  /\ Success(r) \in Successes
         /\ Success(r) = "accepted" => r.op = "approve"
BY DEF Success, Successes

LEMMA RequestFields ==
  ASSUME NEW r \in Requests
  PROVE  /\ r.op \in {"create", "approve", "cancel"}
         /\ r.env \in Envelopes /\ r.id \in ActionIds /\ r.did \in Dids
         /\ r.decision \in Decision /\ r.reqs \in Requirements
         /\ r.key # NoKey => Scope(r) \in Scopes
BY ServiceConstants DEF Request, Scope, Scopes

LEMMA NoDecisionsType == NoDecisions \in Decisions
BY DEF NoDecisions, Decisions

\* A workflow that did not change has evolved.
LEMMA EvolvesSame ==
  ASSUME NEW x \in Workflow
  PROVE  Evolves(x, x)
BY DEF Evolves, Extends, Workflow

\* A workflow is either left alone by expireIfNeeded or closed by it.
LEMMA ExpiryKeeps ==
  ASSUME StoreTypeOK, NEW e \in Envelopes, Consistent(e, wf[e])
  PROVE  /\ ExpireIfNeeded(e) \in Workflow
         /\ Consistent(e, ExpireIfNeeded(e))
         /\ Evolves(wf[e], ExpireIfNeeded(e))
         /\ ExpireIfNeeded(e).decisions = wf[e].decisions
         /\ ExpireIfNeeded(e).state = "none" <=> wf[e].state = "none"
         /\ ExpireIfNeeded(e).state = "none" => ExpireIfNeeded(e) = wf[e]
         /\ ExpireIfNeeded(e).state = "readyForSubmission" => ExpireIfNeeded(e) = wf[e]
<1>1. wf[e] \in Workflow
  BY DEF StoreTypeOK
<1>2. CASE Expirable(wf[e]) /\ e \in expired
  <2> DEFINE y == [state |-> "expired", reqs |-> wf[e].reqs, decisions |-> wf[e].decisions]
  <2>1. ExpireIfNeeded(e) = y
    BY <1>2 DEF ExpireIfNeeded
  <2>2. y \in Workflow
    BY <1>1 DEF Workflow, States
  <2>3. wf[e].state \in {"awaitingApprovals", "readyForSubmission"}
    BY <1>2 DEF Expirable
  <2>4. Evolves(wf[e], y) /\ Consistent(e, y)
    BY <1>1, <2>3 DEF Evolves, Extends, Consistent, Workflow
  <2> QED
    BY <2>1, <2>2, <2>3, <2>4
<1>3. CASE ~(Expirable(wf[e]) /\ e \in expired)
  <2>1. ExpireIfNeeded(e) = wf[e]
    BY <1>3 DEF ExpireIfNeeded
  <2> QED
    BY <1>1, <2>1, EvolvesSame
<1> QED
  BY <1>2, <1>3

-----------------------------------------------------------------------------
(***************************************************************************)
(* The store's operations.                                                 *)
(***************************************************************************)
LEMMA CreateStep ==
  ASSUME StoreInv, NEW e \in Envelopes, NEW Q \in Requirements,
         ValidateCreate(e, Q) = "ok", CreateWorkflow(e, Q)
  PROVE  StoreInv' /\ WorkflowsEvolve
<1> USE DEF StoreInv
<1> DEFINE new == [state |-> "awaitingApprovals", reqs |-> Q, decisions |-> NoDecisions]
           y == IF wf[e].state # "none" THEN ExpireIfNeeded(e) ELSE new
<1>1. byId[IdOf[e]] \in {NoEnvelope, e}
  BY DEF ValidateCreate
<1>2. wf \in [Envelopes -> Workflow] /\ byId \in [ActionIds -> Envelopes \cup {NoEnvelope}]
  BY DEF StoreTypeOK
<1>3. /\ new \in Workflow
      /\ Consistent(e, new)
      /\ wf[e].state = "none" => Evolves(wf[e], new)
  <2>1. new \in Workflow
    BY NoDecisionsType DEF Workflow, States
  <2>2. Consistent(e, new)
    BY DEF Consistent
  <2>3. wf[e].state = "none" => Evolves(wf[e], new)
    BY DEF MapsInv, NoWorkflow, Evolves, Extends
  <2> QED
    BY <2>1, <2>2, <2>3
<1>4. y \in Workflow /\ Consistent(e, y) /\ Evolves(wf[e], y) /\ y.state # "none"
  <2>1. Consistent(e, wf[e])
    BY DEF StateMatchesDecisions
  <2> QED
    BY <1>3, <2>1, ExpiryKeeps
<1> HIDE DEF y
<1>5. /\ wf' = [wf EXCEPT ![e] = y]
      /\ byId' = [byId EXCEPT ![IdOf[e]] = e]
      /\ expired' = expired
  <2>1. CASE wf[e].state # "none"
    <3>1. byId[IdOf[e]] = e
      BY <2>1 DEF MapsInv, OneWorkflowPerId
    <3>2. byId = [byId EXCEPT ![IdOf[e]] = e]
      BY <1>2, <3>1
    <3> QED
      BY <2>1, <3>2 DEF CreateWorkflow, y
  <2>2. CASE wf[e].state = "none"
    BY <2>2 DEF CreateWorkflow, y
  <2> QED
    BY <2>1, <2>2
<1>6. StoreTypeOK'
  BY <1>2, <1>4, <1>5 DEF StoreTypeOK
<1>7. MapsInv'
  <2>1. e # NoEnvelope /\ IdOf[e] \in ActionIds
    BY StoreConstants
  <2>2. ASSUME NEW f \in Envelopes
        PROVE  /\ wf'[f].state # "none" <=> byId'[IdOf[f]] = f
               /\ wf'[f].state = "none" => wf'[f] = NoWorkflow
    <3>1. CASE f = e
      BY <1>2, <1>4, <1>5, <2>1, <3>1
    <3>2. CASE f # e /\ IdOf[f] = IdOf[e]
      BY <1>1, <1>2, <1>5, <2>1, <3>2, StoreConstants DEF MapsInv, OneWorkflowPerId
    <3>3. CASE IdOf[f] # IdOf[e]
      BY <1>2, <1>5, <2>1, <3>3, StoreConstants DEF MapsInv, OneWorkflowPerId
    <3> QED
      BY <3>1, <3>2, <3>3
  <2>3. \A a \in ActionIds : byId'[a] # NoEnvelope => IdOf[byId'[a]] = a
    BY <1>2, <1>5, <2>1 DEF MapsInv
  <2> QED
    BY <2>2, <2>3 DEF MapsInv, OneWorkflowPerId
<1>8. StateMatchesDecisions'
  BY <1>2, <1>4, <1>5 DEF StateMatchesDecisions
<1>9. WorkflowsEvolve
  BY <1>2, <1>4, <1>5, EvolvesSame DEF WorkflowsEvolve
<1> QED
  BY <1>6, <1>7, <1>8, <1>9

\* Replacing one existing workflow by a consistent successor.
LEMMA ReplaceStep ==
  ASSUME StoreInv, NEW e \in Envelopes, NEW y \in Workflow,
         wf[e].state # "none", y.state # "none",
         Consistent(e, y), Evolves(wf[e], y),
         wf' = [wf EXCEPT ![e] = y], byId' = byId, expired' = expired
  PROVE  StoreInv' /\ WorkflowsEvolve
<1> USE DEF StoreInv
<1>1. wf \in [Envelopes -> Workflow]
  BY DEF StoreTypeOK
<1>2. StoreTypeOK'
  BY <1>1 DEF StoreTypeOK
<1>3. MapsInv'
  BY <1>1 DEF MapsInv, OneWorkflowPerId
<1>4. StateMatchesDecisions'
  BY <1>1 DEF StateMatchesDecisions
<1>5. WorkflowsEvolve
  BY <1>1, EvolvesSame DEF WorkflowsEvolve
<1> QED
  BY <1>2, <1>3, <1>4, <1>5

LEMMA ApproveStep ==
  ASSUME StoreInv, NEW e \in Envelopes, NEW s \in Dids, NEW dec \in Decision,
         ApprovalPreflight(e, s, dec) = "ok", SubmitApproval(e, s, dec)
  PROVE  StoreInv' /\ WorkflowsEvolve /\ wf'[e].decisions[s] = dec
<1> DEFINE d == [wf[e].decisions EXCEPT ![s] = dec]
           y == [state |-> NextState(e, d), reqs |-> wf[e].reqs, decisions |-> d]
<1>1. wf[e] \in Workflow /\ wf \in [Envelopes -> Workflow]
  BY DEF StoreInv, StoreTypeOK
<1>2. /\ wf[e].state \notin {"none", "cancelled", "expired"}
      /\ wf[e].decisions[s] \in {Undecided, dec}
      /\ wf[e].state = "awaitingApprovals" \/ wf[e].decisions[s] # Undecided
  BY DEF ApprovalPreflight, EffectiveState, Expirable
<1>3. /\ d \in Decisions
      /\ d[s] = dec
      /\ Extends(wf[e].decisions, d)
  BY <1>1, <1>2 DEF Workflow, Decisions, Extends
<1>4. Consistent(e, wf[e])
  BY DEF StoreInv, StateMatchesDecisions
<1>5. wf' = [wf EXCEPT ![e] = y] /\ byId' = byId /\ expired' = expired
  BY DEF SubmitApproval
<1>6. CASE wf[e].state # "awaitingApprovals"
  <2>1. d = wf[e].decisions
    BY <1>1, <1>2, <1>6 DEF Workflow, Decisions
  <2>2. NextState(e, d) = wf[e].state
    BY <1>6 DEF NextState
  <2>3. y = wf[e]
    BY <1>1, <2>1, <2>2 DEF Workflow
  <2>4. y \in Workflow /\ Consistent(e, y) /\ Evolves(wf[e], y) /\ y.state # "none"
    BY <1>1, <1>2, <1>4, <2>3, EvolvesSame
  <2> HIDE DEF y
  <2>5. StoreInv' /\ WorkflowsEvolve
    BY <1>2, <1>5, <2>4, ReplaceStep
  <2>6. wf'[e].decisions[s] = dec
    BY <1>1, <1>3, <1>5, <2>1, <2>3
  <2> QED
    BY <2>5, <2>6
<1>7. CASE wf[e].state = "awaitingApprovals"
  <2> DEFINE status == Evaluate(wf[e].reqs, Counted(e, d))
             st == NextState(e, d)
  <2>1. st = IF status = "satisfied" THEN "readyForSubmission"
             ELSE IF status = "unreachable" THEN "rejected"
             ELSE "awaitingApprovals"
    BY <1>7 DEF NextState
  <2>2. status \in {"satisfied", "pending", "unreachable"}
    BY EvaluateRange
  <2> HIDE DEF d, status, st
  <2>3. y \in Workflow /\ y.state = st /\ y.reqs = wf[e].reqs /\ y.decisions = d
    BY <1>1, <1>3, <2>1 DEF Workflow, States, st
  <2>4. Consistent(e, y)
    BY <2>1, <2>2, <2>3 DEF Consistent, status
  <2>5. Evolves(wf[e], y) /\ y.state # "none"
    BY <1>3, <1>7, <2>1, <2>3 DEF Evolves
  <2> HIDE DEF y
  <2>6. StoreInv' /\ WorkflowsEvolve
    BY <1>2, <1>5, <2>3, <2>4, <2>5, ReplaceStep
  <2>7. wf'[e].decisions[s] = dec
    BY <1>1, <1>3, <1>5, <2>3
  <2> QED
    BY <2>6, <2>7
<1> QED
  BY <1>6, <1>7

LEMMA CancelStep ==
  ASSUME StoreInv, NEW a \in ActionIds, NEW did,
         ValidateCancel(a, did) = "ok", CancelAction(a)
  PROVE  StoreInv' /\ WorkflowsEvolve
<1> PICK e \in Envelopes \cup {NoEnvelope} : e = byId[a]
  BY DEF StoreInv, StoreTypeOK
<1> DEFINE y == [state |-> "cancelled", reqs |-> wf[e].reqs, decisions |-> wf[e].decisions]
<1>1. e \in Envelopes /\ wf[e].state \notin {"cancelled", "expired", "readyForSubmission", "rejected"}
  BY DEF ValidateCancel, EffectiveState, Expirable
<1>2. wf[e] \in Workflow
  BY <1>1 DEF StoreInv, StoreTypeOK
<1>3. wf[e].state = "awaitingApprovals"
  <2>1. e # NoEnvelope
    BY <1>1, StoreConstants
  <2>2. wf[e].state # "none"
    BY <1>1, <2>1 DEF StoreInv, MapsInv, OneWorkflowPerId
  <2> QED
    BY <1>1, <1>2, <2>2 DEF Workflow, States
<1>4. y \in Workflow /\ Consistent(e, y) /\ Evolves(wf[e], y) /\ y.state # "none"
  BY <1>2, <1>3 DEF Workflow, States, Consistent, Evolves, Extends
<1>5. wf' = [wf EXCEPT ![e] = y] /\ byId' = byId /\ expired' = expired
  BY DEF CancelAction
<1> HIDE DEF y
<1> QED
  BY <1>1, <1>3, <1>4, <1>5, ReplaceStep

LEMMA ExpireStep ==
  ASSUME StoreInv, ExpireListed
  PROVE  /\ StoreInv' /\ WorkflowsEvolve
         /\ \A e \in Envelopes : wf'[e].decisions = wf[e].decisions
<1> USE DEF StoreInv
<1>1. wf \in [Envelopes -> Workflow]
  BY DEF StoreTypeOK
<1>2. wf' \in [Envelopes -> {wf'[e] : e \in Envelopes}] /\ byId' = byId /\ expired' = expired
  BY DEF ExpireListed
<1>3. ASSUME NEW e \in Envelopes
      PROVE  /\ wf'[e] \in Workflow
             /\ Consistent(e, wf'[e])
             /\ Evolves(wf[e], wf'[e])
             /\ wf'[e].decisions = wf[e].decisions
             /\ wf'[e].state = "none" <=> wf[e].state = "none"
             /\ wf'[e].state = "none" => wf'[e] = wf[e]
  <2>1. wf'[e] = ExpireIfNeeded(e) \/ wf'[e] = wf[e]
    BY DEF ExpireListed
  <2>2. Consistent(e, wf[e]) /\ Evolves(wf[e], wf[e]) /\ wf[e] \in Workflow
    BY <1>1, EvolvesSame DEF StateMatchesDecisions
  <2> QED
    BY <2>1, <2>2, ExpiryKeeps
<1>4. wf' \in [Envelopes -> Workflow]
  BY <1>2, <1>3
<1>5. StoreTypeOK'
  BY <1>2, <1>4 DEF StoreTypeOK
<1>6. MapsInv'
  BY <1>2, <1>3 DEF MapsInv, OneWorkflowPerId
<1>7. StateMatchesDecisions'
  BY <1>3 DEF StateMatchesDecisions
<1> QED
  BY <1>3, <1>5, <1>6, <1>7 DEF WorkflowsEvolve

\* A queued mutation that passes its second validation.
LEMMA ApplyStep ==
  ASSUME StoreInv, NEW r \in Requests, Verdict(r) = "ok", Apply(r)
  PROVE  /\ StoreInv' /\ WorkflowsEvolve
         /\ Success(r) = "accepted" => wf'[r.env].decisions[r.did] = r.decision
<1>1. CASE r.op = "create"
  <2>1. ValidateCreate(r.env, r.reqs) = "ok" /\ CreateWorkflow(r.env, r.reqs)
    BY <1>1 DEF Verdict, Apply
  <2>2. Success(r) # "accepted"
    BY <1>1 DEF Success
  <2> QED
    BY <2>1, <2>2, RequestFields, CreateStep
<1>2. CASE r.op = "approve"
  <2>1. /\ ApprovalPreflight(r.env, r.did, r.decision) = "ok"
        /\ SubmitApproval(r.env, r.did, r.decision)
    BY <1>2 DEF Verdict, Apply
  <2> QED
    BY <2>1, RequestFields, ApproveStep
<1>3. CASE r.op = "cancel"
  <2>1. ValidateCancel(r.id, r.did) = "ok" /\ CancelAction(r.id)
    BY <1>3 DEF Verdict, Apply
  <2>2. Success(r) # "accepted"
    BY <1>3 DEF Success
  <2> QED
    BY <2>1, <2>2, RequestFields, CancelStep
<1> QED
  BY <1>1, <1>2, <1>3, RequestFields

-----------------------------------------------------------------------------
(***************************************************************************)
(* What holds of decisions and packages outlives any evolution of the      *)
(* workflows.                                                              *)
(***************************************************************************)
LEMMA RecordedStays ==
  ASSUME WorkflowsEvolve, NEW r \in Requests, Recorded(r)
  PROVE  Recorded(r)'
<1>1. r.env \in Envelopes /\ r.did \in Dids /\ r.decision \in Decision
  BY RequestFields
<1>2. wf[r.env].decisions[r.did] # Undecided
  BY <1>1 DEF Recorded, Decision, Undecided
<1>3. Extends(wf[r.env].decisions, wf'[r.env].decisions)
  BY <1>1 DEF WorkflowsEvolve, Evolves
<1> QED
  BY <1>1, <1>2, <1>3 DEF Recorded, Extends

LEMMA PackagesStay ==
  ASSUME TypeOK, PackageInv, WorkflowsEvolve, NEW p \in packages
  PROVE  /\ wf'[p.env].state \in {"readyForSubmission", "expired"}
         /\ wf'[p.env].decisions = p.decisions
<1>1. p.env \in Envelopes
  BY DEF TypeOK
<1>2. /\ wf[p.env].state \in {"readyForSubmission", "expired"}
      /\ wf[p.env].decisions = p.decisions
  BY DEF PackageInv
<1>3. Evolves(wf[p.env], wf'[p.env])
  BY <1>1 DEF WorkflowsEvolve
<1> QED
  BY <1>2, <1>3 DEF Evolves

LEMMA StandsStill ==
  ASSUME StoreTypeOK, UNCHANGED wf
  PROVE  WorkflowsEvolve
BY EvolvesSame DEF StoreTypeOK, WorkflowsEvolve

-----------------------------------------------------------------------------
(***************************************************************************)
(* The service's actions.                                                  *)
(***************************************************************************)
LEMMA ReceiveStep ==
  ASSUME CoordInv, NEW c \in Clients, NEW r \in Requests, Receive(c, r)
  PROVE  CoordInv' /\ WorkflowsEvolve
<1> USE DEF CoordInv
<1>1. UNCHANGED <<wf, byId, expired, cache, packages, commits>>
  BY DEF Receive, storeVars
<1>2. /\ pc' = [pc EXCEPT ![c] = "received"]
      /\ req' = [req EXCEPT ![c] = r]
      /\ answer' = [answer EXCEPT ![c] = "none"]
  BY DEF Receive
<1>3. TypeOK'
  BY <1>1, <1>2 DEF TypeOK, StoreTypeOK
<1>4. ActiveInv'
  BY <1>2 DEF ActiveInv, TypeOK
<1>5. MapsInv' /\ StateMatchesDecisions' /\ PackageInv'
  BY <1>1 DEF MapsInv, OneWorkflowPerId, StateMatchesDecisions, PackageInv
<1>6. QueueInv'
  BY <1>1, <1>2 DEF QueueInv, TypeOK
<1>7. CacheInv'
  BY <1>1 DEF CacheInv, Recorded
<1>8. AnswerInv'
  BY <1>1, <1>2 DEF AnswerInv, Recorded, TypeOK
<1>9. WorkflowsEvolve
  BY <1>1, StandsStill DEF TypeOK
<1> QED
  BY <1>3, <1>4, <1>5, <1>6, <1>7, <1>8, <1>9

\* A request is answered without touching anything else.
LEMMA FinishStep ==
  ASSUME CoordInv, NEW c \in Clients, NEW x \in Successes \cup Refusals,
         pc[c] \in {"received", "claiming"}, Finish(c, x),
         x = "accepted" => Recorded(req[c]),
         UNCHANGED <<wf, byId, expired, req, cache, packages, commits>>
  PROVE  CoordInv'
<1> USE DEF CoordInv, Finish
<1>1. TypeOK'
  BY DEF TypeOK, StoreTypeOK
<1>2. ActiveInv'
  BY DEF ActiveInv, TypeOK
<1>3. MapsInv' /\ StateMatchesDecisions' /\ PackageInv'
  BY DEF MapsInv, OneWorkflowPerId, StateMatchesDecisions, PackageInv
<1>4. QueueInv'
  BY DEF QueueInv, TypeOK
<1>5. CacheInv'
  BY DEF CacheInv, Recorded
<1>6. AnswerInv'
  <2>1. req[c] \in Requests
    BY DEF ActiveInv
  <2> QED
    BY <2>1 DEF AnswerInv, Recorded, TypeOK
<1> QED
  BY <1>1, <1>2, <1>3, <1>4, <1>5, <1>6

\* runIdempotent.
LEMMA StartStep ==
  ASSUME CoordInv, NEW c \in Clients, pc[c] \in {"received", "claiming"}, Start(c),
         UNCHANGED <<wf, byId, expired, req, packages, commits>>
  PROVE  CoordInv'
<1> USE DEF CoordInv
<1> DEFINE r == req[c]
           k == Scope(r)
           entry == cache[k]
<1>1. r \in Requests
  BY DEF ActiveInv
<1>2. r.key # NoKey => k \in Scopes /\ entry \in CacheEntry
  BY <1>1, RequestFields DEF TypeOK
<1>3. MapsInv' /\ StateMatchesDecisions' /\ PackageInv'
  BY DEF MapsInv, OneWorkflowPerId, StateMatchesDecisions, PackageInv
<1>4. CASE r.key = NoKey /\ Goto(c, "queued") /\ UNCHANGED cache
  <2> USE <1>4 DEF Goto
  <2>1. TypeOK' /\ ActiveInv'
    BY <1>1 DEF TypeOK, StoreTypeOK, ActiveInv
  <2>2. QueueInv'
    <3>1. ASSUME NEW w \in Clients, w # c
          PROVE  pc'[w] = pc[w]
      BY <3>1 DEF TypeOK
    <3>2. ASSUME NEW w \in Clients, req[w].key # NoKey
          PROVE  Scope(req[w]) # Scope(req[c])
      BY <3>2 DEF Scope
    <3> QED
      BY <3>1, <3>2 DEF QueueInv, TypeOK
  <2>3. CacheInv' /\ AnswerInv'
    BY DEF CacheInv, AnswerInv, Recorded
  <2> QED
    BY <1>3, <2>1, <2>2, <2>3
<1>5. CASE /\ r.key # NoKey /\ entry.status = "free"
           /\ cache' = [cache EXCEPT ![k] = [status |-> "pending", req |-> r, answer |-> "none"]]
           /\ Goto(c, "queued")
  <2> USE <1>5 DEF Goto
  <2>1. TypeOK' /\ ActiveInv'
    <3>1. [status |-> "pending", req |-> r, answer |-> "none"] \in CacheEntry
      BY <1>1 DEF CacheEntry
    <3> QED
      BY <1>1, <3>1 DEF TypeOK, StoreTypeOK, ActiveInv
  <2>2. cache'[k].status = "pending" /\ cache'[k].req = r
    BY <1>2 DEF TypeOK
  <2>3. \A m \in Scopes : m # k => cache'[m] = cache[m]
    BY DEF TypeOK
  <2>4. ASSUME NEW w \in Clients, w # c
        PROVE  pc'[w] = pc[w]
    BY <2>4 DEF TypeOK
  <2>5. pc'[c] = "queued"
    BY DEF TypeOK
  <2>6. ASSUME NEW w \in Clients, w # c,
               \/ pc[w] = "queued" /\ req[w].key # NoKey
               \/ pc[w] = "waiting"
        PROVE  /\ Scope(req[w]) # k
               /\ req[w].key # NoKey
               /\ cache'[Scope(req[w])] = cache[Scope(req[w])]
    <3>1. req[w].key # NoKey /\ cache[Scope(req[w])].status = "pending"
      BY <2>6 DEF QueueInv
    <3>2. req[w] \in Requests
      BY <2>6 DEF ActiveInv
    <3> QED
      BY <2>3, <3>1, <3>2, RequestFields
  <2>7. QueueInv'
    <3>1. ASSUME NEW w \in Clients,
                 \/ pc'[w] = "queued" /\ req[w].key # NoKey
                 \/ pc'[w] = "waiting"
          PROVE  /\ req[w].key # NoKey
                 /\ cache'[Scope(req[w])].status = "pending"
                 /\ cache'[Scope(req[w])].req = req[w]
      <4>1. CASE w = c
        BY <2>2, <4>1
      <4>2. CASE w # c
        BY <2>4, <2>6, <3>1, <4>2 DEF QueueInv
      <4> QED
        BY <4>1, <4>2
    <3>2. ASSUME NEW v \in Clients, NEW w \in Clients,
                 pc'[v] = "queued", pc'[w] = "queued",
                 req[v].key # NoKey, Scope(req[v]) = Scope(req[w])
          PROVE  v = w
      <4>0. req[w].key = req[v].key
        BY <3>2 DEF Scope
      <4>1. CASE v = c /\ w # c
        BY <2>4, <2>6, <3>2, <4>0, <4>1
      <4>2. CASE v # c /\ w = c
        BY <2>4, <2>6, <3>2, <4>0, <4>2
      <4>3. CASE v # c /\ w # c
        BY <2>4, <3>2, <4>3 DEF QueueInv
      <4> QED
        BY <4>1, <4>2, <4>3
    <3> QED
      BY <3>1, <3>2 DEF QueueInv
  <2>8. CacheInv' /\ AnswerInv'
    <3>1. commits[k] = 0
      BY <1>2 DEF CacheInv
    <3> QED
      BY <2>2, <2>3, <3>1 DEF CacheInv, AnswerInv, Recorded
  <2> QED
    BY <1>3, <2>1, <2>7, <2>8
<1>6. CASE Finish(c, "idempotency_conflict") /\ UNCHANGED cache
  BY <1>6, FinishStep DEF Refusals
<1>7. CASE /\ r.key # NoKey /\ entry.status = "pending" /\ entry.req = r
           /\ Goto(c, "waiting") /\ UNCHANGED cache
  <2> USE <1>7 DEF Goto
  <2>1. TypeOK' /\ ActiveInv'
    BY <1>1 DEF TypeOK, StoreTypeOK, ActiveInv
  <2>2. QueueInv'
    BY DEF QueueInv, TypeOK
  <2>3. CacheInv' /\ AnswerInv'
    BY DEF CacheInv, AnswerInv, Recorded
  <2> QED
    BY <1>3, <2>1, <2>2, <2>3
<1>8. CASE /\ r.key # NoKey /\ entry.status = "done" /\ entry.req = r
           /\ Finish(c, entry.answer) /\ UNCHANGED cache
  <2>1. CASE entry.answer = "none"
    <3>1. TypeOK' /\ ActiveInv'
      BY <1>8, <2>1 DEF TypeOK, StoreTypeOK, ActiveInv, Finish
    <3>2. QueueInv'
      BY <1>8 DEF QueueInv, TypeOK, Finish
    <3>3. CacheInv' /\ AnswerInv'
      BY <1>8, <2>1 DEF CacheInv, AnswerInv, Recorded, Finish, TypeOK
    <3> QED
      BY <1>3, <3>1, <3>2, <3>3
  <2>2. CASE entry.answer # "none"
    <3>1. entry.answer \in Successes
      BY <1>2, <1>8, <2>2 DEF CacheEntry
    <3>2. entry.answer = "accepted" => Recorded(req[c])
      BY <1>2, <1>8 DEF CacheInv
    <3> QED
      BY <1>8, <3>1, <3>2, FinishStep
  <2> QED
    BY <2>1, <2>2
<1> QED
  BY <1>4, <1>5, <1>6, <1>7, <1>8 DEF Start

LEMMA ValidateStep ==
  ASSUME CoordInv, NEW c \in Clients, Validate(c)
  PROVE  CoordInv' /\ WorkflowsEvolve
<1>1. /\ UNCHANGED <<wf, byId, expired, req, packages, commits>>
      /\ pc[c] = "received"
  BY DEF Validate, storeVars
<1>2. req[c] \in Requests
  BY <1>1 DEF CoordInv, ActiveInv
<1>3. WorkflowsEvolve
  BY <1>1, StandsStill DEF CoordInv, TypeOK
<1>4. CASE Finish(c, "refused") /\ UNCHANGED cache
  BY <1>1, <1>3, <1>4, FinishStep DEF Refusals
<1>5. CASE Finish(c, "permission_denied") /\ UNCHANGED cache
  BY <1>1, <1>3, <1>5, FinishStep DEF Refusals
<1>6. CASE Verdict(req[c]) # "ok" /\ Finish(c, Verdict(req[c])) /\ UNCHANGED cache
  <2>1. PICK x \in Refusals : x = Verdict(req[c])
    BY <1>2, <1>6, VerdictRange
  <2>2. x # "accepted"
    BY DEF Refusals
  <2> QED
    BY <1>1, <1>3, <1>6, <2>1, <2>2, FinishStep
<1>7. CASE Goto(c, "claiming") /\ UNCHANGED cache
  <2> USE <1>1, <1>7 DEF CoordInv, Goto
  <2>1. TypeOK' /\ ActiveInv'
    BY <1>2 DEF TypeOK, StoreTypeOK, ActiveInv
  <2>2. MapsInv' /\ StateMatchesDecisions' /\ PackageInv'
    BY DEF MapsInv, OneWorkflowPerId, StateMatchesDecisions, PackageInv
  <2>3. QueueInv'
    BY DEF QueueInv, TypeOK
  <2>4. CacheInv' /\ AnswerInv'
    BY DEF CacheInv, AnswerInv, Recorded
  <2> QED
    BY <1>3, <2>1, <2>2, <2>3, <2>4
<1>8. CASE Start(c)
  BY <1>1, <1>3, <1>8, StartStep
<1> QED
  BY <1>4, <1>5, <1>6, <1>7, <1>8 DEF Validate

LEMMA ClaimStep ==
  ASSUME CoordInv, NEW c \in Clients, Claim(c)
  PROVE  CoordInv' /\ WorkflowsEvolve
<1>1. /\ UNCHANGED <<wf, byId, expired, req, packages, commits>>
      /\ pc[c] = "claiming"
  BY DEF Claim, storeVars
<1>2. WorkflowsEvolve
  BY <1>1, StandsStill DEF CoordInv, TypeOK
<1>3. CASE Finish(c, "signature_invalid") /\ UNCHANGED cache
  BY <1>1, <1>2, <1>3, FinishStep DEF Refusals
<1>4. CASE Start(c)
  BY <1>1, <1>2, <1>4, StartStep
<1> QED
  BY <1>3, <1>4 DEF Claim

\* A mutation ends: c and those who share its result are answered x, and the
\* entry of its key, if it has one, becomes `entry'.
LEMMA EndStep ==
  ASSUME CoordInv, StoreInv', WorkflowsEvolve, NEW c \in Clients, pc[c] = "queued",
         NEW x \in Successes \cup Refusals, NEW entry \in CacheEntry,
         entry.status # "pending",
         FinishAll(Sharing(c), x),
         x = "accepted" => Recorded(req[c])',
         entry.status = "done" /\ entry.answer = "accepted" =>
           entry.req \in Requests /\ Recorded(entry.req)',
         cache' = IF req[c].key = NoKey THEN cache
                  ELSE [cache EXCEPT ![Scope(req[c])] = entry],
         commits' = IF req[c].key = NoKey \/ entry.status # "done" THEN commits
                    ELSE [commits EXCEPT ![Scope(req[c])] = @ + 1],
         UNCHANGED <<req, packages>>
  PROVE  CoordInv'
<1> USE DEF CoordInv
<1> DEFINE r == req[c]
           k == Scope(r)
<1>1. r \in Requests /\ (r.key # NoKey => k \in Scopes)
  BY RequestFields DEF ActiveInv
<1>2. ASSUME NEW w \in Sharing(c)
      PROVE  w \in Clients /\ req[w] = r
  <2>1. CASE w = c
    BY <2>1
  <2>2. CASE w # c
    <3>1. w \in Clients /\ pc[w] = "waiting" /\ r.key # NoKey /\ Scope(req[w]) = k
      BY <2>2 DEF Sharing
    <3>2. cache[k].req = req[w] /\ cache[k].req = r
      BY <3>1 DEF QueueInv
    <3> QED
      BY <3>1, <3>2
  <2> QED
    BY <2>1, <2>2
<1>3. /\ pc' = [w \in Clients |-> IF w \in Sharing(c) THEN "idle" ELSE pc[w]]
      /\ answer' = [w \in Clients |-> IF w \in Sharing(c) THEN x ELSE answer[w]]
  BY DEF FinishAll
<1>4. cache' \in [Scopes -> CacheEntry] /\ commits' \in [Scopes -> Nat]
  BY <1>1 DEF TypeOK
<1>5. TypeOK'
  BY <1>3, <1>4 DEF TypeOK, StoreInv
<1>6. ActiveInv'
  BY <1>3 DEF ActiveInv
<1>7. MapsInv' /\ StateMatchesDecisions'
  BY DEF StoreInv
<1>8. PackageInv'
  BY PackagesStay DEF PackageInv
<1>9. ASSUME NEW m \in Scopes, m # k \/ r.key = NoKey
      PROVE  cache'[m] = cache[m] /\ commits'[m] = commits[m]
  BY <1>1, <1>9 DEF TypeOK
<1>10. r.key # NoKey =>
         /\ cache'[k] = entry
         /\ commits'[k] = IF entry.status = "done" THEN 1 ELSE 0
  <2>1. r.key # NoKey => cache[k].status = "pending"
    BY DEF QueueInv
  <2>2. r.key # NoKey => commits[k] = 0
    BY <1>1, <2>1 DEF CacheInv
  <2> QED
    BY <1>1, <2>2 DEF TypeOK
<1>11. QueueInv'
  <2>1. ASSUME NEW w \in Clients, pc'[w] # "idle"
        PROVE  w \notin Sharing(c) /\ w # c /\ pc'[w] = pc[w]
    BY <1>3, <2>1 DEF Sharing
  <2>2. ASSUME NEW w \in Clients,
               \/ pc'[w] = "queued" /\ req[w].key # NoKey
               \/ pc'[w] = "waiting"
        PROVE  /\ req[w].key # NoKey
               /\ cache'[Scope(req[w])].status = "pending"
               /\ cache'[Scope(req[w])].req = req[w]
    <3>1. w \notin Sharing(c) /\ w # c /\ pc'[w] = pc[w]
      BY <2>1, <2>2
    <3>2. /\ req[w].key # NoKey
          /\ cache[Scope(req[w])].status = "pending"
          /\ cache[Scope(req[w])].req = req[w]
      BY <2>2, <3>1 DEF QueueInv
    <3>3. req[w] \in Requests
      BY <2>2, <3>1 DEF ActiveInv
    <3>4. Scope(req[w]) \in Scopes
      BY <3>2, <3>3, RequestFields
    <3>5. Scope(req[w]) # k \/ r.key = NoKey
      <4>1. CASE pc[w] = "waiting"
        BY <3>1, <4>1 DEF Sharing
      <4>2. CASE pc[w] = "queued"
        BY <3>1, <3>2, <4>2 DEF QueueInv
      <4> QED
        BY <2>2, <3>1, <4>1, <4>2
    <3> QED
      BY <1>9, <3>2, <3>4, <3>5
  <2>3. ASSUME NEW v \in Clients, NEW w \in Clients,
               pc'[v] = "queued", pc'[w] = "queued",
               req[v].key # NoKey, Scope(req[v]) = Scope(req[w])
        PROVE  v = w
    BY <2>1, <2>3 DEF QueueInv
  <2> QED
    BY <2>2, <2>3 DEF QueueInv
<1>12. CacheInv'
  <2> SUFFICES ASSUME NEW m \in Scopes
               PROVE  /\ commits'[m] = IF cache'[m].status = "done" THEN 1 ELSE 0
                      /\ cache'[m].status = "done" /\ cache'[m].answer = "accepted" =>
                           cache'[m].req \in Requests /\ Recorded(cache[m].req)'
    BY DEF CacheInv
  <2>1. CASE m = k /\ r.key # NoKey
    BY <1>10, <2>1
  <2>2. CASE m # k \/ r.key = NoKey
    <3>1. cache'[m] = cache[m] /\ commits'[m] = commits[m]
      BY <1>9, <2>2
    <3>2. cache[m].status = "done" /\ cache[m].answer = "accepted" =>
            cache[m].req \in Requests /\ Recorded(cache[m].req)
      BY DEF CacheInv
    <3>3. ASSUME NEW q \in Requests, Recorded(q)
          PROVE  Recorded(q)'
      BY <3>3, RecordedStays
    <3> QED
      BY <3>1, <3>2, <3>3 DEF CacheInv, Recorded
  <2> QED
    BY <2>1, <2>2
<1>13. AnswerInv'
  <2> SUFFICES ASSUME NEW w \in Clients, answer'[w] = "accepted"
               PROVE  req[w] \in Requests /\ Recorded(req[w])'
    BY DEF AnswerInv
  <2>1. CASE w \in Sharing(c)
    <3>1. x = "accepted"
      BY <1>3, <2>1
    <3>2. req[w] = req[c] /\ req' = req
      BY <1>2, <2>1
    <3> QED
      BY <1>1, <3>1, <3>2 DEF Recorded
  <2>2. CASE w \notin Sharing(c)
    <3>1. req[w] \in Requests /\ Recorded(req[w])
      BY <1>3, <2>2 DEF AnswerInv
    <3>2. PICK q \in Requests : q = req[w]
      BY <3>1
    <3>3. Recorded(q)'
      BY <3>1, <3>2, RecordedStays
    <3> QED
      BY <3>2, <3>3 DEF Recorded
  <2> QED
    BY <2>1, <2>2
<1> QED
  BY <1>5, <1>6, <1>7, <1>8, <1>11, <1>12, <1>13

LEMMA CommitStep ==
  ASSUME CoordInv, NEW c \in Clients, Commit(c)
  PROVE  CoordInv' /\ WorkflowsEvolve
<1>1. PICK r \in Requests : r = req[c]
  BY DEF CoordInv, ActiveInv, Commit
<1>2. PICK x \in Successes : x = Success(r)
  BY SuccessRange
<1>3. PICK entry \in CacheEntry : entry = [status |-> "done", req |-> r, answer |-> x]
  BY DEF CacheEntry
<1>4. StoreInv
  BY DEF CoordInv, TypeOK, StoreInv
<1>5. /\ StoreInv' /\ WorkflowsEvolve
      /\ x = "accepted" => wf'[r.env].decisions[r.did] = r.decision
  BY <1>1, <1>2, <1>4, ApplyStep DEF Commit
<1>6. req' = req
  BY DEF Commit
<1>7. x = "accepted" => Recorded(req[c])'
  BY <1>1, <1>5, <1>6 DEF Recorded
<1>8. entry.status = "done" /\ entry.answer = "accepted" =>
        entry.req \in Requests /\ Recorded(entry.req)'
  BY <1>3, <1>5 DEF Recorded
<1>9. /\ pc[c] = "queued"
      /\ FinishAll(Sharing(c), x)
      /\ cache' = IF req[c].key = NoKey THEN cache
                  ELSE [cache EXCEPT ![Scope(req[c])] = entry]
      /\ commits' = IF req[c].key = NoKey \/ entry.status # "done" THEN commits
                    ELSE [commits EXCEPT ![Scope(req[c])] = @ + 1]
      /\ UNCHANGED <<req, packages>>
  BY <1>1, <1>2, <1>3 DEF Commit
<1> QED
  BY <1>3, <1>5, <1>7, <1>8, <1>9, EndStep

LEMMA FailStep ==
  ASSUME CoordInv, NEW c \in Clients, Fail(c)
  PROVE  CoordInv' /\ WorkflowsEvolve
<1>1. PICK r \in Requests : r = req[c]
  BY DEF CoordInv, ActiveInv, Fail
<1>2. PICK x \in Refusals : x = Verdict(r)
  BY <1>1, VerdictRange DEF Fail
<1>3. PICK entry \in CacheEntry : entry = FreeEntry
  BY DEF CacheEntry, FreeEntry
<1>4. UNCHANGED <<wf, byId, expired>>
  BY DEF Fail, storeVars
<1>5. StoreInv'
  BY <1>4 DEF CoordInv, TypeOK, StoreInv, StoreTypeOK, MapsInv, OneWorkflowPerId,
              StateMatchesDecisions
<1>6. WorkflowsEvolve
  BY <1>4, StandsStill DEF CoordInv, TypeOK
<1>7. x # "accepted" /\ entry.status = "free"
  BY <1>3 DEF Refusals, FreeEntry
<1>8. /\ pc[c] = "queued"
      /\ FinishAll(Sharing(c), x)
      /\ cache' = IF req[c].key = NoKey THEN cache
                  ELSE [cache EXCEPT ![Scope(req[c])] = entry]
      /\ commits' = commits
      /\ UNCHANGED <<req, packages>>
  BY <1>1, <1>2, <1>3 DEF Fail
<1> QED
  BY <1>5, <1>6, <1>7, <1>8, EndStep

LEMMA PollStep ==
  ASSUME CoordInv, NEW did \in Dids, Poll(did)
  PROVE  CoordInv' /\ WorkflowsEvolve
<1> USE DEF CoordInv
<1>1. UNCHANGED <<pc, req, answer, cache, commits>> /\ ExpireListed
  BY DEF Poll, clientVars
<1>2. /\ StoreInv' /\ WorkflowsEvolve
      /\ \A e \in Envelopes : wf'[e].decisions = wf[e].decisions
  BY <1>1, ExpireStep DEF TypeOK, StoreInv
<1>3. ASSUME NEW q \in packages', q \notin packages
      PROVE  /\ q \in [env: Envelopes, decisions: Decisions]
             /\ wf'[q.env].state = "readyForSubmission"
             /\ wf'[q.env].decisions = q.decisions
  <2>1. PICK e \in Envelopes :
          /\ q = [env |-> e, decisions |-> wf[e].decisions]
          /\ e \in Listed
          /\ ExpireIfNeeded(e).state = "readyForSubmission"
    BY <1>3 DEF Poll, Listed
  <2>2. wf'[e] = ExpireIfNeeded(e)
    BY <1>1, <2>1 DEF ExpireListed
  <2>3. wf[e].decisions \in Decisions
    BY DEF TypeOK, StoreTypeOK, Workflow
  <2> QED
    BY <1>2, <2>1, <2>2, <2>3
<1>4. TypeOK'
  <2>1. packages' \subseteq [env: Envelopes, decisions: Decisions]
    BY <1>3 DEF TypeOK
  <2> QED
    BY <1>1, <1>2, <2>1 DEF TypeOK, StoreInv
<1>5. PackageInv'
  BY <1>2, <1>3, PackagesStay DEF PackageInv
<1>6. MapsInv' /\ StateMatchesDecisions'
  BY <1>2 DEF StoreInv
<1>7. ActiveInv' /\ QueueInv'
  BY <1>1 DEF ActiveInv, QueueInv
<1>8. CacheInv' /\ AnswerInv'
  <2>1. ASSUME NEW q \in Requests
        PROVE  Recorded(q)' <=> Recorded(q)
    BY <1>2, RequestFields DEF Recorded
  <2>2. \A q \in Requests : Recorded(q) => wf'[q.env].decisions[q.did] = q.decision
    BY <2>1 DEF Recorded
  <2> QED
    BY <1>1, <2>2 DEF CacheInv, AnswerInv, Recorded
<1> QED
  BY <1>2, <1>4, <1>5, <1>6, <1>7, <1>8

LEMMA EvictStep ==
  ASSUME CoordInv, NEW k \in Scopes, Evict(k)
  PROVE  CoordInv' /\ WorkflowsEvolve
<1> USE DEF CoordInv
<1>1. /\ UNCHANGED <<wf, byId, expired, pc, req, answer, packages>>
      /\ cache[k].status = "done"
      /\ cache' = [cache EXCEPT ![k] = FreeEntry]
      /\ commits' = [commits EXCEPT ![k] = 0]
  BY DEF Evict, storeVars, clientVars
<1>2. FreeEntry \in CacheEntry /\ FreeEntry.status = "free"
  BY DEF FreeEntry, CacheEntry
<1>3. TypeOK'
  BY <1>1, <1>2 DEF TypeOK, StoreTypeOK
<1>4. ActiveInv' /\ MapsInv' /\ StateMatchesDecisions' /\ PackageInv' /\ AnswerInv'
  BY <1>1 DEF ActiveInv, MapsInv, OneWorkflowPerId, StateMatchesDecisions, PackageInv,
              AnswerInv, Recorded
<1>5. QueueInv'
  <2>1. ASSUME NEW w \in Clients, req[w] \in Requests, req[w].key # NoKey,
               cache[Scope(req[w])].status = "pending"
        PROVE  cache'[Scope(req[w])] = cache[Scope(req[w])]
    BY <1>1, <2>1, RequestFields DEF TypeOK
  <2>2. \A w \in Clients : pc[w] # "idle" => req[w] \in Requests
    BY DEF ActiveInv
  <2> QED
    BY <1>1, <2>1, <2>2 DEF QueueInv
<1>6. CacheInv'
  BY <1>1, <1>2 DEF CacheInv, Recorded, TypeOK
<1>7. WorkflowsEvolve
  BY <1>1, StandsStill DEF TypeOK
<1> QED
  BY <1>3, <1>4, <1>5, <1>6, <1>7

LEMMA ClockStep ==
  ASSUME CoordInv, NEW e \in Envelopes, Expire(e)
  PROVE  CoordInv' /\ WorkflowsEvolve
<1> USE DEF CoordInv
<1>1. /\ UNCHANGED <<wf, byId, pc, req, answer, cache, packages, commits>>
      /\ expired' = expired \cup {e}
  BY DEF Expire, clientVars
<1>2. TypeOK'
  BY <1>1 DEF TypeOK, StoreTypeOK
<1>3. ActiveInv' /\ MapsInv' /\ StateMatchesDecisions' /\ PackageInv'
  BY <1>1 DEF ActiveInv, MapsInv, OneWorkflowPerId, StateMatchesDecisions, PackageInv
<1>4. QueueInv' /\ CacheInv' /\ AnswerInv'
  BY <1>1 DEF QueueInv, CacheInv, AnswerInv, Recorded
<1>5. WorkflowsEvolve
  BY <1>1, StandsStill DEF TypeOK
<1> QED
  BY <1>2, <1>3, <1>4, <1>5

LEMMA InitCoord == Init => CoordInv
<1> SUFFICES ASSUME Init PROVE CoordInv
  OBVIOUS
<1> USE DEF Init, StoreInit
<1>1. NoWorkflow \in Workflow /\ NoWorkflow.state = "none"
  BY NoDecisionsType DEF NoWorkflow, Workflow, States, NoRequirements, Requirements
<1>2. FreeEntry \in CacheEntry /\ FreeEntry.status = "free"
  BY DEF FreeEntry, CacheEntry
<1>3. TypeOK
  BY <1>1, <1>2 DEF TypeOK, StoreTypeOK
<1>4. MapsInv
  BY <1>1, StoreConstants DEF MapsInv, OneWorkflowPerId
<1>5. StateMatchesDecisions
  BY <1>1 DEF StateMatchesDecisions, Consistent
<1>6. ActiveInv /\ PackageInv /\ QueueInv /\ CacheInv /\ AnswerInv
  BY <1>2 DEF ActiveInv, PackageInv, QueueInv, CacheInv, AnswerInv
<1> QED
  BY <1>3, <1>4, <1>5, <1>6 DEF CoordInv

LEMMA CoordStep ==
  ASSUME CoordInv, [Next]_vars
  PROVE  CoordInv' /\ WorkflowsEvolve
<1>1. CASE Next
  <2>1. ASSUME NEW c \in Clients, NEW r \in Requests, Receive(c, r)
        PROVE  CoordInv' /\ WorkflowsEvolve
    BY <2>1, ReceiveStep
  <2>2. ASSUME NEW c \in Clients, Step(c)
        PROVE  CoordInv' /\ WorkflowsEvolve
    BY <2>2, ValidateStep, ClaimStep, CommitStep, FailStep DEF Step
  <2>3. ASSUME NEW did \in Dids, Poll(did)
        PROVE  CoordInv' /\ WorkflowsEvolve
    BY <2>3, PollStep
  <2>4. ASSUME NEW k \in Scopes, Evict(k)
        PROVE  CoordInv' /\ WorkflowsEvolve
    BY <2>4, EvictStep
  <2>5. ASSUME NEW e \in Envelopes, Expire(e)
        PROVE  CoordInv' /\ WorkflowsEvolve
    BY <2>5, ClockStep
  <2> QED
    BY <1>1, <2>1, <2>2, <2>3, <2>4, <2>5 DEF Next
<1>2. CASE UNCHANGED vars
  <2> USE <1>2 DEF vars, CoordInv
  <2>1. TypeOK' /\ ActiveInv' /\ MapsInv' /\ StateMatchesDecisions' /\ PackageInv'
    BY DEF TypeOK, StoreTypeOK, ActiveInv, MapsInv, OneWorkflowPerId,
           StateMatchesDecisions, PackageInv
  <2>2. QueueInv' /\ CacheInv' /\ AnswerInv'
    BY DEF QueueInv, CacheInv, AnswerInv, Recorded
  <2>3. WorkflowsEvolve
    BY StandsStill DEF TypeOK
  <2> QED
    BY <2>1, <2>2, <2>3
<1> QED
  BY <1>1, <1>2

-----------------------------------------------------------------------------
\* The inductive invariant of the store, the handlers and the idempotency cache
\* holds in every reachable state.
THEOREM CoordinationInvariant == Spec => []CoordInv
<1>1. CoordInv /\ [Next]_vars => CoordInv'
  BY CoordStep
<1> QED
  BY InitCoord, <1>1, PTL DEF Spec

\* Every variable of the Coordination Service keeps its type.
THEOREM ServiceTypeCorrect == Spec => []TypeOK
<1>1. CoordInv => TypeOK
  BY DEF CoordInv
<1> QED
  BY CoordinationInvariant, <1>1, PTL

\* submitApproval's state always agrees with the decisions it was derived from.
THEOREM StatesJustified == Spec => []StateMatchesDecisions
<1>1. CoordInv => StateMatchesDecisions
  BY DEF CoordInv
<1> QED
  BY CoordinationInvariant, <1>1, PTL

\* All completed packages of one workflow are the same.
THEOREM PackagesAgree == Spec => []OnePackage
<1>1. CoordInv => OnePackage
  BY DEF CoordInv, TypeOK, PackageInv, OnePackage
<1> QED
  BY CoordinationInvariant, <1>1, PTL

\* A workflow whose package was handed out is never cancelled, nor the reverse.
THEOREM CancelExcludesCompletion == Spec => []CancelledNeverCompleted
<1>1. CoordInv => CancelledNeverCompleted
  BY DEF CoordInv, PackageInv, CancelledNeverCompleted
<1> QED
  BY CoordinationInvariant, <1>1, PTL

\* One Action ID has one workflow, and both of the store's maps know it.
THEOREM WorkflowsUnique == Spec => []OneWorkflowPerId
<1>1. CoordInv => OneWorkflowPerId
  BY DEF CoordInv, MapsInv
<1> QED
  BY CoordinationInvariant, <1>1, PTL

\* An accepted approval is in the store, however its answer was produced.
THEOREM AcceptedApprovalsCount == Spec => []AcceptedIsCounted
<1>1. CoordInv => AcceptedIsCounted
  BY DEF CoordInv, AnswerInv, AcceptedIsCounted, Recorded
<1> QED
  BY CoordinationInvariant, <1>1, PTL

\* A remembered key stands for one application of its mutation.
THEOREM KeysCommitOnce == Spec => []CommitOnce
<1>1. CoordInv => CommitOnce
  BY DEF CoordInv, CacheInv, CommitOnce
<1> QED
  BY CoordinationInvariant, <1>1, PTL

\* Nothing is decided on an expired envelope, whatever its workflow's state
\* still says: both validations of a mutation look at the clock.
LEMMA ApplyAfterExpiry ==
  ASSUME StoreInv, NEW r \in Requests, Verdict(r) = "ok", Apply(r),
         NEW e \in expired
  PROVE  wf'[e].decisions = wf[e].decisions
<1>1. wf \in [Envelopes -> Workflow] /\ e \in Envelopes
  BY DEF StoreInv, StoreTypeOK
<1>2. CASE r.op = "create"
  <2>1. CreateWorkflow(r.env, r.reqs)
    BY <1>2 DEF Apply
  <2>2. CASE wf[r.env].state # "none"
    BY <1>1, <2>1, <2>2, RequestFields DEF CreateWorkflow, ExpireIfNeeded
  <2>3. CASE wf[r.env].state = "none"
    <3>1. wf[r.env].decisions = NoDecisions
      BY <2>3, RequestFields DEF StoreInv, MapsInv, NoWorkflow
    <3> QED
      BY <1>1, <2>1, <2>3, <3>1, RequestFields DEF CreateWorkflow
  <2> QED
    BY <2>2, <2>3
<1>3. CASE r.op = "approve"
  <2>1. /\ ApprovalPreflight(r.env, r.did, r.decision) = "ok"
        /\ SubmitApproval(r.env, r.did, r.decision)
    BY <1>3 DEF Verdict, Apply
  <2>2. CASE r.env = e
    <3>1. wf[e].decisions[r.did] = r.decision
      BY <2>1, <2>2 DEF ApprovalPreflight, EffectiveState, Expirable
    <3>2. [wf[e].decisions EXCEPT ![r.did] = r.decision] = wf[e].decisions
      BY <1>1, <3>1 DEF Workflow, Decisions
    <3> QED
      BY <1>1, <2>1, <2>2, <3>2 DEF SubmitApproval
  <2>3. CASE r.env # e
    BY <1>1, <2>1, <2>3, RequestFields DEF SubmitApproval
  <2> QED
    BY <2>2, <2>3
<1>4. CASE r.op = "cancel"
  BY <1>1, <1>4 DEF Apply, CancelAction
<1> QED
  BY <1>2, <1>3, <1>4, RequestFields

\* Nor is a package of it handed out: a poll expires what it lists first.
LEMMA ExpiredLeftAlone ==
  ASSUME CoordInv, [Next]_vars, NEW e \in expired
  PROVE  LeavesAlone(e)
<1>1. StoreInv /\ e \in Envelopes
  BY DEF CoordInv, TypeOK, StoreInv, StoreTypeOK
<1>2. ASSUME UNCHANGED <<wf, packages>> PROVE LeavesAlone(e)
  BY <1>2 DEF LeavesAlone
<1>3. ASSUME NEW c \in Clients, Commit(c) PROVE LeavesAlone(e)
  <2>1. /\ req[c] \in Requests /\ Verdict(req[c]) = "ok" /\ Apply(req[c])
        /\ UNCHANGED packages
    BY <1>3 DEF Commit, CoordInv, ActiveInv
  <2> QED
    BY <1>1, <2>1, ApplyAfterExpiry DEF LeavesAlone
<1>4. ASSUME NEW did \in Dids, Poll(did) PROVE LeavesAlone(e)
  <2>1. ExpireListed
    BY <1>4 DEF Poll
  <2>2. wf'[e].decisions = wf[e].decisions
    BY <1>1, <2>1, ExpireStep
  <2>3. ExpireIfNeeded(e).state # "readyForSubmission"
    BY DEF ExpireIfNeeded, Expirable
  <2>4. \A q \in packages' : q.env = e => q \in packages
    BY <1>4, <2>3 DEF Poll
  <2> QED
    BY <2>2, <2>4 DEF LeavesAlone
<1>5. CASE UNCHANGED vars
  BY <1>2, <1>5 DEF vars, storeVars
<1>6. CASE Next
  <2>1. ASSUME NEW c \in Clients, NEW r \in Requests, Receive(c, r) PROVE LeavesAlone(e)
    BY <1>2, <2>1 DEF Receive, storeVars
  <2>2. ASSUME NEW c \in Clients, Step(c) PROVE LeavesAlone(e)
    BY <1>2, <1>3, <2>2 DEF Step, Validate, Claim, Fail, storeVars
  <2>3. ASSUME NEW k \in Scopes, Evict(k) PROVE LeavesAlone(e)
    BY <1>2, <2>3 DEF Evict, storeVars
  <2>4. ASSUME NEW f \in Envelopes, Expire(f) PROVE LeavesAlone(e)
    BY <1>2, <2>4 DEF Expire
  <2> QED
    BY <1>4, <1>6, <2>1, <2>2, <2>3, <2>4 DEF Next
<1> QED
  BY <1>5, <1>6

\* First decisions are final, closed workflows stay closed, and an expired one
\* is neither decided on nor handed out.
THEOREM FirstDecisionsFinal == Spec => DecisionsFinal
<1>1. CoordInv /\ [Next]_vars => /\ \A e \in Envelopes : Evolves(wf[e], wf'[e])
                                /\ \A e \in expired : LeavesAlone(e)
  BY CoordStep, ExpiredLeftAlone DEF WorkflowsEvolve
<1> QED
  BY CoordinationInvariant, <1>1, PTL DEF Spec, DecisionsFinal
=============================================================================
