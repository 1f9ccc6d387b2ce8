------------------------- MODULE CoordinationService -------------------------
(***************************************************************************)
(* The Coordination Service's mutating handlers and its poll               *)
(* (cli/src/coordination/coordination-api-server.ts) with the store's      *)
(* idempotency cache.  A mutation is validated, its nonce is claimed       *)
(* (awaited), it passes the cache, and it is applied in a later microtask, *)
(* where the store validates it again: other requests run in between.      *)
(***************************************************************************)
EXTENDS CoordinationStore

CONSTANTS
  Requests,   \* the mutations clients may send
  NoRequest,
  IdemKeys,   \* idempotency keys
  NoKey,      \* a request without one
  Clients,    \* concurrent HTTP requests
  Enforced    \* whether requests are authenticated

\* An approval names its envelope and signer, a cancellation its Action ID.
Request == [op: {"create", "approve", "cancel"}, env: Envelopes, id: ActionIds,
            did: Dids, decision: Decision, reqs: Requirements,
            key: IdemKeys \cup {NoKey}]

ASSUME ServiceConstants ==
  /\ Requests \subseteq Request
  /\ NoRequest \notin Requests
  /\ NoKey \notin IdemKeys
  /\ Enforced \in BOOLEAN

VARIABLES
  pc,        \* where each request awaits
  req,       \* the request
  answer,    \* its answer
  cache,     \* the idempotency cache, by DID and key
  \* History, read by the properties only:
  packages,  \* completed packages handed to the proposer
  commits    \* mutations applied per cache scope since it was last free

clientVars == <<pc, req, answer>>
vars == <<wf, byId, expired, pc, req, answer, cache, packages, commits>>

Scopes == Dids \X IdemKeys

Scope(r) == <<r.did, r.key>>

Successes == {"created", "existing", "accepted", "cancelled"}

Refusals == {"refused", "signature_invalid", "permission_denied",
             "idempotency_conflict", "INVALID_REQUEST", "expired",
             "ACTION_ID_CONFLICT", "ACTION_NOT_FOUND", "SELF_APPROVAL_DENIED",
             "SIGNER_DECISION_CONFLICT", "ACTION_NOT_AWAITING_APPROVALS",
             "NOT_PROPOSER", "ACTION_EXPIRED", "ACTION_READY", "ACTION_REJECTED"}

\* Equality of requests stands for equality of their fingerprints.
CacheEntry == [status: {"free", "pending", "done"},
               req: Requests \cup {NoRequest},
               answer: Successes \cup {"none"}]

FreeEntry == [status |-> "free", req |-> NoRequest, answer |-> "none"]

-----------------------------------------------------------------------------
Finish(c, x) ==
  /\ pc' = [pc EXCEPT ![c] = "idle"]
  /\ answer' = [answer EXCEPT ![c] = x]

Goto(c, where) ==
  /\ pc' = [pc EXCEPT ![c] = where]
  /\ UNCHANGED answer

\* Whether the authenticated identity may send this mutation.  That it is the
\* identity the request names is part of `refused'.
Permitted(r) ==
  \/ ~Enforced
  \/ r.op = "create" /\ r.did = ProposerOf[r.env]
  \/ r.op = "approve" /\ wf[r.env].state # "none" /\ EligibleSigner(r.env, r.did)
  \/ r.op = "cancel" /\ byId[r.id] # NoEnvelope /\ ProposerOf[byId[r.id]] = r.did

\* The store's validation of a mutation, before the claim and again when it is
\* applied.
Verdict(r) ==
  IF r.op = "create" THEN ValidateCreate(r.env, r.reqs)
  ELSE IF r.op = "approve" THEN ApprovalPreflight(r.env, r.did, r.decision)
  ELSE ValidateCancel(r.id, r.did)

Apply(r) ==
  \/ r.op = "create" /\ CreateWorkflow(r.env, r.reqs)
  \/ r.op = "approve" /\ SubmitApproval(r.env, r.did, r.decision)
  \/ r.op = "cancel" /\ CancelAction(r.id)

Success(r) ==
  IF r.op = "create"
  THEN IF wf[r.env].state = "none" THEN "created" ELSE "existing"
  ELSE IF r.op = "approve" THEN "accepted" ELSE "cancelled"

-----------------------------------------------------------------------------
Receive(c, r) ==
  /\ pc[c] = "idle"
  /\ pc' = [pc EXCEPT ![c] = "received"]
  /\ req' = [req EXCEPT ![c] = r]
  /\ answer' = [answer EXCEPT ![c] = "none"]
  /\ UNCHANGED <<storeVars, cache, packages, commits>>

\* Mutated forms of Start: the key is not entered before the mutation has run,
\* and a used key answers any request.
StartUnregistered(c) ==
  LET r == req[c]
      entry == cache[Scope(r)]
  IN  \/ /\ r.key = NoKey
         /\ Goto(c, "queued")
         /\ UNCHANGED cache
      \/ /\ r.key # NoKey
         /\ entry.status # "done"
         /\ Goto(c, "queued")
         /\ UNCHANGED cache
      \/ /\ r.key # NoKey
         /\ entry.status = "done"
         /\ Finish(c, IF entry.req = r THEN entry.answer ELSE "idempotency_conflict")
         /\ UNCHANGED cache

StartAnyRequest(c) ==
  LET r == req[c]
      entry == cache[Scope(r)]
  IN  \/ /\ r.key = NoKey
         /\ Goto(c, "queued")
         /\ UNCHANGED cache
      \/ /\ r.key # NoKey
         /\ entry.status = "free"
         /\ cache' = [cache EXCEPT ![Scope(r)] =
                        [status |-> "pending", req |-> r, answer |-> "none"]]
         /\ Goto(c, "queued")
      \/ /\ r.key # NoKey
         /\ entry.status = "pending"
         /\ Goto(c, "waiting")
         /\ UNCHANGED cache
      \/ /\ r.key # NoKey
         /\ entry.status = "done"
         /\ Finish(c, entry.answer)
         /\ UNCHANGED cache

\* runIdempotent: without a key, or with a key that is free, the mutation is
\* queued; a used key gives its result, or a conflict for another request.
Start(c) ==
  LET r == req[c]
      entry == cache[Scope(r)]
  IN  \/ /\ r.key = NoKey
         /\ Goto(c, "queued")
         /\ UNCHANGED cache
      \/ /\ r.key # NoKey
         /\ entry.status = "free"
         /\ cache' = [cache EXCEPT ![Scope(r)] =
                        [status |-> "pending", req |-> r, answer |-> "none"]]
         /\ Goto(c, "queued")
      \/ /\ r.key # NoKey
         /\ entry.status # "free"
         /\ entry.req # r
         /\ Finish(c, "idempotency_conflict")
         /\ UNCHANGED cache
      \/ /\ r.key # NoKey
         /\ entry.status = "pending"
         /\ entry.req = r
         /\ Goto(c, "waiting")
         /\ UNCHANGED cache
      \/ /\ r.key # NoKey
         /\ entry.status = "done"
         /\ entry.req = r
         /\ Finish(c, entry.answer)
         /\ UNCHANGED cache

\* From authentication to the nonce claim.  Malformed or unauthenticated
\* requests are refused whatever the state; without enforcement there is no
\* claim to await.
Validate(c) ==
  LET r == req[c]
  IN  /\ pc[c] = "received"
      /\ \/ Finish(c, "refused") /\ UNCHANGED cache
         \/ ~Permitted(r) /\ Finish(c, "permission_denied") /\ UNCHANGED cache
         \/ /\ Permitted(r)
            /\ Verdict(r) # "ok"
            /\ Finish(c, Verdict(r))
            /\ UNCHANGED cache
         \/ /\ Permitted(r)
            /\ Verdict(r) = "ok"
            /\ IF Enforced THEN Goto(c, "claiming") /\ UNCHANGED cache ELSE Start(c)
      /\ UNCHANGED <<storeVars, req, packages, commits>>

\* The claim returns: a nonce seen before is refused.
Claim(c) ==
  /\ pc[c] = "claiming"
  /\ \/ Finish(c, "signature_invalid") /\ UNCHANGED cache
     \/ Start(c)
  /\ UNCHANGED <<storeVars, req, packages, commits>>

\* The requests that share the result of c's mutation.
Sharing(c) ==
  {c} \cup {w \in Clients : /\ pc[w] = "waiting"
                            /\ req[c].key # NoKey
                            /\ Scope(req[w]) = Scope(req[c])}

FinishAll(S, x) ==
  /\ pc' = [c \in Clients |-> IF c \in S THEN "idle" ELSE pc[c]]
  /\ answer' = [c \in Clients |-> IF c \in S THEN x ELSE answer[c]]

\* Mutated form of Commit: the mutation is not validated a second time.
CommitUnchecked(c) ==
  LET r == req[c]
  IN  /\ pc[c] = "queued"
      /\ Apply(r)
      /\ FinishAll(Sharing(c), Success(r))
      /\ cache' = IF r.key = NoKey THEN cache
                  ELSE [cache EXCEPT ![Scope(r)] =
                          [status |-> "done", req |-> r, answer |-> Success(r)]]
      /\ commits' = IF r.key = NoKey THEN commits
                    ELSE [commits EXCEPT ![Scope(r)] = @ + 1]
      /\ UNCHANGED <<req, packages>>

\* The queued mutation runs: validated again, then applied.
Commit(c) ==
  LET r == req[c]
  IN  /\ pc[c] = "queued"
      /\ Verdict(r) = "ok"
      /\ Apply(r)
      /\ FinishAll(Sharing(c), Success(r))
      /\ cache' = IF r.key = NoKey THEN cache
                  ELSE [cache EXCEPT ![Scope(r)] =
                          [status |-> "done", req |-> r, answer |-> Success(r)]]
      /\ commits' = IF r.key = NoKey THEN commits
                    ELSE [commits EXCEPT ![Scope(r)] = @ + 1]
      /\ UNCHANGED <<req, packages>>

\* Mutated form of Fail: the key stays taken by the failed mutation.
FailKeepsKey(c) ==
  LET r == req[c]
  IN  /\ pc[c] = "queued"
      /\ Verdict(r) # "ok"
      /\ FinishAll({c}, Verdict(r))
      /\ UNCHANGED <<storeVars, req, cache, packages, commits>>

\* The queued mutation is refused now: its key is free again.
Fail(c) ==
  LET r == req[c]
  IN  /\ pc[c] = "queued"
      /\ Verdict(r) # "ok"
      /\ FinishAll(Sharing(c), Verdict(r))
      /\ cache' = IF r.key = NoKey THEN cache
                  ELSE [cache EXCEPT ![Scope(r)] = FreeEntry]
      /\ UNCHANGED <<storeVars, req, packages, commits>>

\* Mutated form of Poll: the updates are built where the approval requests
\* are, for workflows still collecting, which have no package.
PollWhileAwaiting(did) ==
  /\ ExpireListed
  /\ UNCHANGED <<clientVars, cache, packages, commits>>

\* Mutated form of Poll: the package is taken from the state as it was before
\* expiry.
PollBeforeExpiry(did) ==
  /\ ExpireListed
  /\ packages' = packages \cup
       {[env |-> e, decisions |-> wf[e].decisions] :
          e \in {f \in Listed : /\ ProposerOf[f] = did
                                /\ wf[f].state = "readyForSubmission"}}
  /\ UNCHANGED <<clientVars, cache, commits>>

\* poll: expiry first, then the updates; the proposer of a completed workflow
\* receives its package.
Poll(did) ==
  /\ ExpireListed
  /\ packages' = packages \cup
       {[env |-> e, decisions |-> wf[e].decisions] :
          e \in {f \in Listed : /\ ProposerOf[f] = did
                                /\ ExpireIfNeeded(f).state = "readyForSubmission"}}
  /\ UNCHANGED <<clientVars, cache, commits>>

\* The time to live of a cached result passes.  A pending one is far younger.
Evict(k) ==
  /\ cache[k].status = "done"
  /\ cache' = [cache EXCEPT ![k] = FreeEntry]
  /\ commits' = [commits EXCEPT ![k] = 0]
  /\ UNCHANGED <<storeVars, clientVars, packages>>

Expire(e) ==
  /\ e \notin expired
  /\ expired' = expired \cup {e}
  /\ UNCHANGED <<wf, byId, clientVars, cache, packages, commits>>

-----------------------------------------------------------------------------
Init ==
  /\ StoreInit
  /\ pc = [c \in Clients |-> "idle"]
  /\ req = [c \in Clients |-> NoRequest]
  /\ answer = [c \in Clients |-> "none"]
  /\ cache = [k \in Scopes |-> FreeEntry]
  /\ packages = {}
  /\ commits = [k \in Scopes |-> 0]

Step(c) == Validate(c) \/ Claim(c) \/ Commit(c) \/ Fail(c)

Next ==
  \/ \E c \in Clients, r \in Requests : Receive(c, r)
  \/ \E c \in Clients : Step(c)
  \/ \E did \in Dids : Poll(did)
  \/ \E k \in Scopes : Evict(k)
  \/ \E e \in Envelopes : Expire(e)

Spec == Init /\ [][Next]_vars

\* The event loop runs what is ready and claims return; proposers poll.
Fairness ==
  /\ \A c \in Clients : WF_vars(Step(c))
  /\ \A did \in Dids : WF_vars(Poll(did))

FairSpec == Spec /\ Fairness

-----------------------------------------------------------------------------
TypeOK ==
  /\ StoreTypeOK
  /\ pc \in [Clients -> {"idle", "received", "claiming", "queued", "waiting"}]
  /\ req \in [Clients -> Requests \cup {NoRequest}]
  /\ answer \in [Clients -> Successes \cup Refusals \cup {"none"}]
  /\ cache \in [Scopes -> CacheEntry]
  /\ packages \subseteq [env: Envelopes, decisions: Decisions]
  /\ commits \in [Scopes -> Nat]

Consistent(e, x) ==
  LET status == Evaluate(x.reqs, Counted(e, x.decisions))
  IN  /\ x.state = "readyForSubmission" => status = "satisfied"
      /\ x.state = "rejected" => status = "unreachable"
      /\ x.state = "awaitingApprovals" /\ x.decisions # NoDecisions => status = "pending"

\* A workflow is ready only because the decisions it holds, the proposer's
\* left out, satisfy its requirements, and rejected only because they cannot be
\* satisfied any more; while it collects, it is neither.
StateMatchesDecisions ==
  \A e \in Envelopes : Consistent(e, wf[e])

\* Completed packages of one workflow, polled at different times and whatever
\* approvals arrive late, all carry the same decisions.
OnePackage ==
  \A p, q \in packages : p.env = q.env => p = q

\* Cancelling and completing exclude each other: no package of a cancelled
\* workflow was or will be handed out, even when the completing approval and
\* the cancellation were validated side by side.
CancelledNeverCompleted ==
  \A p \in packages : wf[p.env].state \in {"readyForSubmission", "expired"}

\* One Action ID is coordinated for one envelope, also when two creations were
\* validated side by side; both maps agree.
OneWorkflowPerId ==
  \A e \in Envelopes : wf[e].state # "none" <=> byId[IdOf[e]] = e

\* An approval that was answered "accepted", directly, by sharing a pending
\* mutation or from the cache, is among the decisions.
AcceptedIsCounted ==
  \A c \in Clients : answer[c] = "accepted" =>
    wf[req[c].env].decisions[req[c].did] = req[c].decision

\* While a key is remembered its mutation is applied once.
CommitOnce ==
  \A k \in Scopes : commits[k] <= 1

\* How one step may change workflow x into y.
Evolves(x, y) ==
  /\ Extends(x.decisions, y.decisions)
  /\ x.state \notin {"none", "awaitingApprovals"} => y.decisions = x.decisions
  /\ x.state = "readyForSubmission" => y.state \in {"readyForSubmission", "expired"}
  /\ x.state \in {"rejected", "expired", "cancelled"} => y.state = x.state

\* A step that takes no decision on envelope e and hands no new package of it out.
LeavesAlone(e) ==
  /\ wf'[e].decisions = wf[e].decisions
  /\ \A q \in packages' : q.env = e => q \in packages

\* A signer's first decision is final, and a workflow that stopped collecting
\* takes no more decisions and never collects again.  Expiry, which the store
\* applies only when it looks, ends decisions and packages at once.
DecisionsFinal ==
  [][/\ \A e \in Envelopes : Evolves(wf[e], wf'[e])
     /\ \A e \in expired : LeavesAlone(e)]_vars

\* Every request is answered: shared results and failures leave no waiter.
EveryRequestAnswered ==
  \A c \in Clients : pc[c] # "idle" ~> pc[c] = "idle"

\* A completed workflow reaches its proposer, or expires.
ReadyIsCollected ==
  \A e \in Envelopes :
    wf[e].state = "readyForSubmission" ~>
      \/ wf[e].state = "expired"
      \/ \E p \in packages : p.env = e

-----------------------------------------------------------------------------
(***************************************************************************)
(* The inductive invariant behind the safety properties, in parts.         *)
(***************************************************************************)
ActiveInv == \A c \in Clients : pc[c] # "idle" => req[c] \in Requests

\* Both maps hold the same workflows, and no decision precedes a workflow.
MapsInv ==
  /\ OneWorkflowPerId
  /\ \A e \in Envelopes : wf[e].state = "none" => wf[e] = NoWorkflow
  /\ \A a \in ActionIds : byId[a] # NoEnvelope => IdOf[byId[a]] = a

\* A package handed out is the frozen content of its workflow.
PackageInv ==
  \A p \in packages :
    /\ wf[p.env].state \in {"readyForSubmission", "expired"}
    /\ wf[p.env].decisions = p.decisions

\* A request with a key that is queued or waiting stands behind the pending
\* entry of that key, which holds the same request; only one is queued.
QueueInv ==
  /\ \A c \in Clients :
       \/ pc[c] = "queued" /\ req[c].key # NoKey
       \/ pc[c] = "waiting"
       => /\ req[c].key # NoKey
          /\ cache[Scope(req[c])].status = "pending"
          /\ cache[Scope(req[c])].req = req[c]
  /\ \A c, w \in Clients :
       /\ pc[c] = "queued" /\ pc[w] = "queued"
       /\ req[c].key # NoKey
       /\ Scope(req[c]) = Scope(req[w])
       => c = w

\* The decision of approval r is in the store.
Recorded(r) == wf[r.env].decisions[r.did] = r.decision

CacheInv ==
  \A k \in Scopes :
    /\ commits[k] = IF cache[k].status = "done" THEN 1 ELSE 0
    /\ cache[k].status = "done" /\ cache[k].answer = "accepted" =>
         cache[k].req \in Requests /\ Recorded(cache[k].req)

AnswerInv ==
  \A c \in Clients : answer[c] = "accepted" =>
    req[c] \in Requests /\ Recorded(req[c])

\* The conjunction that every step preserves.
CoordInv ==
  /\ TypeOK
  /\ ActiveInv
  /\ MapsInv
  /\ StateMatchesDecisions
  /\ PackageInv
  /\ QueueInv
  /\ CacheInv
  /\ AnswerInv
=============================================================================
