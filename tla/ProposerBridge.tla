--------------------------- MODULE ProposerBridge ---------------------------
(***************************************************************************)
(* The proposer bridge (sdk/protocol/src/lib/workflow-engine.ts and        *)
(* bridge-runtime.ts): processes sharing one durable store bring a Task    *)
(* from its tool call to a final outcome.  A process runs the remote       *)
(* operations of a Task one at a time, on the Task's outbound lane; the    *)
(* lease in the record keeps two processes from submitting at once.  The   *)
(* Verifier and the Coordination Service are external here: each is what   *)
(* this code may observe of it.                                            *)
(***************************************************************************)
EXTENDS WorkflowStore

CONSTANTS
  SlowSigning, \* whether signing a replacement may outlast the lease
  MaxFaults    \* bound: failed calls, crashes and shutdowns

ASSUME BridgeAssumption == SlowSigning \in BOOLEAN /\ MaxFaults \in Nat

VARIABLES
  rec,       \* the Task's row in the shared store
  op,        \* op[p]: what p's lane awaits for the Task
  poll,      \* poll[p]: updates of the last Coordination poll not yet applied
  stopped,   \* processes that are shutting down
  net,       \* Action Requests on their way to the Verifier
  ledger,    \* the Verifier: what became of each Action
  verdict,   \* the Verifier: its policy's decision, fixed when first asked for
  coord,     \* the Coordination Service: the state of each Action
  cancels,   \* history: Actions whose cancellation was sent to Coordination
  faults,
  section,   \* section[p]: where p stands between two store transactions that
             \* it runs in one turn, and the Action that it may have to cancel
             \* at Coordination (0: it has read no reference)
  untold     \* history: a cancellation was written on a stale reading of the
             \* reference, or the process that had to pass it on died

remoteVars == <<net, ledger, verdict, coord>>
sectionVars == <<section, untold>>
vars == <<rec, op, poll, stopped, remoteVars, cancels, faults, sectionVars>>

Idle == [at |-> "idle", key |-> 1, pkg |-> 1, reply |-> "none"]
Off == [Idle EXCEPT !.at = "off"]
Awaits == {"initial", "completed", "creating"}
Replacing == {"replacingCreated", "replacingSubmitted"}
Claiming == IF SlowSigning THEN Awaits ELSE Awaits \cup Replacing
Request == [to: Procs \cup {NoProc}, key: Actions, pkg: Actions]
NoEntry == [state |-> "none", key |-> 1]
NoSection == [at |-> "none", act |-> 0]

Lane == [at: Awaits \cup Replacing \cup {"idle", "off"}, key: Actions, pkg: Actions,
         reply: {"none", "aar", "pending", "executed", "rejected", "replay", "created"}]
Update == Actions \X {"ready", "closed", "cancelled"}
Entry == [state: {"none", "executing", "done"}, key: Actions]
Section == [at: {"none", "cancelling", "saved", "confirming", "telling"},
            act: 0 .. MaxActions]

StateOK ==
  /\ rec \in Record
  /\ op \in [Procs -> Lane]
  /\ poll \in [Procs -> SUBSET Update]
  /\ stopped \subseteq Procs
  /\ net \subseteq Request
  /\ ledger \in [Actions -> Entry]
  /\ verdict \in [Actions -> {"unasked", "permit", "refuse", "aar"}]
  /\ coord \in [Actions -> {"none", "awaiting", "ready", "closed", "cancelled"}]
  /\ cancels \subseteq Actions
  /\ faults \in 0 .. MaxFaults

SectionOK == section \in [Procs -> Section] /\ untold \in BOOLEAN

TypeOK == StateOK /\ SectionOK

Init ==
  /\ rec = NoRecord
  /\ op = [p \in Procs |-> Idle]
  /\ poll = [p \in Procs |-> {}]
  /\ stopped = {} /\ net = {} /\ cancels = {} /\ faults = 0
  /\ ledger = [a \in Actions |-> NoEntry]
  /\ verdict = [a \in Actions |-> "unasked"]
  /\ coord = [a \in Actions |-> "none"]
  /\ section = [p \in Procs |-> NoSection] /\ untold = FALSE

LaneFree(p) == op[p].at = "idle"
Finish(p) == op' = [op EXCEPT ![p] = Idle]
Fault == faults < MaxFaults /\ faults' = faults + 1
Enter(p, at, act) == section' = [section EXCEPT ![p] = [at |-> at, act |-> act]]
Leave(p) == section' = [section EXCEPT ![p] = NoSection]

-----------------------------------------------------------------------------
\* handleToolCall: the Task is durable before anything is sent.  The first
\* submission is the lane operation Advance runs next.
Propose(p) ==
  /\ rec.state = "none" /\ LaneFree(p) /\ p \notin stopped
  /\ rec' = CreateWorkflow
  /\ UNCHANGED <<op, poll, stopped, remoteVars, cancels, faults>>

\* submissionRequest: a key is bound to its request bytes once per phase, and
\* a different request under a bound key ends the Task instead of being sent.
Conflict(r, phase, pkg) ==
  \E b \in r.bound : b[1] = phase /\ b[2] # pkg

\* submitActionRequest: the request leaves under the Task's key, and the
\* process awaits the answer.
SubmitActionRequest(p, phase, key, pkg) ==
  /\ op' = [op EXCEPT ![p] = [at |-> phase, key |-> key, pkg |-> pkg, reply |-> "none"]]
  /\ net' = net \cup {[to |-> p, key |-> key, pkg |-> pkg]}

Submit(p, r, phase, pkg) ==
  IF Conflict(r, phase, pkg)
  THEN /\ rec' = ResolveWorkflow(r, "unresolvable", "error")
       /\ UNCHANGED <<op, net>>
  ELSE /\ rec' = [r EXCEPT !.bound = @ \cup {<<phase, pkg>>}]
       /\ SubmitActionRequest(p, phase, r.act, pkg)

\* submitToCoordination, up to its await
StartCreating(p, r) ==
  op' = [op EXCEPT ![p] = [at |-> "creating", key |-> r.act, pkg |-> r.act,
                           reply |-> "none"]]

CompletedPackage(r) == IF r.pkg = 0 THEN r.act ELSE r.pkg

\* submitCompleted, up to its await
SubmitCompleted(p, r) ==
  Submit(p, CompareAndSetState(r, "readyForSubmission", "submittingToVerifier"),
         "completed", CompletedPackage(r))

\* The lane operation of an observed Task (dispatchClaimable, propose): claim,
\* then whatever the state calls for.  Backoff only delays it.
Advance(p) ==
  /\ LaneFree(p) /\ p \notin stopped
  /\ ~rec.overdue /\ Claimable(rec, p)
  /\ LET r == ClaimWorkflow(rec, p) IN
     \/ r.state = "created" /\ Submit(p, r, "initial", r.act)
     \/ /\ r.state = "submittingToCoordination"
        /\ rec' = r /\ StartCreating(p, r) /\ UNCHANGED net
     \/ /\ r.state \in {"readyForSubmission", "submittingToVerifier",
                        "awaitingVerifierResult"}
        /\ SubmitCompleted(p, r)
  /\ UNCHANGED <<poll, stopped, ledger, verdict, coord, cancels, faults>>

-----------------------------------------------------------------------------
\* The Verifier handles a request.  Its ledger admits an Action once; the same
\* key is told the outcome, or REPLAY_DETECTED when that is not retrievable.
\* The last Action of the model needs no further Approvals.
Evaluate(q, result) ==
  LET e == ledger[q.pkg] IN
  \/ /\ e.state = "none"
     /\ \E v \in (IF verdict[q.pkg] = "unasked"
                  THEN {"permit", "refuse", "aar"} ELSE {verdict[q.pkg]}) :
          /\ v = "aar" => q.pkg < MaxActions
          /\ verdict' = [verdict EXCEPT ![q.pkg] = v]
          /\ \/ v = "aar" /\ result = "aar" /\ UNCHANGED ledger
             \/ v = "refuse" /\ result = "rejected" /\ UNCHANGED ledger
             \/ /\ v = "permit" /\ result \in {"pending", "executed"}
                /\ ledger' = [ledger EXCEPT ![q.pkg] =
                     [state |-> IF result = "pending" THEN "executing" ELSE "done",
                      key |-> q.key]]
  \/ /\ e.state # "none"
     /\ result = IF e.key # q.key THEN "replay"
                 ELSE IF e.state = "executing" THEN "pending" ELSE "executed"
     /\ UNCHANGED <<ledger, verdict>>
  \/ /\ e.state = "done" /\ result = "replay"
     /\ UNCHANGED <<ledger, verdict>>

VerifierReceives(q) ==
  /\ q \in net
  /\ net' = net \ {q}
  /\ \E result \in {"aar", "pending", "executed", "rejected", "replay"} :
       /\ Evaluate(q, result)
       /\ op' = IF q.to = NoProc THEN op
                ELSE [op EXCEPT ![q.to].reply = result]
  /\ UNCHANGED <<rec, poll, stopped, coord, cancels, faults, sectionVars>>

VerifierFinishes(a) ==
  /\ ledger[a].state = "executing"
  /\ ledger' = [ledger EXCEPT ![a].state = "done"]
  /\ UNCHANGED <<rec, op, poll, stopped, net, verdict, coord, cancels, faults,
                 sectionVars>>

-----------------------------------------------------------------------------
\* The bridge awaits the replacement of the current Action, asked for by a
\* response about the package that was sent (replaceAndSubmitToCoordination).
AwaitReplacement(p, at) ==
  op' = [op EXCEPT ![p] = [at |-> at, key |-> rec.act, pkg |-> op[p].pkg,
                           reply |-> "none"]]

\* submitInitial, after its await
InitialReturns(p) ==
  /\ op[p].at = "initial" /\ op[p].reply # "none"
  /\ IF rec.state \notin Active THEN Finish(p) /\ UNCHANGED rec
     ELSE \/ op[p].reply = "aar" /\ UNCHANGED rec
             /\ AwaitReplacement(p, "replacingCreated")
          \/ /\ op[p].reply = "pending" /\ Finish(p)
             /\ rec' = CompareAndSetState(rec, "created", "awaitingVerifierResult")
          \/ /\ op[p].reply \in {"executed", "rejected", "replay"} /\ Finish(p)
             /\ rec' = ResolveWorkflow(rec, "resolved", op[p].reply)
  /\ UNCHANGED <<poll, stopped, remoteVars, cancels, faults>>

\* submitCompleted, after its await: a replay is never the Action's outcome.
CompletedReturns(p) ==
  /\ op[p].at = "completed" /\ op[p].reply # "none"
  /\ IF rec.state \notin Active THEN Finish(p) /\ UNCHANGED rec
     ELSE \/ op[p].reply = "aar" /\ UNCHANGED rec
             /\ AwaitReplacement(p, "replacingSubmitted")
          \/ /\ op[p].reply = "pending" /\ Finish(p)
             /\ rec' = CompareAndSetState(rec, "submittingToVerifier",
                                          "awaitingVerifierResult")
          \/ /\ op[p].reply = "replay" /\ Finish(p)
             /\ rec' = ResolveWorkflow(rec, "unresolvable", "error")
          \/ /\ op[p].reply \in {"executed", "rejected"} /\ Finish(p)
             /\ rec' = ResolveWorkflow(rec, "resolved", op[p].reply)
  /\ UNCHANGED <<poll, stopped, remoteVars, cancels, faults>>

\* Mutated form of Unreachable: an unanswered Action is given up for a new one.
ReplacedWhenUnreachable(p) ==
  /\ rec' = rec
  /\ AwaitReplacement(p, IF op[p].at = "initial" THEN "replacingCreated"
                         ELSE "replacingSubmitted")

\* Mutated form of Unreachable: no answer is taken for a refusal.
RejectedWhenUnreachable(p) ==
  /\ rec' = ResolveWorkflow(rec, "resolved", "rejected")
  /\ Finish(p)

\* The call to the Verifier fails (recordFailure).  A retryable failure leaves
\* the Task where a retry starts; the request itself may still arrive.
Unreachable(p) ==
  /\ rec' = IF op[p].at = "initial" THEN rec
            ELSE CompareAndSetState(rec, "submittingToVerifier", "readyForSubmission")
  /\ Finish(p)

PermanentFailure(p) ==
  /\ rec' = ResolveWorkflow(rec, "unresolvable", "error")
  /\ Finish(p)

Undelivered(p) == {q \in net : q.to = p}

\* The requests of p that nobody waits for any more are lost or late.
Abandon(p) ==
  \/ net' = net \ Undelivered(p)
  \/ /\ Undelivered(p) # {}
     /\ net' = {IF q.to = p THEN [q EXCEPT !.to = NoProc] ELSE q : q \in net}

\* The call throws: no answer in time, an HTTP error, or one that does not
\* parse.  Some of these are retryable, the others are not.
CallFails(p) ==
  /\ op[p].at \in {"initial", "completed"}
  /\ Fault
  /\ Abandon(p)
  /\ Unreachable(p) \/ PermanentFailure(p)
  /\ UNCHANGED <<poll, stopped, ledger, verdict, coord, cancels>>

-----------------------------------------------------------------------------
\* replaceAndSubmitToCoordination, after the replacement is signed, and
\* submitToCoordination up to its await, if the claim can be renewed.  The
\* builder refuses requirements that are bound to another Action.
Replace(p) ==
  /\ op[p].at \in Replacing
  /\ LET from == IF op[p].at = "replacingCreated" THEN "created"
                 ELSE "submittingToVerifier"
         r == ReplaceAction(rec)
     IN IF rec.state = from /\ op[p].pkg = op[p].key /\ rec.act < MaxActions
        THEN IF p \notin stopped /\ Claimable(r, p)
             THEN rec' = ClaimWorkflow(r, p) /\ StartCreating(p, r)
             ELSE rec' = r /\ Finish(p)
        ELSE rec' = ResolveWorkflow(rec, "unresolvable", "error") /\ Finish(p)
  /\ UNCHANGED <<poll, stopped, remoteVars, cancels, faults>>

\* The replacement cannot be built or signed.
ReplaceFails(p) ==
  /\ op[p].at \in Replacing
  /\ Fault
  /\ rec' = ResolveWorkflow(rec, "unresolvable", "error") /\ Finish(p)
  /\ UNCHANGED <<poll, stopped, remoteVars, cancels>>

CoordinationCreates(p) ==
  /\ op[p].at = "creating" /\ op[p].reply = "none"
  /\ coord' = [coord EXCEPT ![op[p].key] = IF @ = "none" THEN "awaiting" ELSE @]
  /\ op' = [op EXCEPT ![p].reply = "created"]
  /\ UNCHANGED <<rec, poll, stopped, net, ledger, verdict, cancels, faults,
                 sectionVars>>

\* cancelAction, best effort: the request may be lost.
CancelAction(a) ==
  /\ cancels' = cancels \cup {a}
  /\ \/ coord' = [coord EXCEPT ![a] = IF @ \in {"awaiting", "ready"}
                                      THEN "cancelled" ELSE @]
     \/ UNCHANGED coord

\* submitToCoordination, after its await: three store transactions in a turn.
\* First the reference is saved, whatever became of the Task.
CreateSaves(p) ==
  /\ section[p].at = "none"
  /\ op[p].at = "creating" /\ op[p].reply = "created"
  /\ rec' = IF rec.state \in Absent THEN rec ELSE [rec EXCEPT !.ref = TRUE]
  /\ Enter(p, "saved", op[p].key)
  /\ UNCHANGED <<op, poll, stopped, remoteVars, cancels, faults, untold>>

\* Mutated form of CreateLooks: the state is not read again after the await.
CreateLooksAway(p) ==
  /\ section[p].at = "saved"
  /\ Enter(p, "confirming", section[p].act) /\ UNCHANGED op
  /\ UNCHANGED <<rec, poll, stopped, remoteVars, cancels, faults, untold>>

\* Then the record is read: a cancellation that came while the workflow was
\* being created has to be passed on now.
CreateLooks(p) ==
  /\ section[p].at = "saved"
  /\ \/ /\ rec.state = "cancelled"
        /\ Enter(p, "telling", section[p].act) /\ Finish(p)
     \/ rec.state \in Absent /\ Leave(p) /\ Finish(p)
     \/ /\ rec.state \notin Absent \cup {"cancelled"}
        /\ Enter(p, "confirming", section[p].act) /\ UNCHANGED op
  /\ UNCHANGED <<rec, poll, stopped, remoteVars, cancels, faults, untold>>

\* Last, the Task moves on, if nobody has ended it in the meantime.
CreateConfirms(p) ==
  /\ section[p].at = "confirming"
  /\ Leave(p) /\ Finish(p)
  /\ rec' = CompareAndSetState(rec, "submittingToCoordination", "awaitingApprovals")
  /\ UNCHANGED <<poll, stopped, remoteVars, cancels, faults, untold>>

\* The call is refused, or fails before or after Coordination acted on it.
CreateFails(p) ==
  /\ op[p].at = "creating"
  /\ Fault
  /\ \/ PermanentFailure(p)
     \/ Finish(p) /\ UNCHANGED rec
  /\ UNCHANGED <<poll, stopped, remoteVars, cancels>>

-----------------------------------------------------------------------------
\* Approvers complete or refuse the Action, it expires there, or its proposer
\* withdraws it by another client.
CoordinationDecides(a) ==
  /\ coord[a] = "awaiting"
  /\ \E s \in {"ready", "closed", "cancelled"} : coord' = [coord EXCEPT ![a] = s]
  /\ UNCHANGED <<rec, op, poll, stopped, net, ledger, verdict, cancels, faults,
                 sectionVars>>

\* refreshCoordination: one poll at a time, while approvals are awaited.  The
\* answer has the state of every Action of the proposer, retired ones too.
Poll(p) ==
  /\ op[p].at # "off" /\ p \notin stopped /\ poll[p] = {}
  /\ rec.state = "awaitingApprovals"
  /\ poll' = [poll EXCEPT ![p] =
       {<<a, coord[a]>> : a \in {b \in Actions : coord[b] \notin {"none", "awaiting"}}}]
  /\ poll'[p] # {}
  /\ UNCHANGED <<rec, op, stopped, remoteVars, cancels, faults>>

\* A poll that is refused for good ends every Task that awaits approvals.
PollFails(p) ==
  /\ op[p].at # "off" /\ p \notin stopped /\ poll[p] = {}
  /\ rec.state = "awaitingApprovals"
  /\ Fault
  /\ rec' = ResolveWorkflow(rec, "unresolvable", "error")
  /\ UNCHANGED <<op, poll, stopped, remoteVars, cancels>>

\* Mutated form of Completed: a repeated ready update replaces the saved package.
CompletedAnyTime(r, a) ==
  CompareAndSetState([r EXCEPT !.pkg = a], "awaitingApprovals", "readyForSubmission")

Completed(r, a) ==
  IF r.state = "awaitingApprovals"
  THEN [r EXCEPT !.pkg = a, !.state = "readyForSubmission"] ELSE r

\* applyUpdate, in the lane; the updates come in the order of the Actions.
\* The row is found by the Action ID, current or retired.
ApplyUpdate(p) ==
  /\ LaneFree(p) /\ poll[p] # {}
  /\ \E u \in poll[p] :
       /\ \A w \in poll[p] : u[1] <= w[1]
       /\ poll' = [poll EXCEPT ![p] = @ \ {u}]
       /\ rec' = IF rec.state \notin Active THEN rec
                 ELSE IF u[2] = "ready" THEN Completed(rec, u[1])
                 ELSE IF u[2] = "cancelled" THEN CancelWorkflow(rec)
                 ELSE ResolveWorkflow(rec, "unresolvable", "error")
  /\ UNCHANGED <<op, stopped, remoteVars, cancels, faults>>

\* handleTasksCancel: outside the lane, and whatever it awaits.  cancel reads
\* the record in one store transaction and ends the Task in the next; between
\* them the other process may save a reference or move to the next Action.
CancelReads(p) ==
  /\ section[p].at = "none"
  /\ op[p].at # "off" /\ p \notin stopped
  /\ rec.state \in Active
  /\ Enter(p, "cancelling", IF rec.ref THEN rec.act ELSE 0)
  /\ UNCHANGED <<rec, op, poll, stopped, remoteVars, cancels, faults, untold>>

\* Coordination is not told when what was read lacks the reference, or is about
\* a retired Action - unless who saved the reference has yet to look.
ReadIsStale(p) == rec.state \in Active /\ rec.ref /\ section[p].act # rec.act

CancelWrites(p) ==
  /\ section[p].at = "cancelling"
  /\ rec' = CancelWorkflow(rec)
  /\ IF rec.state \in Active /\ section[p].act # 0
     THEN Enter(p, "telling", section[p].act) ELSE Leave(p)
  /\ untold' = (untold \/ (ReadIsStale(p) /\ \A q \in Procs : section[q].at # "saved"))
  /\ UNCHANGED <<op, poll, stopped, remoteVars, cancels, faults>>

\* cancelAction leaves; cancel reads the record once more before, and throws if
\* it has been purged.
Tell(p) ==
  /\ section[p].at = "telling"
  /\ Leave(p)
  /\ \/ CancelAction(section[p].act)
     \/ rec.state \in Absent /\ UNCHANGED <<coord, cancels>>
  /\ UNCHANGED <<rec, op, poll, stopped, net, ledger, verdict, faults, untold>>

\* expireIfOverdue and sweepExpired, whenever a client observes
ExpireOverdue(p) ==
  /\ LaneFree(p)
  /\ rec.overdue /\ Claimable(rec, p)
  /\ rec' = ResolveWorkflow(ClaimWorkflow(rec, p), "unresolvable", "error")
  /\ UNCHANGED <<op, poll, stopped, remoteVars, cancels, faults>>

\* buildGetTaskResult and buildCompleteToolCallResult: what tasks/get and a
\* tool call that ended in time tell a client
GetTaskResult(r) ==
  IF r.state \in Active THEN <<"working">>
  ELSE IF r.state = "cancelled" THEN <<"cancelled">>
  ELSE <<"completed", r.state, r.result>>

\* compatibilityResultForRecord: the same through the compatibility tools; a
\* deferred result names the Action that is current.
CompatibilityResult(r) ==
  IF r.state \in Active THEN <<"deferred", r.act>>
  ELSE IF r.state = "resolved" THEN <<"outcome", r.result>>
  ELSE <<"error", r.state>>

\* cleanupLocal: purgeExpiredResults
PurgeResults(p) ==
  /\ op[p].at # "off"
  /\ Purgeable(rec)
  /\ rec' = Purge(rec)
  /\ UNCHANGED <<op, poll, stopped, remoteVars, cancels, faults>>

-----------------------------------------------------------------------------
\* Time passes: the Action Envelope expires; a lease lapses.  A lease outlives
\* the call it was renewed for (claimLeaseMs > submissionTimeoutMs); nothing
\* bounds the time a signer takes for a replacement that the answer calls for.
EnvelopeExpires ==
  /\ rec.state \notin Absent /\ ~rec.overdue
  /\ rec' = [rec EXCEPT !.overdue = TRUE]
  /\ UNCHANGED <<op, poll, stopped, remoteVars, cancels, faults, sectionVars>>

\* Mutated form of LeaseExpires: only the worker that took a claim can end it.
LeaseOutlivesWorker ==
  /\ rec.lease \in Procs
  /\ op[rec.lease].at \notin Claiming
  /\ rec' = [rec EXCEPT !.lease = NoProc]
  /\ UNCHANGED <<op, poll, stopped, remoteVars, cancels, faults, sectionVars>>

LeaseExpires ==
  /\ rec.lease # NoProc
  /\ rec.lease \in Procs => op[rec.lease].at \notin Claiming
  /\ rec' = [rec EXCEPT !.lease = NoProc]
  /\ UNCHANGED <<op, poll, stopped, remoteVars, cancels, faults, sectionVars>>

\* A process dies: its lane and its poll are lost, its claim stays.
Exit(p) ==
  /\ op' = [op EXCEPT ![p] = Off]
  /\ poll' = [poll EXCEPT ![p] = {}]
  /\ stopped' = stopped \ {p}
  /\ rec' = IF rec.lease = p THEN [rec EXCEPT !.lease = Gone] ELSE rec
  /\ UNCHANGED <<ledger, verdict, coord, cancels>>

Crash(p) ==
  /\ op[p].at # "off" /\ Fault /\ Abandon(p) /\ Exit(p)
  /\ Leave(p)
  /\ untold' = (untold \/ (rec.state = "cancelled" /\ section[p].at \in {"saved", "telling"}))

\* shutdown: no new remote call; what is in flight ends first (or CallFails).
Stop(p) ==
  /\ op[p].at # "off" /\ p \notin stopped
  /\ Fault
  /\ stopped' = stopped \cup {p}
  /\ UNCHANGED <<rec, op, poll, remoteVars, cancels>>

Stopped(p) ==
  p \in stopped /\ LaneFree(p) /\ poll[p] = {} /\ Exit(p) /\ UNCHANGED <<net, faults>>

Restart(p) ==
  /\ op[p].at = "off"
  /\ Finish(p)
  /\ UNCHANGED <<rec, poll, stopped, remoteVars, cancels, faults>>

-----------------------------------------------------------------------------
\* What a process does in one store transaction, and in no other's midst
Alone(p) == section[p].at = "none" /\ UNCHANGED sectionVars

Returns(p) == InitialReturns(p) \/ CompletedReturns(p) \/ Replace(p)

Observed(p) == ExpireOverdue(p) \/ ApplyUpdate(p)

GoesOn(p) == CreateLooks(p) \/ CreateConfirms(p) \/ CancelWrites(p) \/ Tell(p)

Proceeds(p) ==
  \/ CoordinationCreates(p) \/ CreateSaves(p) \/ GoesOn(p)
  \/ \E q \in Undelivered(p) : VerifierReceives(q)
  \/ Alone(p) /\ (Returns(p) \/ Observed(p) \/ Stopped(p) \/ Restart(p))

Turn(p) ==
  /\ Alone(p)
  /\ \/ Propose(p) \/ Advance(p) \/ Returns(p) \/ Observed(p)
     \/ CallFails(p) \/ ReplaceFails(p) \/ CreateFails(p)
     \/ Poll(p) \/ PollFails(p) \/ PurgeResults(p)
     \/ Stop(p) \/ Stopped(p) \/ Restart(p)

Next ==
  \/ \E p \in Procs :
       \/ Turn(p) \/ CreateSaves(p) \/ CancelReads(p) \/ GoesOn(p)
       \/ CoordinationCreates(p) \/ Crash(p)
  \/ \E q \in net : VerifierReceives(q)
  \/ \E a \in Actions : VerifierFinishes(a) \/ CoordinationDecides(a)
  \/ EnvelopeExpires \/ LeaseExpires

Spec == Init /\ [][Next]_vars

\* A process that can go on does: calls return or time out, a turn that began
\* ends, clients keep observing a live bridge, and one that exited is started
\* again.  Which of these it does first is open.  And time passes.
FairSpec ==
  /\ Spec
  /\ WF_vars(EnvelopeExpires) /\ WF_vars(LeaseExpires)
  /\ \A p \in Procs : WF_vars(Proceeds(p))

-----------------------------------------------------------------------------
(* Properties.                                                             *)

\* A Task executes at most one of its Actions: a new Action replaces one only
\* after the Verifier has said that it did not execute it, whatever was lost,
\* retried or raced (workflow-engine.ts: replaceAndSubmitToCoordination,
\* recordFailure).
ExecutedOnce == Cardinality({a \in Actions : ledger[a].state # "none"}) <= 1

\* The lane and the lease keep remote calls for one Task apart: no two
\* processes await one at the same time (claimWorkflow, holdClaim).
OneCallAtATime ==
  \A p, q \in Procs : op[p].at \in Awaits /\ op[q].at \in Awaits => p = q

\* The package a resumable Task is about to submit is the one its key was
\* bound to by an earlier attempt, so that the fail-closed conflict of
\* submissionRequest is never what ends a Task.
RetriesAreIdentical ==
  rec.state \in {"readyForSubmission", "submittingToVerifier"} =>
    ~Conflict(rec, "completed", CompletedPackage(rec))

\* What one process may rely on while the other shares its store: the record
\* has its type, remote calls for a Task exclude each other, and a resumed
\* Task submits what its key stands for.
WorkflowInv == TypeOK /\ OneCallAtATime /\ RetriesAreIdentical

\* When a Task is cancelled, Coordination is told about its Action as soon as
\* the bridge knows that Coordination has it - also when the cancellation came
\* while the workflow was being created, after it was created for the second
\* time, or after a replacement - unless Coordination itself reported that the
\* Action was withdrawn (cancel, submitToCoordination).  The code leaves two
\* ways out, and these are all: the reference was saved, and the record looked
\* at, between the two transactions of cancel, or whoever had to tell died.
CancelReachesCoordination ==
  rec.state = "cancelled" /\ rec.ref /\ ~untold =>
    \/ rec.act \in cancels \/ "cancelled" \in {coord[a] : a \in Actions}
    \/ \E p \in Procs : section[p].at \in {"saved", "telling"} /\ section[p].act = rec.act

\* The first terminal outcome wins, and both tasks/get and the compatibility
\* tools tell it to every later reader until it is purged, whichever of
\* cancellation, expiry, an update or a late response comes second
\* (resolveWorkflow, cancelWorkflow, buildGetTaskResult).
OutcomeIsFinal ==
  [][rec.state \in Terminal /\ rec'.state # "purged" =>
       /\ GetTaskResult(rec') = GetTaskResult(rec)
       /\ CompatibilityResult(rec') = CompatibilityResult(rec)]_vars

\* Every Task ends: a crashed process's claim lapses and the envelope expires,
\* so that some observation ends what nothing else did (expireIfOverdue).
EveryTaskEnds == rec.state = "created" ~> rec.state \in Terminal

-----------------------------------------------------------------------------
(***************************************************************************)
(* Why they hold.                                                          *)
(***************************************************************************)
\* A process with a call out holds the claim, for as long as there is a Task.
LeaseInv ==
  /\ \A p \in Procs : op[p].at \in Claiming => rec.lease = p \/ rec.state = "purged"
  /\ rec.state = "none" => \A p \in Procs : op[p].at \in {"idle", "off"}

\* The completed submission is bound to the saved package, and to nothing
\* before there is one.
BindingInv ==
  /\ rec.state \in {"created", "submittingToCoordination", "awaitingApprovals"} =>
       \A b \in rec.bound : b[1] = "initial"
  /\ rec.state \in {"readyForSubmission", "submittingToVerifier", "awaitingVerifierResult"} =>
       \A b \in rec.bound : b[1] = "completed" => b[2] = CompletedPackage(rec)

\* Coordination has withdrawn what an update says it has withdrawn, and the
\* Action whose workflow is being created is the Task's.
WithdrawnInv ==
  /\ \A p \in Procs : \A u \in poll[p] : u[2] = "cancelled" => coord[u[1]] = "cancelled"
  /\ \A p \in Procs : op[p].at = "creating" =>
       \/ rec.state = "purged"
       \/ /\ rec.state \in Terminal \cup {"submittingToCoordination"}
          /\ op[p].key = rec.act

CallInv ==
  /\ StateOK /\ OneCallAtATime /\ RetriesAreIdentical
  /\ LeaseInv /\ BindingInv /\ WithdrawnInv

\* Who is to look at the record after saving a reference still holds the lane,
\* and who is to tell Coordination knows about which Action.
SectionInv ==
  /\ SectionOK
  /\ \A p \in Procs : section[p].at \in {"saved", "confirming"} =>
       op[p].at = "creating" /\ section[p].act = op[p].key
  /\ \A p \in Procs : section[p].at = "telling" => section[p].act # 0

BridgeInv == CallInv /\ SectionInv

\* Every Action before this one was sent back for more Approvals.
Reached(a) == \A b \in Actions : b < a => verdict[b] = "aar"

ReachedInv ==
  /\ Reached(rec.act) /\ Reached(rec.pkg)
  /\ \A q \in net : Reached(q.pkg)
  /\ \A p \in Procs : /\ Reached(op[p].key) /\ Reached(op[p].pkg)
                      /\ \A u \in poll[p] : Reached(u[1])
  /\ \A a \in Actions : /\ coord[a] # "none" => Reached(a)
                        /\ ledger[a].state # "none" => Reached(a) /\ verdict[a] = "permit"

\* An answer is about the package that was sent, and a replacement replaces the
\* Action that was sent back.
AnswerInv ==
  /\ \A q \in net : q.to \in Procs =>
       /\ op[q.to].at \in {"initial", "completed"} /\ op[q.to].reply = "none"
       /\ op[q.to].key = q.key /\ op[q.to].pkg = q.pkg
  /\ \A p \in Procs :
       /\ op[p].at \in {"initial", "completed"} /\ op[p].reply = "aar" => verdict[op[p].pkg] = "aar"
       /\ op[p].at \in Replacing => /\ verdict[op[p].pkg] = "aar"
                                    /\ rec.state = "purged" \/ op[p].key = rec.act

OnceInv == ReachedInv /\ AnswerInv

\* What an answer says of the Action it is about.
Backed(a, result) ==
  /\ result = "executed" => ledger[a].state = "done"
  /\ result = "replay" => ledger[a].state # "none"
  /\ result = "rejected" => verdict[a] = "refuse"

\* Answers, and the outcomes that were stored, say what the Verifier did; it
\* is asked about an Action of a Task only, after all those before.
OutcomeInv ==
  /\ rec.state = "none" => net = {}
  /\ \A a \in Actions : verdict[a] # "unasked" => Reached(a)
  /\ \A p \in Procs : op[p].at \in {"initial", "completed"} => Backed(op[p].pkg, op[p].reply)
  /\ rec.state = "resolved" =>
       /\ rec.result \in {"executed", "rejected", "replay"}
       /\ \E a \in Actions : Backed(a, rec.result)

-----------------------------------------------------------------------------
\* What a client is told of the Task
Told(r) ==
  IF r.state \in Active THEN "working"
  ELSE IF r.state = "resolved" THEN r.result ELSE r.state

Task == INSTANCE TaskOutcome WITH
          work <- [a \in Actions |-> ledger[a].state], outcome <- Told(rec)

\* A Task executes at most one of its Actions, keeps the outcome that it was
\* given first, and the outcome is true of what the Verifier did and will do:
\* "executed" of a finished execution, "rejected" only when no Action of the
\* Task is ever executed, whatever was lost, retried, cancelled, crashed or
\* raced (workflow-engine.ts: submitInitial, submitCompleted,
\* replaceAndSubmitToCoordination, recordFailure).
ImplementsTask == Task!Spec
=============================================================================
