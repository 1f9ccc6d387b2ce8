------------------------ MODULE ProposerBridgeProofs ------------------------
(***************************************************************************)
(* Proofs about the proposer bridge, for any number of processes sharing   *)
(* the store and of Actions in a Task.  BridgeInv, OnceInv and OutcomeInv  *)
(* of ProposerBridge are inductive, each with those before it.  Most steps *)
(* are quiet: they move the record along a few edges and start no call,    *)
(* and one lemma serves them; the steps that take a claim, replace the     *)
(* Action, or end the Task have lemmas of their own.  With the three       *)
(* invariants every step is one of the abstract Task, or a stutter.        *)
(***************************************************************************)
EXTENDS ProposerBridge, FiniteSetTheorems, TLAPS

Results == {"none", "executed", "rejected", "replay", "error"}

\* What the store's operations do to a record.
LEMMA ResolveFacts ==
  ASSUME NEW r \in Record, NEW kind \in Terminal, NEW result \in Results
  PROVE  LET R == ResolveWorkflow(r, kind, result) IN
         /\ R \in Record /\ R.act = r.act /\ R.ref = r.ref /\ R.pkg = r.pkg
         /\ R.bound = r.bound /\ R.lease = r.lease
         /\ R.state = IF r.state \in Active THEN kind ELSE r.state
  BY DEF Record, ResolveWorkflow, Results

LEMMA CompareAndSetFacts ==
  ASSUME NEW r \in Record, NEW from, NEW to \in Active
  PROVE  LET R == CompareAndSetState(r, from, to) IN
         /\ R \in Record /\ R.act = r.act /\ R.ref = r.ref /\ R.pkg = r.pkg
         /\ R.bound = r.bound /\ R.lease = r.lease
         /\ R.state = IF r.state = from THEN to ELSE r.state
  BY DEF Record, CompareAndSetState

LEMMA ClaimFacts ==
  ASSUME NEW r \in Record, NEW p \in Procs
  PROVE  LET R == ClaimWorkflow(r, p) IN
         /\ R \in Record /\ R.act = r.act /\ R.ref = r.ref /\ R.pkg = r.pkg
         /\ R.bound = r.bound /\ R.lease = p /\ R.state = r.state
  BY DEF Record, ClaimWorkflow

LEMMA ReplaceFacts ==
  ASSUME NEW r \in Record, r.act < MaxActions
  PROVE  LET R == ReplaceAction(r) IN
         /\ R \in Record /\ R.act = r.act + 1 /\ R.ref = FALSE /\ R.pkg = 0
         /\ R.bound = {} /\ R.lease = r.lease /\ R.state = "submittingToCoordination"
<1>1. r.act + 1 \in Actions
  BY StoreAssumption DEF Record, Actions
<1> QED
  BY <1>1, StoreAssumption DEF Record, ReplaceAction, Active

LEMMA NoRecordFacts == NoRecord \in Record /\ 1 \in Actions
<1>1. 1 \in Actions /\ 0 \in 0 .. MaxActions
  BY StoreAssumption DEF Actions
<1> QED
  BY <1>1 DEF NoRecord, Record, Absent

LEMMA LaneFacts ==
  ASSUME StateOK, NEW p \in Procs, NEW x \in Lane, op' = [op EXCEPT ![p] = x]
  PROVE  op' \in [Procs -> Lane] /\ op'[p] = x /\ \A q \in Procs \ {p} : op'[q] = op[q]
  BY DEF StateOK

LEMMA IdleFacts ==
  /\ Idle \in Lane /\ Idle.at = "idle" /\ Idle.key = 1 /\ Idle.pkg = 1 /\ Idle.reply = "none"
  /\ Off \in Lane /\ Off.at = "off" /\ Off.key = 1 /\ Off.pkg = 1 /\ Off.reply = "none"
  BY NoRecordFacts DEF Idle, Off, Lane, Awaits, Replacing

-----------------------------------------------------------------------------
\* A lane's next operation, as the record of what it awaits.
LEMMA CallFacts ==
  ASSUME NEW at \in Awaits \cup Replacing, NEW key \in Actions, NEW pkg \in Actions
  PROVE  LET x == [at |-> at, key |-> key, pkg |-> pkg, reply |-> "none"] IN
         x \in Lane /\ x.at = at /\ x.key = key /\ x.pkg = pkg /\ x.reply = "none"
  BY DEF Lane

\* The answer to a lane's operation arrives.
LEMMA ReplyFacts ==
  ASSUME StateOK, NEW p \in Procs,
         NEW x \in {"none", "aar", "pending", "executed", "rejected", "replay", "created"},
         op' = [op EXCEPT ![p].reply = x]
  PROVE  /\ op' \in [Procs -> Lane] /\ \A q \in Procs \ {p} : op'[q] = op[q]
         /\ op'[p].at = op[p].at /\ op'[p].key = op[p].key /\ op'[p].pkg = op[p].pkg
         /\ op'[p].reply = x
<1>1. op[p] \in Lane /\ [op[p] EXCEPT !.reply = x] \in Lane
  BY DEF StateOK, Lane
<1>2. op' = [op EXCEPT ![p] = [op[p] EXCEPT !.reply = x]]
  OBVIOUS
<1>3. op' \in [Procs -> Lane] /\ op'[p] = [op[p] EXCEPT !.reply = x]
      /\ \A q \in Procs \ {p} : op'[q] = op[q]
  BY <1>1, <1>2, LaneFacts
<1> QED
  BY <1>1, <1>3 DEF Lane

LEMMA AbandonFacts ==
  ASSUME StateOK, NEW p \in Procs, Abandon(p)
  PROVE  /\ net' \subseteq Request
         /\ \A q \in net' : q.to # p /\ (q \in net \/ (q.to = NoProc /\ \E o \in net : o.pkg = q.pkg))
<1>0. NoProc \notin Procs
  BY StoreAssumption
<1>1. CASE net' = net \ Undelivered(p)
  BY <1>1 DEF StateOK, Undelivered
<1>2. CASE net' = {IF q.to = p THEN [q EXCEPT !.to = NoProc] ELSE q : q \in net}
  <2> SUFFICES ASSUME NEW q \in net'
               PROVE  q \in Request /\ q.to # p
                      /\ (q \in net \/ (q.to = NoProc /\ \E o \in net : o.pkg = q.pkg))
    OBVIOUS
  <2>1. PICK o \in net : q = IF o.to = p THEN [o EXCEPT !.to = NoProc] ELSE o
    BY <1>2
  <2>2. o \in Request
    BY DEF StateOK
  <2> QED
    BY <1>0, <2>1, <2>2 DEF Request
<1> QED
  BY <1>1, <1>2 DEF Abandon

-----------------------------------------------------------------------------
\* The edges along which a quiet step may move the record's state.
Moves ==
  {<<"created", "awaitingVerifierResult">>, <<"submittingToVerifier", "awaitingVerifierResult">>,
   <<"submittingToVerifier", "readyForSubmission">>,
   <<"readyForSubmission", "submittingToVerifier">>}

\* A step that replaces no Action, binds no package and starts no call.
Quiet ==
  /\ rec'.act = rec.act /\ rec'.pkg = rec.pkg /\ rec'.bound = rec.bound
  /\ \/ rec'.state = rec.state
     \/ <<rec.state, rec'.state>> \in Moves
     \/ rec.state \in Active /\ rec'.state \in Terminal
  /\ \A p \in Procs :
       /\ op'[p].at \in Claiming => op[p].at \in Claiming
       /\ op'[p].at \in Awaits => op[p].at \in Awaits
       /\ op'[p].at = "creating" => op[p].at = "creating" /\ op'[p].key = op[p].key
       /\ op[p].at \in {"idle", "off"} => op'[p].at \in {"idle", "off"}
       /\ op'[p].at \in Claiming /\ rec.lease = p => rec'.lease = p
  /\ \A p \in Procs : \A u \in poll'[p] :
       u \in poll[p] \/ (u[1] \in Actions /\ u[2] = coord[u[1]])
  /\ \A a \in Actions : coord[a] = "cancelled" => coord'[a] = "cancelled"

LEMMA BindingIsEnough == BindingInv => RetriesAreIdentical
  BY DEF BindingInv, RetriesAreIdentical, Conflict

LEMMA QuietStep ==
  ASSUME BridgeInv, StateOK', Quiet
  PROVE  CallInv'
<1>a. StateOK /\ OneCallAtATime /\ LeaseInv /\ BindingInv /\ WithdrawnInv
  BY DEF BridgeInv, CallInv
<1>1. OneCallAtATime'
  BY <1>a DEF OneCallAtATime, Quiet
<1>2. LeaseInv'
  BY <1>a DEF LeaseInv, Quiet, Active, Terminal, Moves
<1>3. BindingInv'
  BY <1>a DEF BindingInv, Quiet, Active, Terminal, Moves, CompletedPackage
<1>4. WithdrawnInv'
  <2>1. ASSUME NEW p \in Procs, NEW u \in poll'[p], u[2] = "cancelled"
        PROVE  coord'[u[1]] = "cancelled"
    <3>1. u \in poll[p] => u[1] \in Actions
      BY <1>a DEF StateOK, Update
    <3> QED
      BY <1>a, <2>1, <3>1 DEF WithdrawnInv, Quiet
  <2>2. ASSUME NEW p \in Procs, op'[p].at = "creating"
        PROVE  \/ rec'.state = "purged"
               \/ /\ rec'.state \in Terminal \cup {"submittingToCoordination"}
                  /\ op'[p].key = rec'.act
    <3>1. op[p].at = "creating" /\ op'[p].key = op[p].key /\ rec'.act = rec.act
      BY <2>2 DEF Quiet
    <3>2. \/ rec'.state = rec.state
          \/ <<rec.state, rec'.state>> \in Moves
          \/ rec.state \in Active /\ rec'.state \in Terminal
      BY DEF Quiet
    <3> QED
      BY <1>a, <3>1, <3>2 DEF WithdrawnInv, Moves, Terminal, Active
  <2> QED
    BY <2>1, <2>2 DEF WithdrawnInv
<1> QED
  BY <1>1, <1>2, <1>3, <1>4, BindingIsEnough DEF BridgeInv, CallInv, BindingInv, RetriesAreIdentical, Conflict

-----------------------------------------------------------------------------
\* The quiet steps, one lemma each.
LEMMA TypeParts == BridgeInv => /\ StateOK /\ rec \in Record /\ op \in [Procs -> Lane]
                               /\ faults \in 0 .. MaxFaults /\ net \subseteq Request
  BY DEF BridgeInv, CallInv, StateOK

\* The lane of p is done; the record is as it was, moved, or resolved.
LEMMA FinishStep ==
  ASSUME BridgeInv, NEW p \in Procs, Finish(p), rec' \in Record,
         rec'.act = rec.act, rec'.pkg = rec.pkg, rec'.bound = rec.bound, rec'.lease = rec.lease,
         \/ rec'.state = rec.state
         \/ <<rec.state, rec'.state>> \in Moves
         \/ rec.state \in Active /\ rec'.state \in {"resolved", "unresolvable"},
         UNCHANGED <<poll, stopped, ledger, verdict, coord, cancels>>,
         net' \subseteq Request, faults' \in 0 .. MaxFaults
  PROVE  CallInv'
<1>a. StateOK
  BY TypeParts
<1>1. op' \in [Procs -> Lane] /\ op'[p].at = "idle" /\ \A q \in Procs \ {p} : op'[q] = op[q]
  BY <1>a, IdleFacts, LaneFacts DEF Finish
<1>2. StateOK'
  BY <1>a, <1>1 DEF StateOK
<1>3. Quiet
  BY <1>1 DEF Quiet, Terminal, Claiming, Awaits, Replacing
<1> QED
  BY <1>2, <1>3, QuietStep

\* The lane of p goes on to build a replacement.
LEMMA AwaitReplacementStep ==
  ASSUME BridgeInv, NEW p \in Procs, NEW at \in Replacing, AwaitReplacement(p, at),
         op[p].at \in Awaits, op[p].at # "creating",
         UNCHANGED <<rec, poll, stopped, remoteVars, cancels, faults>>
  PROVE  /\ CallInv'
         /\ op'[p].at = at /\ op'[p].key = rec.act /\ op'[p].pkg = op[p].pkg
         /\ \A q \in Procs \ {p} : op'[q] = op[q]
<1>a. StateOK
  BY TypeParts
<1> DEFINE x == [at |-> at, key |-> rec.act, pkg |-> op[p].pkg, reply |-> "none"]
<1>b. rec.act \in Actions /\ op[p].pkg \in Actions
  BY <1>a DEF StateOK, Record, Lane
<1>0. x \in Lane /\ x.at = at /\ x.key = rec.act /\ x.pkg = op[p].pkg
  BY <1>b, CallFacts
<1>1. op' \in [Procs -> Lane] /\ op'[p] = x /\ \A q \in Procs \ {p} : op'[q] = op[q]
  BY <1>a, <1>0, LaneFacts DEF AwaitReplacement
<1> HIDE DEF x
<1>2. StateOK'
  BY <1>a, <1>1 DEF StateOK, remoteVars
<1>3. Quiet
  BY <1>0, <1>1 DEF Quiet, Claiming, Awaits, Replacing, remoteVars
<1> QED
  BY <1>0, <1>1, <1>2, <1>3, QuietStep

LEMMA InitialReturnsStep ==
  ASSUME BridgeInv, NEW p \in Procs, InitialReturns(p)
  PROVE  CallInv'
<1>a. /\ StateOK /\ rec \in Record /\ faults' \in 0 .. MaxFaults /\ net' \subseteq Request
      /\ UNCHANGED <<poll, stopped, remoteVars, cancels, faults>>
      /\ UNCHANGED <<poll, stopped, ledger, verdict, coord, cancels>>
      /\ op[p].at = "initial"
  BY TypeParts DEF InitialReturns, remoteVars
<1>1. CASE AwaitReplacement(p, "replacingCreated") /\ UNCHANGED rec
  BY <1>a, <1>1, AwaitReplacementStep DEF Awaits, Replacing
<1>2. CASE Finish(p) /\ rec' = rec
  BY <1>a, <1>2, FinishStep
<1>3. CASE Finish(p) /\ rec' = CompareAndSetState(rec, "created", "awaitingVerifierResult")
  <2>1. /\ rec' \in Record /\ rec'.act = rec.act /\ rec'.ref = rec.ref /\ rec'.pkg = rec.pkg
        /\ rec'.bound = rec.bound /\ rec'.lease = rec.lease
        /\ rec'.state = IF rec.state = "created" THEN "awaitingVerifierResult" ELSE rec.state
    BY <1>a, <1>3, CompareAndSetFacts DEF Active
  <2> QED
    BY <1>a, <1>3, <2>1, FinishStep DEF Moves
<1>4. CASE Finish(p) /\ op[p].reply \in Results /\ rec' = ResolveWorkflow(rec, "resolved", op[p].reply)
  <2>1. /\ rec' \in Record /\ rec'.act = rec.act /\ rec'.ref = rec.ref /\ rec'.pkg = rec.pkg
        /\ rec'.bound = rec.bound /\ rec'.lease = rec.lease
        /\ rec'.state = IF rec.state \in Active THEN "resolved" ELSE rec.state
    BY <1>a, <1>4, ResolveFacts DEF Terminal
  <2> QED
    BY <1>a, <1>4, <2>1, FinishStep
<1> QED
  BY <1>1, <1>2, <1>3, <1>4 DEF InitialReturns, Results

LEMMA CompletedReturnsStep ==
  ASSUME BridgeInv, NEW p \in Procs, CompletedReturns(p)
  PROVE  CallInv'
<1>a. /\ StateOK /\ rec \in Record /\ faults' \in 0 .. MaxFaults /\ net' \subseteq Request
      /\ UNCHANGED <<poll, stopped, remoteVars, cancels, faults>>
      /\ UNCHANGED <<poll, stopped, ledger, verdict, coord, cancels>>
      /\ op[p].at = "completed"
  BY TypeParts DEF CompletedReturns, remoteVars
<1>1. CASE AwaitReplacement(p, "replacingSubmitted") /\ UNCHANGED rec
  BY <1>a, <1>1, AwaitReplacementStep DEF Awaits, Replacing
<1>2. CASE Finish(p) /\ rec' = rec
  BY <1>a, <1>2, FinishStep
<1>3. CASE Finish(p) /\ rec' = CompareAndSetState(rec, "submittingToVerifier", "awaitingVerifierResult")
  <2>1. /\ rec' \in Record /\ rec'.act = rec.act /\ rec'.ref = rec.ref /\ rec'.pkg = rec.pkg
        /\ rec'.bound = rec.bound /\ rec'.lease = rec.lease
        /\ rec'.state = IF rec.state = "submittingToVerifier" THEN "awaitingVerifierResult" ELSE rec.state
    BY <1>a, <1>3, CompareAndSetFacts DEF Active
  <2> QED
    BY <1>a, <1>3, <2>1, FinishStep DEF Moves
<1>4. ASSUME NEW kind \in {"resolved", "unresolvable"}, NEW result \in Results, Finish(p),
             rec' = ResolveWorkflow(rec, kind, result)
      PROVE  CallInv'
  <2>1. /\ rec' \in Record /\ rec'.act = rec.act /\ rec'.ref = rec.ref /\ rec'.pkg = rec.pkg
        /\ rec'.bound = rec.bound /\ rec'.lease = rec.lease
        /\ rec'.state = IF rec.state \in Active THEN kind ELSE rec.state
    BY <1>a, <1>4, ResolveFacts DEF Terminal
  <2> QED
    BY <1>a, <1>4, <2>1, FinishStep
<1> QED
  BY <1>1, <1>2, <1>3, <1>4 DEF CompletedReturns, Results

LEMMA FailureStep ==
  ASSUME BridgeInv, NEW p \in Procs, CallFails(p) \/ ReplaceFails(p) \/ CreateFails(p)
  PROVE  CallInv'
<1>a. StateOK /\ rec \in Record /\ faults \in 0 .. MaxFaults
  BY TypeParts
<1>b. /\ UNCHANGED <<poll, stopped, ledger, verdict, coord, cancels>>
      /\ Fault /\ (net' = net \/ Abandon(p))
      /\ \/ Finish(p) /\ rec' = rec
         \/ Finish(p) /\ rec' = ResolveWorkflow(rec, "unresolvable", "error")
         \/ Finish(p) /\ rec' = CompareAndSetState(rec, "submittingToVerifier", "readyForSubmission")
  BY DEF CallFails, ReplaceFails, CreateFails, Unreachable, PermanentFailure, remoteVars
<1>1. faults' \in 0 .. MaxFaults
  BY <1>a, <1>b, BridgeAssumption DEF Fault
<1>2. net' \subseteq Request
  BY <1>a, <1>b, AbandonFacts DEF StateOK
<1>3. /\ rec' \in Record /\ rec'.act = rec.act /\ rec'.ref = rec.ref /\ rec'.pkg = rec.pkg
      /\ rec'.bound = rec.bound /\ rec'.lease = rec.lease
      /\ \/ rec'.state = rec.state
         \/ <<rec.state, rec'.state>> \in Moves
         \/ rec.state \in Active /\ rec'.state \in {"resolved", "unresolvable"}
  <2>1. CASE rec' = rec
    BY <1>a, <2>1
  <2>2. CASE rec' = ResolveWorkflow(rec, "unresolvable", "error")
    <3>1. "unresolvable" \in Terminal /\ "error" \in Results
      BY DEF Terminal, Results
    <3> QED
      BY <1>a, <2>2, <3>1, ResolveFacts
  <2>3. CASE rec' = CompareAndSetState(rec, "submittingToVerifier", "readyForSubmission")
    <3>1. "readyForSubmission" \in Active
      BY DEF Active
    <3> QED
      BY <1>a, <2>3, <3>1, CompareAndSetFacts DEF Moves
  <2> QED
    BY <1>b, <2>1, <2>2, <2>3
<1> QED
  BY <1>b, <1>1, <1>2, <1>3, FinishStep

\* Evaluate keeps a verdict, and an Action is in the ledger only on a permit.
LEMMA EvaluateFacts ==
  ASSUME StateOK, NEW q \in Request,
         NEW result \in {"aar", "pending", "executed", "rejected", "replay"}, Evaluate(q, result)
  PROVE  /\ ledger' \in [Actions -> Entry]
         /\ verdict' \in [Actions -> {"unasked", "permit", "refuse", "aar"}]
         /\ \A a \in Actions : verdict[a] = "aar" => verdict'[a] = "aar"
         /\ \A a \in Actions : verdict[a] = "permit" => verdict'[a] = "permit"
         /\ result = "aar" => verdict'[q.pkg] = "aar"
         /\ \A a \in Actions : ledger'[a].state # "none" =>
              ledger[a].state # "none" \/ (a = q.pkg /\ verdict'[a] = "permit")
<1>a. /\ ledger \in [Actions -> Entry] /\ q.pkg \in Actions /\ q.key \in Actions
      /\ verdict \in [Actions -> {"unasked", "permit", "refuse", "aar"}]
  BY DEF StateOK, Request
<1>1. CASE UNCHANGED <<ledger, verdict>> /\ result # "aar"
  BY <1>a, <1>1
<1>2. ASSUME NEW v \in {"permit", "refuse", "aar"}, verdict[q.pkg] \in {"unasked", v},
             verdict' = [verdict EXCEPT ![q.pkg] = v],
             \/ v = "aar" /\ result = "aar" /\ UNCHANGED ledger
             \/ v = "refuse" /\ result = "rejected" /\ UNCHANGED ledger
             \/ /\ v = "permit" /\ result \in {"pending", "executed"}
                /\ ledger' = [ledger EXCEPT ![q.pkg] =
                     [state |-> IF result = "pending" THEN "executing" ELSE "done",
                      key |-> q.key]]
      PROVE  /\ ledger' \in [Actions -> Entry]
             /\ verdict' \in [Actions -> {"unasked", "permit", "refuse", "aar"}]
             /\ \A a \in Actions : verdict[a] = "aar" => verdict'[a] = "aar"
             /\ \A a \in Actions : verdict[a] = "permit" => verdict'[a] = "permit"
             /\ result = "aar" => verdict'[q.pkg] = "aar"
             /\ \A a \in Actions : ledger'[a].state # "none" =>
                  ledger[a].state # "none" \/ (a = q.pkg /\ verdict'[a] = "permit")
  <2>1. verdict'[q.pkg] = v /\ \A a \in Actions \ {q.pkg} : verdict'[a] = verdict[a]
    BY <1>a, <1>2
  <2>2. verdict' \in [Actions -> {"unasked", "permit", "refuse", "aar"}]
    BY <1>a, <1>2
  <2>3. CASE UNCHANGED ledger /\ (result = "aar" => v = "aar")
    BY <1>a, <1>2, <2>1, <2>2, <2>3
  <2>4. CASE /\ v = "permit" /\ result # "aar"
             /\ ledger' = [ledger EXCEPT ![q.pkg] =
                     [state |-> IF result = "pending" THEN "executing" ELSE "done",
                      key |-> q.key]]
    <3> DEFINE x == [state |-> IF result = "pending" THEN "executing" ELSE "done", key |-> q.key]
    <3>1. x \in Entry
      BY <1>a DEF Entry
    <3>2. ledger' = [ledger EXCEPT ![q.pkg] = x]
      BY <2>4
    <3> HIDE DEF x
    <3>3. ledger' \in [Actions -> Entry] /\ \A a \in Actions \ {q.pkg} : ledger'[a] = ledger[a]
      BY <1>a, <3>1, <3>2
    <3> QED
      BY <1>a, <1>2, <2>1, <2>2, <2>4, <3>3
  <2> QED
    BY <1>2, <2>3, <2>4
<1>3. \/ UNCHANGED <<ledger, verdict>> /\ result # "aar"
      \/ \E v \in {"permit", "refuse", "aar"} :
           /\ verdict[q.pkg] \in {"unasked", v}
           /\ verdict' = [verdict EXCEPT ![q.pkg] = v]
           /\ \/ v = "aar" /\ result = "aar" /\ UNCHANGED ledger
              \/ v = "refuse" /\ result = "rejected" /\ UNCHANGED ledger
              \/ /\ v = "permit" /\ result \in {"pending", "executed"}
                 /\ ledger' = [ledger EXCEPT ![q.pkg] =
                      [state |-> IF result = "pending" THEN "executing" ELSE "done",
                       key |-> q.key]]
  BY <1>a DEF Evaluate
<1> QED
  BY <1>1, <1>2, <1>3

\* An answer reaches the lane that waits for it, if one still does.
Arrives(q, result) ==
  op' = IF q.to = NoProc THEN op ELSE [op EXCEPT ![q.to].reply = result]

LEMMA AnswerArrives ==
  ASSUME StateOK, NEW q \in Request,
         NEW result \in {"aar", "pending", "executed", "rejected", "replay"},
         Arrives(q, result)
  PROVE  /\ op' \in [Procs -> Lane]
         /\ \A p \in Procs : /\ op'[p].at = op[p].at /\ op'[p].key = op[p].key /\ op'[p].pkg = op[p].pkg
                             /\ op'[p].reply = IF p = q.to THEN result ELSE op[p].reply
<1>1. CASE q.to = NoProc
  BY <1>1, StoreAssumption DEF Arrives, StateOK
<1>2. CASE q.to # NoProc
  <2>1. q.to \in Procs /\ op' = [op EXCEPT ![q.to].reply = result]
    BY <1>2 DEF Request, Arrives
  <2>2. /\ op' \in [Procs -> Lane] /\ \A p \in Procs \ {q.to} : op'[p] = op[p]
        /\ op'[q.to].at = op[q.to].at /\ op'[q.to].key = op[q.to].key
        /\ op'[q.to].pkg = op[q.to].pkg /\ op'[q.to].reply = result
    BY <2>1, ReplyFacts
  <2> QED
    BY <2>1, <2>2
<1> QED
  BY <1>1, <1>2

LEMMA VerifierReceivesStep ==
  ASSUME BridgeInv, NEW q \in net, VerifierReceives(q)
  PROVE  CallInv'
<1>a. /\ StateOK /\ q \in Request /\ net' \subseteq Request
      /\ UNCHANGED <<rec, poll, stopped, coord, cancels, faults>>
  BY TypeParts DEF VerifierReceives
<1>1. PICK result \in {"aar", "pending", "executed", "rejected", "replay"} :
        Evaluate(q, result) /\ Arrives(q, result)
  BY DEF VerifierReceives, Arrives
<1>2. ledger' \in [Actions -> Entry] /\ verdict' \in [Actions -> {"unasked", "permit", "refuse", "aar"}]
  BY <1>a, <1>1, EvaluateFacts
<1>3. op' \in [Procs -> Lane] /\ \A p \in Procs : op'[p].at = op[p].at /\ op'[p].key = op[p].key
  BY <1>a, <1>1, AnswerArrives
<1>4. StateOK'
  BY <1>a, <1>2, <1>3 DEF StateOK
<1>5. Quiet
  BY <1>a, <1>3 DEF Quiet
<1> QED
  BY <1>a, <1>4, <1>5, QuietStep

LEMMA RemoteStep ==
  ASSUME BridgeInv, NEW a \in Actions, VerifierFinishes(a) \/ CoordinationDecides(a)
  PROVE  CallInv'
<1>a. StateOK /\ UNCHANGED <<rec, op, poll, stopped, net, verdict, cancels, faults>>
  BY TypeParts DEF VerifierFinishes, CoordinationDecides
<1>1. ledger' \in [Actions -> Entry]
  <2>1. ledger[a] \in Entry /\ [ledger[a] EXCEPT !.state = "done"] \in Entry
    BY <1>a DEF StateOK, Entry
  <2>2. \/ ledger' = ledger
        \/ ledger' = [ledger EXCEPT ![a] = [ledger[a] EXCEPT !.state = "done"]]
    BY DEF VerifierFinishes, CoordinationDecides
  <2> QED
    BY <1>a, <2>1, <2>2 DEF StateOK
<1>2. /\ coord' \in [Actions -> {"none", "awaiting", "ready", "closed", "cancelled"}]
      /\ \A b \in Actions : coord[b] = "cancelled" => coord'[b] = "cancelled"
  BY <1>a DEF VerifierFinishes, CoordinationDecides, StateOK
<1>3. StateOK'
  BY <1>a, <1>1, <1>2 DEF StateOK
<1>4. Quiet
  BY <1>a, <1>2 DEF Quiet
<1> QED
  BY <1>a, <1>3, <1>4, QuietStep

LEMMA CoordinationCreatesStep ==
  ASSUME BridgeInv, NEW p \in Procs, CoordinationCreates(p)
  PROVE  CallInv'
<1>a. /\ StateOK /\ UNCHANGED <<rec, poll, stopped, net, ledger, verdict, cancels, faults>>
      /\ op[p].key \in Actions
  BY TypeParts DEF CoordinationCreates, StateOK, Lane
<1>1. /\ op' \in [Procs -> Lane] /\ \A q \in Procs \ {p} : op'[q] = op[q]
      /\ op'[p].at = op[p].at /\ op'[p].key = op[p].key
  BY <1>a, ReplyFacts DEF CoordinationCreates
<1>2. /\ coord' \in [Actions -> {"none", "awaiting", "ready", "closed", "cancelled"}]
      /\ \A b \in Actions : coord[b] = "cancelled" => coord'[b] = "cancelled"
  BY <1>a DEF CoordinationCreates, StateOK
<1>3. StateOK'
  BY <1>a, <1>1, <1>2 DEF StateOK
<1>4. Quiet
  BY <1>a, <1>1, <1>2 DEF Quiet
<1> QED
  BY <1>a, <1>3, <1>4, QuietStep

LEMMA PollStep ==
  ASSUME BridgeInv, NEW p \in Procs, Poll(p)
  PROVE  CallInv' /\ \A q \in Procs : \A u \in poll'[q] :
                          u \in poll[q] \/ (u[1] \in Actions /\ u[2] = coord[u[1]] /\ u[2] # "none")
<1>a. StateOK /\ UNCHANGED <<rec, op, stopped, remoteVars, cancels, faults>>
  BY TypeParts DEF Poll
<1> DEFINE U == {<<a, coord[a]>> : a \in {b \in Actions : coord[b] \notin {"none", "awaiting"}}}
<1>1. U \subseteq Update /\ \A u \in U : u[1] \in Actions /\ u[2] = coord[u[1]] /\ u[2] # "none"
  BY <1>a DEF StateOK, Update
<1>2. poll' = [poll EXCEPT ![p] = U]
  BY DEF Poll
<1> HIDE DEF U
<1>3. poll' \in [Procs -> SUBSET Update] /\ poll'[p] = U /\ \A q \in Procs \ {p} : poll'[q] = poll[q]
  BY <1>a, <1>1, <1>2 DEF StateOK
<1>4. StateOK'
  BY <1>a, <1>3 DEF StateOK, remoteVars
<1>5. Quiet
  BY <1>a, <1>1, <1>3 DEF Quiet, remoteVars
<1> QED
  BY <1>a, <1>1, <1>3, <1>4, <1>5, QuietStep

LEMMA PollFailsStep ==
  ASSUME BridgeInv, NEW p \in Procs, PollFails(p)
  PROVE  CallInv'
<1>a. /\ StateOK /\ rec \in Record /\ faults \in 0 .. MaxFaults
      /\ UNCHANGED <<op, poll, stopped, remoteVars, cancels>>
  BY TypeParts DEF PollFails
<1>1. "unresolvable" \in Terminal /\ "error" \in Results
  BY DEF Terminal, Results
<1>2. /\ rec' \in Record /\ rec'.act = rec.act /\ rec'.ref = rec.ref /\ rec'.pkg = rec.pkg
      /\ rec'.bound = rec.bound /\ rec'.lease = rec.lease
      /\ rec'.state = IF rec.state \in Active THEN "unresolvable" ELSE rec.state
  BY <1>a, <1>1, ResolveFacts DEF PollFails
<1>3. faults' \in 0 .. MaxFaults
  BY <1>a, BridgeAssumption DEF PollFails, Fault
<1>4. StateOK'
  BY <1>a, <1>2, <1>3 DEF StateOK, remoteVars
<1>5. Quiet
  BY <1>a, <1>1, <1>2 DEF Quiet, remoteVars
<1> QED
  BY <1>2, <1>4, <1>5, QuietStep

LEMMA LifeStep ==
  ASSUME BridgeInv, NEW p \in Procs, Stop(p) \/ Restart(p)
  PROVE  CallInv'
<1>a. /\ StateOK /\ faults \in 0 .. MaxFaults
      /\ UNCHANGED <<rec, poll, remoteVars, cancels>>
  BY TypeParts DEF Stop, Restart
<1>1. CASE Stop(p)
  <2>1. faults' \in 0 .. MaxFaults /\ stopped' \subseteq Procs /\ op' = op
    BY <1>a, <1>1, BridgeAssumption DEF Stop, Fault, StateOK
  <2>2. StateOK'
    BY <1>a, <2>1 DEF StateOK, remoteVars
  <2>3. Quiet
    BY <1>a, <2>1 DEF Quiet, remoteVars
  <2> QED
    BY <1>a, <2>2, <2>3, QuietStep
<1>2. CASE Restart(p)
  <2>1. faults' \in 0 .. MaxFaults /\ net' \subseteq Request /\ Finish(p) /\ rec' = rec
        /\ UNCHANGED <<poll, stopped, ledger, verdict, coord, cancels>> /\ rec \in Record
    BY <1>a, <1>2 DEF Restart, StateOK, remoteVars
  <2> QED
    BY <2>1, FinishStep
<1> QED
  BY <1>1, <1>2

LEMMA ClockStep ==
  ASSUME BridgeInv, EnvelopeExpires \/ LeaseExpires
  PROVE  CallInv'
<1>a. /\ StateOK /\ rec \in Record
      /\ UNCHANGED <<op, poll, stopped, remoteVars, cancels, faults>>
  BY TypeParts DEF EnvelopeExpires, LeaseExpires
<1>1. /\ rec' \in Record /\ rec'.act = rec.act /\ rec'.ref = rec.ref /\ rec'.pkg = rec.pkg
      /\ rec'.bound = rec.bound /\ rec'.state = rec.state
      /\ \A p \in Procs : op[p].at \in Claiming /\ rec.lease = p => rec'.lease = p
  BY <1>a DEF EnvelopeExpires, LeaseExpires, Record
<1>2. StateOK'
  BY <1>a, <1>1 DEF StateOK, remoteVars
<1>3. Quiet
  BY <1>a, <1>1 DEF Quiet, remoteVars
<1> QED
  BY <1>1, <1>2, <1>3, QuietStep

LEMMA ExitStep ==
  ASSUME BridgeInv, NEW p \in Procs, Crash(p) \/ Stopped(p)
  PROVE  CallInv'
<1>a. /\ StateOK /\ rec \in Record /\ faults \in 0 .. MaxFaults /\ Exit(p)
      /\ UNCHANGED <<ledger, verdict, coord, cancels>>
  BY TypeParts DEF Crash, Stopped, Exit
<1>1. faults' \in 0 .. MaxFaults
  BY <1>a, BridgeAssumption DEF Crash, Stopped, Fault
<1>2. net' \subseteq Request
  BY <1>a, AbandonFacts DEF Crash, Stopped, StateOK
<1>3. op' \in [Procs -> Lane] /\ op'[p].at = "off" /\ \A q \in Procs \ {p} : op'[q] = op[q]
  BY <1>a, IdleFacts, LaneFacts DEF Exit
<1>4. /\ poll' \in [Procs -> SUBSET Update] /\ stopped' \subseteq Procs
      /\ \A q \in Procs : poll'[q] \subseteq poll[q]
  BY <1>a DEF Exit, StateOK
<1>5. /\ rec' \in Record /\ rec'.act = rec.act /\ rec'.ref = rec.ref /\ rec'.pkg = rec.pkg
      /\ rec'.bound = rec.bound /\ rec'.state = rec.state
      /\ rec.lease # p => rec'.lease = rec.lease
  BY <1>a DEF Exit, Record
<1>6. StateOK'
  BY <1>a, <1>1, <1>2, <1>3, <1>4, <1>5 DEF StateOK
<1>7. Quiet
  BY <1>a, <1>3, <1>4, <1>5 DEF Quiet, Claiming, Awaits, Replacing
<1> QED
  BY <1>5, <1>6, <1>7, QuietStep

-----------------------------------------------------------------------------
\* The other steps.  p's lane changes and its Task goes on: what p awaits now
\* it holds the claim for, and no other call was out.
LEMMA LoudStep ==
  ASSUME BridgeInv, StateOK', NEW p \in Procs, \A q \in Procs \ {p} : op'[q] = op[q],
         BindingInv', UNCHANGED <<poll, coord, cancels>>, rec'.state \in Active,
         op'[p].at \in Claiming => rec'.lease = p,
         \A q \in Procs \ {p} : op[q].at \in Claiming =>
            rec'.lease = rec.lease /\ rec.state # "purged" /\ op'[p].at \notin Claiming,
         \A q \in Procs \ {p} : op[q].at # "creating",
         op'[p].at = "creating" => rec'.state = "submittingToCoordination" /\ op'[p].key = rec'.act
  PROVE  CallInv'
<1>a. StateOK /\ OneCallAtATime /\ LeaseInv /\ WithdrawnInv
  BY DEF BridgeInv, CallInv
<1>1. OneCallAtATime'
  BY <1>a DEF OneCallAtATime, Claiming
<1>2. LeaseInv'
  <2>1. ASSUME NEW q \in Procs, op'[q].at \in Claiming PROVE rec'.lease = q
    BY <1>a, <2>1 DEF LeaseInv
  <2> QED
    BY <2>1 DEF LeaseInv, Active, Claiming
<1>3. WithdrawnInv'
  BY <1>a DEF WithdrawnInv
<1> QED
  BY <1>1, <1>2, <1>3 DEF BridgeInv, CallInv, BindingInv, RetriesAreIdentical, Conflict

\* A process that can claim the Task is the only one with a call out.
LEMMA ClaimableFacts ==
  ASSUME BridgeInv, NEW p \in Procs, Claimable(rec, p)
  PROVE  \A q \in Procs \ {p} : op[q].at \notin Claiming /\ op[q].at # "creating"
<1>1. LeaseInv /\ rec.state # "purged" /\ rec.lease \in {p, NoProc}
  BY DEF BridgeInv, CallInv, Claimable, Active
<1> QED
  BY <1>1, StoreAssumption DEF LeaseInv, Claiming, Awaits

\* A Task that p has claimed is ended before anything is sent.
LEMMA ClaimedEndsStep ==
  ASSUME BridgeInv, NEW p \in Procs, LaneFree(p), Claimable(rec, p),
         NEW r \in Record, r.act = rec.act, r.ref = rec.ref, r.pkg = rec.pkg, r.bound = rec.bound,
         r.lease = p, r.state \in Active, rec' = ResolveWorkflow(r, "unresolvable", "error"),
         UNCHANGED <<op, poll, stopped, remoteVars, cancels, faults>>
  PROVE  CallInv'
<1>a. StateOK /\ rec \in Record
  BY TypeParts
<1>2. "unresolvable" \in Terminal /\ "error" \in Results
  BY DEF Terminal, Results
<1>3. /\ rec' \in Record /\ rec'.act = rec.act /\ rec'.ref = rec.ref /\ rec'.pkg = rec.pkg
      /\ rec'.bound = rec.bound /\ rec'.lease = p /\ rec'.state = "unresolvable"
  BY <1>2, ResolveFacts
<1>4. StateOK'
  BY <1>a, <1>3 DEF StateOK, remoteVars
<1>5. \A q \in Procs : op[q].at \notin Claiming
  BY ClaimableFacts DEF LaneFree, Claiming, Awaits, Replacing
<1>6. Quiet
  BY <1>2, <1>3, <1>5 DEF Quiet, remoteVars, Claimable
<1> QED
  BY <1>3, <1>4, <1>6, QuietStep

LEMMA ExpireStep ==
  ASSUME BridgeInv, NEW p \in Procs, ExpireOverdue(p)
  PROVE  CallInv'
<1> DEFINE r == ClaimWorkflow(rec, p)
<1>1. /\ r \in Record /\ r.act = rec.act /\ r.ref = rec.ref /\ r.pkg = rec.pkg
      /\ r.bound = rec.bound /\ r.lease = p /\ r.state = rec.state
  BY TypeParts, ClaimFacts
<1>2. /\ rec' = ResolveWorkflow(r, "unresolvable", "error") /\ LaneFree(p) /\ Claimable(rec, p)
      /\ UNCHANGED <<op, poll, stopped, remoteVars, cancels, faults>>
  BY DEF ExpireOverdue
<1> HIDE DEF r
<1> QED
  BY <1>1, <1>2, ClaimedEndsStep DEF Claimable

LEMMA ProposeStep ==
  ASSUME BridgeInv, NEW p \in Procs, Propose(p)
  PROVE  CallInv'
<1>a. /\ StateOK /\ LeaseInv /\ WithdrawnInv /\ rec.state = "none" /\ rec' = CreateWorkflow
      /\ UNCHANGED <<op, poll, stopped, remoteVars, cancels, faults>>
  BY DEF Propose, BridgeInv, CallInv
<1>1. rec' \in Record /\ rec'.state = "created" /\ rec'.bound = {}
  BY <1>a, NoRecordFacts DEF CreateWorkflow, NoRecord, Record, Active
<1>2. StateOK'
  BY <1>a, <1>1 DEF StateOK, remoteVars
<1>3. \A q \in Procs : op[q].at \in {"idle", "off"}
  BY <1>a DEF LeaseInv
<1>4. BindingInv'
  BY <1>1 DEF BindingInv
<1> QED
  BY <1>a, <1>1, <1>2, <1>3, <1>4, LoudStep DEF Claiming, Awaits, Replacing, Active, remoteVars

\* A claimed Task submits a package: r is the record with the claim.
LEMMA SubmitStep ==
  ASSUME BridgeInv, NEW p \in Procs, LaneFree(p), Claimable(rec, p),
         NEW r \in Record, r.act = rec.act, r.ref = rec.ref, r.pkg = rec.pkg, r.bound = rec.bound,
         r.lease = p, r.state \in Active, NEW phase \in Phases, NEW pkg \in Actions,
         \/ phase = "initial" /\ r.state = rec.state /\ r.state = "created"
         \/ /\ phase = "completed" /\ pkg = CompletedPackage(r)
            /\ rec.state \in {"readyForSubmission", "submittingToVerifier", "awaitingVerifierResult"}
            /\ r.state \in {"submittingToVerifier", "awaitingVerifierResult"},
         Submit(p, r, phase, pkg),
         UNCHANGED <<poll, stopped, ledger, verdict, coord, cancels, faults>>
  PROVE  CallInv'
<1>1. CASE Conflict(r, phase, pkg)
  BY <1>1, ClaimedEndsStep DEF Submit, remoteVars
<1>2. CASE ~Conflict(r, phase, pkg)
  <2>a. StateOK /\ BindingInv
    BY DEF BridgeInv, CallInv
  <2>1. rec' = [r EXCEPT !.bound = @ \cup {<<phase, pkg>>}] /\ SubmitActionRequest(p, phase, r.act, pkg)
    BY <1>2 DEF Submit
  <2>2. /\ rec' \in Record /\ rec'.act = rec.act /\ rec'.ref = rec.ref /\ rec'.pkg = rec.pkg
        /\ rec'.lease = p /\ rec'.state = r.state /\ rec'.bound = rec.bound \cup {<<phase, pkg>>}
    BY <2>1 DEF Record
  <2>3. BindingInv'
    BY <2>a, <2>2 DEF BindingInv, CompletedPackage
  <2> DEFINE x == [at |-> phase, key |-> r.act, pkg |-> pkg, reply |-> "none"]
             y == [to |-> p, key |-> r.act, pkg |-> pkg]
  <2>4. r.act \in Actions /\ phase \in Awaits
    BY DEF Record, Awaits, Phases
  <2>5. x \in Lane /\ x.at = phase /\ y \in Request
    BY <2>4, CallFacts DEF Request
  <2>6. op' = [op EXCEPT ![p] = x] /\ net' = net \cup {y}
    BY <2>1 DEF SubmitActionRequest
  <2> HIDE DEF x, y
  <2>7. op' \in [Procs -> Lane] /\ op'[p] = x /\ \A q \in Procs \ {p} : op'[q] = op[q]
    BY <2>a, <2>5, <2>6, LaneFacts
  <2>8. StateOK'
    BY <2>a, <2>2, <2>5, <2>6, <2>7 DEF StateOK
  <2>9. phase # "creating"
    BY DEF Phases
  <2> QED
    BY <2>2, <2>3, <2>5, <2>7, <2>8, <2>9, ClaimableFacts, LoudStep
<1> QED
  BY <1>1, <1>2

LEMMA AdvanceStep ==
  ASSUME BridgeInv, NEW p \in Procs, Advance(p)
  PROVE  CallInv'
<1>a. /\ StateOK /\ rec \in Record /\ LaneFree(p) /\ Claimable(rec, p) /\ BindingInv
      /\ UNCHANGED <<poll, stopped, ledger, verdict, coord, cancels, faults>>
  BY TypeParts DEF Advance, BridgeInv, CallInv
<1> DEFINE r == ClaimWorkflow(rec, p)
           s == CompareAndSetState(r, "readyForSubmission", "submittingToVerifier")
<1>1. /\ r \in Record /\ r.act = rec.act /\ r.ref = rec.ref /\ r.pkg = rec.pkg
      /\ r.bound = rec.bound /\ r.lease = p /\ r.state = rec.state /\ rec.state \in Active
      /\ rec.act \in Actions
  BY <1>a, ClaimFacts DEF Claimable, Record
<1>2. \/ r.state = "created" /\ Submit(p, r, "initial", r.act)
      \/ r.state = "submittingToCoordination" /\ rec' = r /\ StartCreating(p, r) /\ UNCHANGED net
      \/ /\ r.state \in {"readyForSubmission", "submittingToVerifier", "awaitingVerifierResult"}
         /\ Submit(p, s, "completed", CompletedPackage(r))
  BY DEF Advance, SubmitCompleted
<1>3. CASE r.state = "created" /\ Submit(p, r, "initial", r.act)
  <2> HIDE DEF r
  <2>1. "initial" \in Phases
    BY DEF Phases
  <2> QED
    BY <1>a, <1>1, <1>3, <2>1, SubmitStep
<1>4. CASE r.state = "submittingToCoordination" /\ rec' = r /\ StartCreating(p, r) /\ UNCHANGED net
  <2> HIDE DEF r
  <2> DEFINE x == [at |-> "creating", key |-> r.act, pkg |-> r.act, reply |-> "none"]
  <2>1. x \in Lane /\ x.at = "creating" /\ x.key = rec.act
    BY <1>1, CallFacts DEF Awaits
  <2>2. op' = [op EXCEPT ![p] = x]
    BY <1>4 DEF StartCreating
  <2> HIDE DEF x
  <2>3. op' \in [Procs -> Lane] /\ op'[p] = x /\ \A q \in Procs \ {p} : op'[q] = op[q]
    BY <1>a, <2>1, <2>2, LaneFacts
  <2>4. StateOK'
    BY <1>a, <1>1, <1>4, <2>3 DEF StateOK
  <2>5. BindingInv'
    BY <1>a, <1>1, <1>4 DEF BindingInv
  <2> QED
    BY <1>a, <1>1, <1>4, <2>1, <2>3, <2>4, <2>5, ClaimableFacts, LoudStep
<1>5. CASE /\ r.state \in {"readyForSubmission", "submittingToVerifier", "awaitingVerifierResult"}
           /\ Submit(p, s, "completed", CompletedPackage(r))
  <2> HIDE DEF r
  <2>1. "completed" \in Phases /\ "submittingToVerifier" \in Active
    BY DEF Phases, Active
  <2>2. /\ s \in Record /\ s.act = rec.act /\ s.ref = rec.ref /\ s.pkg = rec.pkg
        /\ s.bound = rec.bound /\ s.lease = p
        /\ s.state = IF r.state = "readyForSubmission" THEN "submittingToVerifier" ELSE r.state
    BY <1>1, <2>1, CompareAndSetFacts
  <2> HIDE DEF s
  <2>3. CompletedPackage(r) = CompletedPackage(s) /\ CompletedPackage(r) \in Actions
    BY <1>1, <2>2, StoreAssumption DEF CompletedPackage, Record, Actions
  <2>4. s.state \in Active
    BY <1>1, <2>1, <2>2
  <2>5. /\ rec.state \in {"readyForSubmission", "submittingToVerifier", "awaitingVerifierResult"}
        /\ s.state \in {"submittingToVerifier", "awaitingVerifierResult"}
    BY <1>1, <1>5, <2>2
  <2>6. Submit(p, s, "completed", CompletedPackage(r))
    BY <1>5
  <2> QED
    BY <1>a, <2>1, <2>2, <2>3, <2>4, <2>5, <2>6, SubmitStep
<1> QED
  BY <1>2, <1>3, <1>4, <1>5

LEMMA ReplaceStep ==
  ASSUME BridgeInv, NEW p \in Procs, Replace(p)
  PROVE  CallInv'
<1> DEFINE from == IF op[p].at = "replacingCreated" THEN "created" ELSE "submittingToVerifier"
           r == ReplaceAction(rec)
           ok == rec.state = from /\ op[p].pkg = op[p].key /\ rec.act < MaxActions
<1>a. /\ StateOK /\ rec \in Record /\ LeaseInv /\ WithdrawnInv
      /\ faults' \in 0 .. MaxFaults /\ net' \subseteq Request
      /\ UNCHANGED <<poll, stopped, remoteVars, cancels, faults>>
      /\ UNCHANGED <<poll, stopped, ledger, verdict, coord, cancels>>
  BY TypeParts DEF Replace, remoteVars, BridgeInv, CallInv
<1>b. /\ op[p].at \in Replacing
      /\ IF ok THEN IF p \notin stopped /\ Claimable(r, p)
                    THEN rec' = ClaimWorkflow(r, p) /\ StartCreating(p, r)
                    ELSE rec' = r /\ Finish(p)
         ELSE rec' = ResolveWorkflow(rec, "unresolvable", "error") /\ Finish(p)
  BY DEF Replace
<1>1. CASE ~ok
  <2>1. "unresolvable" \in Terminal /\ "error" \in Results
    BY DEF Terminal, Results
  <2>2. rec' = ResolveWorkflow(rec, "unresolvable", "error") /\ Finish(p)
    BY <1>b, <1>1
  <2>3. /\ rec' \in Record /\ rec'.act = rec.act /\ rec'.ref = rec.ref /\ rec'.pkg = rec.pkg
        /\ rec'.bound = rec.bound /\ rec'.lease = rec.lease
        /\ rec'.state = IF rec.state \in Active THEN "unresolvable" ELSE rec.state
    BY <1>a, <2>1, <2>2, ResolveFacts
  <2> QED
    BY <1>a, <2>2, <2>3, FinishStep
<1>2. CASE ok
  <2>1. /\ r \in Record /\ r.act = rec.act + 1 /\ r.ref = FALSE /\ r.pkg = 0
        /\ r.bound = {} /\ r.lease = rec.lease /\ r.state = "submittingToCoordination"
        /\ r.act \in Actions
    BY <1>2, <1>a, ReplaceFacts DEF Record
  <2>2. rec.state \in {"created", "submittingToVerifier"}
    BY <1>2
  <2>3. \A q \in Procs : op[q].at # "creating"
    BY <1>a, <2>2 DEF WithdrawnInv, Terminal
  <2>4. CASE p \notin stopped /\ Claimable(r, p)
    <3>1. rec' = ClaimWorkflow(r, p) /\ StartCreating(p, r)
      BY <1>2, <1>b, <2>4
    <3> DEFINE x == [at |-> "creating", key |-> r.act, pkg |-> r.act, reply |-> "none"]
    <3>2. x \in Lane /\ x.at = "creating" /\ x.key = r.act
      BY <2>1, CallFacts DEF Awaits
    <3>3. op' = [op EXCEPT ![p] = x]
      BY <3>1 DEF StartCreating
    <3> HIDE DEF x, r
    <3>4. op' \in [Procs -> Lane] /\ op'[p] = x /\ \A q \in Procs \ {p} : op'[q] = op[q]
      BY <1>a, <3>2, <3>3, LaneFacts
    <3>5. /\ rec' \in Record /\ rec'.act = r.act /\ rec'.bound = {} /\ rec'.lease = p
          /\ rec'.state = "submittingToCoordination"
      BY <2>1, <3>1, ClaimFacts
    <3>6. StateOK'
      BY <1>a, <3>4, <3>5 DEF StateOK, remoteVars
    <3>7. BindingInv'
      BY <3>5 DEF BindingInv
    <3>8. Claimable(rec, p)
      BY <2>1, <2>2, <2>4 DEF Claimable, Active
    <3>9. rec'.state \in Active
      BY <3>5 DEF Active
    <3> QED
      BY <1>a, <3>2, <3>4, <3>5, <3>6, <3>7, <3>8, <3>9, ClaimableFacts, LoudStep
  <2>5. CASE ~(p \notin stopped /\ Claimable(r, p))
    <3>1. rec' = r /\ Finish(p)
      BY <1>2, <1>b, <2>5
    <3> HIDE DEF r
    <3>2. op' \in [Procs -> Lane] /\ op'[p].at = "idle" /\ \A q \in Procs \ {p} : op'[q] = op[q]
      BY <1>a, <3>1, IdleFacts, LaneFacts DEF Finish
    <3>3. StateOK'
      BY <1>a, <2>1, <3>1, <3>2 DEF StateOK, remoteVars
    <3>4. BindingInv'
      BY <2>1, <3>1 DEF BindingInv
    <3>5. rec'.state \in Active /\ "idle" \notin Claiming
      BY <2>1, <3>1 DEF Active, Claiming, Awaits, Replacing
    <3> QED
      BY <1>a, <2>1, <2>2, <2>3, <3>1, <3>2, <3>3, <3>4, <3>5, LoudStep
  <2> QED
    BY <2>4, <2>5
<1> QED
  BY <1>1, <1>2

\* Coordination withdraws an Action, if the request arrives.
LEMMA CancelActionFacts ==
  ASSUME StateOK, NEW a, CancelAction(a)
  PROVE  /\ cancels \subseteq cancels' /\ a \in cancels'
         /\ a \in Actions => cancels' \subseteq Actions
         /\ coord' \in [Actions -> {"none", "awaiting", "ready", "closed", "cancelled"}]
         /\ \A b \in Actions : /\ coord[b] = "cancelled" => coord'[b] = "cancelled"
                               /\ coord'[b] # "none" => coord[b] # "none"
  BY DEF StateOK, CancelAction

\* A step of submitToCoordination, after its await, or of cancel.
Sectional(p) == CreateSaves(p) \/ CancelReads(p) \/ GoesOn(p)

\* What such a step does to all but the section itself.
LEMMA SectionalFacts ==
  ASSUME rec \in Record, NEW p \in Procs, Sectional(p)
  PROVE  /\ UNCHANGED <<poll, stopped, net, ledger, verdict, faults>>
         /\ op' = op \/ (section[p].at \in {"saved", "confirming"} /\ Finish(p))
         /\ \/ UNCHANGED <<coord, cancels>>
            \/ section[p].at = "telling" /\ CancelAction(section[p].act)
         /\ \/ rec' = rec
            \/ op' = op /\ rec.state \notin Absent /\ rec' = [rec EXCEPT !.ref = TRUE]
            \/ op' = op /\ section[p].at = "cancelling" /\ rec' = CancelWorkflow(rec)
            \/ /\ section[p].at = "confirming" /\ Finish(p) /\ UNCHANGED <<coord, cancels>>
               /\ rec' = CompareAndSetState(rec, "submittingToCoordination", "awaitingApprovals")
  BY DEF Sectional, GoesOn, CreateSaves, CreateLooks, CreateConfirms, CancelReads, CancelWrites,
     Tell, remoteVars

\* The Task waits for approvals now, and nobody is creating its workflow.
LEMMA ConfirmsStep ==
  ASSUME BridgeInv, NEW p \in Procs, section[p].at = "confirming", Finish(p),
         rec' = CompareAndSetState(rec, "submittingToCoordination", "awaitingApprovals"),
         UNCHANGED <<poll, stopped, remoteVars, cancels, faults>>
  PROVE  CallInv'
<1>a. /\ StateOK /\ rec \in Record /\ OneCallAtATime /\ LeaseInv /\ BindingInv /\ WithdrawnInv
      /\ op[p].at = "creating"
  BY TypeParts DEF BridgeInv, CallInv, SectionInv
<1>b. "awaitingApprovals" \in Active
  BY DEF Active
<1>1. op' \in [Procs -> Lane] /\ op'[p].at = "idle" /\ \A q \in Procs \ {p} : op'[q] = op[q]
  BY <1>a, IdleFacts, LaneFacts DEF Finish
<1>2. /\ rec' \in Record /\ rec'.act = rec.act /\ rec'.pkg = rec.pkg
      /\ rec'.bound = rec.bound /\ rec'.lease = rec.lease
      /\ rec'.state = IF rec.state = "submittingToCoordination" THEN "awaitingApprovals" ELSE rec.state
  BY <1>a, <1>b, CompareAndSetFacts
<1>3. StateOK'
  BY <1>a, <1>1, <1>2 DEF StateOK, remoteVars
<1>4. OneCallAtATime'
  BY <1>a, <1>1 DEF OneCallAtATime, Awaits
<1>5. LeaseInv'
  BY <1>a, <1>1, <1>2 DEF LeaseInv, Claiming, Awaits, Replacing
<1>6. BindingInv'
  BY <1>a, <1>2 DEF BindingInv, CompletedPackage
<1>7. WithdrawnInv'
  <2>1. \A q \in Procs : op'[q].at # "creating"
    BY <1>a, <1>1 DEF OneCallAtATime, Awaits
  <2> QED
    BY <1>a, <2>1 DEF WithdrawnInv, remoteVars
<1> QED
  BY <1>3, <1>4, <1>5, <1>6, <1>7, BindingIsEnough DEF CallInv, BindingInv, RetriesAreIdentical, Conflict

LEMMA SectionalStep ==
  ASSUME BridgeInv, NEW p \in Procs, Sectional(p)
  PROVE  CallInv'
<1>a. /\ StateOK /\ rec \in Record
      /\ UNCHANGED <<poll, stopped, net, ledger, verdict, faults>>
  BY TypeParts, SectionalFacts DEF BridgeInv
<1>b. section[p].at = "telling" => section[p].act \in Actions
  BY StoreAssumption DEF BridgeInv, SectionInv, SectionOK, Section, Actions
<1>1. CASE /\ section[p].at = "confirming" /\ Finish(p) /\ UNCHANGED <<coord, cancels>>
           /\ rec' = CompareAndSetState(rec, "submittingToCoordination", "awaitingApprovals")
  BY <1>a, <1>1, ConfirmsStep DEF remoteVars
<1>2. CASE \/ rec' = rec
           \/ rec.state \notin Absent /\ rec' = [rec EXCEPT !.ref = TRUE]
           \/ rec' = CancelWorkflow(rec)
  <2>1. /\ rec' \in Record /\ rec'.act = rec.act /\ rec'.pkg = rec.pkg /\ rec'.bound = rec.bound
        /\ rec'.lease = rec.lease
        /\ rec'.state = rec.state \/ (rec.state \in Active /\ rec'.state = "cancelled")
    <3>1. CASE rec' = CancelWorkflow(rec)
      <4>1. "cancelled" \in Terminal /\ "none" \in Results
        BY DEF Terminal, Results
      <4> QED
        BY <1>a, <3>1, <4>1, ResolveFacts DEF CancelWorkflow
    <3>2. CASE rec' = rec \/ rec' = [rec EXCEPT !.ref = TRUE]
      BY <1>a, <3>2 DEF Record
    <3> QED
      BY <1>2, <3>1, <3>2
  <2>2. /\ op' \in [Procs -> Lane]
        /\ \A q \in Procs : op'[q] = op[q] \/ op'[q].at = "idle"
    BY <1>a, SectionalFacts, IdleFacts, LaneFacts DEF Finish, StateOK
  <2>3. /\ coord' \in [Actions -> {"none", "awaiting", "ready", "closed", "cancelled"}]
        /\ \A b \in Actions : coord[b] = "cancelled" => coord'[b] = "cancelled"
        /\ cancels' \subseteq Actions
    <3>1. CASE UNCHANGED <<coord, cancels>>
      BY <1>a, <3>1 DEF StateOK
    <3>2. CASE section[p].at = "telling" /\ CancelAction(section[p].act)
      BY <1>a, <1>b, <3>2, CancelActionFacts
    <3> QED
      BY <1>a, <3>1, <3>2, SectionalFacts
  <2>4. StateOK'
    BY <1>a, <2>1, <2>2, <2>3 DEF StateOK
  <2>5. Quiet
    BY <1>a, <2>1, <2>2, <2>3 DEF Quiet, Terminal, Claiming, Awaits, Replacing
  <2> QED
    BY <2>4, <2>5, QuietStep
<1> QED
  BY <1>a, <1>1, <1>2, SectionalFacts

\* An update of the poll is applied: u is taken off the list.
LEMMA UpdateFacts ==
  ASSUME BridgeInv, NEW p \in Procs, ApplyUpdate(p)
  PROVE  \E u \in poll[p] :
           /\ u[1] \in Actions /\ (u[2] = "cancelled" => coord[u[1]] = "cancelled")
           /\ poll' \in [Procs -> SUBSET Update] /\ \A q \in Procs : poll'[q] \subseteq poll[q]
           /\ rec' \in Record /\ rec'.act = rec.act /\ rec'.ref = rec.ref
           /\ rec'.bound = rec.bound /\ rec'.lease = rec.lease
           /\ \/ rec' = rec
              \/ /\ rec.state = "awaitingApprovals" /\ rec'.state = "readyForSubmission"
                 /\ rec'.pkg = u[1]
              \/ /\ rec.state \in Active /\ rec'.pkg = rec.pkg
                 /\ \/ rec'.state = "cancelled" /\ u[2] = "cancelled"
                    \/ rec'.state = "unresolvable"
<1>a. StateOK /\ rec \in Record /\ WithdrawnInv
  BY TypeParts DEF BridgeInv, CallInv
<1>1. PICK u \in poll[p] :
        /\ poll' = [poll EXCEPT ![p] = @ \ {u}]
        /\ rec' = IF rec.state \notin Active THEN rec
                  ELSE IF u[2] = "ready" THEN Completed(rec, u[1])
                  ELSE IF u[2] = "cancelled" THEN CancelWorkflow(rec)
                  ELSE ResolveWorkflow(rec, "unresolvable", "error")
  BY DEF ApplyUpdate
<1>2. u[1] \in Actions /\ (u[2] = "cancelled" => coord[u[1]] = "cancelled") /\ u[1] \in 0 .. MaxActions
  BY <1>a DEF StateOK, Update, WithdrawnInv, Actions
<1>3. poll' \in [Procs -> SUBSET Update] /\ \A q \in Procs : poll'[q] \subseteq poll[q]
  BY <1>a, <1>1 DEF StateOK
<1>4. {"cancelled", "unresolvable"} \subseteq Terminal /\ {"none", "error"} \subseteq Results
  BY DEF Terminal, Results
<1>5. CASE rec' = rec
  BY <1>a, <1>2, <1>3, <1>5
<1>6. CASE rec.state \in Active /\ rec' = Completed(rec, u[1]) /\ rec' # rec
  <2>1. rec.state = "awaitingApprovals" /\ rec' = [rec EXCEPT !.pkg = u[1], !.state = "readyForSubmission"]
    BY <1>6 DEF Completed
  <2>2. /\ rec' \in Record /\ rec'.act = rec.act /\ rec'.ref = rec.ref
        /\ rec'.bound = rec.bound /\ rec'.lease = rec.lease
        /\ rec'.state = "readyForSubmission" /\ rec'.pkg = u[1]
    BY <1>a, <1>2, <2>1 DEF Record, Active
  <2> QED
    BY <1>2, <1>3, <2>1, <2>2
<1>7. CASE rec.state \in Active /\ u[2] = "cancelled" /\ rec' = CancelWorkflow(rec)
  <2>1. /\ rec' \in Record /\ rec'.act = rec.act /\ rec'.ref = rec.ref /\ rec'.pkg = rec.pkg
        /\ rec'.bound = rec.bound /\ rec'.lease = rec.lease /\ rec'.state = "cancelled"
    BY <1>a, <1>4, <1>7, ResolveFacts DEF CancelWorkflow
  <2> QED
    BY <1>2, <1>3, <1>7, <2>1
<1>8. CASE rec.state \in Active /\ rec' = ResolveWorkflow(rec, "unresolvable", "error")
  <2>1. /\ rec' \in Record /\ rec'.act = rec.act /\ rec'.ref = rec.ref /\ rec'.pkg = rec.pkg
        /\ rec'.bound = rec.bound /\ rec'.lease = rec.lease /\ rec'.state = "unresolvable"
    BY <1>a, <1>4, <1>8, ResolveFacts
  <2> QED
    BY <1>2, <1>3, <1>8, <2>1
<1> QED
  BY <1>1, <1>5, <1>6, <1>7, <1>8

LEMMA ApplyUpdateStep ==
  ASSUME BridgeInv, NEW p \in Procs, ApplyUpdate(p)
  PROVE  CallInv'
<1>a. /\ StateOK /\ OneCallAtATime /\ LeaseInv /\ BindingInv /\ WithdrawnInv
      /\ UNCHANGED <<op, stopped, remoteVars, cancels, faults>>
  BY DEF ApplyUpdate, BridgeInv, CallInv
<1>1. PICK u \in poll[p] :
        /\ u[1] \in Actions /\ (u[2] = "cancelled" => coord[u[1]] = "cancelled")
        /\ poll' \in [Procs -> SUBSET Update] /\ \A q \in Procs : poll'[q] \subseteq poll[q]
        /\ rec' \in Record /\ rec'.act = rec.act /\ rec'.ref = rec.ref
        /\ rec'.bound = rec.bound /\ rec'.lease = rec.lease
        /\ \/ rec' = rec
           \/ /\ rec.state = "awaitingApprovals" /\ rec'.state = "readyForSubmission"
              /\ rec'.pkg = u[1]
           \/ /\ rec.state \in Active /\ rec'.pkg = rec.pkg
              /\ \/ rec'.state = "cancelled" /\ u[2] = "cancelled"
                 \/ rec'.state = "unresolvable"
  BY UpdateFacts
<1>2. StateOK'
  BY <1>a, <1>1 DEF StateOK, remoteVars
<1>3. CASE /\ rec'.pkg = rec.pkg
           /\ \/ rec'.state = rec.state
              \/ rec.state \in Active /\ rec'.state \in {"cancelled", "unresolvable"}
  <2>1. Quiet
    BY <1>a, <1>1, <1>3 DEF Quiet, remoteVars, Terminal
  <2> QED
    BY <1>2, <2>1, QuietStep
<1>4. CASE /\ rec.state = "awaitingApprovals" /\ rec'.state = "readyForSubmission"
           /\ rec'.pkg = u[1]
  <2>1. OneCallAtATime'
    BY <1>a DEF OneCallAtATime
  <2>2. LeaseInv'
    BY <1>a, <1>1, <1>4 DEF LeaseInv
  <2>3. BindingInv'
    BY <1>a, <1>1, <1>4 DEF BindingInv
  <2>4. WithdrawnInv'
    BY <1>a, <1>1, <1>4 DEF WithdrawnInv, Terminal, remoteVars
  <2> QED
    BY <1>2, <2>1, <2>2, <2>3, <2>4 DEF BridgeInv, CallInv, BindingInv, RetriesAreIdentical, Conflict
<1> QED
  BY <1>1, <1>3, <1>4

LEMMA PurgeStep ==
  ASSUME BridgeInv, NEW p \in Procs, PurgeResults(p)
  PROVE  CallInv'
<1>a. /\ StateOK /\ OneCallAtATime /\ WithdrawnInv /\ rec' = [NoRecord EXCEPT !.state = "purged"]
      /\ UNCHANGED <<op, poll, stopped, remoteVars, cancels, faults>>
  BY DEF PurgeResults, Purge, BridgeInv, CallInv
<1>1. rec' \in Record /\ rec'.state = "purged"
  BY <1>a, NoRecordFacts DEF NoRecord, Record, Absent
<1>2. StateOK'
  BY <1>a, <1>1 DEF StateOK, remoteVars
<1>3. OneCallAtATime' /\ RetriesAreIdentical' /\ LeaseInv' /\ BindingInv'
  BY <1>a, <1>1 DEF OneCallAtATime, RetriesAreIdentical, LeaseInv, BindingInv
<1>4. WithdrawnInv'
  BY <1>a, <1>1 DEF WithdrawnInv, remoteVars
<1> QED
  BY <1>2, <1>3, <1>4 DEF BridgeInv, CallInv

-----------------------------------------------------------------------------
LEMMA BridgeInit == Init => BridgeInv
<1> SUFFICES ASSUME Init PROVE BridgeInv
  OBVIOUS
<1>1. 0 \in 0 .. MaxFaults
  BY BridgeAssumption
<1>2. NoEntry \in Entry
  BY NoRecordFacts DEF NoEntry, Entry
<1>3. StateOK
  BY <1>1, <1>2, NoRecordFacts, IdleFacts DEF Init, StateOK
<1>4. \A p \in Procs : op[p].at = "idle" /\ poll[p] = {}
  BY IdleFacts DEF Init
<1>5. rec.state = "none" /\ rec.bound = {}
  BY DEF Init, NoRecord
<1>6. SectionOK /\ \A p \in Procs : section[p].at = "none"
  <2>1. NoSection \in Section /\ NoSection.at = "none"
    BY StoreAssumption DEF NoSection, Section
  <2> QED
    BY <2>1 DEF Init, SectionOK
<1> QED
  BY <1>3, <1>4, <1>5, <1>6 DEF BridgeInv, CallInv, OneCallAtATime, RetriesAreIdentical, LeaseInv,
     BindingInv, WithdrawnInv, SectionInv, Claiming, Awaits, Replacing

LEMMA CallStep ==
  ASSUME BridgeInv, [Next]_vars
  PROVE  CallInv'
<1>1. CASE UNCHANGED vars
  <2>1. rec' = rec /\ op' = op /\ poll' = poll /\ stopped' = stopped /\ net' = net /\ ledger' = ledger
        /\ verdict' = verdict /\ coord' = coord /\ cancels' = cancels /\ faults' = faults
    BY <1>1 DEF vars, remoteVars
  <2> QED
    BY <2>1 DEF BridgeInv, CallInv, StateOK, OneCallAtATime, RetriesAreIdentical, LeaseInv,
       BindingInv, WithdrawnInv
<1>2. ASSUME NEW p \in Procs, Turn(p) PROVE CallInv'
  BY <1>2, ProposeStep, AdvanceStep, InitialReturnsStep, CompletedReturnsStep, ReplaceStep,
     ExpireStep, ApplyUpdateStep, FailureStep, PollStep, PollFailsStep, PurgeStep, ExitStep, LifeStep
     DEF Turn, Returns, Observed
<1>3. ASSUME NEW p \in Procs, Sectional(p) \/ CoordinationCreates(p) \/ Crash(p) PROVE CallInv'
  BY <1>3, SectionalStep, CoordinationCreatesStep, ExitStep
<1>4. ASSUME NEW q \in net, VerifierReceives(q) PROVE CallInv'
  BY <1>4, VerifierReceivesStep
<1>5. ASSUME NEW a \in Actions, VerifierFinishes(a) \/ CoordinationDecides(a) PROVE CallInv'
  BY <1>5, RemoteStep
<1>6. CASE EnvelopeExpires \/ LeaseExpires
  BY <1>6, ClockStep
<1> QED
  BY <1>1, <1>2, <1>3, <1>4, <1>5, <1>6 DEF Next, Sectional

-----------------------------------------------------------------------------
\* A process that is between two transactions does nothing else, and what the
\* others do leaves its lane where it was.
LEMMA TurnLanes ==
  ASSUME StateOK, NEW p \in Procs, Turn(p)
  PROVE  \A q \in Procs \ {p} : op'[q] = op[q]
<1>a. op \in [Procs -> Lane]
  BY DEF StateOK
<1>0. op' = op \/ \E x : op' = [op EXCEPT ![p] = x]
  <2>1. CASE Propose(p) \/ Observed(p) \/ Poll(p) \/ PollFails(p) \/ PurgeResults(p) \/ Stop(p)
    BY <2>1 DEF Propose, Observed, ExpireOverdue, ApplyUpdate, Poll, PollFails, PurgeResults, Stop
  <2>2. CASE Stopped(p) \/ Restart(p)
    BY <2>2 DEF Stopped, Exit, Restart, Finish
  <2>3. CASE CallFails(p) \/ ReplaceFails(p) \/ CreateFails(p)
    BY <2>3 DEF CallFails, ReplaceFails, CreateFails, Unreachable, PermanentFailure, Finish
  <2>4. CASE Returns(p)
    BY <2>4 DEF Returns, InitialReturns, CompletedReturns, Replace, Finish, AwaitReplacement, StartCreating
  <2>5. CASE Advance(p)
    BY <2>5 DEF Advance, SubmitCompleted, Submit, SubmitActionRequest, StartCreating
  <2> QED
    BY <2>1, <2>2, <2>3, <2>4, <2>5 DEF Turn
<1> QED
  BY <1>a, <1>0

\* Where a step leaves the sections: only p's own steps move p.
LEMMA SectionStep ==
  ASSUME BridgeInv, [Next]_vars
  PROVE  SectionInv'
<1>a. StateOK /\ SectionOK /\ SectionInv /\ rec \in Record /\ op \in [Procs -> Lane]
  BY TypeParts DEF BridgeInv, SectionInv
<1>b. NoSection \in Section /\ NoSection.at = "none"
  BY StoreAssumption DEF NoSection, Section
<1>1. ASSUME UNCHANGED sectionVars,
             \A q \in Procs : section[q].at # "none" => op'[q].at = op[q].at /\ op'[q].key = op[q].key
      PROVE  SectionInv'
  BY <1>a, <1>1 DEF SectionInv, SectionOK, sectionVars
<1>2. ASSUME NEW p \in Procs, NEW x \in Section, section' = [section EXCEPT ![p] = x],
             untold' \in BOOLEAN, \A q \in Procs \ {p} : op'[q] = op[q],
             x.at \in {"saved", "confirming"} => op'[p].at = "creating" /\ x.act = op'[p].key,
             x.at = "telling" => x.act # 0
      PROVE  SectionInv'
  <2>1. /\ section' \in [Procs -> Section] /\ section'[p] = x
        /\ \A q \in Procs \ {p} : section'[q] = section[q]
    BY <1>a, <1>2 DEF SectionOK
  <2> QED
    BY <1>a, <1>2, <2>1 DEF SectionInv, SectionOK
<1>3. CASE UNCHANGED vars
  BY <1>1, <1>3 DEF vars
<1>4. ASSUME NEW p \in Procs, Turn(p) PROVE SectionInv'
  <2>1. UNCHANGED sectionVars /\ section[p].at = "none"
    BY <1>4 DEF Turn, Alone
  <2>2. \A q \in Procs \ {p} : op'[q] = op[q]
    BY <1>a, <1>4, TurnLanes
  <2> QED
    BY <1>1, <2>1, <2>2
<1>5. ASSUME NEW p \in Procs, CoordinationCreates(p) PROVE SectionInv'
  <2>1. op' = [op EXCEPT ![p].reply = "created"] /\ UNCHANGED sectionVars
    BY <1>5 DEF CoordinationCreates
  <2> QED
    BY <1>a, <1>1, <2>1, ReplyFacts
<1>6. ASSUME NEW q \in net, VerifierReceives(q) PROVE SectionInv'
  <2>1. PICK result \in {"aar", "pending", "executed", "rejected", "replay"} : Arrives(q, result)
    BY <1>6 DEF VerifierReceives, Arrives
  <2>2. q \in Request /\ UNCHANGED sectionVars
    BY <1>a, <1>6 DEF StateOK, VerifierReceives
  <2> QED
    BY <1>a, <1>1, <2>1, <2>2, AnswerArrives
<1>7. CASE (\E a \in Actions : VerifierFinishes(a) \/ CoordinationDecides(a)) \/ EnvelopeExpires \/ LeaseExpires
  <2>1. UNCHANGED sectionVars /\ op' = op
    BY <1>7 DEF VerifierFinishes, CoordinationDecides, EnvelopeExpires, LeaseExpires
  <2> QED
    BY <1>1, <2>1
<1>8. ASSUME NEW p \in Procs, Crash(p) PROVE SectionInv'
  <2>1. op' = [op EXCEPT ![p] = Off] /\ section' = [section EXCEPT ![p] = NoSection] /\ untold' \in BOOLEAN
    BY <1>a, <1>8 DEF Crash, Exit, Leave, SectionOK
  <2> QED
    BY <1>2, <1>a, <1>b, <2>1
<1>9. ASSUME NEW p \in Procs, Sectional(p) PROVE SectionInv'
  <2>a. /\ \A q \in Procs \ {p} : op'[q] = op[q]
        /\ section[p].act \in 0 .. MaxActions
        /\ op[p].key \in 0 .. MaxActions /\ op[p].key # 0
        /\ rec.act \in 0 .. MaxActions /\ 0 \in 0 .. MaxActions
    BY <1>a, <1>9, SectionalFacts, StoreAssumption
       DEF Finish, SectionOK, Section, Lane, Record, Actions
  <2>b. untold' \in BOOLEAN
    BY <1>a, <1>9 DEF Sectional, GoesOn, CreateSaves, CreateLooks, CreateConfirms, CancelReads,
       CancelWrites, Tell, SectionOK
  <2>1. CASE Leave(p)
    BY <1>2, <1>b, <2>1, <2>a, <2>b DEF Leave
  <2>2. ASSUME NEW at \in {"none", "cancelling", "saved", "confirming", "telling"},
               NEW act \in 0 .. MaxActions, Enter(p, at, act), at = "telling" => act # 0,
               at \in {"saved", "confirming"} => op' = op /\ op[p].at = "creating" /\ act = op[p].key
        PROVE  SectionInv'
    <3> DEFINE x == [at |-> at, act |-> act]
    <3>1. x \in Section /\ x.at = at /\ x.act = act
      BY DEF Section
    <3>2. section' = [section EXCEPT ![p] = x]
      BY <2>2 DEF Enter
    <3> HIDE DEF x
    <3> QED
      BY <1>2, <2>2, <2>a, <2>b, <3>1, <3>2
  <2>3. CASE CreateSaves(p)
    BY <2>2, <2>3, <2>a DEF CreateSaves
  <2>4. CASE CreateLooks(p)
    <3>1. op[p].at = "creating" /\ section[p].act = op[p].key
      BY <1>a, <2>4 DEF CreateLooks, SectionInv
    <3> QED
      BY <2>1, <2>2, <2>4, <2>a, <3>1 DEF CreateLooks
  <2>5. CASE CreateConfirms(p) \/ Tell(p)
    BY <2>1, <2>5 DEF CreateConfirms, Tell
  <2>6. CASE CancelReads(p)
    BY <2>2, <2>6, <2>a DEF CancelReads
  <2>7. CASE CancelWrites(p)
    BY <2>1, <2>2, <2>7, <2>a DEF CancelWrites
  <2> QED
    BY <1>9, <2>3, <2>4, <2>5, <2>6, <2>7 DEF Sectional, GoesOn
<1> QED
  BY <1>3, <1>4, <1>5, <1>6, <1>7, <1>8, <1>9 DEF Next, Sectional

LEMMA BridgeStep ==
  ASSUME BridgeInv, [Next]_vars
  PROVE  BridgeInv'
<1>1. CallInv' /\ SectionInv'
  BY CallStep, SectionStep
<1> QED
  BY <1>1 DEF BridgeInv

\* However many processes share the store and however they crash, stop and
\* race: the record keeps its type, at most one process awaits a remote call
\* for the Task, and a resumed Task submits the package its key was bound to.
THEOREM CallsExcludeEachOther == Spec => []WorkflowInv
<1>1. BridgeInv => WorkflowInv
  BY DEF BridgeInv, CallInv, SectionInv, WorkflowInv, TypeOK
<1> QED
  BY <1>1, BridgeInit, BridgeStep, PTL DEF Spec

-----------------------------------------------------------------------------
\* The record of a Task that has ended keeps its outcome and its Action until it
\* is purged; a reference to that Action may still be saved.
Kept ==
  /\ rec'.state = rec.state /\ rec'.result = rec.result /\ rec'.act = rec.act
  /\ rec'.ref = rec.ref \/ \E p \in Procs : CreateSaves(p)

LEMMA EndedStep ==
  ASSUME BridgeInv, [Next]_vars, rec.state \in Terminal, rec'.state # "purged"
  PROVE  Kept
<1>a. rec \in Record /\ rec.state \notin Active /\ rec.state \notin Absent
  BY TypeParts DEF Terminal, Active, Absent
<1>b. \A kind, result : ResolveWorkflow(rec, kind, result) = rec
  BY <1>a DEF ResolveWorkflow
<1>c. \A from \in Active : \A to : CompareAndSetState(rec, from, to) = rec
  BY <1>a DEF CompareAndSetState
<1>d. {"created", "submittingToVerifier", "submittingToCoordination"} \subseteq Active
  BY DEF Active
<1>1. CASE rec' = rec
  BY <1>1 DEF Kept
<1>2. CASE UNCHANGED vars \/ (\E q \in net : VerifierReceives(q))
           \/ (\E a \in Actions : VerifierFinishes(a) \/ CoordinationDecides(a))
  BY <1>1, <1>2 DEF vars, VerifierReceives, VerifierFinishes, CoordinationDecides
<1>3. CASE EnvelopeExpires \/ LeaseExpires
  BY <1>a, <1>3 DEF EnvelopeExpires, LeaseExpires, Record, Kept
<1>4. ASSUME NEW p \in Procs, Returns(p) PROVE Kept
  <2>1. CASE InitialReturns(p) \/ CompletedReturns(p)
    BY <1>a, <1>1, <2>1 DEF InitialReturns, CompletedReturns
  <2>2. CASE Replace(p)
    BY <1>a, <1>b, <1>d, <1>1, <2>2 DEF Replace
  <2> QED
    BY <1>4, <2>1, <2>2 DEF Returns
<1>5. ASSUME NEW p \in Procs, Crash(p) \/ Stopped(p) \/ Stop(p) \/ Restart(p)
      PROVE  Kept
  <2>1. rec' = rec \/ rec' = [rec EXCEPT !.lease = Gone]
    BY <1>5 DEF Crash, Stopped, Stop, Restart, Exit
  <2> QED
    BY <1>a, <2>1 DEF Record, Kept
<1>6. ASSUME NEW p \in Procs, Propose(p) \/ Advance(p) \/ Observed(p)
      PROVE  Kept
  <2>1. ~Propose(p) /\ ~Advance(p) /\ ~ExpireOverdue(p)
    BY <1>a DEF Propose, Advance, ExpireOverdue, Claimable, Absent
  <2> QED
    BY <1>a, <1>1, <1>6, <2>1 DEF Observed, ApplyUpdate
<1>7. ASSUME NEW p \in Procs,
             \/ CallFails(p) \/ ReplaceFails(p) \/ CreateFails(p)
             \/ Poll(p) \/ PollFails(p) \/ PurgeResults(p)
      PROVE  Kept
  <2>1. ~PurgeResults(p) /\ ~PollFails(p)
    BY <1>a, <1>d DEF PurgeResults, Purge, NoRecord, PollFails, Active
  <2> QED
    BY <1>b, <1>c, <1>d, <1>1, <1>7, <2>1 DEF CallFails, ReplaceFails, CreateFails, Poll, Unreachable,
       PermanentFailure
<1>8. ASSUME NEW p \in Procs, CoordinationCreates(p) PROVE Kept
  BY <1>1, <1>8 DEF CoordinationCreates
<1>9. ASSUME NEW p \in Procs, Sectional(p) PROVE Kept
  <2>1. CASE CreateSaves(p)
    BY <1>a, <2>1 DEF CreateSaves, Record, Kept
  <2>2. CASE ~CreateSaves(p)
    <3>1. CancelWorkflow(rec) = rec
          /\ CompareAndSetState(rec, "submittingToCoordination", "awaitingApprovals") = rec
      BY <1>b, <1>c, <1>d DEF CancelWorkflow
    <3> QED
      BY <1>1, <1>9, <2>2, <3>1 DEF Sectional, GoesOn, CreateLooks, CreateConfirms, CancelReads,
         CancelWrites, Tell
  <2> QED
    BY <2>1, <2>2
<1> QED
  BY <1>2, <1>3, <1>4, <1>5, <1>6, <1>7, <1>8, <1>9 DEF Next, Turn, Sectional

\* The first terminal outcome wins: tasks/get and the compatibility tools tell
\* it to every later reader, whichever of cancellation, expiry, an update or a
\* late response comes second.
THEOREM FirstOutcomeWins == Spec => OutcomeIsFinal
<1> DEFINE Same == rec.state \in Terminal /\ rec'.state # "purged" =>
                     /\ GetTaskResult(rec') = GetTaskResult(rec)
                     /\ CompatibilityResult(rec') = CompatibilityResult(rec)
<1>1. ASSUME BridgeInv, [Next]_vars PROVE Same
  <2> SUFFICES ASSUME rec.state \in Terminal, rec'.state # "purged"
               PROVE  /\ GetTaskResult(rec') = GetTaskResult(rec)
                      /\ CompatibilityResult(rec') = CompatibilityResult(rec)
    OBVIOUS
  <2>1. rec'.state = rec.state /\ rec'.result = rec.result
    BY <1>1, EndedStep DEF Kept
  <2>2. rec.state \notin Active
    BY DEF Terminal, Active
  <2> QED
    BY <2>1, <2>2 DEF GetTaskResult, CompatibilityResult
<1>2. BridgeInv /\ [Next]_vars => [Same]_vars
  BY <1>1
<1> HIDE DEF Same
<1>3. Spec => [][Same]_vars
  BY <1>2, BridgeInit, BridgeStep, PTL DEF Spec
<1> QED
  BY <1>3 DEF OutcomeIsFinal, Same

-----------------------------------------------------------------------------
\* Sections move by their own steps and by crashes; Coordination's withdrawals
\* and what was told stay.
LEMMA HistoryFacts ==
  ASSUME BridgeInv, [Next]_vars
  PROVE  /\ \A a \in Actions : coord[a] = "cancelled" => coord'[a] = "cancelled"
         /\ cancels \subseteq cancels'
         /\ UNCHANGED sectionVars \/ \E p \in Procs : Sectional(p) \/ Crash(p)
<1>a. StateOK /\ rec \in Record
  BY TypeParts
<1>1. CASE UNCHANGED <<coord, cancels, sectionVars>>
  BY <1>1
<1>2. ASSUME NEW p \in Procs, Turn(p) PROVE UNCHANGED <<coord, cancels, sectionVars>>
  BY <1>2 DEF Turn, Alone, Propose, Advance, Returns, InitialReturns, CompletedReturns, Replace,
     Observed, ExpireOverdue, ApplyUpdate, CallFails, ReplaceFails, CreateFails, Poll, PollFails,
     PurgeResults, Stop, Stopped, Exit, Restart, remoteVars
<1>3. ASSUME NEW p \in Procs, CoordinationCreates(p)
      PROVE  /\ \A a \in Actions : coord[a] = "cancelled" => coord'[a] = "cancelled"
             /\ UNCHANGED <<cancels, sectionVars>>
  BY <1>a, <1>3 DEF CoordinationCreates, StateOK
<1>4. ASSUME NEW p \in Procs, Crash(p) PROVE UNCHANGED <<coord, cancels>>
  BY <1>4 DEF Crash, Exit
<1>5. ASSUME NEW p \in Procs, Sectional(p)
      PROVE  /\ \A a \in Actions : coord[a] = "cancelled" => coord'[a] = "cancelled"
             /\ cancels \subseteq cancels'
  BY <1>a, <1>5, SectionalFacts, CancelActionFacts
<1>6. ASSUME NEW q \in net, VerifierReceives(q) PROVE UNCHANGED <<coord, cancels, sectionVars>>
  BY <1>6 DEF VerifierReceives
<1>7. ASSUME NEW b \in Actions, VerifierFinishes(b) \/ CoordinationDecides(b)
      PROVE  /\ \A a \in Actions : coord[a] = "cancelled" => coord'[a] = "cancelled"
             /\ UNCHANGED <<cancels, sectionVars>>
  BY <1>a, <1>7 DEF VerifierFinishes, CoordinationDecides, StateOK
<1>8. CASE UNCHANGED vars \/ EnvelopeExpires \/ LeaseExpires
  BY <1>1, <1>8 DEF vars, EnvelopeExpires, LeaseExpires, remoteVars
<1> QED
  BY <1>1, <1>2, <1>3, <1>4, <1>5, <1>6, <1>7, <1>8 DEF Next, Sectional

\* A Task is cancelled by cancel, or by an update that Coordination sent of an
\* Action it has withdrawn.
LEMMA BecomesCancelled ==
  ASSUME BridgeInv, [Next]_vars, rec.state # "cancelled", rec'.state = "cancelled"
  PROVE  (\E p \in Procs : CancelWrites(p)) \/ (\E a \in Actions : coord[a] = "cancelled")
<1>a. rec \in Record
  BY TypeParts
<1>b. /\ \A r \in Record : ResolveWorkflow(r, "unresolvable", "error").state \in {r.state, "unresolvable"}
      /\ \A r \in Record : \A result : ResolveWorkflow(r, "resolved", result).state \in {r.state, "resolved"}
  BY DEF ResolveWorkflow, Record
<1>c. \A r \in Record : \A from : \A to \in Active : CompareAndSetState(r, from, to).state \in {r.state, to}
  BY DEF CompareAndSetState, Record
<1>d. /\ {"awaitingVerifierResult", "readyForSubmission", "submittingToVerifier",
          "awaitingApprovals"} \subseteq Active
      /\ "cancelled" \notin Active
  BY DEF Active
<1>1. ASSUME rec'.state \in {rec.state} \cup (Active \cup {"resolved", "unresolvable", "purged"})
      PROVE  FALSE
  BY <1>1, <1>d
<1>2. ASSUME NEW p \in Procs, Returns(p) PROVE FALSE
  <2>1. CASE InitialReturns(p) \/ CompletedReturns(p)
    BY <1>a, <1>b, <1>c, <1>d, <1>1, <2>1 DEF InitialReturns, CompletedReturns
  <2>2. CASE Replace(p)
    <3>1. ReplaceAction(rec).state = "submittingToCoordination"
          /\ ClaimWorkflow(ReplaceAction(rec), p).state = "submittingToCoordination"
      BY DEF ReplaceAction, ClaimWorkflow
    <3> QED
      BY <1>a, <1>b, <1>1, <2>2, <3>1 DEF Replace, Active
  <2> QED
    BY <1>2, <2>1, <2>2 DEF Returns
<1>3. ASSUME NEW p \in Procs, Advance(p) PROVE FALSE
  <2> DEFINE r == ClaimWorkflow(rec, p)
             s == CompareAndSetState(r, "readyForSubmission", "submittingToVerifier")
  <2>1. r \in Record /\ r.state = rec.state
    BY <1>a, ClaimFacts
  <2>2. s \in Record /\ s.state \in {rec.state, "submittingToVerifier"}
    BY <1>d, <2>1, CompareAndSetFacts
  <2>3. ASSUME NEW x \in Record, x.state \in Active, NEW phase, NEW pkg, Submit(p, x, phase, pkg)
        PROVE  FALSE
    <3>1. [x EXCEPT !.bound = @ \cup {<<phase, pkg>>}].state = x.state
      BY DEF Record
    <3> QED
      BY <1>b, <1>1, <2>3, <3>1 DEF Submit
  <2>4. rec.state \in Active
    BY <1>3 DEF Advance, Claimable
  <2> HIDE DEF s
  <2>5. Submit(p, r, "initial", r.act) \/ rec' = r \/ Submit(p, s, "completed", CompletedPackage(r))
    BY <1>3 DEF Advance, SubmitCompleted, s
  <2> HIDE DEF r
  <2> QED
    BY <1>1, <1>d, <2>1, <2>2, <2>3, <2>4, <2>5
<1>4. ASSUME NEW p \in Procs, Propose(p) \/ ExpireOverdue(p) PROVE FALSE
  <2>1. ClaimWorkflow(rec, p) \in Record /\ ClaimWorkflow(rec, p).state = rec.state
    BY <1>a, ClaimFacts
  <2> QED
    BY <1>b, <1>1, <1>4, <2>1 DEF Propose, CreateWorkflow, NoRecord, ExpireOverdue
<1>5. ASSUME NEW p \in Procs, ApplyUpdate(p) PROVE \E a \in Actions : coord[a] = "cancelled"
  BY <1>5, UpdateFacts
<1>6. ASSUME NEW p \in Procs,
             \/ CallFails(p) \/ ReplaceFails(p) \/ CreateFails(p) \/ Poll(p) \/ PollFails(p)
             \/ PurgeResults(p) \/ Stop(p) \/ Stopped(p) \/ Restart(p) \/ Crash(p)
             \/ CoordinationCreates(p) \/ EnvelopeExpires \/ LeaseExpires
      PROVE  FALSE
  <2>1. \/ rec' = rec \/ rec' = ResolveWorkflow(rec, "unresolvable", "error")
        \/ rec' = CompareAndSetState(rec, "submittingToVerifier", "readyForSubmission")
        \/ \E lease : rec' = [rec EXCEPT !.lease = lease]
        \/ rec' = [rec EXCEPT !.overdue = TRUE]
        \/ rec'.state = "purged"
    BY <1>6 DEF CallFails, ReplaceFails, CreateFails, Unreachable, PermanentFailure, Poll, PollFails,
       PurgeResults, Purge, NoRecord, Stop, Stopped, Exit, Restart, Crash, CoordinationCreates,
       EnvelopeExpires, LeaseExpires
  <2>2. \/ rec'.state = rec.state
        \/ rec'.state \in {"unresolvable", "readyForSubmission", "purged"}
    BY <1>a, <1>b, <1>c, <1>d, <2>1 DEF Record
  <2> QED
    BY <1>1, <1>d, <2>2
<1>7. ASSUME NEW p \in Procs, Sectional(p), ~CancelWrites(p) PROVE FALSE
  <2>1. \/ rec' = rec \/ rec' = [rec EXCEPT !.ref = TRUE]
        \/ rec' = CompareAndSetState(rec, "submittingToCoordination", "awaitingApprovals")
    BY <1>7 DEF Sectional, GoesOn, CreateSaves, CreateLooks, CreateConfirms, CancelReads, Tell
  <2>2. rec'.state = rec.state \/ rec'.state = "awaitingApprovals"
    BY <1>a, <1>c, <1>d, <2>1 DEF Record
  <2> QED
    BY <1>1, <1>d, <2>2
<1>8. CASE UNCHANGED vars \/ (\E q \in net : VerifierReceives(q))
           \/ (\E a \in Actions : VerifierFinishes(a) \/ CoordinationDecides(a))
  BY <1>1, <1>8 DEF vars, VerifierReceives, VerifierFinishes, CoordinationDecides
<1>9. CASE EnvelopeExpires \/ LeaseExpires
  <2>1. rec'.state = rec.state
    BY <1>a, <1>9 DEF EnvelopeExpires, LeaseExpires, Record
  <2> QED
    BY <1>1, <2>1
<1> QED
  BY <1>2, <1>3, <1>4, <1>5, <1>6, <1>7, <1>8, <1>9 DEF Next, Turn, Observed, Sectional

LEMMA CancelStep ==
  ASSUME BridgeInv, CancelReachesCoordination, [Next]_vars
  PROVE  CancelReachesCoordination'
<1> DEFINE Teller(q) == section[q].at \in {"saved", "telling"} /\ section[q].act = rec.act
<1> SUFFICES ASSUME rec'.state = "cancelled", rec'.ref, ~untold'
             PROVE  \/ rec'.act \in cancels' \/ \E a \in Actions : coord'[a] = "cancelled"
                    \/ \E q \in Procs : section'[q].at \in {"saved", "telling"} /\ section'[q].act = rec'.act
  BY DEF CancelReachesCoordination
<1>a. /\ StateOK /\ rec \in Record /\ SectionInv /\ WithdrawnInv
      /\ section \in [Procs -> Section] /\ untold \in BOOLEAN
      /\ \A a \in Actions : coord[a] = "cancelled" => coord'[a] = "cancelled"
      /\ cancels \subseteq cancels'
  BY TypeParts, HistoryFacts DEF BridgeInv, CallInv, SectionInv, SectionOK
<1>b. rec.state = "cancelled" /\ rec.ref /\ ~untold =>
        \/ rec.act \in cancels \/ (\E a \in Actions : coord[a] = "cancelled")
        \/ \E q \in Procs : Teller(q)
  BY DEF CancelReachesCoordination
<1>c. "cancelled" \in Terminal /\ "cancelled" \notin Active \cup Absent
      /\ "purged" \notin Active \cup Terminal
  BY DEF Terminal, Active, Absent
\* The creator of the workflow saves the reference, and is to look next.
<1>1. ASSUME NEW p \in Procs, CreateSaves(p)
      PROVE  section'[p].at = "saved" /\ section'[p].act = rec'.act
  <2>1. op[p].at = "creating" /\ section'[p].at = "saved" /\ section'[p].act = op[p].key
    BY <1>a, <1>1 DEF CreateSaves, Enter
  <2>2. rec'.state = rec.state /\ rec'.act = rec.act
    BY <1>a, <1>1 DEF CreateSaves, Record
  <2>3. op[p].key = rec.act
    BY <1>a, <2>1, <2>2 DEF WithdrawnInv
  <2> QED
    BY <2>1, <2>2, <2>3
\* The Task is cancelled on what was read: either that is still so, or the one
\* who saved the reference has yet to look.
<1>2. ASSUME NEW p \in Procs, CancelWrites(p), rec.state \in Active
      PROVE  \E q \in Procs : section'[q].at \in {"saved", "telling"} /\ section'[q].act = rec'.act
  <2>1. rec'.act = rec.act /\ rec'.ref = rec.ref
    <3>1. "none" \in Results
      BY DEF Results
    <3> QED
      BY <1>a, <1>2, <1>c, <3>1, ResolveFacts DEF CancelWrites, CancelWorkflow
  <2>2. CASE section[p].act = rec.act
    <3>0. rec.act # 0
      BY <1>a DEF Record, Actions
    <3>1. section' = [section EXCEPT ![p] = [at |-> "telling", act |-> section[p].act]]
      BY <1>2, <2>2, <3>0 DEF CancelWrites, Enter
    <3>2. section'[p].at = "telling" /\ section'[p].act = rec.act
      BY <1>a, <2>2, <3>1
    <3> QED
      BY <2>1, <3>2
  <2>3. CASE section[p].act # rec.act
    <3>1. PICK q \in Procs : section[q].at = "saved"
      BY <1>2, <2>1, <2>3 DEF CancelWrites, ReadIsStale
    <3>2. q # p /\ section'[q] = section[q]
      BY <1>a, <1>2, <3>1 DEF CancelWrites, Enter, Leave
    <3>3. section[q].act = rec.act
      BY <1>a, <1>2, <1>c, <3>1 DEF SectionInv, WithdrawnInv
    <3> QED
      BY <2>1, <3>1, <3>2, <3>3
  <2> QED
    BY <2>2, <2>3
\* Otherwise a Task that is cancelled already stays as it is.
<1>3. ASSUME rec.state = "cancelled", rec'.ref = rec.ref
      PROVE  \/ rec'.act \in cancels' \/ \E a \in Actions : coord'[a] = "cancelled"
             \/ \E q \in Procs : section'[q].at \in {"saved", "telling"} /\ section'[q].act = rec'.act
  <2>1. rec'.act = rec.act
    BY <1>3, <1>c, EndedStep DEF Kept
  <2>2. CASE UNCHANGED sectionVars
    BY <1>a, <1>b, <1>3, <2>1, <2>2 DEF sectionVars
  <2>3. ASSUME NEW p \in Procs, Crash(p) PROVE ~untold /\ ~Teller(p) /\ \A q \in Procs \ {p} : section'[q] = section[q]
    BY <1>a, <1>3, <2>3 DEF Crash, Leave
  <2>4. ASSUME NEW p \in Procs, Sectional(p)
        PROVE  /\ ~untold /\ \A q \in Procs \ {p} : section'[q] = section[q]
               /\ Teller(p) => (rec.act \in cancels'
                               \/ (section'[p].at = "telling" /\ section'[p].act = rec.act))
    <3>1. ~untold /\ \A q \in Procs \ {p} : section'[q] = section[q]
      BY <1>a, <2>4 DEF Sectional, GoesOn, CreateSaves, CreateLooks, CreateConfirms, CancelReads,
         CancelWrites, Tell, Enter, Leave
    <3>2. ASSUME Teller(p), CreateLooks(p)
          PROVE  section'[p].at = "telling" /\ section'[p].act = rec.act
      <4>1. section' = [section EXCEPT ![p] = [at |-> "telling", act |-> section[p].act]]
        BY <1>3, <1>c, <3>2 DEF CreateLooks, Enter
      <4> QED
        BY <1>a, <3>2, <4>1
    <3>3. ASSUME Teller(p), Tell(p) PROVE rec.act \in cancels'
      BY <1>a, <1>3, <1>c, <3>3, CancelActionFacts DEF Tell
    <3>4. Teller(p) => CreateLooks(p) \/ Tell(p)
      BY <2>4 DEF Sectional, GoesOn, CreateSaves, CreateConfirms, CancelReads, CancelWrites
    <3> QED
      BY <3>1, <3>2, <3>3, <3>4
  <2>5. ASSUME NEW p \in Procs, Sectional(p) \/ Crash(p)
        PROVE  \/ rec'.act \in cancels' \/ \E a \in Actions : coord'[a] = "cancelled"
               \/ \E q \in Procs : section'[q].at \in {"saved", "telling"} /\ section'[q].act = rec'.act
    BY <1>a, <1>b, <1>3, <2>1, <2>3, <2>4, <2>5
  <2> QED
    BY <2>2, <2>5, HistoryFacts
<1> HIDE DEF Teller
<1>4. CASE \E p \in Procs : CreateSaves(p)
  BY <1>1, <1>4
<1>5. CASE rec.state = "cancelled" /\ ~ \E p \in Procs : CreateSaves(p)
  <2>1. rec'.ref = rec.ref
    BY <1>5, <1>c, EndedStep DEF Kept
  <2> QED
    BY <1>3, <1>5, <2>1
<1>6. CASE rec.state # "cancelled"
  <2>1. ASSUME NEW p \in Procs, CancelWrites(p) PROVE rec.state \in Active
    BY <1>6, <2>1 DEF CancelWrites, CancelWorkflow, ResolveWorkflow
  <2> QED
    BY <1>a, <1>2, <1>6, <2>1, BecomesCancelled
<1> QED
  BY <1>4, <1>5, <1>6

\* A cancelled Task whose workflow Coordination is known to have is cancelled
\* there too, or somebody is about to say so, also when the cancellation raced
\* the creation of the workflow - but for a cancellation that was decided on a
\* stale reading of the reference, and a teller that died.
THEOREM CancellationsArePassedOn == Spec => []CancelReachesCoordination
<1>1. Init => CancelReachesCoordination
  BY DEF Init, NoRecord, CancelReachesCoordination
<1>2. BridgeInv /\ CancelReachesCoordination /\ [Next]_vars => CancelReachesCoordination'
  <2> SUFFICES ASSUME BridgeInv, CancelReachesCoordination, [Next]_vars
               PROVE  CancelReachesCoordination'
    OBVIOUS
  <2> QED
    BY CancelStep
<1> QED
  BY <1>1, <1>2, BridgeInit, BridgeStep, PTL DEF Spec

-----------------------------------------------------------------------------
\* What makes the next Action a reached one, and what keeps it so.
LEMMA ReachedFacts ==
  ASSUME StateOK
  PROVE  /\ Reached(0) /\ Reached(1)
         /\ \A a \in Actions : Reached(a) /\ verdict[a] = "aar" => Reached(a + 1)
  BY DEF Reached, Actions

\* Most steps leave the verdicts alone, start no request and no replacement.
LEMMA OnceKeep ==
  ASSUME BridgeInv, OnceInv, UNCHANGED verdict, Reached(rec'.act), Reached(rec'.pkg),
         \A p \in Procs : op'[p].at \in Replacing =>
           rec'.state = "purged" \/ (rec'.act = rec.act /\ rec.state # "purged"),
         \A p \in Procs :
           \/ op'[p] = op[p]
           \/ /\ op'[p].at \in {"idle", "off", "creating"}
              /\ Reached(op'[p].key) /\ Reached(op'[p].pkg) /\ \A q \in net' : q.to # p,
         \A q \in net' : q \in net \/ (q.to = NoProc /\ \E o \in net : o.pkg = q.pkg),
         \A p \in Procs : \A u \in poll'[p] : u \in poll[p] \/ (u[1] \in Actions /\ coord[u[1]] # "none"),
         \A a \in Actions : coord'[a] # "none" => coord[a] # "none" \/ Reached(a),
         \A a \in Actions : ledger'[a].state # "none" => ledger[a].state # "none"
  PROVE  OnceInv'
<1> DEFINE R(x) == \A b \in Actions : b < x => verdict'[b] = "aar"
<1>a. StateOK /\ ReachedInv /\ AnswerInv
  BY DEF BridgeInv, CallInv, OnceInv
<1>b. \A x : Reached(x) => R(x)
  BY DEF Reached
<1>c. NoProc \notin Procs
  BY StoreAssumption
<1>1. ReachedInv'
  <2> SUFFICES /\ R(rec'.act) /\ R(rec'.pkg)
               /\ \A q \in net' : R(q.pkg)
               /\ \A p \in Procs : R(op'[p].key) /\ R(op'[p].pkg) /\ \A u \in poll'[p] : R(u[1])
               /\ \A a \in Actions : /\ coord'[a] # "none" => R(a)
                                     /\ ledger'[a].state # "none" => R(a) /\ verdict'[a] = "permit"
    BY DEF ReachedInv, Reached
  <2> HIDE DEF R
  <2>1. R(rec'.act) /\ R(rec'.pkg) /\ \A q \in net' : R(q.pkg)
    BY <1>a, <1>b DEF ReachedInv
  <2>2. ASSUME NEW p \in Procs PROVE R(op'[p].key) /\ R(op'[p].pkg) /\ \A u \in poll'[p] : R(u[1])
    BY <1>a, <1>b DEF ReachedInv
  <2>3. ASSUME NEW a \in Actions PROVE /\ coord'[a] # "none" => R(a)
                                       /\ ledger'[a].state # "none" => R(a) /\ verdict'[a] = "permit"
    BY <1>a, <1>b DEF ReachedInv
  <2> QED
    BY <2>1, <2>2, <2>3
<1>2. AnswerInv'
  <2>1. ASSUME NEW q \in net', q.to \in Procs
        PROVE  /\ op'[q.to].at \in {"initial", "completed"} /\ op'[q.to].reply = "none"
               /\ op'[q.to].key = q.key /\ op'[q.to].pkg = q.pkg
    BY <1>a, <1>c, <2>1 DEF AnswerInv
  <2>2. ASSUME NEW p \in Procs
        PROVE  /\ op'[p].at \in {"initial", "completed"} /\ op'[p].reply = "aar" => verdict'[op'[p].pkg] = "aar"
               /\ op'[p].at \in Replacing => /\ verdict'[op'[p].pkg] = "aar"
                                             /\ rec'.state = "purged" \/ op'[p].key = rec'.act
    BY <1>a DEF AnswerInv, Replacing
  <2> QED
    BY <2>1, <2>2 DEF AnswerInv
<1> QED
  BY <1>1, <1>2 DEF OnceInv

\* The record's Action and package stay, and a purged record stays purged.
Keeps ==
  rec'.act = rec.act /\ rec'.pkg = rec.pkg /\ (rec.state = "purged" => rec'.state = "purged")

LEMMA KeepsFacts ==
  ASSUME rec \in Record
  PROVE  /\ rec' = rec => Keeps
         /\ \A kind \in Terminal, result \in Results : rec' = ResolveWorkflow(rec, kind, result) => Keeps
         /\ \A from \in Active, to \in Active : rec' = CompareAndSetState(rec, from, to) => Keeps
<1>1. "purged" \notin Active
  BY DEF Active
<1>2. rec' = rec => Keeps
  BY DEF Keeps
<1>3. \A kind \in Terminal, result \in Results : rec' = ResolveWorkflow(rec, kind, result) => Keeps
  BY <1>1, ResolveFacts DEF Keeps
<1>4. \A from \in Active, to \in Active : rec' = CompareAndSetState(rec, from, to) => Keeps
  BY <1>1, CompareAndSetFacts DEF Keeps
<1> QED
  BY <1>2, <1>3, <1>4

LEMMA OnceParts ==
  ASSUME BridgeInv, OnceInv
  PROVE  /\ StateOK /\ rec \in Record /\ LeaseInv /\ ReachedInv /\ AnswerInv
         /\ Reached(rec.act) /\ Reached(rec.pkg)
         /\ \A p \in Procs : op[p] \in Lane /\ Reached(op[p].key) /\ Reached(op[p].pkg)
         /\ \A p \in Procs : op[p].at \notin {"initial", "completed"} \/ op[p].reply # "none" =>
              \A q \in net : q.to # p
  BY DEF BridgeInv, CallInv, OnceInv, ReachedInv, AnswerInv, StateOK

\* A lane ends or its process exits.
LEMMA OnceEnds ==
  ASSUME BridgeInv, OnceInv, NEW p \in Procs, Keeps,
         op' = [op EXCEPT ![p] = Idle] \/ op' = [op EXCEPT ![p] = Off],
         UNCHANGED <<ledger, verdict>>, \A q \in Procs : poll'[q] \subseteq poll[q],
         \A a \in Actions : coord'[a] # "none" => coord[a] # "none",
         \/ UNCHANGED net /\ (op[p].at \notin {"initial", "completed"} \/ op[p].reply # "none")
         \/ Abandon(p)
  PROVE  OnceInv'
<1>a. /\ StateOK /\ rec \in Record /\ Reached(rec.act) /\ Reached(rec.pkg) /\ Reached(1)
      /\ \A q \in Procs : op[q].at \notin {"initial", "completed"} \/ op[q].reply # "none" =>
              \A o \in net : o.to # q
  BY OnceParts, ReachedFacts
<1>1. /\ op'[p].at \in {"idle", "off"} /\ op'[p].key = 1 /\ op'[p].pkg = 1
      /\ \A q \in Procs \ {p} : op'[q] = op[q]
  BY <1>a, IdleFacts, LaneFacts
<1>2. \A q \in net' : q.to # p /\ (q \in net \/ (q.to = NoProc /\ \E o \in net : o.pkg = q.pkg))
  BY <1>a, AbandonFacts
<1> QED
  BY <1>a, <1>1, <1>2, OnceKeep DEF Keeps

\* The answer said that the Action needs more Approvals.
LEMMA OnceAwaits ==
  ASSUME BridgeInv, OnceInv, NEW p \in Procs, NEW at \in Replacing, AwaitReplacement(p, at),
         op[p].at \in {"initial", "completed"}, op[p].reply = "aar",
         UNCHANGED <<rec, poll, stopped, remoteVars, cancels, faults>>
  PROVE  OnceInv'
<1> DEFINE R(x) == \A b \in Actions : b < x => verdict'[b] = "aar"
<1>a. /\ StateOK /\ ReachedInv /\ AnswerInv /\ Reached(rec.act) /\ Reached(op[p].pkg)
      /\ \A q \in net : q.to # p
  BY OnceParts
<1>b. \A x : Reached(x) => R(x)
  BY DEF Reached, remoteVars
<1>c. /\ op'[p].at = at /\ op'[p].key = rec.act /\ op'[p].pkg = op[p].pkg
      /\ \A q \in Procs \ {p} : op'[q] = op[q]
  BY AwaitReplacementStep DEF Awaits
<1>d. UNCHANGED <<rec, poll, net, ledger, verdict, coord>>
  BY DEF remoteVars
<1>1. ReachedInv'
  <2> SUFFICES /\ R(rec'.act) /\ R(rec'.pkg)
               /\ \A q \in net' : R(q.pkg)
               /\ \A q \in Procs : R(op'[q].key) /\ R(op'[q].pkg) /\ \A u \in poll'[q] : R(u[1])
               /\ \A a \in Actions : /\ coord'[a] # "none" => R(a)
                                     /\ ledger'[a].state # "none" => R(a) /\ verdict'[a] = "permit"
    BY DEF ReachedInv, Reached
  <2> HIDE DEF R
  <2>1. \A q \in Procs : R(op'[q].key) /\ R(op'[q].pkg) /\ \A u \in poll'[q] : R(u[1])
    BY <1>a, <1>b, <1>c, <1>d DEF ReachedInv
  <2> QED
    BY <1>a, <1>b, <1>d, <2>1 DEF ReachedInv
<1>2. AnswerInv'
  BY <1>a, <1>c, <1>d DEF AnswerInv, Replacing
<1> QED
  BY <1>1, <1>2 DEF OnceInv

LEMMA OnceReturns ==
  ASSUME BridgeInv, OnceInv, NEW p \in Procs, InitialReturns(p) \/ CompletedReturns(p)
  PROVE  OnceInv'
<1>a. /\ rec \in Record /\ op[p].at \in {"initial", "completed"} /\ op[p].reply # "none"
      /\ UNCHANGED <<poll, stopped, remoteVars, cancels, faults>>
      /\ UNCHANGED <<ledger, verdict, poll, coord, net>>
  BY TypeParts DEF InitialReturns, CompletedReturns, remoteVars
<1>b. /\ {"resolved", "unresolvable"} \subseteq Terminal
      /\ {"executed", "rejected", "replay", "error"} \subseteq Results
      /\ {"created", "submittingToVerifier", "awaitingVerifierResult"} \subseteq Active
  BY DEF Terminal, Results, Active
<1>1. CASE op[p].reply = "aar" /\ UNCHANGED rec
           /\ (AwaitReplacement(p, "replacingCreated") \/ AwaitReplacement(p, "replacingSubmitted"))
  BY <1>a, <1>1, OnceAwaits DEF Replacing
<1>2. CASE Finish(p) /\ (rec' = rec \/ (\E from \in Active, to \in Active : rec' = CompareAndSetState(rec, from, to))
                          \/ (\E kind \in Terminal, result \in Results : rec' = ResolveWorkflow(rec, kind, result)))
  <2>1. Keeps
    BY <1>a, <1>2, KeepsFacts
  <2> QED
    BY <1>a, <1>2, <2>1, OnceEnds DEF Finish
<1> QED
  BY <1>b, <1>1, <1>2 DEF InitialReturns, CompletedReturns

LEMMA OnceFails ==
  ASSUME BridgeInv, OnceInv, NEW p \in Procs, CallFails(p) \/ ReplaceFails(p) \/ CreateFails(p)
  PROVE  OnceInv'
<1>a. /\ rec \in Record /\ UNCHANGED <<poll, stopped, ledger, verdict, coord, cancels>>
      /\ Finish(p)
      /\ \/ UNCHANGED net /\ op[p].at \notin {"initial", "completed"}
         \/ Abandon(p)
      /\ \/ rec' = rec
         \/ rec' = ResolveWorkflow(rec, "unresolvable", "error")
         \/ rec' = CompareAndSetState(rec, "submittingToVerifier", "readyForSubmission")
  BY TypeParts DEF CallFails, ReplaceFails, CreateFails, Unreachable, PermanentFailure, remoteVars, Replacing
<1>b. /\ "unresolvable" \in Terminal /\ "error" \in Results
      /\ "submittingToVerifier" \in Active /\ "readyForSubmission" \in Active
  BY DEF Terminal, Results, Active
<1>1. Keeps
  BY <1>a, <1>b, KeepsFacts
<1> QED
  BY <1>a, <1>1, OnceEnds DEF Finish

LEMMA OnceVerifier ==
  ASSUME BridgeInv, OnceInv, NEW q \in net, VerifierReceives(q)
  PROVE  OnceInv'
<1> DEFINE R(x) == \A b \in Actions : b < x => verdict'[b] = "aar"
<1>a. /\ StateOK /\ q \in Request /\ ReachedInv /\ AnswerInv
      /\ UNCHANGED <<rec, poll, stopped, coord, cancels, faults>> /\ net' = net \ {q}
      /\ q.pkg \in Actions
  BY TypeParts, OnceParts DEF VerifierReceives, Request
<1>1. PICK result \in {"aar", "pending", "executed", "rejected", "replay"} :
        Evaluate(q, result) /\ Arrives(q, result)
  BY DEF VerifierReceives, Arrives
<1>2. /\ \A a \in Actions : verdict[a] = "aar" => verdict'[a] = "aar"
      /\ \A a \in Actions : verdict[a] = "permit" => verdict'[a] = "permit"
      /\ result = "aar" => verdict'[q.pkg] = "aar"
      /\ \A a \in Actions : ledger'[a].state # "none" =>
           ledger[a].state # "none" \/ (a = q.pkg /\ verdict'[a] = "permit")
  BY <1>a, <1>1, EvaluateFacts
<1>3. \A p \in Procs : /\ op'[p].at = op[p].at /\ op'[p].key = op[p].key /\ op'[p].pkg = op[p].pkg
                       /\ op'[p].reply = IF p = q.to THEN result ELSE op[p].reply
  BY <1>a, <1>1, AnswerArrives
<1>b. \A x : Reached(x) => R(x)
  BY <1>2 DEF Reached
<1>4. ReachedInv'
  <2> SUFFICES /\ R(rec'.act) /\ R(rec'.pkg)
               /\ \A o \in net' : R(o.pkg)
               /\ \A p \in Procs : R(op'[p].key) /\ R(op'[p].pkg) /\ \A u \in poll'[p] : R(u[1])
               /\ \A a \in Actions : /\ coord'[a] # "none" => R(a)
                                     /\ ledger'[a].state # "none" => R(a) /\ verdict'[a] = "permit"
    BY DEF ReachedInv, Reached
  <2> HIDE DEF R
  <2>1. \A p \in Procs : R(op'[p].key) /\ R(op'[p].pkg) /\ \A u \in poll'[p] : R(u[1])
    BY <1>a, <1>b, <1>3 DEF ReachedInv
  <2>2. \A a \in Actions : /\ coord'[a] # "none" => R(a)
                           /\ ledger'[a].state # "none" => R(a) /\ verdict'[a] = "permit"
    BY <1>a, <1>b, <1>2 DEF ReachedInv
  <2> QED
    BY <1>a, <1>b, <2>1, <2>2 DEF ReachedInv
<1>5. AnswerInv'
  <2>1. ASSUME NEW o \in net', o.to \in Procs
        PROVE  /\ op'[o.to].at \in {"initial", "completed"} /\ op'[o.to].reply = "none"
               /\ op'[o.to].key = o.key /\ op'[o.to].pkg = o.pkg
    <3>1. o \in net /\ o # q /\ o \in Request
      BY <1>a, TypeParts
    <3>2. o.to # q.to
      <4> SUFFICES ASSUME o.to = q.to PROVE FALSE
        OBVIOUS
      <4>1. o.key = q.key /\ o.pkg = q.pkg
        BY <1>a, <2>1, <3>1 DEF AnswerInv
      <4> QED
        BY <1>a, <3>1, <4>1 DEF Request
    <3> QED
      BY <1>a, <1>3, <2>1, <3>1, <3>2 DEF AnswerInv
  <2>2. ASSUME NEW p \in Procs
        PROVE  /\ op'[p].at \in {"initial", "completed"} /\ op'[p].reply = "aar" => verdict'[op'[p].pkg] = "aar"
               /\ op'[p].at \in Replacing => /\ verdict'[op'[p].pkg] = "aar"
                                             /\ rec'.state = "purged" \/ op'[p].key = rec'.act
    <3>1. op[p].pkg \in Actions
      BY <1>a DEF StateOK, Lane
    <3>2. p = q.to => op[p].pkg = q.pkg
      BY <1>a DEF AnswerInv
    <3> QED
      BY <1>a, <1>2, <1>3, <3>1, <3>2 DEF AnswerInv
  <2> QED
    BY <2>1, <2>2 DEF AnswerInv
<1> QED
  BY <1>4, <1>5 DEF OnceInv

\* A claimed Task submits a reached package, or ends.
LEMMA OnceSubmits ==
  ASSUME BridgeInv, OnceInv, NEW p \in Procs, LaneFree(p), NEW r \in Record,
         r.act = rec.act, r.pkg = rec.pkg, r.state \in Active, rec.state \in Active,
         NEW phase \in Phases, NEW pkg \in Actions, Reached(pkg), Submit(p, r, phase, pkg),
         UNCHANGED <<poll, stopped, ledger, verdict, coord, cancels, faults>>
  PROVE  OnceInv'
<1>a. /\ StateOK /\ ReachedInv /\ AnswerInv /\ Reached(rec.act) /\ Reached(rec.pkg)
      /\ \A q \in net : q.to # p
  BY OnceParts DEF LaneFree
<1>1. CASE Conflict(r, phase, pkg)
  <2>1. "unresolvable" \in Terminal /\ "error" \in Results
    BY DEF Terminal, Results
  <2>2. rec' = ResolveWorkflow(r, "unresolvable", "error") /\ UNCHANGED <<op, net>>
    BY <1>1 DEF Submit
  <2>3. rec'.act = rec.act /\ rec'.pkg = rec.pkg
    BY <2>1, <2>2, ResolveFacts
  <2> QED
    BY <1>a, <2>2, <2>3, OnceKeep DEF Active
<1>2. CASE ~Conflict(r, phase, pkg)
  <2> DEFINE R(x) == \A b \in Actions : b < x => verdict'[b] = "aar"
             x == [at |-> phase, key |-> r.act, pkg |-> pkg, reply |-> "none"]
             y == [to |-> p, key |-> r.act, pkg |-> pkg]
  <2>b. \A z : Reached(z) => R(z)
    BY DEF Reached
  <2>1. rec' = [r EXCEPT !.bound = @ \cup {<<phase, pkg>>}] /\ SubmitActionRequest(p, phase, r.act, pkg)
    BY <1>2 DEF Submit
  <2>2. rec'.act = rec.act /\ rec'.pkg = rec.pkg /\ rec'.state \in Active /\ r.act \in Actions
    BY <2>1 DEF Record
  <2>3. /\ x \in Lane /\ x.at = phase /\ x.key = r.act /\ x.pkg = pkg /\ x.reply = "none"
        /\ y.to = p /\ y.key = r.act /\ y.pkg = pkg
    BY <2>2, CallFacts DEF Awaits, Phases
  <2>4. op' = [op EXCEPT ![p] = x] /\ net' = net \cup {y}
    BY <2>1 DEF SubmitActionRequest
  <2> HIDE DEF x, y
  <2>5. op'[p] = x /\ \A q \in Procs \ {p} : op'[q] = op[q]
    BY <1>a, <2>3, <2>4, LaneFacts
  <2>6. ReachedInv'
    <3> SUFFICES /\ R(rec'.act) /\ R(rec'.pkg)
                 /\ \A o \in net' : R(o.pkg)
                 /\ \A q \in Procs : R(op'[q].key) /\ R(op'[q].pkg) /\ \A u \in poll'[q] : R(u[1])
                 /\ \A a \in Actions : /\ coord'[a] # "none" => R(a)
                                       /\ ledger'[a].state # "none" => R(a) /\ verdict'[a] = "permit"
      BY DEF ReachedInv, Reached
    <3> HIDE DEF R
    <3>1. \A q \in Procs : R(op'[q].key) /\ R(op'[q].pkg) /\ \A u \in poll'[q] : R(u[1])
      BY <1>a, <2>b, <2>3, <2>5 DEF ReachedInv
    <3>2. \A o \in net' : R(o.pkg)
      BY <1>a, <2>b, <2>3, <2>4 DEF ReachedInv
    <3> QED
      BY <1>a, <2>b, <2>2, <3>1, <3>2 DEF ReachedInv
  <2>7. AnswerInv'
    <3>1. phase \in {"initial", "completed"} /\ phase \notin Replacing /\ rec.state # "purged"
      BY DEF Phases, Replacing, Active
    <3>2. ASSUME NEW o \in net', o.to \in Procs
          PROVE  /\ op'[o.to].at \in {"initial", "completed"} /\ op'[o.to].reply = "none"
                 /\ op'[o.to].key = o.key /\ op'[o.to].pkg = o.pkg
      BY <1>a, <2>3, <2>4, <2>5, <3>1, <3>2 DEF AnswerInv
    <3>3. ASSUME NEW q \in Procs
          PROVE  /\ op'[q].at \in {"initial", "completed"} /\ op'[q].reply = "aar" => verdict'[op'[q].pkg] = "aar"
                 /\ op'[q].at \in Replacing => /\ verdict'[op'[q].pkg] = "aar"
                                               /\ rec'.state = "purged" \/ op'[q].key = rec'.act
      BY <1>a, <2>2, <2>3, <2>5, <3>1 DEF AnswerInv
    <3> QED
      BY <3>2, <3>3 DEF AnswerInv
  <2> QED
    BY <2>6, <2>7 DEF OnceInv
<1> QED
  BY <1>1, <1>2

LEMMA OnceAdvances ==
  ASSUME BridgeInv, OnceInv, NEW p \in Procs, Advance(p)
  PROVE  OnceInv'
<1>a. /\ StateOK /\ rec \in Record /\ LaneFree(p) /\ rec.state \in Active
      /\ UNCHANGED <<poll, stopped, ledger, verdict, coord, cancels, faults>>
      /\ Reached(rec.act) /\ Reached(rec.pkg) /\ rec.act \in Actions
      /\ \A q \in net : q.to # p
  BY TypeParts, OnceParts DEF Advance, Claimable, Record, LaneFree
<1> DEFINE r == ClaimWorkflow(rec, p)
           s == CompareAndSetState(r, "readyForSubmission", "submittingToVerifier")
<1>1. r \in Record /\ r.act = rec.act /\ r.pkg = rec.pkg /\ r.state = rec.state
  BY <1>a, ClaimFacts
<1>2. \/ r.state = "created" /\ Submit(p, r, "initial", r.act)
      \/ rec' = r /\ StartCreating(p, r) /\ UNCHANGED net
      \/ Submit(p, s, "completed", CompletedPackage(r))
  BY DEF Advance, SubmitCompleted
<1> HIDE DEF r
<1>3. CASE r.state = "created" /\ Submit(p, r, "initial", r.act)
  <2>1. "initial" \in Phases
    BY DEF Phases
  <2> QED
    BY <1>a, <1>1, <1>3, <2>1, OnceSubmits
<1>4. CASE rec' = r /\ StartCreating(p, r) /\ UNCHANGED net
  <2> DEFINE x == [at |-> "creating", key |-> r.act, pkg |-> r.act, reply |-> "none"]
  <2>1. x \in Lane /\ x.at = "creating" /\ x.key = rec.act /\ x.pkg = rec.act
    BY <1>a, <1>1, CallFacts DEF Awaits
  <2>2. op' = [op EXCEPT ![p] = x]
    BY <1>4 DEF StartCreating
  <2> HIDE DEF x
  <2>3. op'[p] = x /\ \A q \in Procs \ {p} : op'[q] = op[q]
    BY <1>a, <2>1, <2>2, LaneFacts
  <2>4. rec.state # "purged"
    BY <1>a DEF Active
  <2> QED
    BY <1>a, <1>1, <1>4, <2>1, <2>3, <2>4, OnceKeep
<1>5. CASE Submit(p, s, "completed", CompletedPackage(r))
  <2>1. "completed" \in Phases /\ "submittingToVerifier" \in Active
    BY DEF Phases, Active
  <2>2. s \in Record /\ s.act = rec.act /\ s.pkg = rec.pkg
        /\ s.state = IF r.state = "readyForSubmission" THEN "submittingToVerifier" ELSE r.state
    BY <1>1, <2>1, CompareAndSetFacts
  <2> HIDE DEF s
  <2>3. CompletedPackage(r) \in Actions /\ Reached(CompletedPackage(r))
    BY <1>a, <1>1, StoreAssumption DEF CompletedPackage, Record, Actions
  <2> QED
    BY <1>a, <1>1, <1>5, <2>1, <2>2, <2>3, OnceSubmits
<1> QED
  BY <1>2, <1>3, <1>4, <1>5

\* The claim outlasts the signing: only the Action that was sent back is
\* replaced, and no other replacement is under way.
LEMMA OnceReplaces ==
  ASSUME SlowSigning = FALSE, BridgeInv, OnceInv, NEW p \in Procs, Replace(p)
  PROVE  OnceInv'
<1> DEFINE from == IF op[p].at = "replacingCreated" THEN "created" ELSE "submittingToVerifier"
           r == ReplaceAction(rec)
           ok == rec.state = from /\ op[p].pkg = op[p].key /\ rec.act < MaxActions
<1>a. /\ StateOK /\ rec \in Record /\ LeaseInv /\ AnswerInv /\ Reached(rec.act) /\ rec.act \in Actions
      /\ UNCHANGED <<poll, stopped, remoteVars, cancels, faults>>
      /\ UNCHANGED <<poll, stopped, net, ledger, verdict, coord, cancels>>
      /\ op[p].at \in Replacing /\ op[p].at \notin {"initial", "completed"}
      /\ \A q \in net : q.to # p
  BY TypeParts, OnceParts DEF Replace, remoteVars, Replacing, Record
<1>b. IF ok THEN IF p \notin stopped /\ Claimable(r, p)
                 THEN rec' = ClaimWorkflow(r, p) /\ StartCreating(p, r)
                 ELSE rec' = r /\ Finish(p)
      ELSE rec' = ResolveWorkflow(rec, "unresolvable", "error") /\ Finish(p)
  BY DEF Replace
<1>1. CASE ~ok
  <2>1. "unresolvable" \in Terminal /\ "error" \in Results
    BY DEF Terminal, Results
  <2>2. rec' = ResolveWorkflow(rec, "unresolvable", "error") /\ Finish(p)
    BY <1>b, <1>1
  <2>3. Keeps
    BY <1>a, <2>1, <2>2, KeepsFacts
  <2> QED
    BY <1>a, <2>2, <2>3, OnceEnds DEF Finish
<1>2. CASE ok
  <2>1. /\ r \in Record /\ r.act = rec.act + 1 /\ r.pkg = 0 /\ r.act \in Actions
    BY <1>2, <1>a, ReplaceFacts DEF Record
  <2>2. rec.state \in {"created", "submittingToVerifier"}
    BY <1>2
  <2>3. op[p].key = rec.act /\ verdict[rec.act] = "aar"
    BY <1>a, <1>2, <2>2 DEF AnswerInv
  <2>4. Reached(r.act) /\ Reached(r.pkg) /\ Reached(1)
    BY <1>a, <2>1, <2>3, ReachedFacts
  <2>5. \A q \in Procs \ {p} : op[q].at \notin Replacing
    BY <1>a, <2>2 DEF LeaseInv, Claiming
  <2> HIDE DEF r
  <2>6. CASE rec' = ClaimWorkflow(r, p) /\ StartCreating(p, r)
    <3> DEFINE x == [at |-> "creating", key |-> r.act, pkg |-> r.act, reply |-> "none"]
    <3>2. x \in Lane /\ x.at = "creating" /\ x.key = r.act /\ x.pkg = r.act
      BY <2>1, CallFacts DEF Awaits
    <3>3. op' = [op EXCEPT ![p] = x]
      BY <2>6 DEF StartCreating
    <3> HIDE DEF x
    <3>4. op'[p] = x /\ \A q \in Procs \ {p} : op'[q] = op[q]
      BY <1>a, <3>2, <3>3, LaneFacts
    <3>5. rec'.act = r.act /\ rec'.pkg = r.pkg
      BY <2>1, <2>6, ClaimFacts
    <3>6. "creating" \notin Replacing
      BY DEF Replacing
    <3>7. \A q \in Procs : op'[q].at \notin Replacing
      BY <2>5, <3>2, <3>4, <3>6
    <3> QED
      BY <1>a, <2>4, <3>2, <3>4, <3>5, <3>7, OnceKeep
  <2>7. CASE rec' = r /\ Finish(p)
    <3>1. /\ op'[p].at = "idle" /\ op'[p].key = 1 /\ op'[p].pkg = 1
          /\ \A q \in Procs \ {p} : op'[q] = op[q]
      BY <1>a, <2>7, IdleFacts, LaneFacts DEF Finish
    <3>2. "idle" \notin Replacing
      BY DEF Replacing
    <3>3. \A q \in Procs : op'[q].at \notin Replacing
      BY <2>5, <3>1, <3>2
    <3> QED
      BY <1>a, <2>4, <2>7, <3>1, <3>3, OnceKeep
  <2> QED
    BY <1>2, <1>b, <2>6, <2>7
<1> QED
  BY <1>1, <1>2

LEMMA OnceCreates ==
  ASSUME BridgeInv, OnceInv, NEW p \in Procs, CoordinationCreates(p)
  PROVE  OnceInv'
<1>a. /\ StateOK /\ op[p].at = "creating" /\ op[p].key \in Actions
      /\ Reached(rec.act) /\ Reached(rec.pkg) /\ Reached(op[p].key) /\ Reached(op[p].pkg)
      /\ UNCHANGED <<rec, poll, stopped, net, ledger, verdict, faults>>
      /\ \A q \in net : q.to # p
  BY TypeParts, OnceParts DEF CoordinationCreates, Lane
<1>1. /\ \A q \in Procs \ {p} : op'[q] = op[q]
      /\ op'[p].at = op[p].at /\ op'[p].key = op[p].key /\ op'[p].pkg = op[p].pkg
  BY <1>a, ReplyFacts DEF CoordinationCreates
<1>2. \A a \in Actions : coord'[a] # "none" => coord[a] # "none" \/ a = op[p].key
  BY <1>a DEF CoordinationCreates, StateOK
<1>3. \A a \in Actions : coord'[a] # "none" => coord[a] # "none" \/ Reached(a)
  BY <1>a, <1>2
<1> QED
  BY <1>a, <1>1, <1>3, OnceKeep

LEMMA OnceSections ==
  ASSUME BridgeInv, OnceInv, NEW p \in Procs, Sectional(p)
  PROVE  OnceInv'
<1>a. /\ StateOK /\ rec \in Record /\ Reached(rec.act) /\ Reached(rec.pkg) /\ Reached(1)
      /\ UNCHANGED <<poll, stopped, net, ledger, verdict, faults>>
  BY TypeParts, OnceParts, ReachedFacts, SectionalFacts
<1>1. \A a \in Actions : coord'[a] # "none" => coord[a] # "none"
  BY <1>a, SectionalFacts, CancelActionFacts
<1>2. Keeps
  <2>1. CASE rec' = rec \/ (rec.state \notin Absent /\ rec' = [rec EXCEPT !.ref = TRUE])
    BY <1>a, <2>1 DEF Record, Keeps
  <2>2. CASE rec' = ResolveWorkflow(rec, "cancelled", "none")
    <3>1. "cancelled" \in Terminal /\ "none" \in Results
      BY DEF Terminal, Results
    <3> QED
      BY <1>a, <2>2, <3>1, KeepsFacts
  <2>3. CASE rec' = CompareAndSetState(rec, "submittingToCoordination", "awaitingApprovals")
    <3>1. "awaitingApprovals" \in Active
      BY DEF Active
    <3> QED
      BY <1>a, <2>3, <3>1, CompareAndSetFacts DEF Keeps
  <2> QED
    BY <1>a, <2>1, <2>2, <2>3, SectionalFacts DEF CancelWorkflow
<1>3. CASE op' = op
  BY <1>a, <1>1, <1>2, <1>3, OnceKeep DEF Keeps
<1>4. CASE section[p].at \in {"saved", "confirming"} /\ Finish(p)
  <2>1. op[p].at = "creating"
    BY <1>4 DEF BridgeInv, SectionInv
  <2> QED
    BY <1>a, <1>1, <1>2, <1>4, <2>1, OnceEnds DEF Finish
<1> QED
  BY <1>a, <1>3, <1>4, SectionalFacts

LEMMA OnceRecordOnly ==
  ASSUME BridgeInv, OnceInv, NEW p \in Procs,
         Propose(p) \/ ExpireOverdue(p) \/ PollFails(p) \/ PurgeResults(p) \/ Stop(p)
         \/ EnvelopeExpires \/ LeaseExpires
  PROVE  OnceInv'
<1>a. /\ StateOK /\ rec \in Record /\ LeaseInv /\ Reached(rec.act) /\ Reached(rec.pkg)
      /\ Reached(0) /\ Reached(1)
      /\ UNCHANGED <<op, poll, net, ledger, verdict>>
  BY OnceParts, ReachedFacts DEF Propose, ExpireOverdue, PollFails, PurgeResults, Stop,
     EnvelopeExpires, LeaseExpires, remoteVars
<1>1. \A a \in Actions : coord'[a] # "none" => coord[a] # "none"
  BY DEF Propose, ExpireOverdue, PollFails, PurgeResults, Stop, EnvelopeExpires, LeaseExpires, remoteVars
<1>b. "cancelled" \in Terminal /\ "unresolvable" \in Terminal /\ "none" \in Results /\ "error" \in Results
  BY DEF Terminal, Results
<1>2. CASE Propose(p)
  <2>1. rec.state = "none" /\ rec'.act = 1 /\ rec'.pkg = 0
    BY <1>2 DEF Propose, CreateWorkflow, NoRecord
  <2>2. \A q \in Procs : op'[q].at \notin Replacing
    BY <1>a, <2>1 DEF LeaseInv, Replacing
  <2> QED
    BY <1>a, <1>1, <2>1, <2>2, OnceKeep
<1>3. CASE PurgeResults(p)
  <2>1. rec'.state = "purged" /\ rec'.act = 1 /\ rec'.pkg = 0
    BY <1>3 DEF PurgeResults, Purge, NoRecord
  <2> QED
    BY <1>a, <1>1, <2>1, OnceKeep
<1>4. CASE Keeps
  BY <1>a, <1>1, <1>4, OnceKeep DEF Keeps
<1>5. CASE PollFails(p) \/ Stop(p)
  <2>1. rec' = rec \/ rec' = ResolveWorkflow(rec, "unresolvable", "error")
    BY <1>5 DEF PollFails, Stop
  <2>2. Keeps
    BY <1>a, <1>b, <2>1, KeepsFacts
  <2> QED
    BY <1>4, <2>2
<1>6. CASE EnvelopeExpires \/ LeaseExpires
  <2>1. Keeps
    BY <1>a, <1>6 DEF EnvelopeExpires, LeaseExpires, Record, Keeps
  <2> QED
    BY <1>4, <2>1
<1>7. CASE ExpireOverdue(p)
  <2>1. /\ ClaimWorkflow(rec, p) \in Record /\ ClaimWorkflow(rec, p).act = rec.act
        /\ ClaimWorkflow(rec, p).pkg = rec.pkg
    BY <1>a, ClaimFacts
  <2>2. rec' = ResolveWorkflow(ClaimWorkflow(rec, p), "unresolvable", "error") /\ rec.state # "purged"
    BY <1>7 DEF ExpireOverdue, Claimable, Active
  <2>3. rec'.act = rec.act /\ rec'.pkg = rec.pkg
    BY <1>b, <2>1, <2>2, ResolveFacts
  <2>4. Keeps
    BY <2>2, <2>3 DEF Keeps
  <2> QED
    BY <1>4, <2>4
<1> QED
  BY <1>2, <1>3, <1>5, <1>6, <1>7

LEMMA OncePolls ==
  ASSUME BridgeInv, OnceInv, NEW p \in Procs, Poll(p) \/ ApplyUpdate(p)
  PROVE  OnceInv'
<1>a. /\ StateOK /\ rec \in Record /\ ReachedInv /\ Reached(rec.act) /\ Reached(rec.pkg)
      /\ UNCHANGED <<op, net, ledger, verdict, coord>>
  BY OnceParts DEF Poll, ApplyUpdate, remoteVars
<1>1. CASE Poll(p)
  <2>1. \A q \in Procs : \A u \in poll'[q] :
          u \in poll[q] \/ (u[1] \in Actions /\ coord[u[1]] # "none")
    BY <1>1, PollStep
  <2>2. UNCHANGED rec
    BY <1>1 DEF Poll
  <2> QED
    BY <1>a, <2>1, <2>2, OnceKeep
<1>2. CASE ApplyUpdate(p)
  <2>1. PICK u \in poll[p] :
        /\ \A q \in Procs : poll'[q] \subseteq poll[q]
        /\ rec'.act = rec.act /\ rec'.pkg \in {rec.pkg, u[1]}
        /\ rec.state = "purged" => rec'.state = "purged"
    BY <1>2, UpdateFacts DEF Active
  <2>2. Reached(u[1])
    BY <1>a DEF ReachedInv
  <2> QED
    BY <1>a, <2>1, <2>2, OnceKeep
<1> QED
  BY <1>1, <1>2

LEMMA OnceLife ==
  ASSUME BridgeInv, OnceInv, NEW p \in Procs, Crash(p) \/ Stopped(p) \/ Restart(p)
  PROVE  OnceInv'
<1>a. /\ StateOK /\ rec \in Record /\ UNCHANGED <<ledger, verdict, coord>>
      /\ rec' = rec \/ rec' = [rec EXCEPT !.lease = Gone]
      /\ op' = [op EXCEPT ![p] = Idle] \/ op' = [op EXCEPT ![p] = Off]
      /\ \/ UNCHANGED net /\ op[p].at \notin {"initial", "completed"}
         \/ Abandon(p)
      /\ poll' = poll \/ poll' = [poll EXCEPT ![p] = {}]
  BY TypeParts DEF Crash, Stopped, Restart, Exit, Finish, remoteVars, LaneFree
<1>1. Keeps
  BY <1>a DEF Keeps, Record
<1>2. \A q \in Procs : poll'[q] \subseteq poll[q]
  BY <1>a DEF StateOK
<1> QED
  BY <1>a, <1>1, <1>2, OnceEnds

LEMMA OnceRemote ==
  ASSUME BridgeInv, OnceInv, NEW a \in Actions, VerifierFinishes(a) \/ CoordinationDecides(a)
  PROVE  OnceInv'
<1>a. /\ StateOK /\ Reached(rec.act) /\ Reached(rec.pkg)
      /\ UNCHANGED <<rec, op, poll, stopped, net, verdict, cancels, faults>>
  BY OnceParts DEF VerifierFinishes, CoordinationDecides
<1>1. \A b \in Actions : coord'[b] # "none" => coord[b] # "none"
  BY <1>a DEF VerifierFinishes, CoordinationDecides, StateOK
<1>2. \A b \in Actions : ledger'[b].state # "none" => ledger[b].state # "none"
  BY <1>a DEF VerifierFinishes, CoordinationDecides, StateOK, Entry
<1> QED
  BY <1>a, <1>1, <1>2, OnceKeep

LEMMA OnceInit == Init => OnceInv
<1> SUFFICES ASSUME Init PROVE OnceInv
  OBVIOUS
<1>1. StateOK
  BY BridgeInit DEF BridgeInv, CallInv
<1>2. Reached(0) /\ Reached(1)
  BY <1>1, ReachedFacts
<1>3. \A p \in Procs : op[p].at = "idle" /\ op[p].key = 1 /\ op[p].pkg = 1 /\ poll[p] = {}
  BY IdleFacts DEF Init
<1>4. rec.act = 1 /\ rec.pkg = 0 /\ net = {}
  BY DEF Init, NoRecord
<1>5. \A a \in Actions : coord[a] = "none" /\ ledger[a].state = "none"
  BY DEF Init, NoEntry
<1> QED
  BY <1>2, <1>3, <1>4, <1>5 DEF OnceInv, ReachedInv, AnswerInv, Replacing

LEMMA OnceStep ==
  ASSUME SlowSigning = FALSE, BridgeInv, OnceInv, [Next]_vars
  PROVE  OnceInv'
<1>1. CASE UNCHANGED vars
  <2>1. rec' = rec /\ op' = op /\ poll' = poll /\ net' = net /\ ledger' = ledger
        /\ verdict' = verdict /\ coord' = coord
    BY <1>1 DEF vars, remoteVars
  <2> QED
    BY <2>1 DEF OnceInv, ReachedInv, AnswerInv, Reached
<1>2. ASSUME NEW p \in Procs, Turn(p) PROVE OnceInv'
  BY <1>2, OnceAdvances, OnceReturns, OnceReplaces, OnceRecordOnly, OncePolls, OnceFails, OnceLife
     DEF Turn, Returns, Observed
<1>6. ASSUME NEW p \in Procs, Sectional(p) \/ CoordinationCreates(p) \/ Crash(p) PROVE OnceInv'
  BY <1>6, OnceSections, OnceCreates, OnceLife
<1>3. ASSUME NEW q \in net, VerifierReceives(q) PROVE OnceInv'
  BY <1>3, OnceVerifier
<1>4. ASSUME NEW a \in Actions, VerifierFinishes(a) \/ CoordinationDecides(a) PROVE OnceInv'
  BY <1>4, OnceRemote
<1>5. CASE EnvelopeExpires \/ LeaseExpires
  <2>1. CASE \E p \in Procs : TRUE
    BY <1>5, <2>1, OnceRecordOnly
  <2>2. CASE ~ \E p \in Procs : TRUE
    <3>1. /\ UNCHANGED <<net, ledger, verdict, coord>> /\ rec'.act = rec.act /\ rec'.pkg = rec.pkg
          /\ rec \in Record
      BY <1>5, TypeParts DEF EnvelopeExpires, LeaseExpires, remoteVars, Record
    <3>2. Reached(rec.act) /\ Reached(rec.pkg)
      BY OnceParts
    <3> QED
      BY <2>2, <3>1, <3>2, OnceKeep
  <2> QED
    BY <2>1, <2>2
<1> QED
  BY <1>1, <1>2, <1>3, <1>4, <1>5, <1>6 DEF Next, Sectional

\* Two executed Actions of one Task: the earlier one was sent back, so the
\* Verifier did not permit it.
LEMMA OnceIsEnough ==
  ASSUME StateOK, ReachedInv
  PROVE  ExecutedOnce
<1> DEFINE E == {a \in Actions : ledger[a].state # "none"}
<1>1. \A a, b \in E : a = b
  <2> SUFFICES ASSUME NEW a \in E, NEW b \in E, b < a PROVE FALSE
    BY DEF Actions
  <2>1. verdict[b] = "aar" /\ verdict[b] = "permit"
    BY DEF ReachedInv, Reached
  <2> QED
    BY <2>1
<1>2. CASE E = {}
  BY <1>2, FS_EmptySet DEF ExecutedOnce
<1>3. CASE E # {}
  <2>1. PICK a : a \in E
    BY <1>3
  <2>2. E = {a}
    BY <1>1, <2>1
  <2>3. Cardinality({a}) = 1
    BY FS_Singleton
  <2> QED
    BY <2>2, <2>3 DEF ExecutedOnce
<1> QED
  BY <1>2, <1>3

\* When signing a replacement never outlasts the lease, a Task executes at most
\* one of its Actions, whatever is lost, retried, crashed or raced.
THEOREM TaskExecutesOnce ==
  ASSUME SlowSigning = FALSE
  PROVE  Spec => []ExecutedOnce
<1>1. Init => BridgeInv /\ OnceInv
  BY BridgeInit, OnceInit
<1>2. BridgeInv /\ OnceInv /\ [Next]_vars => OnceInv'
  <2> SUFFICES ASSUME BridgeInv, OnceInv, [Next]_vars PROVE OnceInv'
    OBVIOUS
  <2> QED
    BY OnceStep
<1>3. BridgeInv /\ OnceInv => ExecutedOnce
  BY OnceIsEnough DEF BridgeInv, CallInv, OnceInv
<1> QED
  BY <1>1, <1>2, <1>3, BridgeStep, PTL DEF Spec

-----------------------------------------------------------------------------
(* The outcome is true.                                                    *)

\* What a step does to the state and the result in the record: a Task is
\* resolved only with an answer that a lane has received.
RecordStep ==
  \/ rec'.state = rec.state /\ rec'.result = rec.result
  \/ rec.state = "none" /\ rec'.state = "created"
  \/ rec.state \in Active /\ rec'.state \in Active \cup {"cancelled", "unresolvable"}
  \/ /\ rec.state \in Active /\ rec'.state = "resolved"
     /\ \E p \in Procs : /\ op[p].at \in {"initial", "completed"}
                         /\ op[p].reply \in {"executed", "rejected", "replay"}
                         /\ rec'.result = op[p].reply
  \/ rec.state \in Terminal /\ rec'.state = "purged"

LEMMA RecordFacts ==
  ASSUME rec \in Record
  PROVE  /\ rec' = rec => RecordStep
         /\ rec' = ResolveWorkflow(rec, "unresolvable", "error") => RecordStep
         /\ rec' = CancelWorkflow(rec) => RecordStep
         /\ \A from, to \in Active : rec' = CompareAndSetState(rec, from, to) => RecordStep
         /\ \A lease : rec' = [rec EXCEPT !.lease = lease] => RecordStep
<1>1. rec' = rec => RecordStep
  BY DEF RecordStep
<1>2. rec' = ResolveWorkflow(rec, "unresolvable", "error") => RecordStep
  BY DEF RecordStep, ResolveWorkflow, Record
<1>3. rec' = CancelWorkflow(rec) => RecordStep
  BY DEF RecordStep, ResolveWorkflow, CancelWorkflow, Record
<1>4. \A from, to \in Active : rec' = CompareAndSetState(rec, from, to) => RecordStep
  BY DEF RecordStep, CompareAndSetState, Record
<1>5. \A lease : rec' = [rec EXCEPT !.lease = lease] => RecordStep
  BY DEF RecordStep, Record
<1> QED
  BY <1>1, <1>2, <1>3, <1>4, <1>5

\* The record as a lane's answer leaves it.
LEMMA RecordReturns ==
  ASSUME BridgeInv, NEW p \in Procs, InitialReturns(p) \/ CompletedReturns(p)
  PROVE  RecordStep
<1>a. rec \in Record /\ {"created", "submittingToVerifier", "awaitingVerifierResult"} \subseteq Active
  BY TypeParts DEF Active
<1>1. op[p].at \in {"initial", "completed"}
  BY DEF InitialReturns, CompletedReturns
<1>2. CASE \/ rec' = rec \/ rec' = ResolveWorkflow(rec, "unresolvable", "error")
           \/ \E from, to \in Active : rec' = CompareAndSetState(rec, from, to)
  BY <1>a, <1>2, RecordFacts
<1>3. CASE /\ rec.state \in Active /\ op[p].reply \in {"executed", "rejected", "replay"}
           /\ rec' = ResolveWorkflow(rec, "resolved", op[p].reply)
  <2>1. rec'.state = "resolved" /\ rec'.result = op[p].reply
    BY <1>a, <1>3 DEF ResolveWorkflow, Record
  <2> QED
    BY <1>1, <1>3, <2>1 DEF RecordStep
<1> QED
  BY <1>a, <1>2, <1>3 DEF InitialReturns, CompletedReturns

LEMMA RecordAdvances ==
  ASSUME BridgeInv, NEW p \in Procs, Advance(p)
  PROVE  RecordStep
<1> DEFINE r == ClaimWorkflow(rec, p)
           s == CompareAndSetState(r, "readyForSubmission", "submittingToVerifier")
<1>a. rec \in Record /\ Claimable(rec, p) /\ rec.state \in Active
  BY TypeParts DEF Advance, Claimable
<1>1. r \in Record /\ r.state = rec.state
  BY <1>a, ClaimFacts
<1>2. \/ \E phase, pkg : Submit(p, r, phase, pkg)
      \/ rec' = r
      \/ \E phase, pkg : Submit(p, s, phase, pkg)
  BY DEF Advance, SubmitCompleted
<1>3. s \in Record /\ s.state \in Active
  BY <1>a, <1>1 DEF CompareAndSetState, Record, Active
<1>4. ASSUME NEW x \in Record, x.state \in Active, NEW phase, NEW pkg, Submit(p, x, phase, pkg)
      PROVE  rec'.state \in Active \cup {"unresolvable"}
  BY <1>4 DEF Submit, ResolveWorkflow, Record
<1> HIDE DEF r, s
<1>5. rec'.state \in Active \cup {"unresolvable"}
  BY <1>a, <1>1, <1>2, <1>3, <1>4
<1> QED
  BY <1>a, <1>5 DEF RecordStep

LEMMA RecordChanges ==
  ASSUME BridgeInv, [Next]_vars
  PROVE  RecordStep
<1>a. rec \in Record
  BY TypeParts
<1>1. CASE UNCHANGED vars \/ (\E q \in net : VerifierReceives(q))
           \/ (\E a \in Actions : VerifierFinishes(a) \/ CoordinationDecides(a))
  <2>1. rec' = rec
    BY <1>1 DEF vars, VerifierReceives, VerifierFinishes, CoordinationDecides
  <2> QED
    BY <1>a, <2>1, RecordFacts
<1>2. CASE EnvelopeExpires \/ LeaseExpires
  BY <1>a, <1>2 DEF EnvelopeExpires, LeaseExpires, RecordStep, Record
<1>3. ASSUME NEW p \in Procs, Propose(p) \/ Advance(p) \/ Observed(p) PROVE RecordStep
  <2>1. CASE Propose(p)
    BY <2>1 DEF Propose, CreateWorkflow, NoRecord, RecordStep
  <2>2. CASE ExpireOverdue(p)
    <3>1. rec.state \in Active
      BY <2>2 DEF ExpireOverdue, Claimable
    <3>2. rec'.state = "unresolvable"
      BY <1>a, <2>2, <3>1 DEF ExpireOverdue, ClaimWorkflow, ResolveWorkflow, Record
    <3> QED
      BY <3>1, <3>2 DEF RecordStep
  <2>3. CASE ApplyUpdate(p)
    <3>1. \/ rec' = rec
          \/ rec.state = "awaitingApprovals" /\ rec'.state = "readyForSubmission"
          \/ rec.state \in Active /\ rec'.state \in {"cancelled", "unresolvable"}
      BY <2>3, UpdateFacts
    <3> QED
      BY <1>a, <3>1, RecordFacts DEF RecordStep, Active
  <2> QED
    BY <1>3, <2>1, <2>2, <2>3, RecordAdvances DEF Observed
<1>4. ASSUME NEW p \in Procs, Returns(p) PROVE RecordStep
  <2>2. CASE Replace(p)
    <3> DEFINE r == ReplaceAction(rec)
    <3>1. \/ rec' = ResolveWorkflow(rec, "unresolvable", "error")
          \/ /\ rec.state \in {"created", "submittingToVerifier"}
             /\ rec' = ClaimWorkflow(r, p) \/ rec' = r
      BY <2>2 DEF Replace
    <3>2. r.state = "submittingToCoordination" /\ ClaimWorkflow(r, p).state = "submittingToCoordination"
      BY DEF ReplaceAction, ClaimWorkflow
    <3> HIDE DEF r
    <3> QED
      BY <1>a, <3>1, <3>2, RecordFacts DEF RecordStep, Active
  <2> QED
    BY <1>4, <2>2, RecordReturns DEF Returns
<1>5. ASSUME NEW p \in Procs, Crash(p) \/ Stopped(p) \/ Stop(p) \/ Restart(p) PROVE RecordStep
  <2>1. rec' = rec \/ rec' = [rec EXCEPT !.lease = Gone]
    BY <1>5 DEF Crash, Stopped, Stop, Restart, Exit
  <2> QED
    BY <1>a, <2>1, RecordFacts
<1>6. ASSUME NEW p \in Procs,
             \/ CallFails(p) \/ ReplaceFails(p) \/ CreateFails(p)
             \/ Poll(p) \/ PollFails(p) \/ PurgeResults(p)
      PROVE  RecordStep
  <2>1. CASE PurgeResults(p)
    BY <2>1 DEF PurgeResults, Purgeable, Purge, NoRecord, RecordStep
  <2>2. {"submittingToVerifier", "readyForSubmission"} \subseteq Active
    BY DEF Active
  <2>3. CASE \/ rec' = rec \/ rec' = ResolveWorkflow(rec, "unresolvable", "error")
             \/ rec' = CompareAndSetState(rec, "submittingToVerifier", "readyForSubmission")
    BY <1>a, <2>2, <2>3, RecordFacts
  <2> QED
    BY <1>6, <2>1, <2>3 DEF CallFails, ReplaceFails, CreateFails, Poll, PollFails,
       Unreachable, PermanentFailure
<1>7. ASSUME NEW p \in Procs, CoordinationCreates(p) PROVE RecordStep
  BY <1>a, <1>7, RecordFacts DEF CoordinationCreates
<1>8. ASSUME NEW p \in Procs, Sectional(p) PROVE RecordStep
  <2>1. {"submittingToCoordination", "awaitingApprovals"} \subseteq Active
    BY DEF Active
  <2>2. rec' = [rec EXCEPT !.ref = TRUE] => RecordStep
    BY <1>a DEF Record, RecordStep
  <2> QED
    BY <1>a, <1>8, <2>1, <2>2, SectionalFacts, RecordFacts
<1> QED
  BY <1>1, <1>2, <1>3, <1>4, <1>5, <1>6, <1>7, <1>8 DEF Next, Turn, Sectional

\* The Verifier starts and ends nothing but what was executing, decides
\* nothing, and no lane receives an answer.
Steady ==
  /\ UNCHANGED verdict
  /\ \A a \in Actions : ledger'[a].state = ledger[a].state
                        \/ (ledger[a].state = "executing" /\ ledger'[a].state = "done")
  /\ \A p \in Procs :
       op'[p] = op[p] \/ op'[p].at \notin {"initial", "completed"} \/ op'[p].reply = "none"
  /\ net = {} => net' = {} \/ rec'.state # "none"

\* The steps of one lane that leave the Verifier alone.
LEMMA LaneSteady ==
  ASSUME StateOK, NEW p \in Procs, UNCHANGED <<ledger, verdict>>,
         NEW x \in Lane, op' = [op EXCEPT ![p] = x],
         x.at \notin {"initial", "completed"} \/ x.reply = "none",
         net = {} => net' = {} \/ rec'.state # "none"
  PROVE  Steady
<1>1. op'[p] = x /\ \A q \in Procs \ {p} : op'[q] = op[q]
  BY LaneFacts
<1> QED
  BY <1>1 DEF Steady

LEMMA FinishSteady ==
  ASSUME StateOK, NEW p \in Procs, UNCHANGED <<ledger, verdict>>,
         op' = [op EXCEPT ![p] = Idle] \/ op' = [op EXCEPT ![p] = Off],
         UNCHANGED net \/ Abandon(p)
  PROVE  Steady
<1>1. net = {} => net' = {}
  BY AbandonFacts
<1> QED
  BY <1>1, IdleFacts, LaneSteady

LEMMA SubmitSteady ==
  ASSUME StateOK, NEW p \in Procs, UNCHANGED <<ledger, verdict>>,
         NEW r \in Record, r.state \in Active, NEW phase \in Phases, NEW pkg \in Actions,
         Submit(p, r, phase, pkg)
  PROVE  Steady
<1> DEFINE x == [at |-> phase, key |-> r.act, pkg |-> pkg, reply |-> "none"]
<1>1. CASE Conflict(r, phase, pkg)
  BY <1>1 DEF Submit, Steady
<1>2. CASE ~Conflict(r, phase, pkg)
  <2>1. x \in Lane /\ x.reply = "none"
    BY CallFacts DEF Phases, Awaits, Record
  <2>2. op' = [op EXCEPT ![p] = x] /\ rec'.state = r.state
    BY <1>2 DEF Submit, SubmitActionRequest, Record
  <2> HIDE DEF x
  <2>3. rec'.state # "none"
    BY <2>2 DEF Active
  <2> QED
    BY <2>1, <2>2, <2>3, LaneSteady
<1> QED
  BY <1>1, <1>2

LEMMA AdvanceSteady ==
  ASSUME BridgeInv, NEW p \in Procs, Advance(p)
  PROVE  Steady
<1> DEFINE r == ClaimWorkflow(rec, p)
           s == CompareAndSetState(r, "readyForSubmission", "submittingToVerifier")
<1>a. /\ StateOK /\ rec \in Record /\ rec.state \in Active /\ rec.act \in Actions
      /\ UNCHANGED <<ledger, verdict>>
  BY TypeParts DEF Advance, Claimable, Record
<1>1. r \in Record /\ r.act = rec.act /\ r.pkg = rec.pkg /\ r.state = rec.state
  BY <1>a, ClaimFacts
<1>2. \/ Submit(p, r, "initial", r.act)
      \/ StartCreating(p, r) /\ UNCHANGED net
      \/ Submit(p, s, "completed", CompletedPackage(r))
  BY DEF Advance, SubmitCompleted
<1>3. /\ s \in Record /\ s.state \in Active /\ {"initial", "completed"} \subseteq Phases
      /\ CompletedPackage(r) \in Actions
  <2>1. "submittingToVerifier" \in Active
    BY DEF Active
  <2>2. s \in Record /\ s.state = IF r.state = "readyForSubmission" THEN "submittingToVerifier" ELSE r.state
    BY <1>1, <2>1, CompareAndSetFacts
  <2> QED
    BY <1>a, <1>1, <2>1, <2>2, StoreAssumption DEF CompletedPackage, Record, Actions, Phases
<1> HIDE DEF r, s
<1>4. CASE StartCreating(p, r) /\ UNCHANGED net
  <2> DEFINE x == [at |-> "creating", key |-> r.act, pkg |-> r.act, reply |-> "none"]
  <2>1. x \in Lane /\ x.reply = "none"
    BY <1>a, <1>1, CallFacts DEF Awaits
  <2>2. op' = [op EXCEPT ![p] = x]
    BY <1>4 DEF StartCreating
  <2> QED
    BY <1>a, <1>4, <2>1, <2>2, LaneSteady
<1> QED
  BY <1>a, <1>1, <1>2, <1>3, <1>4, SubmitSteady

LEMMA ReturnsSteady ==
  ASSUME BridgeInv, NEW p \in Procs, Returns(p) \/ CoordinationCreates(p)
  PROVE  Steady
<1>a. /\ StateOK /\ rec \in Record /\ rec.act \in Actions /\ op[p] \in Lane /\ op[p].pkg \in Actions
      /\ UNCHANGED <<net, ledger, verdict>>
  BY TypeParts DEF Returns, InitialReturns, CompletedReturns, Replace, CoordinationCreates,
     remoteVars, Record, StateOK, Lane
<1>1. CASE Finish(p)
  BY <1>a, <1>1, FinishSteady DEF Finish
<1>2. ASSUME NEW at \in Replacing, AwaitReplacement(p, at) PROVE Steady
  <2> DEFINE x == [at |-> at, key |-> rec.act, pkg |-> op[p].pkg, reply |-> "none"]
  <2>1. x \in Lane /\ x.reply = "none"
    BY <1>a, CallFacts
  <2>2. op' = [op EXCEPT ![p] = x]
    BY <1>2 DEF AwaitReplacement
  <2> HIDE DEF x
  <2> QED
    BY <1>a, <2>1, <2>2, LaneSteady
<1>3. CASE Replace(p)
  <2> DEFINE r == ReplaceAction(rec)
             x == [at |-> "creating", key |-> r.act, pkg |-> r.act, reply |-> "none"]
  <2>1. Finish(p) \/ (rec.act < MaxActions /\ StartCreating(p, r))
    BY <1>3 DEF Replace
  <2>2. CASE rec.act < MaxActions /\ StartCreating(p, r)
    <3>1. r.act \in Actions
      BY <1>a, <2>2, ReplaceFacts DEF Record
    <3>2. x \in Lane /\ x.reply = "none"
      BY <3>1, CallFacts DEF Awaits
    <3>3. op' = [op EXCEPT ![p] = x]
      BY <2>2 DEF StartCreating
    <3> HIDE DEF x
    <3> QED
      BY <1>a, <3>2, <3>3, LaneSteady
  <2> QED
    BY <1>1, <2>1, <2>2
<1>4. CASE CoordinationCreates(p)
  <2>1. op[p].at = "creating" /\ op' = [op EXCEPT ![p].reply = "created"]
    BY <1>4 DEF CoordinationCreates
  <2>2. op'[p].at = "creating" /\ \A q \in Procs \ {p} : op'[q] = op[q]
    BY <1>a, <2>1, ReplyFacts
  <2> QED
    BY <1>a, <2>2 DEF Steady
<1> QED
  BY <1>1, <1>2, <1>3, <1>4 DEF Returns, InitialReturns, CompletedReturns, Replacing

\* Only what the Verifier itself does about a request is not steady.
LEMMA SteadyStep ==
  ASSUME BridgeInv, [Next]_vars, ~(\E q \in net : VerifierReceives(q))
  PROVE  /\ Steady
         /\ ledger' = ledger \/ \E a \in Actions : VerifierFinishes(a)
<1>a. StateOK
  BY TypeParts
<1>1. CASE UNCHANGED <<op, net, ledger, verdict>>
  BY <1>1 DEF Steady
<1>2. ASSUME NEW a \in Actions, VerifierFinishes(a) PROVE Steady
  BY <1>a, <1>2 DEF VerifierFinishes, Steady, StateOK, Entry
<1>3. CASE UNCHANGED vars \/ (\E a \in Actions : CoordinationDecides(a)) \/ EnvelopeExpires \/ LeaseExpires
  BY <1>1, <1>3 DEF vars, remoteVars, CoordinationDecides, EnvelopeExpires, LeaseExpires
<1>4. ASSUME NEW p \in Procs, Propose(p) \/ Observed(p) \/ Poll(p) \/ PollFails(p)
                              \/ PurgeResults(p) \/ Stop(p)
      PROVE  UNCHANGED <<op, net, ledger, verdict>>
  BY <1>4 DEF Propose, Observed, ExpireOverdue, ApplyUpdate, Poll, PollFails, PurgeResults, Stop, remoteVars
<1>5. ASSUME NEW p \in Procs, CallFails(p) \/ ReplaceFails(p) \/ CreateFails(p)
                              \/ Crash(p) \/ Stopped(p) \/ Restart(p)
      PROVE  Steady /\ ledger' = ledger
  <2>1. /\ UNCHANGED <<ledger, verdict>> /\ (UNCHANGED net \/ Abandon(p))
        /\ op' = [op EXCEPT ![p] = Idle] \/ op' = [op EXCEPT ![p] = Off]
    BY <1>5 DEF CallFails, ReplaceFails, CreateFails, Unreachable, PermanentFailure, Crash, Stopped,
       Restart, Exit, Finish, remoteVars
  <2> QED
    BY <1>a, <2>1, FinishSteady
<1>6. ASSUME NEW p \in Procs, Advance(p) \/ Returns(p) \/ CoordinationCreates(p)
      PROVE  Steady /\ ledger' = ledger
  BY <1>6, AdvanceSteady, ReturnsSteady DEF Advance, Returns, InitialReturns, CompletedReturns,
     Replace, CoordinationCreates, remoteVars
<1>7. ASSUME NEW p \in Procs, Sectional(p) PROVE Steady /\ ledger' = ledger
  <2>1. UNCHANGED <<net, ledger, verdict>> /\ (op' = op \/ Finish(p))
    BY <1>7, SectionalFacts, TypeParts
  <2> QED
    BY <1>a, <1>1, <2>1, FinishSteady DEF Finish
<1> QED
  BY <1>1, <1>2, <1>3, <1>4, <1>5, <1>6, <1>7 DEF Next, Turn, Sectional, vars, remoteVars,
     CoordinationDecides, EnvelopeExpires, LeaseExpires

\* The answer of the Verifier is what it then has done or decided.
LEMMA EvaluateSays ==
  ASSUME StateOK, NEW q \in Request,
         NEW result \in {"aar", "pending", "executed", "rejected", "replay"}, Evaluate(q, result)
  PROVE  /\ \A a \in Actions : verdict[a] # "unasked" => verdict'[a] = verdict[a]
         /\ \A a \in Actions : verdict'[a] # "unasked" => verdict[a] # "unasked" \/ a = q.pkg
         /\ \A a \in Actions : ledger[a].state # "none" => ledger'[a] = ledger[a]
         /\ result = "executed" => ledger'[q.pkg].state = "done"
         /\ result = "replay" => ledger'[q.pkg].state # "none"
         /\ result = "rejected" => verdict'[q.pkg] = "refuse"
         /\ \/ ledger' = ledger
            \/ /\ ledger[q.pkg].state = "none" /\ verdict[q.pkg] \in {"unasked", "permit"}
               /\ \E s \in {"executing", "done"} :
                    \A a \in Actions : ledger'[a].state = IF a = q.pkg THEN s ELSE ledger[a].state
<1>a. q.pkg \in Actions /\ q.key \in Actions /\ ledger \in [Actions -> Entry]
      /\ verdict \in [Actions -> {"unasked", "permit", "refuse", "aar"}]
  BY DEF StateOK, Request
<1>1. CASE ledger[q.pkg].state = "none"
  <2>1. PICK v \in {"permit", "refuse", "aar"} :
        /\ verdict[q.pkg] \in {"unasked", v}
        /\ verdict' = [verdict EXCEPT ![q.pkg] = v]
        /\ \/ v = "aar" /\ result = "aar" /\ UNCHANGED ledger
           \/ v = "refuse" /\ result = "rejected" /\ UNCHANGED ledger
           \/ /\ v = "permit" /\ result \in {"pending", "executed"}
              /\ ledger' = [ledger EXCEPT ![q.pkg] =
                   [state |-> IF result = "pending" THEN "executing" ELSE "done",
                    key |-> q.key]]
    BY <1>a, <1>1 DEF Evaluate
  <2>2. /\ \A a \in Actions : verdict'[a] = IF a = q.pkg THEN v ELSE verdict[a]
    BY <1>a, <2>1
  <2>3. CASE UNCHANGED ledger
    BY <1>a, <2>1, <2>2, <2>3
  <2>4. CASE /\ v = "permit" /\ result \in {"pending", "executed"}
             /\ ledger' = [ledger EXCEPT ![q.pkg] =
                   [state |-> IF result = "pending" THEN "executing" ELSE "done",
                    key |-> q.key]]
    <3> DEFINE s == IF result = "pending" THEN "executing" ELSE "done"
    <3>1. \A a \in Actions : ledger'[a] = IF a = q.pkg THEN [state |-> s, key |-> q.key] ELSE ledger[a]
      BY <1>a, <2>4
    <3>2. s \in {"executing", "done"} /\ (result = "executed" => s = "done")
      OBVIOUS
    <3> HIDE DEF s
    <3>3. \A a \in Actions : ledger'[a].state = IF a = q.pkg THEN s ELSE ledger[a].state
      BY <3>1
    <3> QED
      BY <1>a, <1>1, <2>1, <2>2, <2>4, <3>1, <3>2, <3>3
  <2> QED
    BY <2>1, <2>3, <2>4
<1>2. CASE ledger[q.pkg].state # "none"
  <2>1. UNCHANGED <<ledger, verdict>> /\ result \in {"replay", "pending", "executed"}
        /\ (result = "executed" => ledger[q.pkg].state = "done")
    BY <1>a, <1>2 DEF Evaluate, Entry
  <2> QED
    BY <1>a, <1>2, <2>1
<1> QED
  BY <1>1, <1>2

LEMMA OutcomeInit == Init => OutcomeInv
<1> SUFFICES ASSUME Init PROVE OutcomeInv
  OBVIOUS
<1>1. net = {} /\ rec.state = "none" /\ \A a \in Actions : verdict[a] = "unasked"
  BY DEF Init, NoRecord
<1>2. \A p \in Procs : op[p].at = "idle"
  BY IdleFacts DEF Init
<1> QED
  BY <1>1, <1>2 DEF OutcomeInv

\* Answers and stored outcomes stay true as the Verifier goes on.
LEMMA OutcomeKeep ==
  ASSUME BridgeInv, OutcomeInv, RecordStep, Steady
  PROVE  OutcomeInv'
<1>a. /\ StateOK /\ verdict' = verdict
      /\ \A p \in Procs : op[p].pkg \in Actions
  BY TypeParts DEF Steady, StateOK, Lane
<1>b. \A a \in Actions : /\ ledger[a].state = "done" => ledger'[a].state = "done"
                         /\ ledger[a].state # "none" => ledger'[a].state # "none"
  BY DEF Steady
<1>1. rec'.state = "none" => net' = {}
  BY DEF RecordStep, Steady, OutcomeInv, Active
<1>2. \A a \in Actions : verdict'[a] # "unasked" => Reached(a)'
  BY <1>a DEF OutcomeInv, Reached
<1>3. ASSUME NEW p \in Procs, op'[p].at \in {"initial", "completed"}
      PROVE  Backed(op[p].pkg, op[p].reply)'
  <2>1. CASE op'[p].reply = "none"
    BY <2>1 DEF Backed
  <2>2. CASE op'[p] = op[p]
    BY <1>a, <1>b, <1>3, <2>2 DEF OutcomeInv, Backed
  <2> QED
    BY <1>3, <2>1, <2>2 DEF Steady
<1>4. ASSUME rec'.state = "resolved"
      PROVE  /\ rec'.result \in {"executed", "rejected", "replay"}
             /\ \E a \in Actions : Backed(a, rec'.result)
  <2>1. CASE rec.state = "resolved" /\ rec'.result = rec.result
    BY <2>1 DEF OutcomeInv
  <2>2. CASE \E p \in Procs : /\ op[p].at \in {"initial", "completed"}
                              /\ op[p].reply \in {"executed", "rejected", "replay"}
                              /\ rec'.result = op[p].reply
    BY <1>a, <2>2 DEF OutcomeInv
  <2> QED
    BY <1>4, <2>1, <2>2 DEF RecordStep, Active
<1>5. rec'.state = "resolved" =>
        /\ rec'.result \in {"executed", "rejected", "replay"}
        /\ \E a \in Actions : Backed(a, rec.result)'
  BY <1>a, <1>b, <1>4 DEF Backed
<1> QED
  BY <1>1, <1>2, <1>3, <1>5 DEF OutcomeInv

\* The Verifier decides about an Action, which is the first that it has not
\* sent back, and answers accordingly.
LEMMA OutcomeVerifier ==
  ASSUME BridgeInv, OnceInv, OutcomeInv, NEW q \in net, VerifierReceives(q)
  PROVE  OutcomeInv'
<1>a. /\ StateOK /\ q \in Request /\ q.pkg \in Actions /\ ReachedInv /\ AnswerInv
      /\ rec' = rec /\ \A p \in Procs : op[p].pkg \in Actions
  BY TypeParts, OnceParts DEF VerifierReceives, Request, StateOK, Lane
<1>1. PICK result \in {"aar", "pending", "executed", "rejected", "replay"} :
        Evaluate(q, result) /\ Arrives(q, result)
  BY DEF VerifierReceives, Arrives
<1>2. \A p \in Procs : /\ op'[p].at = op[p].at /\ op'[p].pkg = op[p].pkg
                       /\ op'[p].reply = IF p = q.to THEN result ELSE op[p].reply
  BY <1>a, <1>1, AnswerArrives
<1>3. /\ \A a \in Actions : verdict[a] # "unasked" => verdict'[a] = verdict[a]
      /\ \A a \in Actions : verdict'[a] # "unasked" => verdict[a] # "unasked" \/ a = q.pkg
      /\ \A a \in Actions : ledger[a].state # "none" => ledger'[a] = ledger[a]
      /\ result = "executed" => ledger'[q.pkg].state = "done"
      /\ result = "replay" => ledger'[q.pkg].state # "none"
      /\ result = "rejected" => verdict'[q.pkg] = "refuse"
  BY <1>a, <1>1, EvaluateSays
<1>4. rec'.state # "none"
  BY <1>a DEF OutcomeInv
<1>5. \A a \in Actions : verdict'[a] # "unasked" => Reached(a)'
  <2>1. \A a \in Actions : verdict'[a] # "unasked" => Reached(a)
    BY <1>a, <1>3 DEF OutcomeInv, ReachedInv
  <2> QED
    BY <1>3, <2>1 DEF Reached
<1>6. ASSUME NEW p \in Procs, op'[p].at \in {"initial", "completed"}
      PROVE  Backed(op[p].pkg, op[p].reply)'
  <2>1. CASE p = q.to
    <3>1. op'[p].pkg = q.pkg /\ op'[p].reply = result
      BY <1>a, <1>2, <2>1 DEF AnswerInv
    <3> QED
      BY <1>3, <3>1 DEF Backed
  <2>2. CASE p # q.to
    <3>1. Backed(op[p].pkg, op[p].reply) /\ op'[p].pkg = op[p].pkg /\ op'[p].reply = op[p].reply
      BY <1>2, <1>6, <2>2 DEF OutcomeInv
    <3> QED
      BY <1>a, <1>3, <3>1 DEF Backed
  <2> QED
    BY <2>1, <2>2
<1>7. rec'.state = "resolved" =>
        /\ rec'.result \in {"executed", "rejected", "replay"}
        /\ \E a \in Actions : Backed(a, rec.result)'
  BY <1>a, <1>3 DEF OutcomeInv, Backed
<1> QED
  BY <1>4, <1>5, <1>6, <1>7 DEF OutcomeInv

LEMMA OutcomeStep ==
  ASSUME BridgeInv, OnceInv, OutcomeInv, [Next]_vars
  PROVE  OutcomeInv'
<1>1. CASE \E q \in net : VerifierReceives(q)
  BY <1>1, OutcomeVerifier
<1>2. CASE ~(\E q \in net : VerifierReceives(q))
  BY <1>2, SteadyStep, RecordChanges, OutcomeKeep
<1> QED
  BY <1>1, <1>2

-----------------------------------------------------------------------------
\* A step of the workflow engine is a step of the abstract Task.  Only one
\* Action is ever in the ledger, and none once a rejection is on record.
LEMMA OneIsExecuted ==
  ASSUME ReachedInv, OutcomeInv, NEW a \in Actions, NEW b \in Actions,
         ledger[a].state # "none", ledger[b].state # "none" \/ verdict[b] # "unasked"
  PROVE  a = b \/ verdict[b] = "aar"
<1>1. Reached(a) /\ verdict[a] = "permit" /\ Reached(b)
  BY DEF ReachedInv, OutcomeInv
<1> QED
  BY <1>1 DEF Reached, Actions

LEMMA NoneIsExecuted ==
  ASSUME OnceInv, OutcomeInv, rec.state = "resolved", rec.result = "rejected"
  PROVE  \A a \in Actions : ledger[a].state = "none"
<1>1. PICK b \in Actions : verdict[b] = "refuse"
  BY DEF OutcomeInv, Backed
<1> SUFFICES ASSUME NEW a \in Actions, ledger[a].state # "none" PROVE FALSE
  OBVIOUS
<1>2. a = b /\ verdict[a] = "permit"
  BY <1>1, OneIsExecuted DEF OnceInv, ReachedInv
<1> QED
  BY <1>1, <1>2

\* The same of the state that a step leads to.
LEMMA RejectedStep ==
  ASSUME OnceInv', OutcomeInv', ledger' = ledger, rec'.state = "resolved", rec'.result = "rejected"
  PROVE  \A a \in Actions : ledger[a].state = "none"
<1>1. PICK b \in Actions : verdict'[b] = "refuse"
  BY DEF OutcomeInv, Backed
<1>2. \A c \in Actions : c < b => verdict'[c] = "aar"
  BY <1>1 DEF OutcomeInv, Reached
<1> SUFFICES ASSUME NEW a \in Actions, ledger[a].state # "none" PROVE FALSE
  OBVIOUS
<1>3. verdict'[a] = "permit" /\ \A c \in Actions : c < a => verdict'[c] = "aar"
  BY DEF OnceInv, ReachedInv, Reached
<1> QED
  BY <1>1, <1>2, <1>3 DEF Actions

Work == [a \in Actions |-> ledger[a].state]

LEMMA TaskKept ==
  ASSUME BridgeInv, OnceInv, OutcomeInv, RecordStep, OutcomeInv', ledger' = ledger, OnceInv'
  PROVE  [Task!Next]_<<Work, Told(rec)>>
<1>a. rec \in Record /\ Work' = Work
  BY TypeParts DEF Work
<1>1. CASE rec'.state = rec.state /\ rec'.result = rec.result
  BY <1>a, <1>1 DEF Told
<1>2. CASE rec.state = "none" /\ rec'.state = "created"
  <2>1. Told(rec) = "none" /\ Told(rec)' = "working"
    BY <1>2 DEF Told, Active
  <2> QED
    BY <1>a, <2>1 DEF Task!Next, Task!Create, Work
<1>3. CASE rec.state \in Active /\ rec'.state \in Active
  BY <1>a, <1>3 DEF Told
<1>4. CASE rec.state \in Active /\ rec'.state \in {"cancelled", "unresolvable"}
  <2>1. Told(rec) = "working" /\ Told(rec)' = rec'.state
    BY <1>4 DEF Told, Active
  <2>2. Task!Warranted(rec'.state) /\ rec'.state \in Task!Outcomes
    BY <1>4 DEF Task!Warranted, Task!Outcomes
  <2>3. Task!End(rec'.state)
    BY <1>a, <2>1, <2>2 DEF Task!End, Work
  <2> QED
    BY <2>2, <2>3 DEF Task!Next
<1>5. CASE rec.state \in Active /\ rec'.state = "resolved"
  <2>1. Told(rec) = "working" /\ Told(rec)' = rec'.result
    BY <1>5 DEF Told, Active
  <2>2. /\ rec'.result \in {"executed", "rejected", "replay"}
        /\ rec'.result = "executed" => \E a \in Actions : ledger[a].state = "done"
        /\ rec'.result = "replay" => \E a \in Actions : ledger[a].state # "none"
    BY <1>5 DEF OutcomeInv, Backed
  <2>3. rec'.result = "rejected" => \A a \in Actions : ledger[a].state = "none"
    BY <1>5, RejectedStep
  <2>4. Task!Warranted(rec'.result) /\ rec'.result \in Task!Outcomes
    BY <2>2, <2>3 DEF Task!Warranted, Task!Outcomes, Task!Untouched
  <2>5. Task!End(rec'.result)
    BY <1>a, <2>1, <2>4 DEF Task!End, Work
  <2> QED
    BY <2>4, <2>5 DEF Task!Next
<1>6. CASE rec.state \in Terminal /\ rec'.state = "purged"
  <2>1. Told(rec) \in Task!Outcomes /\ Told(rec)' = "purged"
    BY <1>6 DEF Told, Terminal, Active, Task!Outcomes, OutcomeInv
  <2> QED
    BY <1>a, <2>1 DEF Task!Next, Task!Purge, Work
<1> QED
  BY <1>1, <1>2, <1>3, <1>4, <1>5, <1>6 DEF RecordStep

\* A request that the Verifier executes is the first to be.
LEMMA TaskDecided ==
  ASSUME BridgeInv, OnceInv, OutcomeInv, NEW q \in net, VerifierReceives(q)
  PROVE  [Task!Next]_<<Work, Told(rec)>>
<1>a. /\ StateOK /\ q \in Request /\ q.pkg \in Actions /\ ReachedInv /\ Reached(q.pkg)
      /\ rec' = rec /\ rec \in Record
  BY TypeParts, OnceParts DEF VerifierReceives, Request, ReachedInv
<1>1. PICK result \in {"aar", "pending", "executed", "rejected", "replay"} :
        Evaluate(q, result) /\ Arrives(q, result)
  BY DEF VerifierReceives, Arrives
<1>2. \/ ledger' = ledger
      \/ /\ ledger[q.pkg].state = "none" /\ verdict[q.pkg] \in {"unasked", "permit"}
         /\ \E s \in {"executing", "done"} :
              \A a \in Actions : ledger'[a].state = IF a = q.pkg THEN s ELSE ledger[a].state
  BY <1>a, <1>1, EvaluateSays
<1>3. Told(rec)' = Told(rec)
  BY <1>a DEF Told
<1>4. CASE ledger' = ledger
  BY <1>3, <1>4 DEF Work
<1>5. ASSUME ledger[q.pkg].state = "none", verdict[q.pkg] \in {"unasked", "permit"},
             NEW s \in {"executing", "done"},
             \A a \in Actions : ledger'[a].state = IF a = q.pkg THEN s ELSE ledger[a].state
      PROVE  Task!Next
  <2>1. Work' = [Work EXCEPT ![q.pkg] = s]
    BY <1>5 DEF Work
  <2>2. \A b \in Actions : Reached(b) => ~(q.pkg < b)
    BY <1>a, <1>5 DEF Reached
  <2>3. \A b \in Actions : verdict[b] \in {"permit", "refuse"} => ~(b < q.pkg)
    BY <1>a DEF Reached
  <2>4. \A b \in Actions : b < q.pkg \/ b = q.pkg \/ q.pkg < b
    BY <1>a DEF Actions
  <2>5. \A b \in Actions : ledger[b].state = "none"
    BY <1>a, <1>5, <2>2, <2>3, <2>4 DEF ReachedInv
  <2>6. Told(rec) \notin {"none", "rejected"}
    <3>1. rec.state # "none"
      BY DEF OutcomeInv
    <3>2. ASSUME rec.state = "resolved" PROVE rec.result \notin {"none", "rejected"}
      BY <1>5, <2>2, <2>3, <2>4, <3>2 DEF OutcomeInv, Backed
    <3> QED
      BY <1>a, <3>1, <3>2 DEF Told, Record, Terminal, Absent
  <2>7. Task!Execute(q.pkg)
    BY <1>a, <1>3, <2>1, <2>5, <2>6 DEF Task!Execute, Task!Untouched, Work
  <2> QED
    BY <1>a, <2>7 DEF Task!Next
<1> QED
  BY <1>2, <1>4, <1>5

LEMMA TaskFinished ==
  ASSUME StateOK, NEW a \in Actions, VerifierFinishes(a)
  PROVE  Task!Next
<1>1. ledger[a].state = "executing" /\ ledger' = [ledger EXCEPT ![a].state = "done"] /\ rec' = rec
  BY DEF VerifierFinishes
<1>2. \A b \in Actions : ledger'[b].state = IF b = a THEN "done" ELSE ledger[b].state
  BY <1>1 DEF StateOK, Entry
<1>3. Work' = [Work EXCEPT ![a] = "done"] /\ Work[a] = "executing" /\ Told(rec)' = Told(rec)
  BY <1>1, <1>2 DEF Work, Told
<1> QED
  BY <1>3 DEF Task!Next, Task!Complete, Work

LEMMA TaskStep ==
  ASSUME BridgeInv, OnceInv, OutcomeInv, OnceInv', OutcomeInv', [Next]_vars
  PROVE  [Task!Next]_<<Work, Told(rec)>>
<1>1. CASE \E q \in net : VerifierReceives(q)
  BY <1>1, TaskDecided
<1>2. CASE \E a \in Actions : VerifierFinishes(a)
  BY <1>2, TaskFinished, TypeParts
<1>3. CASE ~(\E q \in net : VerifierReceives(q)) /\ ~(\E a \in Actions : VerifierFinishes(a))
  BY <1>3, SteadyStep, RecordChanges, TaskKept
<1> QED
  BY <1>1, <1>2, <1>3

\* When signing a replacement never outlasts the lease, the bridge gives a
\* tool call one outcome, and what it tells the client is true of what the
\* Verifier did and will do (submitInitial, submitCompleted,
\* replaceAndSubmitToCoordination, recordFailure).
THEOREM BridgeImplementsTask ==
  ASSUME SlowSigning = FALSE
  PROVE  Spec => ImplementsTask
<1>1. Init => BridgeInv /\ OnceInv /\ OutcomeInv
  BY BridgeInit, OnceInit, OutcomeInit
<1>2. BridgeInv /\ OnceInv /\ OutcomeInv /\ [Next]_vars => OnceInv' /\ OutcomeInv'
  <2> SUFFICES ASSUME BridgeInv, OnceInv, OutcomeInv, [Next]_vars PROVE OnceInv' /\ OutcomeInv'
    OBVIOUS
  <2>1. OnceInv'
    BY OnceStep
  <2>2. OutcomeInv'
    BY OutcomeStep
  <2> QED
    BY <2>1, <2>2
<1>3. Init => Task!Init
  <2>1. Init => \A a \in Actions : ledger[a].state = "none"
    BY DEF Init, NoEntry
  <2>2. Init => Told(rec) = "none"
    BY DEF Init, NoRecord, Told, Active
  <2> QED
    BY <2>1, <2>2 DEF Task!Init
<1>4. BridgeInv /\ OnceInv /\ OutcomeInv /\ OnceInv' /\ OutcomeInv' /\ [Next]_vars =>
        [Task!Next]_<<[a \in Actions |-> ledger[a].state], Told(rec)>>
  <2> SUFFICES ASSUME BridgeInv, OnceInv, OutcomeInv, OnceInv', OutcomeInv', [Next]_vars
               PROVE  [Task!Next]_<<[a \in Actions |-> ledger[a].state], Told(rec)>>
    OBVIOUS
  <2>1. [Task!Next]_<<Work, Told(rec)>>
    BY TaskStep
  <2> QED
    BY <2>1 DEF Work
<1> QED
  BY <1>1, <1>2, <1>3, <1>4, BridgeStep, PTL DEF Spec, ImplementsTask, Task!Spec
=============================================================================
