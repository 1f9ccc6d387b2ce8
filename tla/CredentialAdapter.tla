-------------------------- MODULE CredentialAdapter --------------------------
(***************************************************************************)
(* The Credential Adapter's action handler                                 *)
(* (cli/src/adapter/adapter-api-server.ts) on top of its dispatch ledger:  *)
(* submissions run concurrently in one event loop, so each action below is *)
(* the code between two awaits.                                            *)
(*                                                                         *)
(* A submission checks the ledger, is verified, prepares its target, and   *)
(* passes the ledger gate; the one that finds its Action ID absent there   *)
(* dispatches, the others join the dispatch or are refused.  The relay     *)
(* worker enters through daemon.ts's processAction, which first looks for  *)
(* a terminal response it can recover.  Any step may be the process's last.*)
(***************************************************************************)
EXTENDS DispatchLedger

CONSTANTS
  Requests,    \* Action Requests; several may carry the same envelope
  NoRequest,
  EnvOf,       \* EnvOf[r] is the Action Envelope in request r
  Clients,     \* concurrent HTTP submissions
  Worker,      \* the one relay worker (its polls are serialized)
  MaxReceipts  \* bound: dispatch receipts signed for one Action ID

ASSUME AdapterConstants ==
  /\ NoRequest \notin Requests
  /\ EnvOf \in [Requests -> Envelopes]
  /\ Worker \notin Clients
  /\ MaxReceipts \in Nat \ {0}

Subs == Clients \cup {Worker}

VARIABLES
  pc,        \* where each submission awaits
  req,       \* the Action Request it carries
  outcome,   \* classification of the dispatch it performs
  capture,   \* what joinDispatch captured: no dispatch, the same request, another
  session,   \* it holds a prepared target session
  answer,    \* its last answer
  flight,    \* the dispatch of each envelope: inFlight and its outcome promise
  expired,   \* envelopes past expiresAt
  \* History, read by the properties only (signed also numbers the receipts):
  signed,    \* dispatch receipts signed per Action ID
  sent,      \* transmissions per Action ID
  delivered  \* dispatch responses that left the adapter

subVars == <<pc, req, outcome, capture, session, answer>>
historyVars == <<signed, sent, delivered>>
vars == <<up, entries, journal, torn, pc, req, outcome, capture, session, answer,
          flight, expired, signed, sent, delivered>>

-----------------------------------------------------------------------------
\* "refused" is every stateless answer: nothing is recorded for it.
Answers == {"none", "refused", "expired", "REPLAY_DETECTED",
            "ACTION_ID_HASH_MISMATCH", "conflict", "timeout", "notInProcess",
            "error", "outcome"}

PCs == {"idle", "verifying", "preparing", "closing", "releasing", "joined",
        "dispatching", "awaitingReply", "signing", "recovering"}

Captures == {"none", "same", "differs"}

\* A dispatch in this process: the request it transmits (its fingerprint), and
\* the response its outcome promise was fulfilled with.  It is in the inFlight
\* map exactly while the promise is pending.
Flight == [state: {"none", "inFlight", "rejected", "fulfilled"},
           req: Requests \cup {NoRequest},
           resolution: Resolutions \cup {"none"},
           receipt: Nat]

NoFlight == [state |-> "none", req |-> NoRequest,
             resolution |-> "none", receipt |-> NoResponse]

Response == [id: ActionIds, resolution: Resolutions, receipt: Nat]

Env(s) == EnvOf[req[s]]
Id(s) == IdOf[Env(s)]

\* Submission s answers x and its handler returns.
Finish(s, x) ==
  /\ pc' = [pc EXCEPT ![s] = "idle"]
  /\ answer' = [answer EXCEPT ![s] = x]

Goto(s, where) ==
  /\ pc' = [pc EXCEPT ![s] = where]
  /\ answer' = [answer EXCEPT ![s] = "none"]

\* A new submission in the place of s, with nothing left of the previous one.
Begin(s, r) ==
  /\ req' = [req EXCEPT ![s] = r]
  /\ session' = [session EXCEPT ![s] = FALSE]
  /\ UNCHANGED outcome

\* Submission s answers with the dispatch response of its Action ID.
Deliver(s, resolution, receipt) ==
  delivered' = delivered \cup
    {[id |-> Id(s), resolution |-> resolution, receipt |-> receipt]}

-----------------------------------------------------------------------------
\* Mutated form of Capture: any dispatch of the envelope is taken for its own.
CaptureAny(s, r) ==
  capture' = [capture EXCEPT ![s] =
    IF flight[EnvOf[r]].state # "inFlight" THEN "none" ELSE "same"]

\* joinDispatch up to its first await: the dispatch in progress is captured.
Capture(s, r) ==
  capture' = [capture EXCEPT ![s] =
    IF flight[EnvOf[r]].state # "inFlight" THEN "none"
    ELSE IF flight[EnvOf[r]].req = r THEN "same"
    ELSE "differs"]

\* The handler up to its first await.  Refusals before the ledger check
\* (parsing, structure, unknown application, upstream binding) may hit any
\* request; the ledger is consulted before the expiry check.
Enter(s, r) ==
  /\ Begin(s, r)
  /\ \/ Finish(s, "refused") /\ UNCHANGED capture
     \/ /\ Check(EnvOf[r]) = "executing"
        /\ Goto(s, "releasing")
        /\ Capture(s, r)
     \/ /\ Check(EnvOf[r]) \in {"REPLAY_DETECTED", "ACTION_ID_HASH_MISMATCH"}
        /\ Finish(s, Check(EnvOf[r]))
        /\ UNCHANGED capture
     \/ /\ Check(EnvOf[r]) = "absent"
        /\ IF EnvOf[r] \in expired THEN Finish(s, "expired")
                                   ELSE Goto(s, "verifying")
        /\ UNCHANGED capture

\* POST /mpas/v1/verifier/action
Receive(s, r) ==
  /\ up
  /\ s \in Clients
  /\ pc[s] = "idle"
  /\ Enter(s, r)
  /\ UNCHANGED <<ledgerVars, flight, expired, historyVars>>

\* verifyActionPackage, payload and proposer checks, policy: a stateless
\* verdict, or on to the credential and the target.
Verify(s) ==
  /\ up
  /\ pc[s] = "verifying"
  /\ \/ Finish(s, "refused")
     \/ Env(s) \in expired /\ Finish(s, "expired")
     \/ Env(s) \notin expired /\ Goto(s, "preparing")
  /\ UNCHANGED <<ledgerVars, req, outcome, capture, session, flight, expired,
                 historyVars>>

\* getCredential or prepareTarget fails: nothing was recorded.
PrepareFails(s) ==
  /\ up
  /\ pc[s] = "preparing"
  /\ Finish(s, "refused")
  /\ UNCHANGED <<ledgerVars, req, outcome, capture, session, flight, expired,
                 historyVars>>

\* The gate lets s dispatch: the executing entry is durable and the dispatch
\* registered before anything is awaited.
GateDispatch(s) ==
  /\ up
  /\ pc[s] = "preparing"
  /\ WriteExecuting(Env(s), TRUE)
  /\ session' = [session EXCEPT ![s] = TRUE]
  /\ flight' = [flight EXCEPT ![Env(s)] =
                   [state |-> "inFlight", req |-> req[s],
                    resolution |-> "none", receipt |-> NoResponse]]
  /\ Goto(s, "dispatching")
  /\ UNCHANGED <<req, outcome, capture, expired, historyVars>>

\* The executing line cannot be written: the handler throws, and the prepared
\* session is not closed.
GateThrows(s) ==
  /\ up
  /\ pc[s] = "preparing"
  /\ WriteExecuting(Env(s), FALSE)
  /\ session' = [session EXCEPT ![s] = TRUE]
  /\ Finish(s, "error")
  /\ UNCHANGED <<req, outcome, capture, flight, expired, historyVars>>

\* Another submission got to the gate first: join it, or be refused.
GateRaced(s) ==
  /\ up
  /\ pc[s] = "preparing"
  /\ session' = [session EXCEPT ![s] = TRUE]
  /\ \/ /\ Check(Env(s)) = "executing"
        /\ Capture(s, req[s])
        /\ Goto(s, "releasing")
     \/ /\ Check(Env(s)) \in {"REPLAY_DETECTED", "ACTION_ID_HASH_MISMATCH"}
        /\ pc' = [pc EXCEPT ![s] = "closing"]
        /\ answer' = [answer EXCEPT ![s] = Check(Env(s))]
        /\ UNCHANGED capture
  /\ UNCHANGED <<ledgerVars, req, outcome, flight, expired, historyVars>>

\* Mutated form of CloseSession: the session is left open.
CloseSessionLeaks(s) ==
  /\ up
  /\ pc[s] = "closing"
  /\ pc' = [pc EXCEPT ![s] = "idle"]
  /\ UNCHANGED <<ledgerVars, req, outcome, capture, session, answer, flight,
                 expired, historyVars>>

\* The refused submission's session is closed and its answer sent.
CloseSession(s) ==
  /\ up
  /\ pc[s] = "closing"
  /\ session' = [session EXCEPT ![s] = FALSE]
  /\ pc' = [pc EXCEPT ![s] = "idle"]
  /\ UNCHANGED <<ledgerVars, req, outcome, capture, answer, flight, expired,
                 historyVars>>

\* Mutated form of Join: the dispatch is looked up after the release, not before.
JoinLooksLate(s) ==
  LET f == flight[Env(s)]
  IN  /\ up
      /\ pc[s] = "releasing"
      /\ session' = [session EXCEPT ![s] = FALSE]
      /\ \/ f.state # "inFlight" /\ Finish(s, "notInProcess")
         \/ f.state = "inFlight" /\ f.req # req[s] /\ Finish(s, "conflict")
         \/ f.state = "inFlight" /\ f.req = req[s] /\ Goto(s, "joined")
      /\ capture' = [capture EXCEPT ![s] = "none"]
      /\ UNCHANGED <<ledgerVars, req, outcome, flight, expired, historyVars>>

\* joinDispatch after it has released the joiner's own session.
Join(s) ==
  /\ up
  /\ pc[s] = "releasing"
  /\ session' = [session EXCEPT ![s] = FALSE]
  /\ \/ capture[s] = "none" /\ Finish(s, "notInProcess")
     \/ capture[s] = "differs" /\ Finish(s, "conflict")
     \/ capture[s] = "same" /\ Goto(s, "joined")
  /\ capture' = [capture EXCEPT ![s] = "none"]
  /\ UNCHANGED <<ledgerVars, req, outcome, flight, expired,
                 historyVars>>

\* Mutated form of JoinSettled: a rejected promise is not handled.
JoinSettledIgnoresRejection(s) ==
  /\ up
  /\ pc[s] = "joined"
  /\ flight[Env(s)].state = "fulfilled"
  /\ Deliver(s, flight[Env(s)].resolution, flight[Env(s)].receipt)
  /\ Finish(s, "outcome")
  /\ UNCHANGED <<ledgerVars, req, outcome, capture, session, flight, expired,
                 signed, sent>>

\* settleWithin: the joined dispatch settled in time.
JoinSettled(s) ==
  /\ up
  /\ pc[s] = "joined"
  /\ \/ /\ flight[Env(s)].state = "fulfilled"
        /\ Deliver(s, flight[Env(s)].resolution, flight[Env(s)].receipt)
        /\ Finish(s, "outcome")
     \/ /\ flight[Env(s)].state = "rejected"
        /\ Finish(s, "timeout")
        /\ UNCHANGED delivered
  /\ UNCHANGED <<ledgerVars, req, outcome, capture, session, flight, expired,
                 signed, sent>>

\* settleWithin: the wait ran out first.
JoinTimesOut(s) ==
  /\ up
  /\ pc[s] = "joined"
  /\ flight[Env(s)].state = "inFlight"
  /\ Finish(s, "timeout")
  /\ UNCHANGED <<ledgerVars, req, outcome, capture, session, flight, expired,
                 historyVars>>

-----------------------------------------------------------------------------
\* The request reaches the target.
Transmit(s) ==
  /\ up
  /\ pc[s] = "dispatching"
  /\ sent' = [sent EXCEPT ![Id(s)] = @ + 1]
  /\ Goto(s, "awaitingReply")
  /\ UNCHANGED <<ledgerVars, req, outcome, capture, session, flight, expired,
                 signed, delivered>>

\* classifyDispatch of the target's reply, timeout or transport failure; the
\* session is closed either way.  A request that never left is indeterminate.
Classify(s) ==
  /\ up
  /\ \/ /\ pc[s] = "awaitingReply"
        /\ \E r \in Resolutions : outcome' = [outcome EXCEPT ![s] = r]
     \/ /\ pc[s] = "dispatching"
        /\ outcome' = [outcome EXCEPT ![s] = "indeterminate"]
  /\ session' = [session EXCEPT ![s] = FALSE]
  /\ Goto(s, "signing")
  /\ UNCHANGED <<ledgerVars, req, capture, flight, expired, historyVars>>

\* The dispatch leaves inFlight with its promise settled.
Settle(s, how, resolution, receipt) ==
  flight' = [flight EXCEPT ![Env(s)] =
               [state |-> how, req |-> flight[Env(s)].req,
                resolution |-> resolution, receipt |-> receipt]]

\* The receipt is signed, the response persisted, then answered.
Record(s) ==
  LET n == signed[Id(s)] + 1
  IN  /\ up
      /\ pc[s] = "signing"
      /\ n <= MaxReceipts
      /\ Resolve(Env(s), outcome[s], n, TRUE)
      /\ signed' = [signed EXCEPT ![Id(s)] = n]
      /\ Deliver(s, outcome[s], n)
      /\ Settle(s, "fulfilled", outcome[s], n)
      /\ outcome' = [outcome EXCEPT ![s] = "none"]
      /\ Finish(s, "outcome")
      /\ UNCHANGED <<req, capture, session, expired, sent>>

\* Signing the receipt fails, or resolve() throws: the handler throws and the
\* ledger entry keeps the status it has.
RecordThrows(s) ==
  LET n == signed[Id(s)] + 1
  IN  /\ up
      /\ pc[s] = "signing"
      /\ \/ UNCHANGED <<ledgerVars, signed>>
         \/ /\ n <= MaxReceipts
            /\ \/ Resolve(Env(s), outcome[s], n, FALSE)
               \/ ResolveMismatch(Env(s)) /\ UNCHANGED ledgerVars
            /\ signed' = [signed EXCEPT ![Id(s)] = n]
      /\ Settle(s, "rejected", "none", NoResponse)
      /\ outcome' = [outcome EXCEPT ![s] = "none"]
      /\ Finish(s, "error")
      /\ UNCHANGED <<req, capture, session, expired, sent, delivered>>

-----------------------------------------------------------------------------
\* processAction in daemon.ts: a retained response is returned as it is, an
\* indeterminate resolution without one gets its receipt now, and anything
\* else goes through the handler.
Process(r) ==
  LET e == EnvOf[r]
      entry == EntryFor(entries, IdOf[e])
  IN  /\ up
      /\ pc[Worker] = "idle"
      /\ \/ /\ Recoverable(e)
            /\ entry.response # NoResponse
            /\ Begin(Worker, r)
            /\ Finish(Worker, "outcome")
            /\ delivered' = delivered \cup {[id |-> IdOf[e],
                 resolution |-> entry.resolution, receipt |-> entry.response]}
            /\ UNCHANGED capture
         \/ /\ Recoverable(e)
            /\ entry.response = NoResponse
            /\ entry.resolution = "indeterminate"
            /\ Begin(Worker, r)
            /\ Goto(Worker, "recovering")
            /\ UNCHANGED <<capture, delivered>>
         \/ /\ \/ ~Recoverable(e)
               \/ entry.response = NoResponse /\ entry.resolution # "indeterminate"
            /\ Enter(Worker, r)
            /\ UNCHANGED delivered
      /\ UNCHANGED <<ledgerVars, flight, expired, signed, sent>>

\* The indeterminate receipt is signed, attached to the entry and returned.
RecoverRecord ==
  LET n == signed[Id(Worker)] + 1
  IN  /\ up
      /\ pc[Worker] = "recovering"
      /\ n <= MaxReceipts
      /\ Resolve(Env(Worker), "indeterminate", n, TRUE)
      /\ signed' = [signed EXCEPT ![Id(Worker)] = n]
      /\ Deliver(Worker, "indeterminate", n)
      /\ Finish(Worker, "outcome")
      /\ UNCHANGED <<req, outcome, capture, session, flight, expired, sent>>

\* Signing or resolve() throws: the worker will poll the delivery again.
RecoverThrows ==
  LET n == signed[Id(Worker)] + 1
  IN  /\ up
      /\ pc[Worker] = "recovering"
      /\ \/ UNCHANGED <<ledgerVars, signed>>
         \/ /\ n <= MaxReceipts
            /\ \/ Resolve(Env(Worker), "indeterminate", n, FALSE)
               \/ ResolveMismatch(Env(Worker)) /\ UNCHANGED ledgerVars
            /\ signed' = [signed EXCEPT ![Id(Worker)] = n]
      /\ Finish(Worker, "error")
      /\ UNCHANGED <<req, outcome, capture, session, flight, expired, sent,
                     delivered>>

-----------------------------------------------------------------------------
\* An envelope's expiresAt passes.
Expire(e) ==
  /\ e \notin expired
  /\ expired' = expired \cup {e}
  /\ UNCHANGED <<ledgerVars, subVars, flight, historyVars>>

\* The process dies: everything but the journal is gone, every submission is
\* left without an answer.  A submission about to append may tear a line.
Crash ==
  /\ Die(\E s \in Subs : pc[s] \in {"preparing", "signing", "recovering"})
  /\ pc' = [s \in Subs |-> "idle"]
  /\ req' = [s \in Subs |-> NoRequest]
  /\ outcome' = [s \in Subs |-> "none"]
  /\ capture' = [s \in Subs |-> "none"]
  /\ session' = [s \in Subs |-> FALSE]
  /\ answer' = [s \in Subs |-> "none"]
  /\ flight' = [e \in Envelopes |-> NoFlight]
  /\ UNCHANGED <<expired, historyVars>>

Restart ==
  /\ Boot \/ \E S \in SUBSET Keys : BootInterrupted(S)
  /\ UNCHANGED <<subVars, flight, expired, historyVars>>

-----------------------------------------------------------------------------
Init ==
  /\ LedgerInit
  /\ pc = [s \in Subs |-> "idle"]
  /\ req = [s \in Subs |-> NoRequest]
  /\ outcome = [s \in Subs |-> "none"]
  /\ capture = [s \in Subs |-> "none"]
  /\ session = [s \in Subs |-> FALSE]
  /\ answer = [s \in Subs |-> "none"]
  /\ flight = [e \in Envelopes |-> NoFlight]
  /\ expired = {}
  /\ signed = [a \in ActionIds |-> 0]
  /\ sent = [a \in ActionIds |-> 0]
  /\ delivered = {}

Step(s) ==
  \/ Verify(s) \/ PrepareFails(s)
  \/ GateDispatch(s) \/ GateThrows(s) \/ GateRaced(s) \/ CloseSession(s)
  \/ Join(s) \/ JoinSettled(s) \/ JoinTimesOut(s)
  \/ Transmit(s) \/ Classify(s) \/ Record(s) \/ RecordThrows(s)

Next ==
  \/ \E s \in Subs : Step(s)
  \/ \E s \in Clients, r \in Requests : Receive(s, r)
  \/ \E r \in Requests : Process(r)
  \/ RecoverRecord \/ RecoverThrows
  \/ \E e \in Envelopes : Expire(e)
  \/ Crash \/ Restart

Spec == Init /\ [][Next]_vars

(***************************************************************************)
(* Fairness: the event loop runs every continuation that is ready, target  *)
(* calls and joins are bounded by timers, and a supervisor starts the      *)
(* process again.                                                          *)
(***************************************************************************)
Fairness ==
  /\ \A s \in Subs : WF_vars(Step(s))
  /\ WF_vars(RecoverRecord \/ RecoverThrows)
  /\ WF_vars(Boot /\ Restart)

FairSpec == Spec /\ Fairness

-----------------------------------------------------------------------------
TypeOK ==
  /\ LedgerTypeOK
  /\ pc \in [Subs -> PCs]
  /\ req \in [Subs -> Requests \cup {NoRequest}]
  /\ outcome \in [Subs -> Resolutions \cup {"none"}]
  /\ capture \in [Subs -> Captures]
  /\ session \in [Subs -> BOOLEAN]
  /\ answer \in [Subs -> Answers]
  /\ flight \in [Envelopes -> Flight]
  /\ expired \subseteq Envelopes
  /\ signed \in [ActionIds -> Nat]
  /\ sent \in [ActionIds -> Nat]
  /\ delivered \subseteq Response

\* The invariant the ledger exists for: an Action ID is transmitted at most
\* once, whatever envelope carries it, across crashes and restarts, and never
\* when an older release already spent it under its flattened key.
AtMostOnce ==
  \A a \in ActionIds :
    /\ sent[a] <= 1
    /\ journal[Legacy[a]].status # "absent" => sent[a] = 0

\* Write-ahead: whatever has been transmitted is in a journal that a restart can
\* read (a torn journal stops the restart instead).
WriteAhead ==
  ~torn => \A a \in ActionIds : sent[a] > 0 => journal[a].status # "absent"

\* All the dispatch responses the adapter ever hands out for one Action ID,
\* to the dispatcher, to joiners and to the relay worker before and after a
\* crash, are one response with one Execution Receipt.
OneDispatchReceipt ==
  \A x, y \in delivered : x.id = y.id => x = y

\* A response is persisted before it is returned: as long as a restart can read
\* the journal, each one handed out is the one it would recover, and is about
\* the Action it was handed out for even where two Action IDs share a flattened
\* key.  (A line that writeSync cut short leaves nothing to recover.)
DeliveredIsDurable ==
  ~torn => \A x \in delivered :
    LET entry == EntryFor(journal, x.id)
    IN  /\ entry.status = "resolved"
        /\ IdOf[entry.env] = x.id
        /\ entry.resolution = x.resolution
        /\ entry.response = x.receipt

\* A client learns an outcome only if it presented the very request that was
\* verified and dispatched, never by naming its Action ID alone.
OutcomeOnlyToSameRequest ==
  \A s \in Clients : answer[s] = "outcome" => flight[Env(s)].req = req[s]

\* "Still executing, not in this process" is only said of a dispatch that
\* failed after the ledger write: a joiner never loses an outcome that was
\* reached while it released its own session.
NotInProcessMeansFailed ==
  \A s \in Subs : answer[s] = "notInProcess" => flight[Env(s)].state = "rejected"

\* A submission that has returned holds no target session, unless the journal
\* refused the executing line.
SessionsReleased ==
  \A s \in Subs : pc[s] = "idle" /\ session[s] => answer[s] = "error"

\* Every submission is answered, or dies with the process.
EverySubmissionReturns ==
  \A s \in Subs : pc[s] # "idle" ~> pc[s] = "idle"

\* Core 6.9.3: an action found executing on restart is resolved.
RestartResolves ==
  \A k \in Keys :
    ~up /\ journal[k].status = "executing" ~> journal[k].status = "resolved"

-----------------------------------------------------------------------------
(***************************************************************************)
(* The inductive invariant behind the safety properties, in parts.  What   *)
(* it says of `journal' is about the appended lines; WriteAhead and        *)
(* DeliveredIsDurable say what of it a restart can count on.               *)
(***************************************************************************)
Dispatchers == {s \in Subs : pc[s] \in {"dispatching", "awaitingReply", "signing"}}

\* Only a running process has submissions, and each carries a request.
ActiveInv ==
  /\ \A s \in Subs : pc[s] # "idle" => up /\ req[s] \in Requests
  /\ ~up => /\ entries = [k \in Keys |-> Absent]
            /\ flight = [e \in Envelopes |-> NoFlight]

\* An entry is one of the three the code builds, filed under its own key.
WellFormed(map) ==
  \A k \in Keys :
    /\ map[k].status = "absent" => map[k] = Absent
    /\ map[k].status # "absent" =>
         /\ map[k].env \in Envelopes
         /\ k \in ActionIds => IdOf[map[k].env] = k
         /\ k \in LegacyIds => Legacy[IdOf[map[k].env]] = k
    /\ map[k].status = "executing" => map[k] = Executing(map[k].env)
    /\ map[k].status = "resolved" => map[k].resolution \in Resolutions

\* The journal is never behind the entries, and ahead of them only by a line
\* whose append threw.
JournalInv ==
  up => \A k \in Keys :
    /\ entries[k].status = "absent" =>
         /\ journal[k].status \in {"absent", "executing"}
         /\ k \in LegacyIds => journal[k] = Absent
    /\ entries[k].status = "executing" =>
         /\ k \in ActionIds
         /\ journal[k].status \in {"executing", "resolved"}
         /\ journal[k].env = entries[k].env
    /\ entries[k].status = "resolved" =>
         /\ journal[k].status = "resolved"
         /\ journal[k].env = entries[k].env
         /\ journal[k].resolution = entries[k].resolution
         /\ entries[k].response # NoResponse => journal[k].response = entries[k].response

\* A flattened key and an explicit pair it covers are never both in use.
LegacyInv ==
  \A a \in ActionIds : journal[Legacy[a]].status # "absent" => journal[a] = Absent

\* At most one submission dispatches an Action ID, holding its executing entry.
DispatchInv ==
  \A s \in Dispatchers :
    /\ entries[Id(s)] = Executing(Env(s))
    /\ journal[Id(s)] = Executing(Env(s))
    /\ pc[s] = "dispatching" => sent[Id(s)] = 0
    /\ pc[s] = "awaitingReply" => sent[Id(s)] = 1
    /\ pc[s] = "signing" => /\ outcome[s] \in Resolutions
                            /\ outcome[s] # "indeterminate" => sent[Id(s)] = 1
    /\ \A t \in Dispatchers : Id(t) = Id(s) => t = s

\* A transmission leaves a trace, durable and in memory, and only a
\* transmission has a definite outcome.
SentInv ==
  \A a \in ActionIds :
    /\ sent[a] \in {0, 1}
    /\ sent[a] = 1 => journal[a].status # "absent"
    /\ sent[a] = 1 /\ up => entries[a].status # "absent"
    /\ journal[a].status = "resolved" /\ journal[a].resolution # "indeterminate"
         => sent[a] = 1

\* What was handed out is what the entry and the journal retain.
DeliveredInv ==
  \A x \in delivered :
    /\ x.receipt # NoResponse
    /\ LET entry == EntryFor(journal, x.id)
       IN  /\ entry.status = "resolved"
           /\ IdOf[entry.env] = x.id
           /\ entry.resolution = x.resolution
           /\ entry.response = x.receipt
    /\ up => LET entry == EntryFor(entries, x.id)
             IN  entry.status = "resolved" /\ entry.response = x.receipt

\* The worker builds a receipt only for an entry that still lacks one.
RecoveryInv ==
  pc[Worker] = "recovering" =>
    LET entry == EntryFor(entries, Id(Worker))
    IN  /\ entry.status = "resolved"
        /\ entry.env = Env(Worker)
        /\ entry.resolution = "indeterminate"
        /\ entry.response = NoResponse

\* A fulfilled promise holds a response that was handed out.
FlightInv ==
  \A e \in Envelopes : flight[e].state = "fulfilled" =>
    [id |-> IdOf[e], resolution |-> flight[e].resolution,
     receipt |-> flight[e].receipt] \in delivered

\* The conjunction that every step preserves.
LedgerInv ==
  /\ TypeOK
  /\ ActiveInv
  /\ WellFormed(entries) /\ WellFormed(journal)
  /\ JournalInv
  /\ LegacyInv
  /\ DispatchInv
  /\ SentInv
  /\ DeliveredInv
  /\ RecoveryInv
  /\ FlightInv

(***************************************************************************)
(* What the joiners of a dispatch rely on, beyond LedgerInv.               *)
(***************************************************************************)
\* A dispatch keeps its Action ID's entry for as long as the process lives,
\* and an executing entry is that of a dispatch pending or failed.
FlightEntryInv ==
  /\ \A e \in Envelopes : flight[e].state # "none" =>
       entries[IdOf[e]].status # "absent"
  /\ \A a \in ActionIds : entries[a].status = "executing" =>
       flight[entries[a].env].state \in {"inFlight", "rejected"}

\* A dispatcher's promise is pending; whoever joined or was answered with an
\* outcome presented the request of the dispatch; whoever captured no dispatch
\* of an executing Action ID saw one that failed.
Joiner(s) ==
  /\ s \in Dispatchers => flight[Env(s)].state = "inFlight"
  /\ capture[s] # "none" => pc[s] = "releasing"
  /\ \/ s \in Dispatchers
     \/ pc[s] = "joined"
     \/ capture[s] = "same"
     \/ s \in Clients /\ answer[s] = "outcome"
     => flight[Env(s)].state # "none" /\ flight[Env(s)].req = req[s]
  /\ \/ pc[s] = "releasing" /\ capture[s] = "none"
     \/ answer[s] = "notInProcess"
     => flight[Env(s)].state = "rejected"
  /\ answer[s] \in {"outcome", "notInProcess"} => req[s] \in Requests

\* A target session is held only between the gate and the target's reply, by
\* one who will close it, or by the one whose gate threw.
Holder(s) ==
  session[s] =>
    \/ pc[s] \in {"closing", "releasing", "dispatching", "awaitingReply"}
    \/ pc[s] = "idle" /\ answer[s] = "error"

JoinInv == FlightEntryInv /\ \A s \in Subs : Joiner(s) /\ Holder(s)

-----------------------------------------------------------------------------
\* The lifecycle condition that the appended lines give an Action ID.  In a
\* running adapter it is that of the entry, or executing where an append threw;
\* an adapter whose journal is torn never starts again.
Condition(a) ==
  LET entry == EntryFor(journal, a)
  IN  IF entry.status = "absent" THEN "unknown"
      ELSE IF entry.status = "executing" THEN "executing"
      ELSE entry.resolution

Lifecycle == INSTANCE AtMostOnceDispatch
               WITH status <- [a \in ActionIds |-> Condition(a)]

\* The adapter, with its crashes, races, joins and failing disk, implements
\* the Verifier lifecycle of the Core specification.
ImplementsLifecycle == Lifecycle!Spec
=============================================================================
