------------------------- MODULE VerifierRelayWorker -------------------------
(***************************************************************************)
(* The Verifier's outbound worker                                          *)
(* (cli/src/adapter/verifier-relay-worker.ts) against the Action Relay:    *)
(* it polls after connecting, after each wake-up and by a timer; the polls *)
(* form one chain.  A response is cached and saved before it is submitted, *)
(* and the cursor is saved after the page is done, so that a crash at any  *)
(* await repeats work but never changes a response.                        *)
(***************************************************************************)
EXTENDS ActionRelay

CONSTANTS
  Versions,    \* response bodies: each evaluation signs new bytes
  NoVersion,
  SaveFaults,  \* whether writing the state file may fail
  MaxFaults,   \* bound: failed calls, lost frames, dropped sockets and crashes
  MaxQueue     \* bound: polls waiting in the chain

ASSUME WorkerConstants ==
  /\ NoVersion \notin Versions
  /\ SaveFaults \in BOOLEAN
  /\ MaxFaults \in Nat
  /\ MaxQueue \in Nat

VARIABLES
  conn,       \* where the connection loop awaits
  socket,     \* the worker's end of the WebSocket
  fatal,      \* fatalError is set
  queue,      \* the callers of pollNow whose drains are in pollChain
  drain,      \* the drain in progress: where it awaits, and the rest of its page
  mem,        \* this.state: the cursor and the response cache
  disk,       \* what FileVerifierRelayStateStore last renamed into place
  faults,
  submitted   \* history: the responses this worker submitted

loopVars == <<conn, socket, fatal>>
workerVars == <<loopVars, queue, drain, mem, disk, faults, submitted>>
vars == <<relayVars, hubVars, workerVars>>

Callers == {"connect", "notify", "timer"}
Cached == [version: Versions \cup {NoVersion}, delivered: BOOLEAN]
State == [cursor: 0 .. Len(log), cache: [Envelopes -> Cached]]

NoCached == [version |-> NoVersion, delivered |-> FALSE]
NewState == [cursor |-> 0, cache |-> [e \in Envelopes |-> NoCached]]
NoDrain == [at |-> "polling", page |-> {}, todo |-> {}]

TypeOK ==
  /\ RelayTypeOK
  /\ conn \in {"off", "connecting", "polling", "listening", "delay", "done"}
  /\ socket \in {"none", "open", "closed"}
  /\ fatal \in BOOLEAN
  /\ queue \in Seq(Callers) /\ Len(queue) <= MaxQueue + 1
  /\ drain \in [at: {"polling", "deciding", "processing", "saving",
                     "submitting", "confirming", "advancing"},
                page: SUBSET (1 .. Len(log)), todo: SUBSET (1 .. Len(log))]
  /\ mem \in State /\ disk \in State
  /\ faults \in 0 .. MaxFaults
  /\ submitted \subseteq Envelopes \X Versions

Init ==
  /\ RelayInit
  /\ conn = "off" /\ socket = "none" /\ fatal = FALSE
  /\ queue = <<>> /\ drain = NoDrain
  /\ mem = NewState /\ disk = NewState
  /\ faults = 0 /\ submitted = {}

Running == conn # "off"
Fault == faults < MaxFaults /\ faults' = faults + 1

-----------------------------------------------------------------------------
\* create and start, with the saved state (Exit leaves it in mem).
Start ==
  /\ conn = "off"
  /\ conn' = "connecting"
  /\ UNCHANGED <<relayVars, hubVars, socket, fatal, queue, drain, mem, disk,
                 faults, submitted>>

\* pollNow
Enqueue(caller) ==
  /\ Len(queue) < MaxQueue
  /\ queue' = Append(queue, caller)

\* connectWorkNotifications: a session ticket, and a socket whose upgrade is
\* still on its way when the drain is queued.
Connect ==
  /\ conn = "connecting"
  /\ conn' = "polling"
  /\ socket' = "open"
  /\ Issue
  /\ queue' = Append(queue, "connect")
  /\ UNCHANGED <<relayVars, fatal, drain, mem, disk, faults, submitted>>

Upgrade ==
  /\ socket = "open"
  /\ HandleUpgrade
  /\ UNCHANGED <<relayVars, workerVars>>

Wake ==
  /\ wake /\ socket = "open"
  /\ Enqueue("notify")
  /\ wake' = FALSE
  /\ UNCHANGED <<relayVars, link, loopVars, drain, mem, disk, faults, submitted>>

\* Mutated form of FallbackPoll: the interval only bridges a lost connection.
FallbackWhenDown ==
  /\ conn = "delay"
  /\ Enqueue("timer")
  /\ UNCHANGED <<relayVars, hubVars, loopVars, drain, mem, disk, faults, submitted>>

\* The fallback interval; enterFatal clears it.
FallbackPoll ==
  /\ Running /\ ~fatal
  /\ \A i \in 1 .. Len(queue) : queue[i] # "timer"
  /\ Enqueue("timer")
  /\ UNCHANGED <<relayVars, hubVars, loopVars, drain, mem, disk, faults, submitted>>

\* waitForSocketEnd returned, or the connect failed: leave, or retry after the
\* backoff delay.
Disconnected ==
  \/ /\ conn = "listening"
     /\ socket = "closed"
     /\ socket' = "none"
     /\ conn' = IF fatal THEN "done" ELSE "delay"
     /\ UNCHANGED <<relayVars, hubVars, fatal, queue, drain, mem, disk, faults, submitted>>
  \/ /\ conn = "connecting"
     /\ Fault
     /\ \E permanent \in BOOLEAN :
          /\ fatal' = (fatal \/ permanent)
          /\ conn' = IF fatal' THEN "done" ELSE "delay"
     /\ UNCHANGED <<relayVars, hubVars, socket, queue, drain, mem, disk, submitted>>

Retry ==
  /\ conn = "delay"
  /\ conn' = IF fatal THEN "done" ELSE "connecting"
  /\ UNCHANGED <<relayVars, hubVars, socket, fatal, queue, drain, mem, disk, faults, submitted>>

-----------------------------------------------------------------------------
\* The connection loop goes on when its own drain has returned.
Resume(ok) ==
  IF Head(queue) # "connect" \/ conn # "polling" THEN UNCHANGED <<conn, socket>>
  ELSE IF ok THEN conn' = "listening" /\ UNCHANGED socket
  ELSE /\ socket' = "none"
       /\ conn' = IF fatal' THEN "done" ELSE "delay"

DrainReturns ==
  /\ queue' = Tail(queue)
  /\ drain' = NoDrain
  /\ UNCHANGED fatal
  /\ Resume(TRUE)

\* The page's first delivery that is still to be looked at, and its envelope.
First == Min(drain.todo)
Current == log[First].env

\* The drain awaits elsewhere, or has done with its first delivery.
Await(where) == drain' = [at |-> where, page |-> drain.page, todo |-> drain.todo]
NextDelivery ==
  drain' = [at |-> "deciding", page |-> drain.page, todo |-> drain.todo \ {First}]

\* The cached response of envelope e becomes x.
Cache(e, x) ==
  mem' = [cursor |-> mem.cursor, cache |-> [mem.cache EXCEPT ![e] = x]]

\* A drain throws: a permanent error is fatal and closes the socket, another
\* one ends the connection of the drain that met it.
DrainFails(permanent) ==
  /\ queue' = Tail(queue)
  /\ drain' = NoDrain
  /\ fatal' = (fatal \/ permanent)
  /\ IF Head(queue) = "connect" THEN Resume(FALSE)
     ELSE /\ socket' = IF socket = "open" /\ (permanent \/ Head(queue) = "notify")
                       THEN "closed" ELSE socket
          /\ UNCHANGED conn

\* The chain's next drain, or the next round of one: pollDeliveries answers a
\* page, or nothing and the drain is over.
Poll ==
  /\ queue # <<>> /\ drain.at = "polling"
  /\ LET page == PollDeliveries(mem.cursor) IN
     IF page = {}
     THEN DrainReturns
     ELSE /\ drain' = [at |-> "deciding", page |-> page, todo |-> page]
          /\ UNCHANGED <<queue, fatal, conn, socket>>
  /\ UNCHANGED <<relayVars, hubVars, mem, disk, faults, submitted>>

\* A call of the drain fails: unreachable or 5xx, refused, or (of processAction)
\* the Action is still pending.  A failing save is permanent.
CallFails ==
  /\ queue # <<>> /\ drain.at # "deciding"
  /\ Fault
  /\ \E permanent \in BOOLEAN :
       /\ drain.at \in {"saving", "confirming", "advancing"} => permanent /\ SaveFaults
       /\ DrainFails(permanent)
  /\ UNCHANGED <<relayVars, hubVars, mem, disk, submitted>>

\* parseActionRequestEnvelope accepts the delivery.
IsActionRequest(i) == log[i].kind = "request"

\* processDelivery up to its first await; a delivery of another type is a
\* permanent error, an expired one is passed over.
ProcessDelivery ==
  /\ drain.at = "deciding" /\ drain.todo # {}
  /\ IF ~IsActionRequest(First)
     THEN DrainFails(TRUE)
     ELSE /\ IF Current \in late THEN NextDelivery
             ELSE IF mem.cache[Current].version = NoVersion THEN Await("processing")
             ELSE IF mem.cache[Current].delivered THEN NextDelivery
             ELSE Await("submitting")
          /\ UNCHANGED <<queue, fatal, conn, socket>>
  /\ UNCHANGED <<relayVars, hubVars, mem, disk, faults, submitted>>

\* Mutated form of ProcessAction: the response is submitted before it is saved.
ProcessUnsaved(v) ==
  /\ drain.at = "processing"
  /\ Cache(Current, [version |-> v, delivered |-> FALSE])
  /\ Await("submitting")
  /\ UNCHANGED <<relayVars, hubVars, loopVars, queue, disk, faults, submitted>>

\* processAction returned a response for this Verifier and envelope; it is
\* cached in memory and its save begins.
ProcessAction(v) ==
  /\ drain.at = "processing"
  /\ Cache(Current, [version |-> v, delivered |-> FALSE])
  /\ Await("saving")
  /\ UNCHANGED <<relayVars, hubVars, loopVars, queue, disk, faults, submitted>>

\* saveState: a rename puts the whole state in place.
Save ==
  /\ disk' = mem
  /\ \/ drain.at = "saving" /\ Await("submitting")
     \/ drain.at = "confirming" /\ NextDelivery
     \/ drain.at = "advancing" /\ drain' = NoDrain
  /\ UNCHANGED <<relayVars, hubVars, loopVars, queue, mem, faults, submitted>>

\* submitActionResponse: the relay accepts the cached response, and the
\* acknowledgement may be lost on its way back.
Submit ==
  LET v == mem.cache[Current].version IN
  /\ drain.at = "submitting"
  /\ SubmitResponseDelivery(Current)
  /\ submitted' = submitted \cup {<<Current, v>>}
  /\ \/ /\ Cache(Current, [version |-> v, delivered |-> TRUE])
        /\ Await("confirming")
        /\ UNCHANGED <<queue, fatal, conn, socket, faults>>
     \/ /\ Fault
        /\ DrainFails(FALSE)
        /\ UNCHANGED mem
  /\ UNCHANGED <<log, late, hubVars, disk>>

\* Mutated form of AdvanceCursor: it follows the relay's log, not the page.
AdvanceToEnd ==
  /\ drain.at = "deciding" /\ drain.todo = {}
  /\ mem' = [mem EXCEPT !.cursor = Len(log)]
  /\ Await("advancing")
  /\ UNCHANGED <<relayVars, hubVars, loopVars, queue, disk, faults, submitted>>

\* The page is done: the cursor moves to its last delivery and the delivered
\* responses are dropped, in one save.
AdvanceCursor ==
  /\ drain.at = "deciding" /\ drain.todo = {}
  /\ mem' = [cursor |-> Max(drain.page),
             cache |-> [e \in Envelopes |-> IF mem.cache[e].delivered THEN NoCached
                                                                      ELSE mem.cache[e]]]
  /\ Await("advancing")
  /\ UNCHANGED <<relayVars, hubVars, loopVars, queue, disk, faults, submitted>>

-----------------------------------------------------------------------------
\* The socket drops; frames on their way are lost, and the hub forgets it.
Drop ==
  /\ socket = "open"
  /\ Fault
  /\ socket' = "closed"
  /\ Unbind
  /\ UNCHANGED <<relayVars, conn, fatal, queue, drain, mem, disk, submitted>>

\* A frame is lost on a connection both ends take for open.
LoseFrame ==
  /\ wake
  /\ Fault
  /\ wake' = FALSE
  /\ UNCHANGED <<relayVars, link, loopVars, queue, drain, mem, disk, submitted>>

\* The process ends: after a fatal error, or by a crash at any await.  stop()
\* lets the drain in progress reach its next look at the signal and so leaves
\* nothing behind that a crash there does not leave.
Exit ==
  /\ Running
  /\ \/ conn = "done" /\ queue = <<>> /\ UNCHANGED faults
     \/ Fault
  /\ conn' = "off" /\ socket' = "none" /\ queue' = <<>> /\ drain' = NoDrain
  /\ Unbind
  /\ fatal' = FALSE
  /\ mem' = disk
  /\ UNCHANGED <<relayVars, disk, submitted>>

DrainStep ==
  \/ Poll \/ ProcessDelivery \/ Save \/ Submit \/ AdvanceCursor
  \/ \E v \in Versions : ProcessAction(v)

LoopStep == Start \/ Connect \/ Disconnected \/ Retry

Proposal ==
  /\ \E e \in Envelopes : RelayAction(e) \/ Expire(e) \/ DeliverToVerifier(e)
  /\ UNCHANGED workerVars

Next ==
  \/ Proposal
  \/ LoopStep \/ Upgrade \/ Wake \/ FallbackPoll
  \/ DrainStep \/ CallFails
  \/ Drop \/ LoseFrame \/ Exit

Spec == Init /\ [][Next]_vars

\* The event loop runs what is ready and the timer fires; a process that has
\* ended is started again.
FairSpec == /\ Spec
            /\ WF_vars(DrainStep)
            /\ WF_vars(LoopStep)
            /\ WF_vars(FallbackPoll)
            /\ WF_vars(Exit /\ conn = "done")

-----------------------------------------------------------------------------
\* Across lost acknowledgements, reconnects and crashes the worker submits the
\* exact response it first submitted for an Action.
ExactResubmission ==
  \A x, y \in submitted : x[1] = y[1] => x[2] = y[2]

\* A delivery the worker may leave behind: an Action Request that is answered
\* or has expired.
Handled(i) ==
  IsActionRequest(i) /\ (log[i].env \in settled \/ log[i].env \in late)

\* The cursor, in memory and on disk, never passes a delivery that is neither
\* answered nor expired, nor one whose payload is not an Action Request; a
\* response marked as delivered did settle its Action.
CursorPassesOnlyHandled ==
  \A s \in {mem, disk} :
    /\ \A i \in 1 .. s.cursor : Handled(i)
    /\ \A e \in Envelopes : s.cache[e].delivered => e \in settled

\* The page in progress: what is no longer to be done is handled, and what lies
\* between the cursor and its last delivery and is not in it has expired.
PageInv ==
  /\ drain.todo \subseteq drain.page
  /\ \A i \in drain.page \ drain.todo : Handled(i)
  /\ drain.at # "advancing" =>
       \A m \in drain.page : /\ mem.cursor < m
                             /\ \A i \in mem.cursor + 1 .. m : i \in drain.page \/ ~Live(i)
  /\ drain.at \in {"processing", "saving", "submitting", "confirming"} =>
       /\ drain.todo # {} /\ IsActionRequest(First)
       /\ drain.at # "processing" => mem.cache[Current].version # NoVersion
       /\ drain.at = "confirming" => Current \in settled
  /\ drain.at = "deciding" => drain.page # {}

\* The chain of polls: a drain in progress has its caller at the head, and the
\* connection loop waits for one drain of its own at a time.
ChainInv ==
  /\ drain.at # "polling" => queue # <<>>
  /\ conn # "polling" => /\ Len(queue) <= MaxQueue
                         /\ \A i \in 1 .. Len(queue) : queue[i] # "connect"
  /\ \A i, j \in 1 .. Len(queue) : queue[i] = "connect" /\ queue[j] = "connect" => i = j

\* Every variable has its type and the cursor, wherever a crash or a lost
\* acknowledgement cut a page short, is behind everything that still has to
\* be answered (verifier-relay-worker.ts: drain, saveState).
RelayInv == TypeOK /\ CursorPassesOnlyHandled /\ PageInv /\ ChainInv

-----------------------------------------------------------------------------
(***************************************************************************)
(* Why the worker never evaluates an Action again once it has submitted a  *)
(* response, when the state file can be written: what was submitted is in  *)
(* the cache on disk, until its delivery is behind the cursor or expired.  *)
(***************************************************************************)
Delivers(i, e) == log[i] = [kind |-> "request", env |-> e]

Done(e, cursor) ==
  e \in late \/ \A i \in 1 .. Len(log) : Delivers(i, e) => i <= cursor

\* The delivery of e is done with, or in the page.
InPage(e, cursor, page) ==
  e \in late \/ \A i \in 1 .. Len(log) : Delivers(i, e) => i <= cursor \/ i \in page

\* An envelope is relayed once.
OneDelivery ==
  \A e \in Envelopes : \A i, j \in 1 .. Len(log) :
    Delivers(i, e) /\ Delivers(j, e) => i = j

\* State s retains what was submitted, and marks as delivered only what the next
\* page has again, so that the cursor passes it when the mark is dropped.
Retains(s) ==
  /\ \A x \in submitted :
       \/ s.cache[x[1]].version = x[2]
       \/ s.cache[x[1]].version = NoVersion /\ Done(x[1], s.cursor)
  /\ \A e \in Envelopes : s.cache[e].delivered =>
       e \in Relayed /\ InPage(e, s.cursor, PollDeliveries(s.cursor))

\* The page in progress is still the next page, and has what was delivered.
PageStands ==
  drain.at # "advancing" =>
    /\ \A i \in drain.page : Live(i) => i \in PollDeliveries(mem.cursor)
    /\ drain.at # "polling" => \A e \in Envelopes :
         mem.cache[e].delivered => InPage(e, mem.cursor, drain.page)

\* Memory is ahead of the disk only while it is being saved, and an Action is
\* evaluated only if no response to it was submitted.
SavedFirst ==
  /\ drain.at \in {"processing", "saving"} => \A x \in submitted : x[1] # Current
  /\ \A e \in Envelopes : mem.cache[e].version # disk.cache[e].version =>
       \/ drain.at = "saving" /\ e = Current
       \/ drain.at = "advancing" /\ mem.cache[e].version = NoVersion

ResubmissionInv ==
  /\ ExactResubmission
  /\ OneDelivery
  /\ \A x \in submitted : x[1] \in Relayed
  /\ Retains(mem) /\ Retains(disk)
  /\ PageStands
  /\ SavedFirst

-----------------------------------------------------------------------------
\* A relayed Action is eventually answered at the relay, whatever frames and
\* polls are lost, unless it expires or the worker stops.
RelayedIsAnswered ==
  \A e \in Envelopes :
    (e \in Relayed) ~> (e \in settled \cup late \/ fatal)
==============================================================================
