----------------------------- MODULE ActionRelay -----------------------------
(***************************************************************************)
(* The Action Relay: the mailbox kept by the Coordination Service          *)
(* (beginRelayedAction, submitResponseDelivery and pollDeliveries of       *)
(* cli/src/coordination/store.ts), the HTTP handlers in front of it        *)
(* (coordination-api-server.ts) and the notification hub                   *)
(* (notifications.ts) that wakes a connected Verifier.                     *)
(*                                                                         *)
(* Only the Verifier's deliveries are kept in the log: the sequence        *)
(* numbers taken by deliveries to proposers leave gaps that change no      *)
(* comparison.  A proposer's request waits for the Action's promise for a  *)
(* bounded time and may then be repeated, so a wait is no state here: what *)
(* matters is whether the promise is settled.                              *)
(***************************************************************************)
EXTENDS Naturals, Sequences, FiniteSets, FiniteSetsExt

CONSTANTS
  Envelopes,   \* Action Envelopes, told apart by their hash
  IdOf,        \* IdOf[e] is the Action ID in envelope e
  PageSize     \* DELIVERY_PAGE_SIZE

ASSUME RelayConstants ==
  /\ DOMAIN IdOf = Envelopes
  /\ PageSize \in Nat \ {0}

VARIABLES
  log,        \* deliveries to the Verifier, in sequence order
  settled,    \* envelopes whose first response has settled the promise
  late,       \* envelopes whose delivery has expired
  link,       \* the hub's side of the Verifier's socket: a ticket issued, or bound
  wake        \* a RelayWorkAvailable frame is on its way

relayVars == <<log, settled, late>>
hubVars == <<link, wake>>

\* A delivery to the Verifier: an Action Request, or a payload of another type.
Entry == [kind: {"request", "other"}, env: Envelopes]

RelayTypeOK ==
  /\ log \in Seq(Entry)
  /\ settled \subseteq Envelopes
  /\ late \subseteq Envelopes
  /\ link \in {"none", "ticket", "bound"}
  /\ wake \in BOOLEAN

RelayInit ==
  /\ log = <<>>
  /\ settled = {}
  /\ late = {}
  /\ link = "none" /\ wake = FALSE

-----------------------------------------------------------------------------
\* relayedActionsByEnvelopeHash
Relayed == {log[i].env : i \in 1 .. Len(log)}

\* storeEnvelope, and the handler's notify: only a bound socket gets the frame.
StoreEnvelope(kind, e) ==
  /\ log' = Append(log, [kind |-> kind, env |-> e])
  /\ wake' = (wake \/ link = "bound")

\* An unexpired delivery; a response has no expiry.
Live(i) == log[i].kind = "other" \/ log[i].env \notin late

\* validateRelayedAction: the Action ID exists with another envelope hash.
IdConflict(e) == \E f \in Relayed : IdOf[f] = IdOf[e] /\ f # e

\* The relay handler.  Authentication, structure, recipients and a reused nonce
\* refuse statelessly; what is validated before the nonce is awaited is
\* validated again in beginRelayedAction.  An envelope already relayed is not
\* delivered twice: the repeated request waits for the same promise.
RelayAction(e) ==
  /\ ~IdConflict(e)
  /\ e \notin Relayed
  /\ StoreEnvelope("request", e)
  /\ UNCHANGED <<settled, late, link>>

\* expiresAt of the delivery of e passes.
Expire(e) ==
  /\ e \in Relayed \ late
  /\ late' = late \cup {e}
  /\ UNCHANGED <<log, settled, hubVars>>

\* Another client of the Verifier's DID delivers a response of its own and
\* addresses it to the Verifier too, which is an authorized recipient.
DeliverToVerifier(e) ==
  /\ e \in Relayed
  /\ \A i \in 1 .. Len(log) : log[i].kind # "other"
  /\ StoreEnvelope("other", e)
  /\ settled' = settled \cup {e}
  /\ UNCHANGED <<late, link>>

-----------------------------------------------------------------------------
\* submitResponseDelivery of the Verifier: the first response settles the
\* promise, a later one is only logged for the proposer.  Only a relayed
\* envelope has a target.
SubmitResponseDelivery(e) == settled' = settled \cup {e}

\* The unexpired deliveries after a cursor and up to number i.
Ready(cursor, i) == {j \in cursor + 1 .. i : Live(j)}

\* The deliveries pollDeliveries finds after a cursor, as their sequence
\* numbers: the unexpired ones, and of those the first page.
PollDeliveries(cursor) ==
  {i \in Ready(cursor, Len(log)) : Cardinality(Ready(cursor, i)) <= PageSize}

\* issue: a new ticket for a new socket.
Issue == link' = "ticket" /\ wake' = FALSE

\* handleUpgrade and bind: a ticket is used once; a bound socket is woken when
\* there is work (any unexpired delivery, polled or not), for a frame sent
\* before it was bound reached nobody.
HandleUpgrade ==
  /\ link = "ticket"
  /\ link' = "bound"
  /\ wake' = \E i \in 1 .. Len(log) : Live(i)

Unbind == link' = "none" /\ wake' = FALSE
==============================================================================
