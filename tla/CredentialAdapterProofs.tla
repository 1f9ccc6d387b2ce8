----------------------- MODULE CredentialAdapterProofs -----------------------
(***************************************************************************)
(* Proofs about the Credential Adapter for every choice of its constants:  *)
(* any number of Action IDs, envelopes, requests and concurrent clients,   *)
(* with a sound or a failing disk.  LedgerInv is shown inductive, one      *)
(* lemma per group of actions; the safety theorems follow from it.         *)
(***************************************************************************)
EXTENDS CredentialAdapter, TLAPS

USE LedgerConstants, AdapterConstants

-----------------------------------------------------------------------------
\* The ledger's own operations keep its type.
LEMMA AbsentType == Absent \in Entry
  BY DEF Absent, Entry, NoResponse

LEMMA ExecutingType == ASSUME NEW e \in Envelopes PROVE Executing(e) \in Entry
  BY DEF Executing, Entry, NoResponse

LEMMA ResolvedType ==
  ASSUME NEW x \in Entry, NEW r \in Resolutions, NEW n \in Nat
  PROVE  /\ Resolved(x, r, n) \in Entry
         /\ ReplayResolved(x, r, n) \in Entry
  BY DEF Resolved, ReplayResolved, Entry

LEMMA KeyType ==
  ASSUME NEW map, NEW a \in ActionIds
  PROVE  EntryKey(map, a) \in Keys
  BY DEF EntryKey, Keys

LEMMA AppendType ==
  ASSUME LedgerTypeOK, NEW k \in Keys, NEW x \in Entry, NEW ok \in BOOLEAN,
         Append(k, x, ok)
  PROVE  journal' \in [Keys -> Entry] /\ torn' \in BOOLEAN
  BY DEF LedgerTypeOK, Append

LEMMA WriteExecutingType ==
  ASSUME LedgerTypeOK, NEW e \in Envelopes, NEW ok \in BOOLEAN, WriteExecuting(e, ok)
  PROVE  LedgerTypeOK'
<1>1. IdOf[e] \in Keys /\ Executing(e) \in Entry
  BY ExecutingType DEF Keys
<1>2. journal' \in [Keys -> Entry] /\ torn' \in BOOLEAN
  BY <1>1, AppendType DEF WriteExecuting
<1> QED
  BY <1>1, <1>2 DEF WriteExecuting, LedgerTypeOK

LEMMA ResolveType ==
  ASSUME LedgerTypeOK, NEW e \in Envelopes, NEW r \in Resolutions, NEW n \in Nat,
         NEW ok \in BOOLEAN, Resolve(e, r, n, ok)
  PROVE  LedgerTypeOK'
<1> DEFINE k == EntryKey(entries, IdOf[e])
<1>1. k \in Keys
  BY KeyType
<1>2. CASE ResolveIgnored(e, r)
  BY <1>2 DEF Resolve, LedgerTypeOK
<1>3. CASE ~ResolveIgnored(e, r)
  <2>1. /\ entries[k] \in Entry
        /\ journal[k] \in Entry
    BY <1>1 DEF LedgerTypeOK
  <2>2. /\ Resolved(entries[k], r, n) \in Entry
        /\ ReplayResolved(journal[k], r, n) \in Entry
    BY <2>1, ResolvedType
  <2>3. /\ Append(k, ReplayResolved(journal[k], r, n), ok)
        /\ entries' = IF ok THEN [entries EXCEPT ![k] = Resolved(entries[k], r, n)]
                            ELSE entries
        /\ up' = up
    BY <1>3 DEF Resolve
  <2>4. journal' \in [Keys -> Entry] /\ torn' \in BOOLEAN
    BY <1>1, <2>2, <2>3, AppendType
  <2> QED
    BY <1>1, <2>2, <2>3, <2>4 DEF LedgerTypeOK
<1> QED
  BY <1>2, <1>3

LEMMA RecoverType ==
  ASSUME NEW map \in [Keys -> Entry], NEW S
  PROVE  RecoverKeys(map, S) \in [Keys -> Entry]
<1>1. NoResponse \in Nat /\ "indeterminate" \in Resolutions
  BY DEF NoResponse, Resolutions
<1>2. ASSUME NEW k \in Keys PROVE Resolved(map[k], "indeterminate", NoResponse) \in Entry
  BY <1>1, ResolvedType
<1> QED
  BY <1>2 DEF RecoverKeys

-----------------------------------------------------------------------------
\* A submission's request names an envelope and an Action ID.
LEMMA SubType ==
  ASSUME NEW s \in Subs, req[s] \in Requests
  PROVE  Env(s) \in Envelopes /\ Id(s) \in ActionIds
  BY DEF Env, Id

\* Type correctness and ActiveInv, action by action.
LEMMA TypeStep == LedgerInv /\ [Next]_vars => TypeOK' /\ ActiveInv'
<1> SUFFICES ASSUME LedgerInv, [Next]_vars PROVE TypeOK' /\ ActiveInv'
  OBVIOUS
<1>a. TypeOK /\ ActiveInv /\ DispatchInv /\ FlightInv
  BY DEF LedgerInv
<1> USE DEF TypeOK, ActiveInv
<1> DEFINE Goal == TypeOK' /\ ActiveInv'
<1>0. ASSUME NEW s \in Subs, pc[s] # "idle"
      PROVE  up /\ req[s] \in Requests /\ Env(s) \in Envelopes /\ Id(s) \in ActionIds
  BY <1>0, <1>a, SubType
<1>1. ASSUME NEW s \in Clients, NEW r \in Requests, Receive(s, r) PROVE Goal
  BY <1>a, <1>1 DEF Receive, Enter, Begin, Finish, Goto, Capture, Captures, Check, PCs, Answers, ledgerVars, historyVars, LedgerTypeOK, Subs
<1>2. ASSUME NEW s \in Subs, Verify(s) PROVE Goal
  BY <1>a, <1>2 DEF Verify, Finish, Goto, PCs, Answers, ledgerVars, historyVars, LedgerTypeOK
<1>3. ASSUME NEW s \in Subs, PrepareFails(s) PROVE Goal
  BY <1>a, <1>3 DEF PrepareFails, Finish, PCs, Answers, ledgerVars, historyVars, LedgerTypeOK
<1>4. ASSUME NEW s \in Subs, GateDispatch(s) PROVE Goal
  <2>1. LedgerTypeOK'
    BY <1>a, <1>0, <1>4, WriteExecutingType DEF GateDispatch
  <2>2. flight' \in [Envelopes -> Flight]
    BY <1>a, <1>0, <1>4 DEF GateDispatch, Flight, NoResponse
  <2> QED
    BY <1>a, <1>0, <1>4, <2>1, <2>2 DEF GateDispatch, Goto, PCs, Answers, historyVars, WriteExecuting
<1>5. ASSUME NEW s \in Subs, GateThrows(s) PROVE Goal
  <2>1. LedgerTypeOK'
    BY <1>a, <1>0, <1>5, WriteExecutingType DEF GateThrows
  <2> QED
    BY <1>a, <1>0, <1>5, <2>1 DEF GateThrows, Finish, PCs, Answers, historyVars, WriteExecuting
<1>6. ASSUME NEW s \in Subs, GateRaced(s) PROVE Goal
  BY <1>a, <1>6 DEF GateRaced, Finish, Goto, Capture, Captures, Check, PCs, Answers, ledgerVars, historyVars, LedgerTypeOK
<1>7. ASSUME NEW s \in Subs, CloseSession(s) PROVE Goal
  BY <1>a, <1>7 DEF CloseSession, PCs, Answers, ledgerVars, historyVars, LedgerTypeOK
<1>8. ASSUME NEW s \in Subs, Join(s) PROVE Goal
  BY <1>a, <1>8 DEF Join, Finish, Goto, Captures, PCs, Answers, ledgerVars, historyVars, LedgerTypeOK
<1>9. ASSUME NEW s \in Subs, JoinSettled(s) PROVE Goal
  <2>1. delivered' \subseteq Response
    BY <1>a, <1>0, <1>9 DEF JoinSettled, Deliver, FlightInv, Id
  <2> QED
    BY <1>a, <1>9, <2>1 DEF JoinSettled, Finish, PCs, Answers, ledgerVars, LedgerTypeOK
<1>10. ASSUME NEW s \in Subs, JoinTimesOut(s) PROVE Goal
  BY <1>a, <1>10 DEF JoinTimesOut, Finish, PCs, Answers, ledgerVars, historyVars, LedgerTypeOK
<1>11. ASSUME NEW s \in Subs, Transmit(s) PROVE Goal
  BY <1>a, <1>0, <1>11 DEF Transmit, Goto, PCs, Answers, ledgerVars, LedgerTypeOK
<1>12. ASSUME NEW s \in Subs, Classify(s) PROVE Goal
  BY <1>a, <1>12 DEF Classify, Goto, PCs, Answers, Resolutions, ledgerVars, historyVars, LedgerTypeOK
<1>13. ASSUME NEW s \in Subs, Record(s) PROVE Goal
  <2> DEFINE n == signed[Id(s)] + 1
  <2>1. n \in Nat /\ outcome[s] \in Resolutions /\ pc[s] = "signing"
    BY <1>a, <1>0, <1>13 DEF Record, DispatchInv, Dispatchers
  <2>2. Resolve(Env(s), outcome[s], n, TRUE)
    BY <1>13 DEF Record
  <2>3. LedgerTypeOK' /\ up' = up
    BY <1>a, <1>0, <2>1, <2>2, ResolveType DEF Resolve
  <2>4. delivered' \subseteq Response
    BY <1>a, <1>0, <1>13, <2>1 DEF Record, Deliver, Response
  <2>5. flight' \in [Envelopes -> Flight]
    BY <1>a, <1>0, <1>13, <2>1 DEF Record, Settle, Flight
  <2> QED
    BY <1>a, <1>0, <1>13, <2>1, <2>3, <2>4, <2>5 DEF Record, Finish, PCs, Answers
<1>14. ASSUME NEW s \in Subs, RecordThrows(s) PROVE Goal
  <2> DEFINE n == signed[Id(s)] + 1
  <2>1. n \in Nat /\ outcome[s] \in Resolutions /\ pc[s] = "signing"
    BY <1>a, <1>0, <1>14 DEF RecordThrows, DispatchInv, Dispatchers
  <2>2. UNCHANGED ledgerVars \/ Resolve(Env(s), outcome[s], n, FALSE)
    BY <1>14 DEF RecordThrows
  <2>3. LedgerTypeOK' /\ up' = up
    <3>1. CASE UNCHANGED ledgerVars
      BY <1>a, <3>1 DEF ledgerVars, LedgerTypeOK
    <3>2. CASE Resolve(Env(s), outcome[s], n, FALSE)
      BY <1>a, <1>0, <2>1, <3>2, ResolveType DEF Resolve
    <3> QED BY <2>2, <3>1, <3>2
  <2>5. flight' \in [Envelopes -> Flight]
    BY <1>a, <1>0, <1>14, <2>1 DEF RecordThrows, Settle, Flight, NoResponse
  <2>6. signed' \in [ActionIds -> Nat]
    BY <1>a, <1>0, <1>14, <2>1 DEF RecordThrows
  <2> QED
    <3> HIDE DEF n
    <3>1. /\ pc' = [pc EXCEPT ![s] = "idle"]
          /\ answer' = [answer EXCEPT ![s] = "error"]
          /\ outcome' = [outcome EXCEPT ![s] = "none"]
          /\ UNCHANGED <<req, capture, session, expired, sent, delivered>>
      BY <1>14 DEF RecordThrows, Finish
    <3> QED
      BY <1>a, <1>0, <2>1, <2>3, <2>5, <2>6, <3>1 DEF PCs, Answers
<1>15. ASSUME NEW r \in Requests, Process(r) PROVE Goal
  <2> DEFINE e == EnvOf[r]
             entry == EntryFor(entries, IdOf[e])
  <2>1. Worker \in Subs /\ e \in Envelopes /\ IdOf[e] \in ActionIds
    BY DEF Subs
  <2>2. entry \in Entry
    BY <1>a, <2>1, KeyType DEF EntryFor, LedgerTypeOK
  <2>3. delivered' \subseteq Response
    BY <1>a, <1>15, <2>1, <2>2 DEF Process, Recoverable, Response, Entry, Resolutions
  <2>4. up /\ UNCHANGED <<ledgerVars, flight, expired, signed, sent>>
    BY <1>15 DEF Process
  <2>5. ASSUME Begin(Worker, r), UNCHANGED capture,
               Finish(Worker, "outcome") \/ Goto(Worker, "recovering")
        PROVE  Goal
    BY <1>a, <2>1, <2>3, <2>4, <2>5
       DEF Begin, Finish, Goto, PCs, Answers, ledgerVars, LedgerTypeOK
  <2>6. ASSUME Enter(Worker, r) PROVE Goal
    BY <1>a, <2>1, <2>3, <2>4, <2>6 DEF Enter, Begin, Finish, Goto, Capture,
       Captures, Check, PCs, Answers, ledgerVars, LedgerTypeOK
  <2> QED
    BY <1>15, <2>5, <2>6 DEF Process
<1>16. CASE RecoverRecord
  <2> DEFINE n == signed[Id(Worker)] + 1
  <2>1. Worker \in Subs /\ pc[Worker] = "recovering"
    BY <1>16 DEF Subs, RecoverRecord
  <2>2. n \in Nat /\ Env(Worker) \in Envelopes /\ Id(Worker) \in ActionIds
    BY <1>a, <1>0, <2>1
  <2>3. LedgerTypeOK' /\ up' = up
    BY <1>a, <2>2, <1>16, ResolveType DEF RecoverRecord, Resolve, Resolutions
  <2>4. delivered' \subseteq Response
    BY <1>a, <1>16, <2>2 DEF RecoverRecord, Deliver, Response, Resolutions
  <2> QED
    BY <1>a, <1>0, <1>16, <2>1, <2>2, <2>3, <2>4 DEF RecoverRecord, Finish, PCs, Answers
<1>17. CASE RecoverThrows
  <2> DEFINE n == signed[Id(Worker)] + 1
  <2>1. Worker \in Subs /\ pc[Worker] = "recovering"
    BY <1>17 DEF Subs, RecoverThrows
  <2>2. n \in Nat /\ Env(Worker) \in Envelopes /\ Id(Worker) \in ActionIds
    BY <1>a, <1>0, <2>1
  <2>3. LedgerTypeOK' /\ up' = up
    <3>1. CASE UNCHANGED ledgerVars
      BY <1>a, <3>1 DEF ledgerVars, LedgerTypeOK
    <3>2. CASE Resolve(Env(Worker), "indeterminate", n, FALSE)
      BY <1>a, <2>2, <3>2, ResolveType DEF Resolve, Resolutions
    <3> QED BY <1>17, <3>1, <3>2 DEF RecoverThrows
  <2>4. signed' \in [ActionIds -> Nat]
    BY <1>a, <1>17, <2>2 DEF RecoverThrows
  <2> QED
    <3> HIDE DEF n
    <3>1. /\ pc' = [pc EXCEPT ![Worker] = "idle"]
          /\ answer' = [answer EXCEPT ![Worker] = "error"]
          /\ UNCHANGED <<req, outcome, capture, session, flight, expired, sent, delivered>>
      BY <1>17 DEF RecoverThrows, Finish
    <3> QED
      BY <1>a, <1>0, <2>1, <2>3, <2>4, <3>1 DEF PCs, Answers
<1>18. ASSUME NEW e \in Envelopes, Expire(e) PROVE Goal
  BY <1>a, <1>18 DEF Expire, ledgerVars, subVars, historyVars, LedgerTypeOK
<1>19. CASE Crash
  <2>1. LedgerTypeOK' /\ ~up'
    BY <1>a, <1>19, AbsentType DEF Crash, Die, LedgerTypeOK
  <2>2. flight' \in [Envelopes -> Flight]
    BY <1>19 DEF Crash, NoFlight, Flight, NoResponse
  <2> QED
    BY <1>a, <1>19, <2>1, <2>2 DEF Crash, Die, historyVars, PCs, Answers, Captures
<1>20. CASE Restart
  <2>1. \A s \in Subs : pc[s] # "idle" => up
    BY <1>a
  <2>2. ~up
    BY <1>20 DEF Restart, Boot, BootInterrupted
  <2>3. LedgerTypeOK' /\ (~up' => entries' = entries)
    <3>1. CASE Boot
      BY <1>a, <3>1, RecoverType DEF Boot, LedgerTypeOK
    <3>2. ASSUME NEW S \in SUBSET Keys, BootInterrupted(S)
          PROVE  LedgerTypeOK' /\ (~up' => entries' = entries)
      <4>1. journal' \in [Keys -> Entry]
        BY <1>a, <3>2, RecoverType DEF BootInterrupted, LedgerTypeOK
      <4> QED
        BY <1>a, <3>2, <4>1 DEF BootInterrupted, LedgerTypeOK
    <3> QED
      BY <1>20, <3>1, <3>2 DEF Restart
  <2> QED
    BY <1>a, <1>20, <2>1, <2>2, <2>3 DEF Restart, subVars, historyVars
<1>21. CASE UNCHANGED vars
  BY <1>a, <1>21 DEF vars, LedgerTypeOK
<1> QED
  BY <1>1, <1>2, <1>3, <1>4, <1>5, <1>6, <1>7, <1>8, <1>9, <1>10, <1>11, <1>12, <1>13,
     <1>14, <1>15, <1>16, <1>17, <1>18, <1>19, <1>20, <1>21 DEF Next, Step

-----------------------------------------------------------------------------
\* While the process runs, an Action ID that has an entry has it under the
\* same key in the journal.
LEMMA SameKey ==
  ASSUME LedgerInv, up, NEW a \in ActionIds,
         EntryFor(entries, a).status # "absent"
  PROVE  /\ EntryKey(entries, a) \in Keys
         /\ EntryKey(journal, a) = EntryKey(entries, a)
<1>1. a \in Keys /\ Legacy[a] \in Keys
  BY DEF Keys
<1>2. JournalInv /\ LegacyInv /\ Absent.status = "absent"
  BY DEF LedgerInv, Absent
<1>3. CASE entries[a].status # "absent"
  <2>1. journal[a].status # "absent"
    BY <1>1, <1>2, <1>3 DEF JournalInv, LedgerInv, TypeOK, LedgerTypeOK, Entry
  <2> QED
    BY <1>1, <1>3, <2>1 DEF EntryKey
<1>4. CASE entries[a].status = "absent"
  <2>1. entries[Legacy[a]].status # "absent"
    BY <1>4 DEF EntryFor, EntryKey
  <2>2. journal[Legacy[a]].status # "absent"
    BY <1>1, <1>2, <2>1 DEF JournalInv, LedgerInv, TypeOK, LedgerTypeOK, Entry
  <2>3. journal[a].status = "absent"
    BY <1>2, <2>2 DEF LegacyInv
  <2> QED
    BY <1>1, <1>4, <2>3 DEF EntryKey
<1> QED
  BY <1>3, <1>4

\* A step of s that touches neither ledger nor dispatch leaves the invariant
\* alone; it may deliver a response the ledger retains.
LEMMA QuietStep ==
  ASSUME LedgerInv, TypeOK', ActiveInv', NEW s \in Subs,
         UNCHANGED <<up, entries, journal, flight, sent>>,
         delivered' = delivered \/ (delivered \subseteq delivered' /\ DeliveredInv'),
         pc'[s] \notin {"dispatching", "awaitingReply", "signing"},
         \A t \in Subs \ {s} :
            pc'[t] = pc[t] /\ req'[t] = req[t] /\ outcome'[t] = outcome[t],
         s = Worker => RecoveryInv'
  PROVE  LedgerInv'
<1>1. WellFormed(entries)' /\ WellFormed(journal)' /\ JournalInv' /\ LegacyInv'
  BY DEF LedgerInv, WellFormed, JournalInv, LegacyInv
<1>2. SentInv' /\ FlightInv'
  BY DEF LedgerInv, SentInv, FlightInv
<1>5. DeliveredInv'
  BY DEF LedgerInv, DeliveredInv, EntryFor, EntryKey
<1>3. DispatchInv'
  <2>1. \A t \in Dispatchers' : /\ t \in Dispatchers
                                /\ pc'[t] = pc[t] /\ outcome'[t] = outcome[t]
                                /\ Env(t)' = Env(t) /\ Id(t)' = Id(t)
    BY DEF Env, Id, Dispatchers
  <2> QED
    BY <2>1 DEF LedgerInv, DispatchInv
<1>4. RecoveryInv'
  <2>1. CASE s # Worker
    <3>1. Worker \in Subs
      BY DEF Subs
    <3>2. pc'[Worker] = pc[Worker] /\ req'[Worker] = req[Worker]
      BY <2>1, <3>1
    <3> QED
      BY <3>2 DEF LedgerInv, RecoveryInv, Env, Id, EntryFor, EntryKey
  <2> QED
    BY <2>1
<1> QED
  BY <1>1, <1>2, <1>3, <1>4, <1>5 DEF LedgerInv

LEMMA QuietActions ==
  ASSUME LedgerInv, TypeOK', ActiveInv', NEW s \in Subs,
         \/ \E r \in Requests : Receive(s, r)
         \/ Verify(s) \/ PrepareFails(s) \/ GateRaced(s)
         \/ CloseSession(s) \/ Join(s) \/ JoinTimesOut(s) \/ JoinSettled(s)
         \/ \E e \in Envelopes : Expire(e)
         \/ UNCHANGED vars
  PROVE  LedgerInv'
<1>a. TypeOK /\ ActiveInv /\ RecoveryInv /\ FlightInv
  BY DEF LedgerInv
<1>b. ASSUME NEW x \in {"idle", "verifying", "preparing", "closing", "releasing", "joined"},
             pc' = [pc EXCEPT ![s] = x],
             \A t \in Subs \ {s} : req'[t] = req[t],
             UNCHANGED <<up, entries, journal, flight, sent, delivered, outcome>>
      PROVE  LedgerInv'
  <2>1. pc'[s] = x /\ \A t \in Subs \ {s} : pc'[t] = pc[t]
    BY <1>a, <1>b DEF TypeOK
  <2>2. s = Worker => RecoveryInv'
    BY <1>b, <2>1 DEF RecoveryInv
  <2> QED
    BY <1>b, <2>1, <2>2, QuietStep
<1>c. \A r : \A t \in Subs \ {s} : [req EXCEPT ![s] = r][t] = req[t]
  BY <1>a DEF TypeOK
<1> USE DEF Finish, Goto, ledgerVars, historyVars
<1>1. ASSUME NEW r \in Requests, Receive(s, r) PROVE LedgerInv'
  <2>1. \E x \in {"idle", "verifying", "releasing"} : pc' = [pc EXCEPT ![s] = x]
    BY <1>1 DEF Receive, Enter
  <2>2. \A t \in Subs \ {s} : req'[t] = req[t]
    BY <1>1, <1>c DEF Receive, Enter, Begin
  <2> QED
    BY <1>1, <1>b, <2>1, <2>2 DEF Receive, Enter, Begin
<1>2. CASE Verify(s)
  BY <1>b, <1>2 DEF Verify
<1>3. CASE PrepareFails(s)
  BY <1>b, <1>3 DEF PrepareFails
<1>4. CASE GateRaced(s)
  BY <1>b, <1>4 DEF GateRaced
<1>5. CASE CloseSession(s)
  BY <1>b, <1>5 DEF CloseSession
<1>6. CASE Join(s)
  BY <1>b, <1>6 DEF Join
<1>7. CASE JoinTimesOut(s)
  BY <1>b, <1>7 DEF JoinTimesOut
<1>8. CASE JoinSettled(s)
  <2>1. Env(s) \in Envelopes /\ Id(s) = IdOf[Env(s)]
    BY <1>a, <1>8, SubType DEF JoinSettled, ActiveInv, Id
  <2>2. delivered' = delivered
    <3>1. CASE flight[Env(s)].state = "fulfilled"
      <4>1. [id |-> Id(s), resolution |-> flight[Env(s)].resolution,
             receipt |-> flight[Env(s)].receipt] \in delivered
        BY <1>a, <2>1, <3>1 DEF FlightInv
      <4>2. delivered' = delivered \cup {[id |-> Id(s),
               resolution |-> flight[Env(s)].resolution, receipt |-> flight[Env(s)].receipt]}
        BY <1>8, <3>1 DEF JoinSettled, Deliver
      <4> QED
        BY <4>1, <4>2
    <3>2. CASE flight[Env(s)].state # "fulfilled"
      BY <1>8, <3>2 DEF JoinSettled
    <3> QED
      BY <3>1, <3>2
  <2> QED
    BY <1>b, <1>8, <2>2 DEF JoinSettled
<1>d. ASSUME UNCHANGED <<up, entries, journal, flight, sent, delivered, pc, req, outcome>>
      PROVE  LedgerInv'
  <2>1. DispatchInv'
    BY <1>d DEF LedgerInv, DispatchInv, Dispatchers, Env, Id
  <2>3. WellFormed(entries)' /\ WellFormed(journal)' /\ JournalInv' /\ LegacyInv'
    BY <1>d DEF LedgerInv, WellFormed, JournalInv, LegacyInv
  <2>4. SentInv' /\ DeliveredInv' /\ FlightInv'
    BY <1>d DEF LedgerInv, SentInv, DeliveredInv, FlightInv, EntryFor, EntryKey
  <2>5. RecoveryInv'
    BY <1>d DEF LedgerInv, RecoveryInv, Env, Id, EntryFor, EntryKey
  <2> QED
    BY <2>1, <2>3, <2>4, <2>5 DEF LedgerInv
<1>9. ASSUME NEW e \in Envelopes, Expire(e) PROVE LedgerInv'
  BY <1>d, <1>9 DEF Expire, subVars
<1>10. CASE UNCHANGED vars
  BY <1>d, <1>10 DEF vars
<1> QED
  BY <1>1, <1>2, <1>3, <1>4, <1>5, <1>6, <1>7, <1>8, <1>9, <1>10

-----------------------------------------------------------------------------
\* An Action ID the gate finds absent has no dispatcher, no transmission, no
\* delivered response, and nothing under its legacy key.
LEMMA AbsentFacts ==
  ASSUME LedgerInv, up, NEW e \in Envelopes, Check(e) = "absent"
  PROVE  /\ entries[IdOf[e]].status = "absent"
         /\ entries[Legacy[IdOf[e]]].status = "absent"
         /\ journal[IdOf[e]].status \in {"absent", "executing"}
         /\ journal[Legacy[IdOf[e]]] = Absent
         /\ sent[IdOf[e]] = 0
         /\ \A s \in Dispatchers : Id(s) # IdOf[e]
         /\ \A x \in delivered : x.id # IdOf[e]
         /\ pc[Worker] = "recovering" => Id(Worker) # IdOf[e]
<1> DEFINE a == IdOf[e]
<1>1. a \in Keys /\ Legacy[a] \in Keys /\ Legacy[a] \in LegacyIds /\ a \in ActionIds
  BY DEF Keys
<1>2. EntryFor(entries, a).status = "absent"
  BY DEF Check
<1>3. entries[a].status = "absent" /\ entries[Legacy[a]].status = "absent"
  BY <1>2 DEF EntryFor, EntryKey
<1>4. journal[a].status \in {"absent", "executing"} /\ journal[Legacy[a]] = Absent
  BY <1>1, <1>3 DEF LedgerInv, JournalInv
<1>5. sent[a] = 0
  BY <1>1, <1>3 DEF LedgerInv, SentInv
<1>6. \A s \in Dispatchers : Id(s) # a
  <2>1. \A f : Executing(f).status = "executing"
    BY DEF Executing
  <2> QED
    BY <1>3, <2>1 DEF LedgerInv, DispatchInv
<1>7. \A x \in delivered : x.id # a
  BY <1>2 DEF LedgerInv, DeliveredInv
<1>8. pc[Worker] = "recovering" => Id(Worker) # a
  BY <1>2 DEF LedgerInv, RecoveryInv
<1> QED
  BY <1>3, <1>4, <1>5, <1>6, <1>7, <1>8

\* The gate's write: the journal, and the entries when append returned, now
\* hold Executing(e) at the Action ID of e, and nothing else changed.
LEMMA GateWrite ==
  ASSUME LedgerInv, TypeOK', ActiveInv', up, NEW e \in Envelopes, NEW ok \in BOOLEAN,
         WriteExecuting(e, ok)
  PROVE  /\ Check(e) = "absent"
         /\ up' = up
         /\ journal' \in {journal, [journal EXCEPT ![IdOf[e]] = Executing(e)]}
         /\ ok => journal' = [journal EXCEPT ![IdOf[e]] = Executing(e)]
         /\ entries' = IF ok THEN [entries EXCEPT ![IdOf[e]] = Executing(e)] ELSE entries
         /\ WellFormed(entries)' /\ WellFormed(journal)'
         /\ JournalInv' /\ LegacyInv'
         /\ \A x \in delivered : /\ EntryFor(journal', x.id) = EntryFor(journal, x.id)
                                 /\ EntryFor(entries', x.id) = EntryFor(entries, x.id)
<1> DEFINE a == IdOf[e]
<1>1. a \in ActionIds /\ a \in Keys /\ Legacy[a] \in LegacyIds /\ a \notin LegacyIds
  BY DEF Keys
<1>2. /\ Check(e) = "absent" /\ up' = up
      /\ journal' \in {journal, [journal EXCEPT ![a] = Executing(e)]}
      /\ ok => journal' = [journal EXCEPT ![a] = Executing(e)]
      /\ entries' = IF ok THEN [entries EXCEPT ![a] = Executing(e)] ELSE entries
  BY DEF WriteExecuting, Append
<1>3. /\ entries \in [Keys -> Entry] /\ journal \in [Keys -> Entry]
      /\ delivered \subseteq Response
  BY DEF LedgerInv, TypeOK, LedgerTypeOK
<1>4. /\ entries[a].status = "absent"
      /\ journal[a].status \in {"absent", "executing"}
      /\ journal[Legacy[a]] = Absent
      /\ \A x \in delivered : x.id # a
  BY <1>2, AbsentFacts
<1>5. /\ \A k \in Keys \ {a} : journal'[k] = journal[k] /\ entries'[k] = entries[k]
      /\ journal'[a] \in {journal[a], Executing(e)}
      /\ entries'[a] = IF ok THEN Executing(e) ELSE entries[a]
      /\ ok => journal'[a] = Executing(e)
  BY <1>1, <1>2, <1>3
<1>6. /\ Executing(e).status = "executing" /\ Executing(e).env = e
      /\ Absent.status = "absent"
  BY DEF Executing, Absent
<1>7. WellFormed(entries)' /\ WellFormed(journal)'
  BY <1>1, <1>5, <1>6 DEF LedgerInv, WellFormed
<1>8. JournalInv'
  BY <1>1, <1>2, <1>4, <1>5, <1>6 DEF LedgerInv, JournalInv
<1>9. LegacyInv'
  <2> SUFFICES ASSUME NEW b \in ActionIds, journal'[Legacy[b]].status # "absent"
               PROVE  journal'[b] = Absent
    BY DEF LegacyInv
  <2>1. b \in Keys /\ Legacy[b] \in Keys /\ Legacy[b] # a
    BY <1>1 DEF Keys
  <2>2. journal[Legacy[b]].status # "absent"
    BY <1>5, <2>1
  <2>3. b # a
    BY <1>4, <1>6, <2>2
  <2> QED
    BY <1>5, <2>1, <2>2, <2>3 DEF LedgerInv, LegacyInv
<1>10. ASSUME NEW x \in delivered
       PROVE  /\ EntryFor(journal', x.id) = EntryFor(journal, x.id)
              /\ EntryFor(entries', x.id) = EntryFor(entries, x.id)
  <2>1. x.id \in ActionIds /\ x.id # a
    BY <1>3, <1>4 DEF Response
  <2>2. x.id \in Keys \ {a} /\ Legacy[x.id] \in Keys \ {a}
    BY <1>1, <2>1 DEF Keys
  <2> QED
    BY <1>5, <2>2 DEF EntryFor, EntryKey
<1> QED
  BY <1>2, <1>7, <1>8, <1>9, <1>10

\* GateDispatch and GateThrows.
LEMMA GateStep ==
  ASSUME LedgerInv, TypeOK', ActiveInv', NEW s \in Subs,
         GateDispatch(s) \/ GateThrows(s)
  PROVE  LedgerInv'
<1> DEFINE e == Env(s)
           a == Id(s)
<1>a. TypeOK /\ ActiveInv /\ up /\ pc[s] = "preparing"
  BY DEF LedgerInv, GateDispatch, GateThrows
<1>b. e \in Envelopes /\ a \in ActionIds /\ a = IdOf[e]
  BY <1>a, SubType DEF ActiveInv, Id
<1>c. /\ UNCHANGED <<req, outcome, sent, delivered>>
      /\ \/ GateDispatch(s) /\ pc' = [pc EXCEPT ![s] = "dispatching"]
         \/ GateThrows(s) /\ pc' = [pc EXCEPT ![s] = "idle"] /\ flight' = flight
  BY DEF GateDispatch, GateThrows, Goto, Finish, historyVars
<1>d. PICK ok \in BOOLEAN : WriteExecuting(e, ok) /\ (GateDispatch(s) => ok)
  BY <1>c DEF GateDispatch, GateThrows
<1>e. /\ Check(e) = "absent" /\ up' = up
      /\ journal' \in {journal, [journal EXCEPT ![a] = Executing(e)]}
      /\ ok => journal' = [journal EXCEPT ![a] = Executing(e)]
      /\ entries' = IF ok THEN [entries EXCEPT ![a] = Executing(e)] ELSE entries
      /\ WellFormed(entries)' /\ WellFormed(journal)' /\ JournalInv' /\ LegacyInv'
      /\ \A x \in delivered : /\ EntryFor(journal', x.id) = EntryFor(journal, x.id)
                              /\ EntryFor(entries', x.id) = EntryFor(entries, x.id)
  BY <1>a, <1>b, <1>d, GateWrite
<1>f. /\ sent[a] = 0
      /\ \A t \in Dispatchers : Id(t) # a
      /\ pc[Worker] = "recovering" => Id(Worker) # a
      /\ journal[a].status \in {"absent", "executing"}
  BY <1>a, <1>b, <1>e, AbsentFacts
<1>g. a \in Keys /\ Executing(e).status = "executing"
  BY <1>b DEF Keys, Executing
<1>h. /\ \A k \in Keys \ {a} : journal'[k] = journal[k] /\ entries'[k] = entries[k]
      /\ journal'[a] \in {journal[a], Executing(e)}
      /\ entries'[a] = IF ok THEN Executing(e) ELSE entries[a]
      /\ ok => journal'[a] = Executing(e)
  BY <1>a, <1>e, <1>g DEF TypeOK, LedgerTypeOK
<1>i. \A t \in Subs \ {s} : pc'[t] = pc[t]
  BY <1>a, <1>c DEF TypeOK
<1>j. \A t \in Subs : Env(t)' = Env(t) /\ Id(t)' = Id(t)
  BY <1>c DEF Env, Id
<1>1. DispatchInv'
  <2> SUFFICES ASSUME NEW t \in Dispatchers'
               PROVE  /\ entries'[Id(t)] = Executing(Env(t))
                      /\ journal'[Id(t)] = Executing(Env(t))
                      /\ pc'[t] = "dispatching" => sent[Id(t)] = 0
                      /\ pc'[t] = "awaitingReply" => sent[Id(t)] = 1
                      /\ pc'[t] = "signing" => /\ outcome[t] \in Resolutions
                                               /\ outcome[t] # "indeterminate" => sent[Id(t)] = 1
                      /\ \A u \in Dispatchers' : Id(u) = Id(t) => u = t
    BY <1>c, <1>j DEF DispatchInv, Dispatchers
  <2>1. t \in Subs /\ pc'[t] \in {"dispatching", "awaitingReply", "signing"}
    BY DEF Dispatchers
  <2>2. \A u \in Dispatchers' : u # s => u \in Dispatchers
    BY <1>i DEF Dispatchers
  <2>3. CASE t = s
    <3>1. pc'[s] = "dispatching" /\ ok
      BY <1>a, <1>c, <1>d, <2>1, <2>3 DEF TypeOK
    <3> QED
      BY <1>f, <1>h, <2>2, <2>3, <3>1
  <2>4. CASE t # s
    <3>1. t \in Dispatchers /\ pc'[t] = pc[t] /\ Id(t) # a
      BY <1>f, <1>i, <2>1, <2>2, <2>4
    <3>2. Id(t) \in Keys
      BY <1>a, <2>1, <3>1, SubType DEF ActiveInv, Dispatchers, Keys
    <3>3. /\ entries[Id(t)] = Executing(Env(t)) /\ journal[Id(t)] = Executing(Env(t))
          /\ pc[t] = "dispatching" => sent[Id(t)] = 0
          /\ pc[t] = "awaitingReply" => sent[Id(t)] = 1
          /\ pc[t] = "signing" => /\ outcome[t] \in Resolutions
                                  /\ outcome[t] # "indeterminate" => sent[Id(t)] = 1
          /\ \A u \in Dispatchers : Id(u) = Id(t) => u = t
      BY <3>1 DEF LedgerInv, DispatchInv
    <3> QED
      BY <1>h, <2>2, <3>1, <3>2, <3>3
  <2> QED
    BY <2>3, <2>4
<1>2. SentInv'
  <2> SUFFICES ASSUME NEW b \in ActionIds
               PROVE  /\ sent[b] \in {0, 1}
                      /\ sent[b] = 1 => journal'[b].status # "absent"
                      /\ sent[b] = 1 /\ up' => entries'[b].status # "absent"
                      /\ journal'[b].status = "resolved" /\ journal'[b].resolution # "indeterminate"
                            => sent[b] = 1
    BY <1>c DEF SentInv
  <2>1. b \in Keys
    BY DEF Keys
  <2>2. CASE b = a
    BY <1>f, <1>g, <1>h, <2>2
  <2>3. CASE b # a
    BY <1>e, <1>h, <2>1, <2>3 DEF LedgerInv, SentInv
  <2> QED
    BY <2>2, <2>3
<1>3. DeliveredInv'
  BY <1>c, <1>e DEF LedgerInv, DeliveredInv
<1>4. RecoveryInv'
  <2> SUFFICES ASSUME pc'[Worker] = "recovering"
               PROVE  LET entry == EntryFor(entries', Id(Worker))
                      IN  /\ entry.status = "resolved"
                          /\ entry.env = Env(Worker)
                          /\ entry.resolution = "indeterminate"
                          /\ entry.response = NoResponse
    BY <1>j DEF RecoveryInv, Subs
  <2>1. Worker \in Subs /\ Worker # s
    BY <1>a, <1>c DEF TypeOK, Subs
  <2>2. pc[Worker] = "recovering" /\ Id(Worker) # a
    BY <1>f, <1>i, <2>1
  <2>3. Id(Worker) \in Keys \ {a} /\ Legacy[Id(Worker)] \in Keys \ {a}
    BY <1>a, <1>b, <2>1, <2>2, SubType DEF ActiveInv, Keys
  <2>4. EntryFor(entries', Id(Worker)) = EntryFor(entries, Id(Worker))
    BY <1>h, <2>3 DEF EntryFor, EntryKey
  <2> QED
    BY <2>2, <2>4 DEF LedgerInv, RecoveryInv
<1>5. FlightInv'
  <2>1. CASE flight' = flight
    BY <1>c, <2>1 DEF LedgerInv, FlightInv
  <2>2. CASE GateDispatch(s)
    <3>1. flight'[e].state = "inFlight" /\ \A f \in Envelopes \ {e} : flight'[f] = flight[f]
      BY <1>a, <1>b, <2>2 DEF GateDispatch, TypeOK
    <3> QED
      BY <1>c, <3>1 DEF LedgerInv, FlightInv
  <2> QED
    BY <1>c, <2>1, <2>2
<1> QED
  BY <1>e, <1>1, <1>2, <1>3, <1>4, <1>5 DEF LedgerInv

-----------------------------------------------------------------------------
\* What a submission that dispatches can rely on.
LEMMA DispatcherFacts ==
  ASSUME LedgerInv, NEW s \in Dispatchers
  PROVE  /\ s \in Subs /\ up /\ Env(s) \in Envelopes /\ Id(s) \in ActionIds
         /\ Id(s) = IdOf[Env(s)] /\ Id(s) \in Keys
         /\ entries[Id(s)] = Executing(Env(s)) /\ journal[Id(s)] = Executing(Env(s))
         /\ pc[s] = "dispatching" => sent[Id(s)] = 0
         /\ pc[s] = "awaitingReply" => sent[Id(s)] = 1
         /\ pc[s] = "signing" => /\ outcome[s] \in Resolutions
                                 /\ outcome[s] # "indeterminate" => sent[Id(s)] = 1
         /\ \A t \in Dispatchers : Id(t) = Id(s) => t = s
         /\ EntryKey(entries, Id(s)) = Id(s) /\ EntryKey(journal, Id(s)) = Id(s)
         /\ journal[Legacy[Id(s)]].status = "absent"
         /\ \A x \in delivered : x.id # Id(s)
         /\ pc[Worker] = "recovering" => Id(Worker) # Id(s)
<1>1. s \in Subs /\ up /\ req[s] \in Requests
  BY DEF Dispatchers, LedgerInv, ActiveInv
<1>2. Env(s) \in Envelopes /\ Id(s) \in ActionIds /\ Id(s) = IdOf[Env(s)] /\ Id(s) \in Keys
  BY <1>1, SubType DEF Id, Keys
<1>3. /\ entries[Id(s)] = Executing(Env(s)) /\ journal[Id(s)] = Executing(Env(s))
      /\ pc[s] = "dispatching" => sent[Id(s)] = 0
      /\ pc[s] = "awaitingReply" => sent[Id(s)] = 1
      /\ pc[s] = "signing" => /\ outcome[s] \in Resolutions
                              /\ outcome[s] # "indeterminate" => sent[Id(s)] = 1
      /\ \A t \in Dispatchers : Id(t) = Id(s) => t = s
  BY DEF LedgerInv, DispatchInv
<1>4. Executing(Env(s)).status = "executing" /\ Absent.status = "absent"
  BY DEF Executing, Absent
<1>5. EntryKey(entries, Id(s)) = Id(s) /\ EntryKey(journal, Id(s)) = Id(s)
  BY <1>3, <1>4 DEF EntryKey
<1>6. journal[Legacy[Id(s)]].status = "absent"
  BY <1>2, <1>3, <1>4 DEF LedgerInv, LegacyInv
<1>7. \A x \in delivered : x.id # Id(s)
  BY <1>1, <1>3, <1>4, <1>5 DEF LedgerInv, DeliveredInv, EntryFor
<1>8. pc[Worker] = "recovering" => Id(Worker) # Id(s)
  BY <1>3, <1>4, <1>5 DEF LedgerInv, RecoveryInv, EntryFor
<1> QED
  BY <1>1, <1>2, <1>3, <1>5, <1>6, <1>7, <1>8

\* Transmit and Classify.
LEMMA TransmitStep ==
  ASSUME LedgerInv, TypeOK', ActiveInv', NEW s \in Subs, Transmit(s) \/ Classify(s)
  PROVE  LedgerInv'
<1>a. TypeOK /\ s \in Dispatchers
  BY DEF LedgerInv, Transmit, Classify, Dispatchers
<1>b. /\ UNCHANGED <<up, entries, journal, flight, delivered, req>>
      /\ \/ /\ pc[s] = "dispatching" /\ pc' = [pc EXCEPT ![s] = "awaitingReply"]
            /\ sent' = [sent EXCEPT ![Id(s)] = @ + 1] /\ outcome' = outcome
         \/ /\ pc' = [pc EXCEPT ![s] = "signing"] /\ sent' = sent
            /\ \E r \in Resolutions : /\ outcome' = [outcome EXCEPT ![s] = r]
                                      /\ r = "indeterminate" \/ pc[s] = "awaitingReply"
  BY DEF Transmit, Classify, Goto, ledgerVars, historyVars, Resolutions
<1>c. /\ Id(s) \in ActionIds /\ up
      /\ entries[Id(s)] = Executing(Env(s)) /\ journal[Id(s)] = Executing(Env(s))
      /\ pc[s] = "dispatching" => sent[Id(s)] = 0
      /\ pc[s] = "awaitingReply" => sent[Id(s)] = 1
      /\ \A t \in Dispatchers : Id(t) = Id(s) => t = s
  BY <1>a, DispatcherFacts
<1>d. /\ \A t \in Subs \ {s} : pc'[t] = pc[t] /\ outcome'[t] = outcome[t]
      /\ \A b \in ActionIds \ {Id(s)} : sent'[b] = sent[b]
      /\ pc'[s] \in {"awaitingReply", "signing"}
      /\ pc'[s] = "awaitingReply" => sent'[Id(s)] = 1
      /\ pc'[s] = "signing" => /\ outcome'[s] \in Resolutions
                               /\ outcome'[s] # "indeterminate" => sent'[Id(s)] = 1
      /\ sent'[Id(s)] \in {0, 1} /\ (sent[Id(s)] = 1 => sent'[Id(s)] = 1)
  BY <1>a, <1>b, <1>c DEF TypeOK, LedgerInv, SentInv
<1>e. \A t \in Subs : Env(t)' = Env(t) /\ Id(t)' = Id(t)
  BY <1>b DEF Env, Id
<1>f. Executing(Env(s)).status = "executing"
  BY DEF Executing
<1>1. WellFormed(entries)' /\ WellFormed(journal)' /\ JournalInv' /\ LegacyInv' /\ FlightInv'
  BY <1>b DEF LedgerInv, WellFormed, JournalInv, LegacyInv, FlightInv
<1>2. DeliveredInv'
  BY <1>b DEF LedgerInv, DeliveredInv, EntryFor, EntryKey
<1>3. SentInv'
  BY <1>b, <1>c, <1>d, <1>f DEF LedgerInv, SentInv
<1>4. DispatchInv'
  <2>1. Dispatchers' = Dispatchers
    BY <1>a, <1>d DEF Dispatchers
  <2>2. ASSUME NEW t \in Dispatchers, t # s
        PROVE  /\ Id(t) \in ActionIds /\ Id(t) # Id(s)
               /\ pc'[t] = pc[t] /\ outcome'[t] = outcome[t] /\ sent'[Id(t)] = sent[Id(t)]
    BY <1>c, <1>d, <2>2, DispatcherFacts
  <2>3. \A t \in Dispatchers : Env(t)' = Env(t) /\ Id(t)' = Id(t)
    BY <1>e DEF Dispatchers
  <2> QED
    BY <1>b, <1>c, <1>d, <2>1, <2>2, <2>3 DEF LedgerInv, DispatchInv
<1>5. RecoveryInv'
  <2>1. Worker \in Subs
    BY DEF Subs
  <2>2. pc'[Worker] = "recovering" => pc[Worker] = "recovering"
    BY <1>d, <2>1
  <2> QED
    BY <1>b, <1>e, <2>1, <2>2 DEF LedgerInv, RecoveryInv, EntryFor, EntryKey
<1> QED
  BY <1>1, <1>2, <1>3, <1>4, <1>5 DEF LedgerInv

\* resolve() of a dispatcher's own entry: the journal, and the entry when append
\* returned, become resolved at the Action ID of s, and nothing else changes.
LEMMA ResolveDispatch ==
  ASSUME LedgerInv, NEW s \in Dispatchers, NEW r \in Resolutions, NEW n \in Nat,
         NEW ok \in BOOLEAN, Resolve(Env(s), r, n, ok)
  PROVE  /\ up' = up
         /\ \A k \in Keys \ {Id(s)} : journal'[k] = journal[k] /\ entries'[k] = entries[k]
         /\ journal'[Id(s)] \in {journal[Id(s)], Resolved(Executing(Env(s)), r, n)}
         /\ ok => journal'[Id(s)] = Resolved(Executing(Env(s)), r, n)
         /\ entries'[Id(s)] = IF ok THEN Resolved(Executing(Env(s)), r, n) ELSE entries[Id(s)]
<1> DEFINE a == Id(s)
           x == Executing(Env(s))
<1>1. /\ a \in Keys /\ a = IdOf[Env(s)] /\ EntryKey(entries, a) = a
      /\ entries[a] = x /\ journal[a] = x
  BY DispatcherFacts
<1>2. x.status = "executing" /\ x.env = Env(s)
  BY DEF Executing
<1>3. ~ResolveIgnored(Env(s), r)
  BY <1>1, <1>2 DEF ResolveIgnored, EntryFor
<1>4. ReplayResolved(x, r, n) = Resolved(x, r, n)
  BY <1>2 DEF ReplayResolved
<1>5. /\ up' = up
      /\ Append(a, Resolved(x, r, n), ok)
      /\ entries' = IF ok THEN [entries EXCEPT ![a] = Resolved(x, r, n)] ELSE entries
  BY <1>1, <1>3, <1>4 DEF Resolve
<1>6. /\ journal' \in {journal, [journal EXCEPT ![a] = Resolved(x, r, n)]}
      /\ ok => journal' = [journal EXCEPT ![a] = Resolved(x, r, n)]
  BY <1>5 DEF Append
<1> HIDE DEF a, x
<1>7. entries \in [Keys -> Entry] /\ journal \in [Keys -> Entry]
  BY DEF LedgerInv, TypeOK, LedgerTypeOK
<1> QED
  BY <1>1, <1>5, <1>6, <1>7 DEF a, x

\* Record and RecordThrows.
LEMMA RecordStep ==
  ASSUME LedgerInv, TypeOK', ActiveInv', NEW s \in Subs, Record(s) \/ RecordThrows(s)
  PROVE  LedgerInv'
<1> DEFINE a == Id(s)
           e == Env(s)
           r == outcome[s]
           n == signed[a] + 1
           done == Resolved(Executing(e), r, n)
<1>a. TypeOK /\ s \in Dispatchers /\ pc[s] = "signing"
  BY DEF LedgerInv, Record, RecordThrows, Dispatchers
<1>b. /\ up /\ e \in Envelopes /\ a \in ActionIds /\ a = IdOf[e] /\ a \in Keys
      /\ entries[a] = Executing(e) /\ journal[a] = Executing(e)
      /\ r \in Resolutions /\ (r # "indeterminate" => sent[a] = 1)
      /\ \A t \in Dispatchers : Id(t) = a => t = s
      /\ EntryKey(entries, a) = a /\ EntryKey(journal, a) = a
      /\ journal[Legacy[a]].status = "absent"
      /\ \A x \in delivered : x.id # a
      /\ pc[Worker] = "recovering" => Id(Worker) # a
  BY <1>a, DispatcherFacts
<1>c. n \in Nat /\ n # NoResponse
  BY <1>a, <1>b DEF TypeOK, NoResponse
<1>d. /\ UNCHANGED <<req, sent>> /\ pc' = [pc EXCEPT ![s] = "idle"]
      /\ outcome' = [outcome EXCEPT ![s] = "none"]
      /\ \/ /\ Record(s) /\ Resolve(e, r, n, TRUE)
            /\ delivered' = delivered \cup {[id |-> a, resolution |-> r, receipt |-> n]}
         \/ /\ RecordThrows(s) /\ delivered' = delivered
            /\ UNCHANGED ledgerVars \/ Resolve(e, r, n, FALSE)
  BY DEF Record, RecordThrows, Finish, Deliver
<1>e. done.status = "resolved" /\ done.env = e /\ done.resolution = r /\ done.response = n
  BY DEF Resolved, Executing
<1>f. Executing(e).status = "executing" /\ Executing(e).env = e /\ Absent.status = "absent"
  BY DEF Executing, Absent
<1>g. /\ up' = up
      /\ \A k \in Keys \ {a} : journal'[k] = journal[k] /\ entries'[k] = entries[k]
      /\ journal'[a] \in {Executing(e), done}
      /\ \/ delivered' = delivered
         \/ /\ delivered' = delivered \cup {[id |-> a, resolution |-> r, receipt |-> n]}
            /\ journal'[a] = done /\ entries'[a] = done
      /\ entries'[a] \in {Executing(e), done}
      /\ entries'[a] = done => journal'[a] = done
  <2>1. CASE /\ Resolve(e, r, n, TRUE)
             /\ delivered' = delivered \cup {[id |-> a, resolution |-> r, receipt |-> n]}
    BY <1>a, <1>b, <1>c, <2>1, ResolveDispatch
  <2>2. CASE Resolve(e, r, n, FALSE) /\ delivered' = delivered
    <3>1. entries'[a] = Executing(e) /\ Executing(e) # done
      BY <1>a, <1>b, <1>c, <1>e, <1>f, <2>2, ResolveDispatch
    <3> QED
      BY <1>a, <1>b, <1>c, <2>2, <3>1, ResolveDispatch
  <2>3. CASE UNCHANGED ledgerVars /\ delivered' = delivered
    BY <1>b, <1>e, <1>f, <2>3 DEF ledgerVars
  <2> QED
    BY <1>d, <2>1, <2>2, <2>3
<1> HIDE DEF done
<1>h. /\ pc'[s] = "idle" /\ \A t \in Subs \ {s} : pc'[t] = pc[t] /\ outcome'[t] = outcome[t]
      /\ \A t \in Subs : Env(t)' = Env(t) /\ Id(t)' = Id(t)
      /\ Worker \in Subs /\ s \in Subs
  BY <1>a, <1>d DEF TypeOK, Subs, Env, Id
<1>i. a \notin LegacyIds
  BY <1>b
<1>1. WellFormed(entries)' /\ WellFormed(journal)'
  <2>1. ASSUME NEW m, NEW mm, WellFormed(m), \A k \in Keys \ {a} : mm[k] = m[k],
               mm[a] \in {Executing(e), done}
        PROVE  WellFormed(mm)
    BY <1>b, <1>e, <1>f, <1>i, <2>1 DEF WellFormed
  <2> QED
    BY <1>g, <2>1 DEF LedgerInv, WellFormed
<1>2. JournalInv'
  BY <1>b, <1>e, <1>f, <1>g DEF LedgerInv, JournalInv
<1>3. LegacyInv'
  <2> SUFFICES ASSUME NEW b \in ActionIds, journal'[Legacy[b]].status # "absent"
               PROVE  journal'[b] = Absent
    BY DEF LegacyInv
  <2>1. b \in Keys /\ Legacy[b] \in Keys /\ Legacy[b] # a
    BY <1>i DEF Keys
  <2>2. journal[Legacy[b]].status # "absent"
    BY <1>g, <2>1
  <2>3. b # a
    BY <1>b, <2>2
  <2> QED
    BY <1>g, <2>1, <2>2, <2>3 DEF LedgerInv, LegacyInv
<1>4. DispatchInv'
  <2>1. Dispatchers' \subseteq Dispatchers \ {s}
    BY <1>h DEF Dispatchers
  <2>2. ASSUME NEW t \in Dispatchers, t # s
        PROVE  /\ t \in Subs /\ Id(t) \in Keys /\ Id(t) # a
               /\ pc'[t] = pc[t] /\ outcome'[t] = outcome[t]
               /\ Env(t)' = Env(t) /\ Id(t)' = Id(t)
    BY <1>b, <1>h, <2>2, DispatcherFacts
  <2> QED
    BY <1>d, <1>g, <2>1, <2>2 DEF LedgerInv, DispatchInv
<1>5. SentInv'
  <2> SUFFICES ASSUME NEW b \in ActionIds
               PROVE  /\ sent[b] \in {0, 1}
                      /\ sent[b] = 1 => journal'[b].status # "absent"
                      /\ sent[b] = 1 /\ up' => entries'[b].status # "absent"
                      /\ journal'[b].status = "resolved" /\ journal'[b].resolution # "indeterminate"
                            => sent[b] = 1
    BY <1>d DEF SentInv
  <2>1. b \in Keys
    BY DEF Keys
  <2>2. CASE b = a
    BY <1>b, <1>e, <1>f, <1>g, <2>2 DEF LedgerInv, SentInv
  <2>3. CASE b # a
    BY <1>g, <2>1, <2>3 DEF LedgerInv, SentInv
  <2> QED
    BY <2>2, <2>3
<1>6. DeliveredInv'
  <2>1. ASSUME NEW x \in delivered
        PROVE  /\ EntryFor(journal', x.id) = EntryFor(journal, x.id)
               /\ EntryFor(entries', x.id) = EntryFor(entries, x.id)
    <3>1. x.id \in Keys \ {a} /\ Legacy[x.id] \in Keys \ {a}
      BY <1>a, <1>b, <1>i DEF TypeOK, Response, Keys
    <3> QED
      BY <1>g, <3>1 DEF EntryFor, EntryKey
  <2>2. CASE delivered' = delivered
    BY <1>g, <2>1, <2>2 DEF LedgerInv, DeliveredInv
  <2>3. CASE /\ delivered' = delivered \cup {[id |-> a, resolution |-> r, receipt |-> n]}
             /\ journal'[a] = done /\ entries'[a] = done
    <3>1. EntryFor(journal', a) = done /\ EntryFor(entries', a) = done
      BY <1>e, <2>3 DEF EntryFor, EntryKey
    <3> QED
      BY <1>b, <1>c, <1>e, <1>g, <2>1, <2>3, <3>1 DEF LedgerInv, DeliveredInv
  <2> QED
    BY <1>g, <2>2, <2>3
<1>7. RecoveryInv'
  <2> SUFFICES ASSUME pc'[Worker] = "recovering"
               PROVE  LET entry == EntryFor(entries', Id(Worker))
                      IN  /\ entry.status = "resolved"
                          /\ entry.env = Env(Worker)
                          /\ entry.resolution = "indeterminate"
                          /\ entry.response = NoResponse
    BY <1>h DEF RecoveryInv
  <2>1. pc[Worker] = "recovering" /\ Id(Worker) # a
    BY <1>b, <1>h
  <2>2. Id(Worker) \in Keys \ {a} /\ Legacy[Id(Worker)] \in Keys \ {a}
    BY <1>h, <1>i, <2>1, SubType DEF LedgerInv, ActiveInv, Keys
  <2>3. EntryFor(entries', Id(Worker)) = EntryFor(entries, Id(Worker))
    BY <1>g, <2>2 DEF EntryFor, EntryKey
  <2> QED
    BY <2>1, <2>3 DEF LedgerInv, RecoveryInv
<1>8. FlightInv'
  <2>1. delivered \subseteq delivered'
    BY <1>g
  <2>2. \A f \in Envelopes \ {e} : flight'[f] = flight[f]
    BY <1>a DEF TypeOK, Record, RecordThrows, Settle
  <2>3. flight'[e].state = "fulfilled" =>
          [id |-> a, resolution |-> flight'[e].resolution, receipt |-> flight'[e].receipt] \in delivered'
    <3>1. CASE Record(s)
      <4>1. /\ flight'[e].resolution = r /\ flight'[e].receipt = n
            /\ delivered' = delivered \cup {[id |-> a, resolution |-> r, receipt |-> n]}
        BY <1>a, <1>b, <3>1 DEF TypeOK, Record, Settle, Deliver
      <4> QED
        BY <4>1
    <3>2. CASE RecordThrows(s)
      BY <1>a, <1>b, <3>2 DEF TypeOK, RecordThrows, Settle
    <3> QED
      BY <3>1, <3>2
  <2> QED
    BY <1>b, <2>1, <2>2, <2>3 DEF LedgerInv, FlightInv
<1> QED
  BY <1>1, <1>2, <1>3, <1>4, <1>5, <1>6, <1>7, <1>8 DEF LedgerInv

-----------------------------------------------------------------------------
\* processAction: a retained response is returned again, the worker sets out to
\* recover one, or it enters the handler.
LEMMA ProcessStep ==
  ASSUME LedgerInv, TypeOK', ActiveInv', NEW r \in Requests, Process(r)
  PROVE  LedgerInv'
<1> DEFINE e == EnvOf[r]
           a == IdOf[e]
           entry == EntryFor(entries, a)
           x == [id |-> a, resolution |-> entry.resolution, receipt |-> entry.response]
<1>a. TypeOK /\ Worker \in Subs /\ e \in Envelopes /\ a \in ActionIds
  BY DEF LedgerInv, Subs
<1>b. up /\ UNCHANGED <<up, entries, journal, flight, sent, outcome>>
  BY DEF Process, ledgerVars, Begin, Enter
<1>c. /\ req' = [req EXCEPT ![Worker] = r]
      /\ \E y \in PCs : pc' = [pc EXCEPT ![Worker] = y]
  BY DEF Process, Begin, Enter, Finish, Goto, PCs
<1>d. /\ req'[Worker] = r
      /\ \A t \in Subs \ {Worker} :
            pc'[t] = pc[t] /\ req'[t] = req[t] /\ outcome'[t] = outcome[t]
  BY <1>a, <1>b, <1>c DEF TypeOK
<1>1. CASE /\ Recoverable(e) /\ entry.response # NoResponse
           /\ delivered' = delivered \cup {x} /\ pc' = [pc EXCEPT ![Worker] = "idle"]
  <2>1. entry.status = "resolved" /\ EntryKey(entries, a) \in Keys
        /\ EntryKey(journal, a) = EntryKey(entries, a)
    BY <1>a, <1>b, <1>1, SameKey DEF Recoverable
  <2>2. /\ EntryFor(journal, a).status = "resolved"
        /\ EntryFor(journal, a).resolution = entry.resolution
        /\ EntryFor(journal, a).response = entry.response
        /\ IdOf[EntryFor(journal, a).env] = a
    BY <1>b, <1>1, <2>1 DEF LedgerInv, JournalInv, EntryFor, Recoverable
  <2>3. DeliveredInv'
    <3>1. /\ \A y \in delivered' : y \in delivered \/ y = x
          /\ x.id = a /\ x.resolution = entry.resolution /\ x.receipt = entry.response
      BY <1>1
    <3>2. \A y : EntryFor(journal', y) = EntryFor(journal, y)
                 /\ EntryFor(entries', y) = EntryFor(entries, y)
      BY <1>b DEF EntryFor, EntryKey
    <3> HIDE DEF x, entry
    <3> QED
      BY <1>b, <1>1, <2>1, <2>2, <3>1, <3>2 DEF LedgerInv, DeliveredInv, entry
  <2>4. pc'[Worker] = "idle"
    BY <1>a, <1>1 DEF TypeOK
  <2>5. RecoveryInv'
    BY <2>4 DEF RecoveryInv
  <2> QED
    BY <1>a, <1>b, <1>d, <1>1, <2>3, <2>4, <2>5, QuietStep
<1>2. CASE /\ Recoverable(e) /\ entry.response = NoResponse
           /\ entry.resolution = "indeterminate" /\ delivered' = delivered
           /\ pc' = [pc EXCEPT ![Worker] = "recovering"]
  <2>1. pc'[Worker] = "recovering"
    BY <1>a, <1>2 DEF TypeOK
  <2>2. Env(Worker)' = e /\ Id(Worker)' = a
    BY <1>d DEF Env, Id
  <2>3. RecoveryInv'
    BY <1>b, <1>2, <2>2 DEF RecoveryInv, Recoverable, EntryFor, EntryKey
  <2> QED
    BY <1>a, <1>b, <1>d, <1>2, <2>1, <2>3, QuietStep
<1>3. CASE Enter(Worker, r) /\ delivered' = delivered
  <2>1. pc'[Worker] \in {"idle", "verifying", "releasing"}
    BY <1>a, <1>3 DEF Enter, Finish, Goto, TypeOK
  <2>2. RecoveryInv'
    BY <2>1 DEF RecoveryInv
  <2> QED
    BY <1>a, <1>b, <1>d, <1>3, <2>1, <2>2, QuietStep
<1> QED
  BY <1>1, <1>2, <1>3 DEF Process, Finish, Goto

\* resolve() of the entry the worker recovers: only its response changes.
LEMMA ResolveRecovery ==
  ASSUME LedgerInv, pc[Worker] = "recovering", NEW n \in Nat, NEW ok \in BOOLEAN,
         Resolve(Env(Worker), "indeterminate", n, ok)
  PROVE  LET k == EntryKey(entries, Id(Worker))
         IN  /\ up' = up
             /\ \A j \in Keys \ {k} : journal'[j] = journal[j] /\ entries'[j] = entries[j]
             /\ journal'[k] \in {journal[k], Resolved(journal[k], "indeterminate", n)}
             /\ ok => journal'[k] = Resolved(journal[k], "indeterminate", n)
             /\ entries'[k] = IF ok THEN Resolved(entries[k], "indeterminate", n) ELSE entries[k]
<1> DEFINE a == Id(Worker)
           k == EntryKey(entries, a)
           new == Resolved(journal[k], "indeterminate", n)
<1>1. Worker \in Subs /\ up /\ a \in ActionIds /\ a = IdOf[Env(Worker)]
  BY SubType DEF Subs, LedgerInv, ActiveInv, Id
<1>2. /\ entries[k].status = "resolved" /\ entries[k].env = Env(Worker)
      /\ entries[k].resolution = "indeterminate" /\ entries[k].response = NoResponse
  BY DEF LedgerInv, RecoveryInv, EntryFor
<1>3. k \in Keys /\ journal[k].status = "resolved"
  BY <1>1, <1>2, KeyType DEF LedgerInv, JournalInv
<1>4. ~ResolveIgnored(Env(Worker), "indeterminate")
  BY <1>1, <1>2 DEF ResolveIgnored, EntryFor
<1>5. ReplayResolved(journal[k], "indeterminate", n) = new
  BY <1>3 DEF ReplayResolved
<1>6. /\ up' = up
      /\ Append(k, new, ok)
      /\ entries' = IF ok THEN [entries EXCEPT ![k] = Resolved(entries[k], "indeterminate", n)]
                          ELSE entries
  BY <1>1, <1>4, <1>5 DEF Resolve
<1>7. /\ journal' \in {journal, [journal EXCEPT ![k] = new]}
      /\ ok => journal' = [journal EXCEPT ![k] = new]
  BY <1>6 DEF Append
<1>8. entries \in [Keys -> Entry] /\ journal \in [Keys -> Entry]
  BY DEF LedgerInv, TypeOK, LedgerTypeOK
<1> HIDE DEF a, k, new
<1> QED
  BY <1>3, <1>6, <1>7, <1>8 DEF a, k, new

\* RecoverRecord and RecoverThrows.
LEMMA RecoverStep ==
  ASSUME LedgerInv, TypeOK', ActiveInv', RecoverRecord \/ RecoverThrows
  PROVE  LedgerInv'
<1> DEFINE a == Id(Worker)
           k == EntryKey(entries, a)
           n == signed[a] + 1
           x == [id |-> a, resolution |-> "indeterminate", receipt |-> n]
           doneJ == Resolved(journal[k], "indeterminate", n)
           doneE == Resolved(entries[k], "indeterminate", n)
<1>a. TypeOK /\ Worker \in Subs /\ pc[Worker] = "recovering" /\ up
  BY DEF LedgerInv, Subs, RecoverRecord, RecoverThrows
<1>b. /\ a \in ActionIds /\ a \in Keys /\ Legacy[a] \in Keys /\ k \in Keys
      /\ a = IdOf[Env(Worker)]
  BY <1>a, SubType, KeyType DEF LedgerInv, ActiveInv, Keys, Id
<1>c. /\ entries[k].status = "resolved" /\ entries[k].env = Env(Worker)
      /\ entries[k].resolution = "indeterminate" /\ entries[k].response = NoResponse
  BY <1>a DEF LedgerInv, RecoveryInv, EntryFor
<1>d. /\ journal[k].status = "resolved" /\ journal[k].env = entries[k].env
      /\ journal[k].resolution = "indeterminate"
      /\ EntryKey(journal, a) = k
  BY <1>a, <1>b, <1>c, SameKey DEF LedgerInv, JournalInv, EntryFor
<1>e. n \in Nat /\ n # NoResponse
  BY <1>a, <1>b DEF TypeOK, NoResponse
<1>f. /\ UNCHANGED <<req, outcome, flight, sent>> /\ pc' = [pc EXCEPT ![Worker] = "idle"]
      /\ \/ Resolve(Env(Worker), "indeterminate", n, TRUE) /\ delivered' = delivered \cup {x}
         \/ Resolve(Env(Worker), "indeterminate", n, FALSE) /\ delivered' = delivered
         \/ UNCHANGED ledgerVars /\ delivered' = delivered
  BY DEF RecoverRecord, RecoverThrows, Finish, Deliver
<1>g. /\ up' = up
      /\ \A j \in Keys \ {k} : journal'[j] = journal[j] /\ entries'[j] = entries[j]
      /\ journal'[k] \in {journal[k], doneJ}
      /\ entries'[k] \in {entries[k], doneE}
      /\ \/ delivered' = delivered /\ entries'[k] = entries[k]
         \/ delivered' = delivered \cup {x} /\ journal'[k] = doneJ /\ entries'[k] = doneE
  <2>1. CASE Resolve(Env(Worker), "indeterminate", n, TRUE) /\ delivered' = delivered \cup {x}
    BY <1>a, <1>e, <2>1, ResolveRecovery
  <2>2. CASE Resolve(Env(Worker), "indeterminate", n, FALSE) /\ delivered' = delivered
    BY <1>a, <1>e, <2>2, ResolveRecovery
  <2>3. CASE UNCHANGED ledgerVars /\ delivered' = delivered
    BY <2>3 DEF ledgerVars
  <2> QED
    BY <1>f, <2>1, <2>2, <2>3
<1>h. /\ doneJ.status = "resolved" /\ doneJ.env = journal[k].env
      /\ doneJ.resolution = "indeterminate" /\ doneJ.response = n
      /\ doneE.status = "resolved" /\ doneE.env = entries[k].env
      /\ doneE.resolution = "indeterminate" /\ doneE.response = n
  BY DEF Resolved
<1> HIDE DEF doneJ, doneE, k
<1>i. \A j \in Keys : /\ journal'[j].status = journal[j].status
                      /\ journal'[j].env = journal[j].env
                      /\ journal'[j].resolution = journal[j].resolution
                      /\ entries'[j].status = entries[j].status
                      /\ entries'[j].env = entries[j].env
                      /\ entries'[j].resolution = entries[j].resolution
  BY <1>c, <1>d, <1>g, <1>h
<1>j. \A b \in ActionIds : /\ b \in Keys /\ Legacy[b] \in Keys
                           /\ EntryKey(journal', b) = EntryKey(journal, b)
                           /\ EntryKey(entries', b) = EntryKey(entries, b)
  BY <1>i DEF EntryKey, Keys
<1>k. /\ pc'[Worker] = "idle" /\ \A t \in Subs \ {Worker} : pc'[t] = pc[t]
      /\ \A t \in Subs : Env(t)' = Env(t) /\ Id(t)' = Id(t)
  BY <1>a, <1>f DEF TypeOK, Env, Id
<1>1. WellFormed(entries)' /\ WellFormed(journal)'
  <2>1. ASSUME NEW m, NEW mm, NEW d, WellFormed(m), \A j \in Keys \ {k} : mm[j] = m[j],
               mm[k] \in {m[k], d}, m[k].status = "resolved",
               d.status = "resolved", d.env = m[k].env, d.resolution = "indeterminate"
        PROVE  WellFormed(mm)
    BY <2>1 DEF WellFormed, Resolutions
  <2> QED
    BY <1>c, <1>d, <1>g, <1>h, <2>1 DEF LedgerInv, WellFormed
<1>2. JournalInv'
  <2>0. Absent.status = "absent"
    BY DEF Absent
  <2> SUFFICES ASSUME NEW j \in Keys
        PROVE /\ entries'[j].status = "absent" =>
                   /\ journal'[j].status \in {"absent", "executing"}
                   /\ j \in LegacyIds => journal'[j] = Absent
              /\ entries'[j].status = "executing" =>
                   /\ j \in ActionIds
                   /\ journal'[j].status \in {"executing", "resolved"}
                   /\ journal'[j].env = entries'[j].env
              /\ entries'[j].status = "resolved" =>
                   /\ journal'[j].status = "resolved"
                   /\ journal'[j].env = entries'[j].env
                   /\ journal'[j].resolution = entries'[j].resolution
                   /\ entries'[j].response # NoResponse => journal'[j].response = entries'[j].response
    BY DEF JournalInv
  <2>1. CASE j = k
    BY <1>c, <1>d, <1>g, <1>h, <2>1
  <2>2. CASE j # k
    BY <1>a, <1>g, <2>2 DEF LedgerInv, JournalInv
  <2> QED
    BY <2>1, <2>2
<1>3. LegacyInv'
  <2> SUFFICES ASSUME NEW b \in ActionIds, journal'[Legacy[b]].status # "absent"
               PROVE  journal'[b] = Absent
    BY DEF LegacyInv
  <2>1. journal[b] = Absent
    BY <1>i, <1>j DEF LedgerInv, LegacyInv
  <2>2. b # k
    BY <1>d, <2>1 DEF Absent
  <2> QED
    BY <1>g, <1>j, <2>1, <2>2
<1>4. DispatchInv'
  <2>1. Dispatchers' \subseteq Dispatchers /\ \A t \in Dispatchers' : t # Worker
    BY <1>k DEF Dispatchers
  <2>2. ASSUME NEW t \in Dispatchers, t # Worker
        PROVE  /\ Id(t) \in Keys \ {k}
               /\ pc'[t] = pc[t] /\ Env(t)' = Env(t) /\ Id(t)' = Id(t)
    <3>1. t \in Subs /\ Id(t) \in Keys /\ entries[Id(t)] = Executing(Env(t))
      BY DispatcherFacts
    <3>2. Id(t) # k
      BY <1>c, <3>1 DEF Executing
    <3> QED
      BY <1>k, <2>2, <3>1, <3>2
  <2> QED
    BY <1>f, <1>g, <2>1, <2>2 DEF LedgerInv, DispatchInv
<1>5. SentInv'
  BY <1>f, <1>g, <1>i, <1>j DEF LedgerInv, SentInv
<1>6. DeliveredInv'
  <2>1. ASSUME NEW y \in delivered
        PROVE  /\ EntryFor(journal', y.id) = EntryFor(journal, y.id)
               /\ EntryFor(entries', y.id) = EntryFor(entries, y.id)
    <3>1. y.id \in ActionIds
      BY <1>a DEF TypeOK, Response
    <3>2. /\ EntryFor(entries, y.id).status = "resolved"
          /\ EntryFor(entries, y.id).response # NoResponse
      BY <1>a DEF LedgerInv, DeliveredInv
    <3>3. /\ EntryKey(entries, y.id) \in Keys \ {k}
          /\ EntryKey(journal, y.id) = EntryKey(entries, y.id)
      BY <1>a, <1>c, <3>1, <3>2, SameKey DEF EntryFor
    <3> QED
      BY <1>g, <1>j, <3>1, <3>3 DEF EntryFor
  <2>2. CASE delivered' = delivered
    BY <1>g, <2>1, <2>2 DEF LedgerInv, DeliveredInv
  <2>3. CASE delivered' = delivered \cup {x} /\ journal'[k] = doneJ /\ entries'[k] = doneE
    <3>1. EntryFor(journal', a) = doneJ /\ EntryFor(entries', a) = doneE
      BY <1>b, <1>d, <1>j, <2>3 DEF EntryFor, k
    <3>2. x.id = a /\ x.resolution = "indeterminate" /\ x.receipt = n
      OBVIOUS
    <3>3. \A y \in delivered' : y \in delivered \/ y = x
      BY <2>3
    <3> HIDE DEF x
    <3> QED
      BY <1>b, <1>c, <1>d, <1>e, <1>g, <1>h, <2>1, <3>1, <3>2, <3>3 DEF LedgerInv, DeliveredInv
  <2> QED
    BY <1>g, <2>2, <2>3
<1>7. RecoveryInv'
  BY <1>k DEF RecoveryInv
<1>8. FlightInv'
  <2>1. delivered \subseteq delivered'
    BY <1>g
  <2> QED
    BY <1>f, <2>1 DEF LedgerInv, FlightInv
<1> QED
  BY <1>1, <1>2, <1>3, <1>4, <1>5, <1>6, <1>7, <1>8 DEF LedgerInv

-----------------------------------------------------------------------------
\* A crash forgets the entries and every submission, and keeps the journal.
LEMMA CrashStep ==
  ASSUME LedgerInv, TypeOK', ActiveInv', Crash
  PROVE  LedgerInv'
<1>1. /\ ~up' /\ UNCHANGED <<journal, sent, delivered>>
      /\ entries' = [k \in Keys |-> Absent] /\ flight' = [e \in Envelopes |-> NoFlight]
      /\ pc' = [s \in Subs |-> "idle"]
  BY DEF Crash, Die, historyVars
<1>2. Worker \in Subs /\ Absent.status = "absent" /\ NoFlight.state = "none"
  BY DEF Subs, Absent, NoFlight
<1>3. WellFormed(entries)' /\ WellFormed(journal)'
  <2>1. \A k \in Keys : entries'[k] = Absent
    BY <1>1
  <2> QED
    BY <1>1, <1>2, <2>1 DEF LedgerInv, WellFormed
<1>4. JournalInv' /\ LegacyInv' /\ SentInv'
  BY <1>1 DEF LedgerInv, JournalInv, LegacyInv, SentInv
<1>5. DispatchInv' /\ RecoveryInv'
  BY <1>1, <1>2 DEF DispatchInv, Dispatchers, RecoveryInv
<1>6. DeliveredInv'
  BY <1>1 DEF LedgerInv, DeliveredInv, EntryFor, EntryKey
<1>7. FlightInv'
  BY <1>1, <1>2 DEF FlightInv
<1> QED
  BY <1>3, <1>4, <1>5, <1>6, <1>7 DEF LedgerInv

\* recover() leaves every entry that is not executing as it is.
LEMMA RecoverFacts ==
  ASSUME NEW map, NEW S, NEW k \in Keys
  PROVE  LET new == RecoverKeys(map, S)[k]
         IN  \/ new = map[k] /\ (k \in S => map[k].status # "executing")
             \/ /\ map[k].status = "executing"
                /\ new.status = "resolved" /\ new.env = map[k].env
                /\ new.resolution = "indeterminate"
  BY DEF RecoverKeys, Resolved

\* The constructor, finished or interrupted.
LEMMA RestartStep ==
  ASSUME LedgerInv, TypeOK', ActiveInv', Restart
  PROVE  LedgerInv'
<1>1. /\ ~up /\ UNCHANGED <<pc, flight, sent, delivered>>
      /\ \A s \in Subs : pc[s] = "idle"
  BY DEF Restart, Boot, BootInterrupted, subVars, historyVars, LedgerInv, ActiveInv
<1>2. PICK S : /\ journal' = RecoverKeys(journal, S)
               /\ \/ S = Keys /\ entries' = journal'
                  \/ ~up' /\ entries' = entries
  <2>1. CASE Boot
    BY <2>1 DEF Boot
  <2>2. ASSUME NEW S \in SUBSET Keys, BootInterrupted(S)
        PROVE  journal' = RecoverKeys(journal, S) /\ ~up' /\ entries' = entries
    BY <1>1, <2>2 DEF BootInterrupted
  <2> QED
    BY <2>1, <2>2 DEF Restart
<1>3. Worker \in Subs /\ Absent.status = "absent"
  BY DEF Subs, Absent
<1>4. ASSUME NEW k \in Keys
      PROVE  \/ journal'[k] = journal[k] /\ (k \in S => journal[k].status # "executing")
             \/ /\ journal[k].status = "executing"
                /\ journal'[k].status = "resolved" /\ journal'[k].env = journal[k].env
                /\ journal'[k].resolution = "indeterminate"
  BY <1>2, RecoverFacts
<1>5. WellFormed(journal)' /\ WellFormed(entries)'
  <2>1. WellFormed(journal')
    BY <1>4 DEF LedgerInv, WellFormed, Resolutions
  <2> QED
    BY <1>2, <2>1 DEF LedgerInv, WellFormed
<1>6. JournalInv'
  <2>1. CASE S = Keys /\ entries' = journal'
    <3>1. \A k \in Keys : journal'[k].status # "executing"
      BY <1>4, <2>1
    <3>2. \A k \in Keys : journal'[k].status = "absent" => journal'[k] = Absent
      BY <1>5 DEF WellFormed
    <3> QED
      BY <2>1, <3>1, <3>2 DEF JournalInv
  <2>2. CASE ~up'
    BY <2>2 DEF JournalInv
  <2> QED
    BY <1>2, <2>1, <2>2
<1>7. LegacyInv'
  BY <1>3, <1>4 DEF LedgerInv, LegacyInv, Keys
<1>8. SentInv'
  <2>1. ActionIds \subseteq Keys
    BY DEF Keys
  <2> QED
    BY <1>1, <1>2, <1>4, <2>1 DEF LedgerInv, SentInv
<1>9. DispatchInv' /\ RecoveryInv' /\ FlightInv'
  BY <1>1, <1>3 DEF LedgerInv, DispatchInv, Dispatchers, RecoveryInv, FlightInv
<1>10. DeliveredInv'
  <2> SUFFICES ASSUME NEW x \in delivered
               PROVE  /\ EntryFor(journal', x.id) = EntryFor(journal, x.id)
                      /\ up' => EntryFor(entries', x.id) = EntryFor(journal, x.id)
    BY <1>1 DEF LedgerInv, DeliveredInv
  <2>1. x.id \in Keys /\ Legacy[x.id] \in Keys
    BY DEF LedgerInv, TypeOK, Response, Keys
  <2>2. EntryFor(journal, x.id).status = "resolved"
    BY DEF LedgerInv, DeliveredInv
  <2>3. EntryFor(journal', x.id) = EntryFor(journal, x.id)
    BY <1>4, <2>1, <2>2 DEF EntryFor, EntryKey
  <2> QED
    BY <1>2, <2>3
<1> QED
  BY <1>5, <1>6, <1>7, <1>8, <1>9, <1>10 DEF LedgerInv

-----------------------------------------------------------------------------
LEMMA InitInv == Init => LedgerInv
<1> SUFFICES ASSUME Init PROVE LedgerInv
  OBVIOUS
<1> USE DEF Init, LedgerInit
<1>0. /\ Worker \in Subs /\ Absent.status = "absent" /\ NoFlight.state = "none"
      /\ ActionIds \subseteq Keys
  BY DEF Subs, Absent, NoFlight, Keys
<1>1. ASSUME NEW k \in Keys
      PROVE  /\ journal[k] \in Entry
             /\ \/ journal[k] = Absent
                \/ \E e \in Envelopes : journal[k] = Executing(e)
                \/ \E e \in Envelopes, r \in Resolutions :
                      journal[k] = Resolved(Executing(e), r, NoResponse)
  <2>1. NoResponse \in Nat
    BY DEF NoResponse
  <2> QED
    BY <2>1, AbsentType, ExecutingType, ResolvedType
<1>2. TypeOK
  <2>1. LedgerTypeOK
    <3>1. journal = [k \in Keys |-> journal[k]]
      OBVIOUS
    <3>2. journal \in [Keys -> Entry]
      BY <1>1, <3>1
    <3> QED
      BY <3>2, AbsentType DEF LedgerTypeOK
  <2>2. NoFlight \in Flight
    BY DEF NoFlight, Flight, NoResponse
  <2> QED
    BY <2>1, <2>2 DEF TypeOK, PCs, Captures, Answers
<1>3. ActiveInv /\ DispatchInv /\ RecoveryInv /\ FlightInv /\ DeliveredInv
  BY <1>0 DEF ActiveInv, DispatchInv, Dispatchers, RecoveryInv, FlightInv, DeliveredInv
<1>4. WellFormed(entries)
  BY <1>0 DEF WellFormed
<1>5. WellFormed(journal)
  <2> SUFFICES ASSUME NEW k \in Keys, journal[k] # Absent
               PROVE  /\ journal[k].status # "absent"
                      /\ journal[k].env \in Envelopes
                      /\ k \in ActionIds => IdOf[journal[k].env] = k
                      /\ k \in LegacyIds => Legacy[IdOf[journal[k].env]] = k
                      /\ journal[k].status = "executing" => journal[k] = Executing(journal[k].env)
                      /\ journal[k].status = "resolved" => journal[k].resolution \in Resolutions
    BY <1>0 DEF WellFormed
  <2>1. CASE \E e \in Envelopes : journal[k] = Executing(e)
    BY <1>0, <2>1 DEF Executing
  <2>2. CASE \E e \in Envelopes, r \in Resolutions :
                journal[k] = Resolved(Executing(e), r, NoResponse)
    BY <1>0, <2>2 DEF Executing, Resolved
  <2> QED
    BY <1>1, <2>1, <2>2
<1>6. JournalInv /\ LegacyInv /\ SentInv
  BY <1>0 DEF JournalInv, LegacyInv, SentInv
<1> QED
  BY <1>2, <1>3, <1>4, <1>5, <1>6 DEF LedgerInv

LEMMA InvStep == LedgerInv /\ [Next]_vars => LedgerInv'
<1> SUFFICES ASSUME LedgerInv, [Next]_vars PROVE LedgerInv'
  OBVIOUS
<1>a. TypeOK' /\ ActiveInv'
  BY TypeStep
<1>b. Worker \in Subs /\ Clients \subseteq Subs
  BY DEF Subs
<1>1. ASSUME NEW s \in Subs, Step(s) PROVE LedgerInv'
  BY <1>a, <1>1, QuietActions, GateStep, TransmitStep, RecordStep DEF Step
<1>2. ASSUME NEW s \in Clients, NEW r \in Requests, Receive(s, r) PROVE LedgerInv'
  BY <1>a, <1>b, <1>2, QuietActions
<1>3. ASSUME NEW r \in Requests, Process(r) PROVE LedgerInv'
  BY <1>a, <1>3, ProcessStep
<1>4. CASE RecoverRecord \/ RecoverThrows
  BY <1>a, <1>4, RecoverStep
<1>5. CASE (\E e \in Envelopes : Expire(e)) \/ UNCHANGED vars
  BY <1>a, <1>b, <1>5, QuietActions
<1>6. CASE Crash
  BY <1>a, <1>6, CrashStep
<1>7. CASE Restart
  BY <1>a, <1>7, RestartStep
<1> QED
  BY <1>1, <1>2, <1>3, <1>4, <1>5, <1>6, <1>7 DEF Next

\* LedgerInv holds in every reachable state: submissions racing for an Action
\* ID, the write-ahead journal, the gate and recovery fit together, for any
\* number of submissions and any pattern of crashes and disk failures.
THEOREM LedgerInvariant == Spec => []LedgerInv
  BY InitInv, InvStep, PTL DEF Spec

-----------------------------------------------------------------------------
\* Every variable of the adapter keeps its type (cli/src/adapter).
THEOREM TypeCorrect == Spec => []TypeOK
<1>1. LedgerInv => TypeOK
  BY DEF LedgerInv
<1> QED
  BY <1>1, LedgerInvariant, PTL

\* No Action ID is transmitted twice, or at all when an older release spent it:
\* the gate's synchronous check and write, the journal and recovery suffice.
THEOREM AtMostOnceDispatched == Spec => []AtMostOnce
<1>1. LedgerInv => AtMostOnce
  <2> SUFFICES ASSUME LedgerInv, NEW a \in ActionIds
               PROVE  sent[a] <= 1 /\ (journal[Legacy[a]].status # "absent" => sent[a] = 0)
    BY DEF AtMostOnce
  <2>1. sent[a] \in {0, 1} /\ (sent[a] = 1 => journal[a].status # "absent")
    BY DEF LedgerInv, SentInv
  <2>2. journal[Legacy[a]].status # "absent" => journal[a].status = "absent"
    BY DEF LedgerInv, LegacyInv, Absent
  <2> QED
    BY <2>1, <2>2
<1> QED
  BY <1>1, LedgerInvariant, PTL

\* Whatever has been transmitted is in the journal, the write coming first, as
\* long as a restart can read the journal at all.
THEOREM WriteAheadHolds == Spec => []WriteAhead
<1>1. LedgerInv => WriteAhead
  BY DEF LedgerInv, SentInv, WriteAhead
<1> QED
  BY <1>1, LedgerInvariant, PTL

\* A response that left the adapter is the one a restart recovers, as long as it
\* can read the journal: no line of it was cut short.
THEOREM ResponsesDurable == Spec => []DeliveredIsDurable
<1>1. LedgerInv => DeliveredIsDurable
  BY DEF LedgerInv, DeliveredInv, DeliveredIsDurable
<1> QED
  BY <1>1, LedgerInvariant, PTL

\* All responses handed out for an Action ID carry one Execution Receipt: the
\* dispatcher's, the joiners' and the relay worker's, across restarts.
THEOREM SingleReceipt == Spec => []OneDispatchReceipt
<1>1. LedgerInv => OneDispatchReceipt
  <2> SUFFICES ASSUME LedgerInv, NEW x \in delivered, NEW y \in delivered, x.id = y.id
               PROVE  x = y
    BY DEF OneDispatchReceipt
  <2>1. x \in Response /\ y \in Response
    BY DEF LedgerInv, TypeOK
  <2>2. x.resolution = y.resolution /\ x.receipt = y.receipt
    BY DEF LedgerInv, DeliveredInv
  <2> QED
    BY <2>1, <2>2 DEF Response
<1> QED
  BY <1>1, LedgerInvariant, PTL

-----------------------------------------------------------------------------
\* The condition of an Action ID is one of the abstract lifecycle's.
LEMMA ConditionType ==
  ASSUME LedgerInv, NEW a \in ActionIds
  PROVE  /\ Condition(a) \in Lifecycle!Conditions
         /\ Condition(a) = "executing" <=> EntryFor(journal, a).status = "executing"
<1>1. EntryKey(journal, a) \in Keys
  BY KeyType
<1>2. /\ EntryFor(journal, a) \in Entry
      /\ EntryFor(journal, a).status = "resolved" => EntryFor(journal, a).resolution \in Resolutions
  BY <1>1 DEF LedgerInv, TypeOK, LedgerTypeOK, WellFormed, EntryFor
<1> QED
  BY <1>2 DEF Condition, Entry, Resolutions, Lifecycle!Conditions, Lifecycle!Definite

\* A step that changes neither statuses nor resolutions in the journal is a
\* stuttering step of the lifecycle.
LEMMA Stutter ==
  ASSUME sent' = sent,
         \A k \in Keys : /\ journal'[k].status = journal[k].status
                         /\ journal'[k].resolution = journal[k].resolution
  PROVE  UNCHANGED Lifecycle!lifecycleVars
<1>1. ASSUME NEW a \in ActionIds PROVE Condition(a)' = Condition(a)
  BY DEF Condition, EntryFor, EntryKey, Keys
<1> QED
  BY <1>1 DEF Lifecycle!lifecycleVars

\* A step that changes the journal at Action ID a only, where the flattened key
\* is not in use, gives a the new entry's condition and leaves the others alone.
LEMMA OneCondition ==
  ASSUME NEW a \in ActionIds,
         journal[Legacy[a]].status = "absent",
         \A k \in Keys \ {a} : journal'[k] = journal[k]
  PROVE  /\ \A b \in ActionIds \ {a} : Condition(b)' = Condition(b)
         /\ Condition(a) = IF journal[a].status = "absent" THEN "unknown"
                           ELSE IF journal[a].status = "executing" THEN "executing"
                           ELSE journal[a].resolution
         /\ Condition(a)' = IF journal'[a].status = "absent" THEN "unknown"
                            ELSE IF journal'[a].status = "executing" THEN "executing"
                            ELSE journal'[a].resolution
<1>1. \A b \in ActionIds : Legacy[b] \in Keys \ {a} /\ b \in Keys
  BY DEF Keys
<1>2. \A b \in ActionIds \ {a} : Condition(b)' = Condition(b)
  BY <1>1 DEF Condition, EntryFor, EntryKey
<1>3. /\ journal'[Legacy[a]].status = "absent"
      /\ EntryFor(journal, a).status = journal[a].status
      /\ EntryFor(journal', a).status = journal'[a].status
      /\ journal[a].status # "absent" => EntryFor(journal, a) = journal[a]
      /\ journal'[a].status # "absent" => EntryFor(journal', a) = journal'[a]
  BY <1>1 DEF EntryFor, EntryKey
<1> QED
  BY <1>2, <1>3 DEF Condition

LEMMA RefineStep ==
  ASSUME LedgerInv, [Next]_vars
  PROVE  [Lifecycle!Next]_Lifecycle!lifecycleVars
<1>a. TypeOK /\ ActiveInv
  BY DEF LedgerInv
<1>b. ASSUME journal' = journal, sent' = sent PROVE UNCHANGED Lifecycle!lifecycleVars
  BY <1>b, Stutter
<1>1. ASSUME NEW s \in Subs, GateDispatch(s) \/ GateThrows(s)
      PROVE  [Lifecycle!Next]_Lifecycle!lifecycleVars
  <2> DEFINE e == Env(s)
  <2>0. e \in Envelopes /\ up /\ sent' = sent
    BY <1>a, <1>1, SubType DEF GateDispatch, GateThrows, ActiveInv, historyVars
  <2> PICK a \in ActionIds : a = IdOf[e]
    BY <2>0
  <2>1. e \in Envelopes /\ a \in ActionIds /\ a = IdOf[e] /\ up /\ sent' = sent
    BY <2>0
  <2>2. /\ Check(e) = "absent"
        /\ journal' \in {journal, [journal EXCEPT ![a] = Executing(e)]}
    BY <1>1, <2>1 DEF GateDispatch, GateThrows, WriteExecuting, Append
  <2>3. journal[a].status \in {"absent", "executing"} /\ journal[Legacy[a]].status = "absent"
    BY <2>1, <2>2, AbsentFacts DEF Absent
  <2>4. CASE journal' = journal
    BY <1>b, <2>1, <2>4
  <2>5. CASE journal' = [journal EXCEPT ![a] = Executing(e)]
    <3>1. /\ \A k \in Keys \ {a} : journal'[k] = journal[k]
          /\ journal'[a].status = "executing"
      BY <1>a, <2>1, <2>5 DEF TypeOK, LedgerTypeOK, Executing, Keys
    <3> HIDE DEF e
    <3>2. /\ \A b \in ActionIds \ {a} : Condition(b)' = Condition(b)
          /\ Condition(a)' = "executing"
          /\ Condition(a) \in {"unknown", "executing"}
      BY <2>1, <2>3, <3>1, OneCondition
    <3>3. CASE Condition(a) = "executing"
      BY <2>1, <3>2, <3>3 DEF Lifecycle!lifecycleVars
    <3>4. CASE Condition(a) = "unknown"
      <4>1. Lifecycle!Authorize(a)
        BY <2>1, <3>2, <3>4 DEF Lifecycle!Authorize
      <4> QED
        BY <2>1, <4>1 DEF Lifecycle!Next
    <3> QED
      BY <3>2, <3>3, <3>4
  <2> QED
    BY <2>2, <2>4, <2>5
<1>2. ASSUME NEW s \in Subs, Transmit(s)
      PROVE  [Lifecycle!Next]_Lifecycle!lifecycleVars
  <2> DEFINE a == Id(s)
  <2>1. s \in Dispatchers /\ pc[s] = "dispatching"
    BY <1>2 DEF Transmit, Dispatchers
  <2>2. /\ a \in ActionIds /\ sent[a] = 0 /\ EntryKey(journal, a) = a
        /\ journal[a] = Executing(Env(s))
    BY <2>1, DispatcherFacts
  <2>3. Condition(a) = "executing"
    BY <2>2 DEF Condition, EntryFor, Executing
  <2>4. sent' = [sent EXCEPT ![a] = 1] /\ journal' = journal
    BY <1>a, <1>2, <2>2 DEF Transmit, ledgerVars, TypeOK
  <2>5. \A b \in ActionIds : Condition(b)' = Condition(b)
    BY <2>4 DEF Condition, EntryFor, EntryKey
  <2> HIDE DEF a
  <2>6. Lifecycle!Transmit(a)
    BY <2>2, <2>3, <2>4, <2>5 DEF Lifecycle!Transmit
  <2> QED
    BY <2>2, <2>6 DEF Lifecycle!Next
<1>3. ASSUME NEW s \in Subs, Record(s) \/ RecordThrows(s)
      PROVE  [Lifecycle!Next]_Lifecycle!lifecycleVars
  <2> DEFINE r == outcome[s]
             n == signed[Id(s)] + 1
  <2>1. s \in Dispatchers /\ pc[s] = "signing" /\ sent' = sent
    BY <1>3 DEF Record, RecordThrows, Dispatchers
  <2> PICK a \in ActionIds : a = Id(s)
    BY <2>1, DispatcherFacts
  <2>2. /\ a \in ActionIds /\ journal[a] = Executing(Env(s))
        /\ r \in Resolutions /\ (r # "indeterminate" => sent[a] = 1)
        /\ journal[Legacy[a]].status = "absent"
    BY <2>1, DispatcherFacts
  <2>3. n \in Nat
    BY <1>a, <2>2 DEF TypeOK
  <2>4. \/ journal' = journal
        \/ \E ok \in BOOLEAN : Resolve(Env(s), r, n, ok)
    BY <1>3 DEF Record, RecordThrows, ledgerVars
  <2>5. CASE journal' = journal
    BY <1>b, <2>1, <2>5
  <2>6. ASSUME NEW ok \in BOOLEAN, Resolve(Env(s), r, n, ok)
        PROVE  [Lifecycle!Next]_Lifecycle!lifecycleVars
    <3>1. /\ \A k \in Keys \ {a} : journal'[k] = journal[k]
          /\ journal'[a] \in {journal[a], Resolved(Executing(Env(s)), r, n)}
      BY <2>1, <2>2, <2>3, <2>6, ResolveDispatch
    <3>2. /\ journal[a].status = "executing"
          /\ \/ journal'[a].status = "executing"
             \/ journal'[a].status = "resolved" /\ journal'[a].resolution = r
      BY <2>2, <3>1 DEF Executing, Resolved
    <3> HIDE DEF r
    <3>3. /\ \A b \in ActionIds \ {a} : Condition(b)' = Condition(b)
          /\ Condition(a) = "executing"
          /\ Condition(a)' \in {"executing", r}
      BY <2>2, <3>1, <3>2, OneCondition
    <3>4. CASE Condition(a)' = Condition(a)
      BY <2>1, <3>3, <3>4 DEF Lifecycle!lifecycleVars
    <3>5. CASE Condition(a)' = r
      <4>1. Lifecycle!Resolve(a, r)
        BY <2>1, <2>2, <3>3, <3>5 DEF Lifecycle!Resolve, Lifecycle!Definite
      <4> QED
        BY <2>2, <4>1 DEF Lifecycle!Next, Lifecycle!Definite, Resolutions
    <3> QED
      BY <3>3, <3>4, <3>5
  <2> QED
    BY <2>4, <2>5, <2>6
<1>4. CASE RecoverRecord \/ RecoverThrows
  <2> DEFINE k == EntryKey(entries, Id(Worker))
             n == signed[Id(Worker)] + 1
  <2>1. /\ Worker \in Subs /\ pc[Worker] = "recovering" /\ up /\ sent' = sent
        /\ \/ journal' = journal
           \/ \E ok \in BOOLEAN : Resolve(Env(Worker), "indeterminate", n, ok)
    BY <1>4 DEF Subs, RecoverRecord, RecoverThrows, ledgerVars
  <2>2. n \in Nat /\ Id(Worker) \in ActionIds
    BY <1>a, <2>1, SubType DEF TypeOK, ActiveInv
  <2>3. journal[k].status = "resolved" /\ journal[k].resolution = "indeterminate"
    BY <2>1, <2>2, KeyType DEF LedgerInv, RecoveryInv, JournalInv, EntryFor
  <2>4. CASE journal' = journal
    BY <1>b, <2>1, <2>4
  <2>5. ASSUME NEW ok \in BOOLEAN, Resolve(Env(Worker), "indeterminate", n, ok)
        PROVE  UNCHANGED Lifecycle!lifecycleVars
    <3>1. /\ \A j \in Keys \ {k} : journal'[j] = journal[j]
          /\ journal'[k] \in {journal[k], Resolved(journal[k], "indeterminate", n)}
      BY <2>1, <2>2, <2>5, ResolveRecovery
    <3>2. journal'[k].status = "resolved" /\ journal'[k].resolution = "indeterminate"
      BY <2>3, <3>1 DEF Resolved
    <3> HIDE DEF k
    <3> QED
      BY <2>1, <2>3, <3>1, <3>2, Stutter
  <2> QED
    BY <2>1, <2>4, <2>5
<1>5. CASE Restart
  <2>1. sent' = sent
    BY <1>5 DEF Restart, historyVars
  <2>2. PICK S : journal' = RecoverKeys(journal, S)
    BY <1>5 DEF Restart, Boot, BootInterrupted
  <2>3. ASSUME NEW k \in Keys
        PROVE  \/ journal'[k] = journal[k]
               \/ /\ journal[k].status = "executing"
                  /\ journal'[k].status = "resolved"
                  /\ journal'[k].resolution = "indeterminate"
    BY <2>2, RecoverFacts
  <2>4. ASSUME NEW a \in ActionIds
        PROVE  \/ Condition(a)' = Condition(a)
               \/ Condition(a) = "executing" /\ Condition(a)' = "indeterminate"
    <3>1. a \in Keys /\ Legacy[a] \in Keys
      BY DEF Keys
    <3> QED
      BY <2>3, <3>1 DEF Condition, EntryFor, EntryKey
  <2> DEFINE T == {a \in ActionIds : Condition(a)' # Condition(a)}
  <2>5. Lifecycle!GiveUp(T)
    <3>1. \A a \in T : Condition(a) = "executing" /\ a \in ActionIds
      BY <2>4
    <3>2. ASSUME NEW a \in ActionIds
          PROVE  Condition(a)' = IF a \in T THEN "indeterminate" ELSE Condition(a)
      BY <2>4
    <3> HIDE DEF T
    <3> QED
      BY <2>1, <3>1, <3>2 DEF Lifecycle!GiveUp
  <2>6. T \in SUBSET ActionIds
    OBVIOUS
  <2> QED
    BY <2>5, <2>6 DEF Lifecycle!Next
<1>6. ASSUME NEW s \in Subs, Step(s) PROVE [Lifecycle!Next]_Lifecycle!lifecycleVars
  <2>1. CASE \/ Verify(s) \/ PrepareFails(s) \/ GateRaced(s) \/ CloseSession(s) \/ Join(s)
             \/ JoinSettled(s) \/ JoinTimesOut(s) \/ Classify(s)
    <3>1. journal' = journal /\ sent' = sent
      BY <2>1 DEF Verify, PrepareFails, GateRaced, CloseSession, Join, JoinSettled,
         JoinTimesOut, Classify, ledgerVars, historyVars
    <3> QED
      BY <1>b, <3>1
  <2> QED
    BY <1>1, <1>2, <1>3, <1>6, <2>1 DEF Step
<1>7. CASE \/ \E s \in Clients, r \in Requests : Receive(s, r)
           \/ \E r \in Requests : Process(r)
           \/ \E e \in Envelopes : Expire(e)
           \/ Crash \/ UNCHANGED vars
  <2>1. journal' = journal /\ sent' = sent
    BY <1>7 DEF Receive, Process, Expire, Crash, Die, vars, ledgerVars, historyVars
  <2> QED
    BY <1>b, <2>1
<1> QED
  BY <1>4, <1>5, <1>6, <1>7 DEF Next

\* The adapter implements the abstract Verifier lifecycle: an Action ID goes
\* from unknown to executing to one resolution that stands for good, and is
\* transmitted while executing, once.
THEOREM AdapterImplementsLifecycle == Spec => ImplementsLifecycle
<1>1. Init => Lifecycle!Init
  <2> SUFFICES ASSUME Init PROVE Lifecycle!Init
    OBVIOUS
  <2>1. LedgerInv
    BY InitInv
  <2>2. \A a \in ActionIds : Condition(a) \in Lifecycle!Conditions
    BY <2>1, ConditionType
  <2>3. sent = [a \in ActionIds |-> 0]
    BY DEF Init
  <2> QED
    BY <2>2, <2>3 DEF Lifecycle!Init
<1>2. LedgerInv /\ [Next]_vars => [Lifecycle!Next]_Lifecycle!lifecycleVars
  BY RefineStep
<1> QED
  BY <1>1, <1>2, LedgerInvariant, PTL DEF Spec, ImplementsLifecycle, Lifecycle!Spec

-----------------------------------------------------------------------------
\* A dispatch that was registered is still that request's after a step, and one
\* that failed stays failed.
FlightsKept ==
  \A e \in Envelopes : flight[e].state # "none" =>
    /\ flight'[e].req = flight[e].req
    /\ flight'[e].state # "none"
    /\ flight[e].state = "rejected" => flight'[e].state = "rejected"

\* Submission t takes no part in a step.
Bystander(t) ==
  /\ pc'[t] = pc[t] /\ req'[t] = req[t] /\ capture'[t] = capture[t]
  /\ session'[t] = session[t] /\ answer'[t] = answer[t]

LEMMA BystanderKeeps ==
  ASSUME LedgerInv, NEW t \in Subs, Joiner(t), Holder(t), Bystander(t), FlightsKept,
         t \in Dispatchers => flight'[Env(t)].state = "inFlight"
  PROVE  Joiner(t)' /\ Holder(t)'
<1>1. Env(t)' = Env(t) /\ (t \in Dispatchers' <=> t \in Dispatchers)
  BY DEF Bystander, Env, Dispatchers
<1>2. pc[t] # "idle" => req[t] \in Requests
  BY DEF LedgerInv, ActiveInv
<1>3. \/ t \in Dispatchers \/ pc[t] \in {"joined", "releasing"} \/ capture[t] = "same"
      \/ answer[t] \in {"outcome", "notInProcess"}
      => Env(t) \in Envelopes
  <2>1. t \in Dispatchers \/ pc[t] \in {"joined", "releasing"} => pc[t] # "idle"
    BY DEF Dispatchers
  <2>2. capture[t] = "same" => pc[t] # "idle"
    BY DEF Joiner
  <2>3. answer[t] \in {"outcome", "notInProcess"} => req[t] \in Requests
    BY DEF Joiner
  <2> QED
    BY <1>2, <2>1, <2>2, <2>3, SubType
<1>4. Joiner(t)'
  BY <1>1, <1>3 DEF Joiner, Bystander, FlightsKept
<1>5. Holder(t)'
  BY DEF Holder, Bystander
<1> QED
  BY <1>4, <1>5

\* A step of s that registers and settles no dispatch and leaves the entries
\* alone has only s itself to answer for.
LEMMA OnlyMover ==
  ASSUME LedgerInv, JoinInv, NEW s \in Subs, UNCHANGED <<entries, flight>>,
         \A t \in Subs \ {s} : Bystander(t),
         Joiner(s)', Holder(s)'
  PROVE  JoinInv'
<1>1. FlightsKept
  BY DEF FlightsKept
<1>2. ASSUME NEW t \in Subs \ {s} PROVE Joiner(t)' /\ Holder(t)'
  BY <1>1, BystanderKeeps DEF JoinInv, Joiner
<1>3. FlightEntryInv'
  BY DEF JoinInv, FlightEntryInv
<1> QED
  BY <1>2, <1>3 DEF JoinInv

\* What Check and Capture tell a submission of envelope e: an executing entry
\* is that of a dispatch pending or failed.
LEMMA ExecutingFlight ==
  ASSUME LedgerInv, FlightEntryInv, up, NEW e \in Envelopes, Check(e) = "executing"
  PROVE  flight[e].state \in {"inFlight", "rejected"}
<1>1. PICK k \in Keys : entries[k].status = "executing" /\ entries[k].env = e
  <2>1. EntryKey(entries, IdOf[e]) \in Keys
    BY KeyType
  <2> QED
    BY <2>1 DEF Check, EntryFor, LedgerInv, TypeOK, LedgerTypeOK, Entry
<1>2. k \in ActionIds
  BY <1>1 DEF LedgerInv, JournalInv
<1> QED
  BY <1>1, <1>2 DEF FlightEntryInv

\* Entering the handler: the dispatch captured is pending and of this request,
\* or none is pending and the one of the executing entry failed.
LEMMA EnterJoin ==
  ASSUME LedgerInv, JoinInv, up, NEW s \in Subs, NEW r \in Requests,
         pc[s] = "idle", Enter(s, r), UNCHANGED <<entries, flight>>
  PROVE  JoinInv'
<1>a. TypeOK /\ FlightEntryInv /\ Joiner(s) /\ EnvOf[r] \in Envelopes
  BY DEF LedgerInv, JoinInv
<1>1. \A t \in Subs \ {s} : Bystander(t)
  BY <1>a DEF Enter, Begin, Finish, Goto, Capture, Bystander, TypeOK
<1>2. req'[s] = r /\ Env(s)' = EnvOf[r] /\ ~session'[s]
  BY <1>a DEF Enter, Begin, TypeOK, Env
<1>3. capture[s] = "none"
  BY <1>a DEF Joiner
<1>4. CASE /\ Check(EnvOf[r]) = "executing" /\ Goto(s, "releasing") /\ Capture(s, r)
  <2>1. flight[EnvOf[r]].state \in {"inFlight", "rejected"}
    BY <1>a, <1>4, ExecutingFlight
  <2>2. pc'[s] = "releasing" /\ answer'[s] = "none"
    BY <1>a, <1>4 DEF Goto, TypeOK
  <2>3. capture'[s] = IF flight[EnvOf[r]].state # "inFlight" THEN "none"
                      ELSE IF flight[EnvOf[r]].req = r THEN "same" ELSE "differs"
    BY <1>a, <1>4 DEF Capture, TypeOK
  <2>4. Joiner(s)'
    BY <1>2, <2>1, <2>2, <2>3 DEF Joiner, Dispatchers
  <2>5. Holder(s)'
    BY <1>2 DEF Holder
  <2> QED
    BY <1>1, <2>4, <2>5, OnlyMover
<1>5. CASE /\ UNCHANGED capture
           /\ \/ Finish(s, "refused") \/ Finish(s, "expired") \/ Goto(s, "verifying")
              \/ /\ Check(EnvOf[r]) \in {"REPLAY_DETECTED", "ACTION_ID_HASH_MISMATCH"}
                 /\ Finish(s, Check(EnvOf[r]))
  <2>1. capture'[s] = "none"
    BY <1>3, <1>5
  <2>2. pc'[s] \in {"idle", "verifying"} /\ answer'[s] \notin {"outcome", "notInProcess"}
    BY <1>a, <1>5 DEF Finish, Goto, TypeOK
  <2>4. Joiner(s)' /\ Holder(s)'
    BY <1>2, <2>1, <2>2 DEF Joiner, Dispatchers, Holder
  <2> QED
    BY <1>1, <2>4, OnlyMover
<1> QED
  BY <1>4, <1>5 DEF Enter

\* A step of s alone that leaves entries and dispatches as they are.
LEMMA QuietJoin ==
  ASSUME LedgerInv, JoinInv, NEW s \in Subs,
         \/ Verify(s) \/ PrepareFails(s) \/ GateThrows(s) \/ GateRaced(s)
         \/ CloseSession(s) \/ Join(s) \/ JoinSettled(s) \/ JoinTimesOut(s)
         \/ Transmit(s) \/ Classify(s)
  PROVE  JoinInv'
<1>a. TypeOK /\ FlightEntryInv /\ Joiner(s) /\ Holder(s)
  BY DEF LedgerInv, JoinInv
<1>b. UNCHANGED <<entries, flight, req>>
  BY DEF Verify, PrepareFails, GateThrows, GateRaced, CloseSession, Join, JoinSettled,
         JoinTimesOut, Transmit, Classify, ledgerVars, WriteExecuting
<1>c. pc[s] # "idle" /\ up
  BY DEF Verify, PrepareFails, GateThrows, GateRaced, CloseSession, Join, JoinSettled,
         JoinTimesOut, Transmit, Classify
<1>d. req[s] \in Requests /\ Env(s) \in Envelopes /\ Env(s)' = Env(s) /\ req'[s] = req[s]
  BY <1>b, <1>c, SubType DEF LedgerInv, ActiveInv, Env
<1>e. \A t \in Subs \ {s} : Bystander(t)
  BY <1>a DEF Verify, PrepareFails, GateThrows, GateRaced, CloseSession, Join, JoinSettled,
              JoinTimesOut, Transmit, Classify, Finish, Goto, Capture, Bystander, TypeOK
<1> SUFFICES Joiner(s)' /\ Holder(s)'
  BY <1>b, <1>e, OnlyMover
<1> USE DEF Finish, Goto, TypeOK, Dispatchers
<1>1. CASE Verify(s)
  BY <1>a, <1>d, <1>1 DEF Verify, Joiner, Holder
<1>2. CASE PrepareFails(s)
  BY <1>a, <1>d, <1>2 DEF PrepareFails, Joiner, Holder
<1>3. CASE GateThrows(s)
  BY <1>a, <1>d, <1>3 DEF GateThrows, Joiner, Holder
<1>4. CASE GateRaced(s)
  <2>1. Check(Env(s)) = "executing" => flight[Env(s)].state \in {"inFlight", "rejected"}
    BY <1>a, <1>c, <1>d, ExecutingFlight
  <2> QED
    BY <1>a, <1>b, <1>d, <1>4, <2>1 DEF GateRaced, Capture, Joiner, Holder, Env
<1>5. CASE CloseSession(s)
  BY <1>a, <1>d, <1>5 DEF CloseSession, Joiner, Holder
<1>6. CASE Join(s)
  BY <1>a, <1>b, <1>d, <1>6 DEF Join, Captures, Joiner, Holder
<1>7. CASE JoinSettled(s)
  BY <1>a, <1>b, <1>d, <1>7 DEF JoinSettled, Joiner, Holder
<1>8. CASE JoinTimesOut(s)
  BY <1>a, <1>d, <1>8 DEF JoinTimesOut, Joiner, Holder
<1>9. CASE Transmit(s)
  BY <1>a, <1>b, <1>d, <1>9 DEF Transmit, Joiner, Holder
<1>10. CASE Classify(s)
  BY <1>a, <1>b, <1>d, <1>10 DEF Classify, Joiner, Holder
<1> QED
  BY <1>1, <1>2, <1>3, <1>4, <1>5, <1>6, <1>7, <1>8, <1>9, <1>10

\* A step of s that registers or settles a dispatch.
LEMMA DispatchJoin ==
  ASSUME LedgerInv, JoinInv, NEW s \in Subs, FlightEntryInv', FlightsKept,
         \A t \in Subs \ {s} : Bystander(t),
         \A t \in Dispatchers \ {s} : flight'[Env(t)].state = "inFlight",
         Joiner(s)', Holder(s)'
  PROVE  JoinInv'
<1>1. ASSUME NEW t \in Subs \ {s} PROVE Joiner(t)' /\ Holder(t)'
  BY BystanderKeeps DEF JoinInv
<1> QED
  BY <1>1 DEF JoinInv

\* The gate: no dispatch of the envelope existed, since its Action ID had no entry.
LEMMA GateJoin ==
  ASSUME LedgerInv, JoinInv, NEW s \in Subs, GateDispatch(s)
  PROVE  JoinInv'
<1>a. TypeOK /\ FlightEntryInv /\ Joiner(s)
  BY DEF LedgerInv, JoinInv
<1> DEFINE e == Env(s)
           new == [state |-> "inFlight", req |-> req[s],
                   resolution |-> "none", receipt |-> NoResponse]
<1>1. /\ up /\ e \in Envelopes /\ IdOf[e] \in ActionIds /\ IdOf[e] \in Keys
      /\ Check(e) = "absent" /\ pc[s] = "preparing"
  BY SubType DEF GateDispatch, LedgerInv, ActiveInv, WriteExecuting, Keys
<1>2. /\ flight' = [flight EXCEPT ![e] = new]
      /\ entries' = [entries EXCEPT ![IdOf[e]] = Executing(e)]
      /\ req' = req /\ capture' = capture
      /\ pc' = [pc EXCEPT ![s] = "dispatching"]
      /\ answer' = [answer EXCEPT ![s] = "none"]
      /\ session' = [session EXCEPT ![s] = TRUE]
  BY DEF GateDispatch, WriteExecuting, Goto
<1>3. entries[IdOf[e]].status = "absent"
  BY <1>1, AbsentFacts
<1>4. flight[e].state = "none"
  BY <1>a, <1>1, <1>3 DEF FlightEntryInv
<1>5. /\ flight'[e] = new /\ entries'[IdOf[e]] = Executing(e)
      /\ \A x \in Envelopes \ {e} : flight'[x] = flight[x]
      /\ \A k \in Keys \ {IdOf[e]} : entries'[k] = entries[k]
  BY <1>a, <1>1, <1>2 DEF TypeOK, LedgerTypeOK
<1>6. Executing(e).status = "executing" /\ Executing(e).env = e
  BY DEF Executing
<1>7. FlightsKept
  BY <1>4, <1>5 DEF FlightsKept
<1>8. FlightEntryInv'
  <2>1. ASSUME NEW x \in Envelopes, flight'[x].state # "none"
        PROVE  entries'[IdOf[x]].status # "absent"
    <3>1. CASE IdOf[x] = IdOf[e]
      BY <1>5, <1>6, <3>1
    <3>2. CASE IdOf[x] # IdOf[e]
      <4>1. IdOf[x] \in Keys \ {IdOf[e]} /\ flight'[x] = flight[x]
        BY <1>5, <3>2 DEF Keys
      <4> QED
        BY <1>a, <1>5, <2>1, <4>1 DEF FlightEntryInv
    <3> QED
      BY <3>1, <3>2
  <2>2. ASSUME NEW a \in ActionIds, entries'[a].status = "executing"
        PROVE  flight'[entries'[a].env].state \in {"inFlight", "rejected"}
    <3>1. CASE a = IdOf[e]
      BY <1>5, <1>6, <3>1
    <3>2. CASE a # IdOf[e]
      <4>1. a \in Keys /\ entries'[a] = entries[a]
        BY <1>5, <3>2 DEF Keys
      <4>2. entries[a].env \in Envelopes /\ IdOf[entries[a].env] = a
        BY <2>2, <4>1 DEF LedgerInv, WellFormed
      <4> QED
        BY <1>a, <1>5, <2>2, <3>2, <4>1, <4>2 DEF FlightEntryInv
    <3> QED
      BY <3>1, <3>2
  <2> QED
    BY <2>1, <2>2 DEF FlightEntryInv
<1>9. \A t \in Subs \ {s} : Bystander(t)
  BY <1>a, <1>2 DEF Bystander, TypeOK
<1>10. \A t \in Dispatchers \ {s} : flight'[Env(t)].state = "inFlight"
  <2> SUFFICES ASSUME NEW t \in Dispatchers \ {s} PROVE flight'[Env(t)].state = "inFlight"
    OBVIOUS
  <2>1. t \in Subs /\ Env(t) \in Envelopes /\ flight[Env(t)].state = "inFlight"
    BY DispatcherFacts DEF JoinInv, Joiner
  <2> QED
    BY <1>4, <1>5, <2>1
<1>11. Joiner(s)' /\ Holder(s)'
  <2>1. /\ pc'[s] = "dispatching" /\ answer'[s] = "none" /\ capture'[s] = capture[s]
        /\ Env(s)' = e /\ req'[s] = req[s]
    BY <1>a, <1>2 DEF TypeOK, Env
  <2>2. capture[s] = "none"
    BY <1>a, <1>1 DEF Joiner
  <2>3. flight'[e].state = "inFlight" /\ flight'[e].req = req[s]
    BY <1>5
  <2> HIDE DEF e
  <2> QED
    BY <2>1, <2>2, <2>3 DEF Joiner, Holder, Dispatchers
<1> QED
  BY <1>7, <1>8, <1>9, <1>10, <1>11, DispatchJoin

\* The dispatcher settles its promise, with its entry resolved if fulfilled.
LEMMA SettleJoin ==
  ASSUME LedgerInv, JoinInv, TypeOK', NEW s \in Subs, Record(s) \/ RecordThrows(s)
  PROVE  JoinInv'
<1>a. TypeOK /\ FlightEntryInv /\ Joiner(s) /\ Holder(s)
  BY DEF LedgerInv, JoinInv
<1> DEFINE e == Env(s)
           n == signed[Id(s)] + 1
<1>0. s \in Dispatchers /\ pc[s] = "signing"
  BY DEF Record, RecordThrows, Dispatchers
<1>1. /\ up /\ e \in Envelopes /\ Id(s) = IdOf[e] /\ Id(s) \in ActionIds /\ Id(s) \in Keys
      /\ entries[Id(s)] = Executing(e) /\ outcome[s] \in Resolutions
      /\ \A t \in Dispatchers : Id(t) = Id(s) => t = s
  BY <1>0, DispatcherFacts
<1>2. flight[e].state = "inFlight" /\ flight[e].req = req[s]
  BY <1>a, <1>0 DEF Joiner
<1>3. n \in Nat
  BY <1>a, <1>1 DEF TypeOK
<1>4. /\ req' = req /\ capture' = capture /\ session' = session
      /\ pc' = [pc EXCEPT ![s] = "idle"]
      /\ \E x \in {"outcome", "error"} : answer' = [answer EXCEPT ![s] = x]
  BY DEF Record, RecordThrows, Finish
<1>5. /\ flight'[e].req = flight[e].req
      /\ flight'[e].state \in {"fulfilled", "rejected"}
      /\ RecordThrows(s) => flight'[e].state = "rejected"
      /\ \A x \in Envelopes \ {e} : flight'[x] = flight[x]
  <2>1. \E how \in {"fulfilled", "rejected"}, r \in Resolutions \cup {"none"}, m \in Nat :
          Settle(s, how, r, m)
    BY <1>1, <1>3 DEF Record, RecordThrows, NoResponse
  <2>2. RecordThrows(s) => Settle(s, "rejected", "none", NoResponse)
    BY DEF RecordThrows
  <2> QED
    BY <1>a, <1>1, <2>1, <2>2 DEF Settle, TypeOK
<1>6. /\ \A k \in Keys \ {Id(s)} : entries'[k] = entries[k]
      /\ entries'[Id(s)].status \in {"executing", "resolved"}
      /\ flight'[e].state = "fulfilled" => entries'[Id(s)].status = "resolved"
      /\ entries'[Id(s)].env = e
  <2>0. Executing(e).status = "executing" /\ Executing(e).env = e
    BY DEF Executing
  <2>1. CASE Record(s)
    <3>1. Resolve(e, outcome[s], n, TRUE)
      BY <2>1 DEF Record
    <3>2. /\ \A k \in Keys \ {Id(s)} : entries'[k] = entries[k]
          /\ entries'[Id(s)] = Resolved(Executing(e), outcome[s], n)
      BY <1>0, <1>1, <1>3, <3>1, ResolveDispatch
    <3>3. /\ Resolved(Executing(e), outcome[s], n).status = "resolved"
          /\ Resolved(Executing(e), outcome[s], n).env = Executing(e).env
      BY DEF Resolved
    <3> QED
      BY <2>0, <2>1, <3>2, <3>3
  <2>2. CASE RecordThrows(s)
    <3>1. CASE UNCHANGED ledgerVars
      BY <1>1, <1>5, <2>0, <2>2, <3>1 DEF ledgerVars
    <3>2. CASE Resolve(e, outcome[s], n, FALSE)
      <4>1. /\ \A k \in Keys \ {Id(s)} : entries'[k] = entries[k]
            /\ entries'[Id(s)] = entries[Id(s)]
        BY <1>0, <1>1, <1>3, <3>2, ResolveDispatch
      <4> QED
        BY <1>1, <1>5, <2>0, <2>2, <4>1
    <3> QED
      BY <2>2, <3>1, <3>2 DEF RecordThrows
  <2> QED
    BY <2>1, <2>2
<1>7. FlightsKept
  BY <1>2, <1>5 DEF FlightsKept
<1>8. FlightEntryInv'
  <2>1. ASSUME NEW x \in Envelopes, flight'[x].state # "none"
        PROVE  entries'[IdOf[x]].status # "absent"
    <3>1. flight[x].state # "none" /\ IdOf[x] \in Keys
      BY <1>2, <1>5, <2>1 DEF Keys
    <3>2. entries[IdOf[x]].status # "absent"
      BY <1>a, <3>1 DEF FlightEntryInv
    <3> QED
      BY <1>6, <3>1, <3>2
  <2>2. ASSUME NEW a \in ActionIds, entries'[a].status = "executing"
        PROVE  flight'[entries'[a].env].state \in {"inFlight", "rejected"}
    <3>1. CASE a = Id(s)
      BY <1>5, <1>6, <2>2, <3>1
    <3>2. CASE a # Id(s)
      <4>1. a \in Keys /\ entries'[a] = entries[a]
        BY <1>6, <3>2 DEF Keys
      <4>2. entries[a].env \in Envelopes /\ IdOf[entries[a].env] = a
        BY <2>2, <4>1 DEF LedgerInv, WellFormed
      <4> QED
        BY <1>a, <1>1, <1>5, <2>2, <3>2, <4>1, <4>2 DEF FlightEntryInv
    <3> QED
      BY <3>1, <3>2
  <2> QED
    BY <2>1, <2>2 DEF FlightEntryInv
<1>9. \A t \in Subs \ {s} : Bystander(t)
  BY <1>a, <1>4 DEF Bystander, TypeOK
<1>10. \A t \in Dispatchers \ {s} : flight'[Env(t)].state = "inFlight"
  <2> SUFFICES ASSUME NEW t \in Dispatchers \ {s} PROVE flight'[Env(t)].state = "inFlight"
    OBVIOUS
  <2>1. /\ t \in Subs /\ Env(t) \in Envelopes /\ Id(t) = IdOf[Env(t)]
        /\ flight[Env(t)].state = "inFlight"
    BY DispatcherFacts DEF JoinInv, Joiner
  <2>2. Env(t) # e
    BY <1>1, <2>1
  <2> QED
    BY <1>5, <2>1, <2>2
<1>11. Joiner(s)' /\ Holder(s)'
  <2>1. /\ pc'[s] = "idle" /\ answer'[s] \in {"outcome", "error"}
        /\ capture'[s] = capture[s] /\ session'[s] = session[s]
        /\ Env(s)' = e /\ req'[s] = req[s]
    BY <1>a, <1>4 DEF TypeOK, Env
  <2>2. capture[s] = "none" /\ ~session[s] /\ req[s] \in Requests
    BY <1>a, <1>0 DEF Joiner, Holder, LedgerInv, ActiveInv, TypeOK
  <2>3. flight'[e].state # "none" /\ flight'[e].req = req[s]
    BY <1>2, <1>5
  <2> HIDE DEF e
  <2> QED
    BY <2>1, <2>2, <2>3 DEF Joiner, Holder, Dispatchers
<1> QED
  BY <1>7, <1>8, <1>9, <1>10, <1>11, DispatchJoin

\* The worker's own entry points and answers.
LEMMA WorkerJoin ==
  ASSUME LedgerInv, JoinInv,
         (\E r \in Requests : Process(r)) \/ RecoverRecord \/ RecoverThrows
  PROVE  JoinInv'
<1>a. TypeOK /\ FlightEntryInv /\ Joiner(Worker) /\ Holder(Worker) /\ Worker \in Subs
  BY DEF LedgerInv, JoinInv, Subs
<1>b. Worker \notin Clients
  OBVIOUS
<1>1. ASSUME NEW r \in Requests, Process(r) PROVE JoinInv'
  <2>1. up /\ pc[Worker] = "idle" /\ UNCHANGED <<entries, flight>>
    BY <1>1 DEF Process, ledgerVars
  <2>2. CASE Enter(Worker, r)
    BY <1>a, <2>1, <2>2, EnterJoin
  <2>3. CASE /\ Begin(Worker, r) /\ UNCHANGED capture
             /\ Finish(Worker, "outcome") \/ Goto(Worker, "recovering")
    <3>1. \A t \in Subs \ {Worker} : Bystander(t)
      BY <1>a, <2>3 DEF Begin, Finish, Goto, Bystander, TypeOK
    <3>2. /\ req'[Worker] = r /\ ~session'[Worker] /\ capture'[Worker] = "none"
          /\ pc'[Worker] \in {"idle", "recovering"}
          /\ answer'[Worker] \in {"outcome", "none"}
      BY <1>a, <2>1, <2>3 DEF Begin, Finish, Goto, TypeOK, Joiner
    <3>3. Joiner(Worker)' /\ Holder(Worker)'
      BY <1>b, <3>2 DEF Joiner, Holder, Dispatchers
    <3> QED
      BY <1>a, <2>1, <3>1, <3>3, OnlyMover
  <2> QED
    BY <1>1, <2>2, <2>3 DEF Process
<1>2. CASE RecoverRecord \/ RecoverThrows
  <2> DEFINE n == signed[Id(Worker)] + 1
             k == EntryKey(entries, Id(Worker))
  <2>1. /\ pc[Worker] = "recovering" /\ up
        /\ UNCHANGED <<req, capture, session, flight>>
        /\ pc' = [pc EXCEPT ![Worker] = "idle"]
        /\ \E x \in {"outcome", "error"} : answer' = [answer EXCEPT ![Worker] = x]
    BY <1>2 DEF RecoverRecord, RecoverThrows, Finish
  <2>2. req[Worker] \in Requests /\ Id(Worker) \in ActionIds /\ n \in Nat /\ k \in Keys
    BY <1>a, <2>1, SubType, KeyType DEF LedgerInv, ActiveInv, TypeOK
  <2>3. /\ \A j \in Keys \ {k} : entries'[j] = entries[j]
        /\ entries'[k].status = "resolved" /\ entries[k].status = "resolved"
    <3>1. entries[k].status = "resolved"
      BY <2>1 DEF LedgerInv, RecoveryInv, EntryFor
    <3>2. \/ UNCHANGED ledgerVars
          \/ \E ok \in BOOLEAN : Resolve(Env(Worker), "indeterminate", n, ok)
      BY <1>2 DEF RecoverRecord, RecoverThrows
    <3>3. CASE UNCHANGED ledgerVars
      BY <3>1, <3>3 DEF ledgerVars
    <3>4. ASSUME NEW ok \in BOOLEAN, Resolve(Env(Worker), "indeterminate", n, ok)
          PROVE  /\ \A j \in Keys \ {k} : entries'[j] = entries[j]
                 /\ entries'[k].status = "resolved"
      <4>1. /\ \A j \in Keys \ {k} : entries'[j] = entries[j]
            /\ entries'[k] = IF ok THEN Resolved(entries[k], "indeterminate", n) ELSE entries[k]
        BY <2>1, <2>2, <3>4, ResolveRecovery
      <4>2. Resolved(entries[k], "indeterminate", n).status = "resolved"
        BY DEF Resolved
      <4> QED
        BY <3>1, <4>1, <4>2
    <3> QED
      BY <3>1, <3>2, <3>3, <3>4
  <2>4. FlightEntryInv'
    <3> HIDE DEF k
    <3>1. ActionIds \subseteq Keys /\ \A x \in Envelopes : IdOf[x] \in Keys
      BY DEF Keys
    <3>2. ASSUME NEW x \in Envelopes, flight[x].state # "none"
          PROVE  entries'[IdOf[x]].status # "absent"
      BY <1>a, <2>3, <3>1, <3>2 DEF FlightEntryInv
    <3>3. ASSUME NEW a \in ActionIds, entries'[a].status = "executing"
          PROVE  flight[entries'[a].env].state \in {"inFlight", "rejected"}
      BY <1>a, <2>3, <3>1, <3>3 DEF FlightEntryInv
    <3> QED
      BY <2>1, <3>2, <3>3 DEF FlightEntryInv
  <2>5. \A t \in Subs \ {Worker} : Bystander(t)
    BY <1>a, <2>1 DEF Bystander, TypeOK
  <2>6. FlightsKept
    BY <2>1 DEF FlightsKept
  <2>7. \A t \in Dispatchers \ {Worker} : flight'[Env(t)].state = "inFlight"
    BY <2>1 DEF JoinInv, Joiner, Dispatchers
  <2>8. /\ pc'[Worker] = "idle" /\ answer'[Worker] \in {"outcome", "error"}
        /\ capture'[Worker] = "none" /\ ~session'[Worker] /\ req'[Worker] \in Requests
    BY <1>a, <2>1, <2>2 DEF TypeOK, Joiner, Holder
  <2>9. Joiner(Worker)' /\ Holder(Worker)'
    BY <1>b, <2>8 DEF Joiner, Holder, Dispatchers
  <2> QED
    BY <1>a, <2>4, <2>5, <2>6, <2>7, <2>9, DispatchJoin
<1> QED
  BY <1>1, <1>2

\* A crash forgets every dispatch and every submission; a restart leaves no
\* executing entry behind.
LEMMA RestartJoin ==
  ASSUME LedgerInv, JoinInv, Crash \/ Restart
  PROVE  JoinInv'
<1>a. TypeOK /\ ActiveInv
  BY DEF LedgerInv
<1>1. CASE Crash
  <2>1. /\ entries' = [k \in Keys |-> Absent] /\ flight' = [e \in Envelopes |-> NoFlight]
        /\ pc' = [s \in Subs |-> "idle"] /\ capture' = [s \in Subs |-> "none"]
        /\ session' = [s \in Subs |-> FALSE] /\ answer' = [s \in Subs |-> "none"]
    BY <1>1 DEF Crash, Die
  <2>2. NoFlight.state = "none" /\ Absent.status = "absent" /\ ActionIds \subseteq Keys
    BY DEF NoFlight, Absent, Keys
  <2>3. FlightEntryInv'
    BY <2>1, <2>2 DEF FlightEntryInv
  <2>4. \A s \in Subs : Joiner(s)' /\ Holder(s)'
    BY <2>1 DEF Joiner, Holder, Dispatchers
  <2> QED
    BY <2>3, <2>4 DEF JoinInv
<1>2. CASE Restart
  <2>1. /\ ~up /\ UNCHANGED <<pc, req, capture, session, answer, flight>>
        /\ entries' \in {entries, RecoverKeys(journal, Keys)}
    BY <1>2 DEF Restart, Boot, BootInterrupted, subVars
  <2>2. flight = [e \in Envelopes |-> NoFlight] /\ entries = [k \in Keys |-> Absent]
    BY <1>a, <2>1 DEF ActiveInv
  <2>3. NoFlight.state = "none" /\ Absent.status = "absent" /\ ActionIds \subseteq Keys
    BY DEF NoFlight, Absent, Keys
  <2>4. \A a \in ActionIds : entries'[a].status # "executing"
    <3>1. \A k \in Keys : RecoverKeys(journal, Keys)[k].status # "executing"
      BY DEF RecoverKeys, Resolved
    <3> QED
      BY <2>1, <2>2, <2>3, <3>1
  <2>5. FlightEntryInv'
    BY <2>1, <2>2, <2>3, <2>4 DEF FlightEntryInv
  <2>6. \A s \in Subs : Joiner(s)' /\ Holder(s)'
    BY <2>1 DEF JoinInv, Joiner, Holder, Dispatchers, Env
  <2> QED
    BY <2>5, <2>6 DEF JoinInv
<1> QED
  BY <1>1, <1>2

LEMMA JoinStep == LedgerInv /\ JoinInv /\ [Next]_vars => JoinInv'
<1> SUFFICES ASSUME LedgerInv, JoinInv, [Next]_vars PROVE JoinInv'
  OBVIOUS
<1>a. TypeOK'
  BY TypeStep
<1>1. ASSUME NEW s \in Subs, Step(s) PROVE JoinInv'
  BY <1>a, <1>1, QuietJoin, GateJoin, SettleJoin DEF Step
<1>2. ASSUME NEW s \in Clients, NEW r \in Requests, Receive(s, r) PROVE JoinInv'
  BY <1>2, EnterJoin DEF Receive, ledgerVars, Subs
<1>3. CASE (\E r \in Requests : Process(r)) \/ RecoverRecord \/ RecoverThrows
  BY <1>3, WorkerJoin
<1>4. CASE (\E e \in Envelopes : Expire(e)) \/ UNCHANGED vars
  <2>1. UNCHANGED <<entries, flight, pc, req, capture, session, answer>>
    BY <1>4 DEF Expire, vars, ledgerVars, subVars
  <2> QED
    BY <2>1 DEF JoinInv, FlightEntryInv, Joiner, Holder, Dispatchers, Env
<1>5. CASE Crash \/ Restart
  BY <1>5, RestartJoin
<1> QED
  BY <1>1, <1>2, <1>3, <1>4, <1>5 DEF Next

LEMMA JoinInvariant == Spec => []JoinInv
<1>1. Init => JoinInv
  <2> SUFFICES ASSUME Init PROVE JoinInv
    OBVIOUS
  <2>1. NoFlight.state = "none" /\ Absent.status = "absent" /\ ActionIds \subseteq Keys
    BY DEF NoFlight, Absent, Keys
  <2>2. FlightEntryInv
    BY <2>1 DEF Init, LedgerInit, FlightEntryInv
  <2>3. \A s \in Subs : Joiner(s) /\ Holder(s)
    BY DEF Init, Joiner, Holder, Dispatchers
  <2> QED
    BY <2>2, <2>3 DEF JoinInv
<1> QED
  BY <1>1, JoinStep, LedgerInvariant, PTL DEF Spec

\* A client learns an outcome only by presenting the request that was verified
\* and dispatched: joinDispatch compares the fingerprints it captured before
\* it awaited, and no later dispatch can take the envelope's place.
THEOREM OutcomesToPresenters == Spec => []OutcomeOnlyToSameRequest
<1>1. JoinInv => OutcomeOnlyToSameRequest
  BY DEF JoinInv, Joiner, OutcomeOnlyToSameRequest, Subs
<1> QED
  BY <1>1, JoinInvariant, PTL

\* "Not in this process" is said only of a dispatch that failed after the
\* executing line was written, however long the joiner took to get there.
THEOREM NotInProcessIsFailure == Spec => []NotInProcessMeansFailed
<1>1. JoinInv => NotInProcessMeansFailed
  BY DEF JoinInv, Joiner, NotInProcessMeansFailed
<1> QED
  BY <1>1, JoinInvariant, PTL

\* Every handler that returned has closed the target session it prepared, the
\* one case excepted in which the journal refused the executing line.
THEOREM SessionsAreReleased == Spec => []SessionsReleased
<1>1. JoinInv => SessionsReleased
  BY DEF JoinInv, Holder, SessionsReleased
<1> QED
  BY <1>1, JoinInvariant, PTL
=============================================================================
