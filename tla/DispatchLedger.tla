--------------------------- MODULE DispatchLedger ---------------------------
(***************************************************************************)
(* The Credential Adapter's dispatch ledger: an in-memory map from Action  *)
(* ID to lifecycle entry, backed by an append-only journal file            *)
(* (cli/src/adapter/dispatch-ledger.ts).                                   *)
(*                                                                         *)
(* The file is represented by `torn', whether replay() throws on one of     *)
(* its lines, and by `journal', the value that replay() computes from the  *)
(* lines otherwise.  replay() is a left fold, so appending a line is one   *)
(* replay step.  A line is cut short when writeSync writes fewer bytes     *)
(* than asked (its result is ignored) or the machine stops in the middle   *)
(* of it.  From then on the file gives nothing at all: the module still    *)
(* folds the lines that append() was called with into `journal', but while *)
(* the file is torn nothing in the system depends on that value, and a     *)
(* property about what can be recovered has to exclude the case.           *)
(***************************************************************************)
EXTENDS Naturals

CONSTANTS
  ActionIds,   \* Action IDs as (scope, value) pairs
  LegacyIds,   \* flattened "scope:value" strings found in old journals
  Envelopes,   \* Action Envelopes, told apart by their hash
  NoEnvelope,  \* stands for a missing hash
  Legacy,      \* Legacy[a] is the flattened form of Action ID a
  IdOf,        \* IdOf[e] is the Action ID in envelope e
  DiskFaults   \* whether journal writes may fail, be short or be torn

ASSUME LedgerConstants ==
  /\ ActionIds \cap LegacyIds = {}
  /\ NoEnvelope \notin Envelopes
  /\ Legacy \in [ActionIds -> LegacyIds]
  /\ IdOf \in [Envelopes -> ActionIds]
  /\ DiskFaults \in BOOLEAN

VARIABLES
  up,       \* the adapter process is running
  entries,  \* DispatchLedger.entries, meaningless while ~up
  journal,  \* what replay() makes of the appended lines, if none is cut short
  torn      \* a line of the file is cut short: replay() throws

ledgerVars == <<up, entries, journal, torn>>

-----------------------------------------------------------------------------
Keys == ActionIds \cup LegacyIds

Resolutions == {"executed", "failed", "indeterminate"}

\* A retained terminal response is identified by the serial number of its
\* Execution Receipt; 0 means that the entry retains none.
NoResponse == 0

Entry == [status: {"absent", "executing", "resolved"},
          env: Envelopes \cup {NoEnvelope},
          resolution: Resolutions \cup {"none"},
          response: Nat]

Absent == [status |-> "absent", env |-> NoEnvelope,
           resolution |-> "none", response |-> NoResponse]

Executing(e) == [status |-> "executing", env |-> e,
                 resolution |-> "none", response |-> NoResponse]

\* Mutated form of Resolved: the response is not retained.
ResolvedForgetsResponse(entry, resolution, response) ==
  [status |-> "resolved", env |-> entry.env,
   resolution |-> resolution, response |-> NoResponse]

Resolved(entry, resolution, response) ==
  [status |-> "resolved", env |-> entry.env,
   resolution |-> resolution, response |-> response]

\* Mutated form of ReplayResolved: the line carries no response.
ReplayForgetsResponse(entry, resolution, response) ==
  IF entry.status = "absent" THEN entry
                             ELSE Resolved(entry, resolution, NoResponse)

\* The replay step of a "resolved" line: a line that names no entry is skipped.
ReplayResolved(entry, resolution, response) ==
  IF entry.status = "absent" THEN entry
                             ELSE Resolved(entry, resolution, response)

-----------------------------------------------------------------------------
\* Mutated form of EntryKey: no fallback to the flattened key.
EntryKeyPairOnly(map, a) == a

\* entryFor: the explicit pair first, the flattened legacy key otherwise.
EntryKey(map, a) == IF map[a].status # "absent" THEN a ELSE Legacy[a]

EntryFor(map, a) == map[EntryKey(map, a)]

\* The lifecycle verdict on a submission of envelope e.
Check(e) ==
  LET entry == EntryFor(entries, IdOf[e])
  IN  IF entry.status = "absent" THEN "absent"
      ELSE IF entry.status = "resolved" THEN "REPLAY_DETECTED"
      ELSE IF entry.env = e THEN "executing"
      ELSE "ACTION_ID_HASH_MISMATCH"

\* Mutated form of Append: it may return before the line is in the file.
AppendBuffered(k, entry, ok) ==
  \/ /\ ok
     /\ journal' \in {journal, [journal EXCEPT ![k] = entry]}
     /\ torn' \in {torn, torn \/ DiskFaults}
  \/ /\ ~ok
     /\ DiskFaults
     /\ journal' \in {journal, [journal EXCEPT ![k] = entry]}
     /\ torn' \in {torn, TRUE}

(***************************************************************************)
(* FileDispatchJournal.append of a line that turns the entry of key k into *)
(* `entry'.  `ok' is whether append returns.  A failing disk may make it   *)
(* throw with or without the line being in the file, and may cut the line  *)
(* short whether it throws or not.  (A line that lacks its newline only is *)
(* still read; the next one then runs into it, which is that one's short   *)
(* write.)                                                                 *)
(***************************************************************************)
Append(k, entry, ok) ==
  \/ /\ ok
     /\ journal' = [journal EXCEPT ![k] = entry]
     /\ torn' \in {torn, torn \/ DiskFaults}
  \/ /\ ~ok
     /\ DiskFaults
     /\ journal' \in {journal, [journal EXCEPT ![k] = entry]}
     /\ torn' \in {torn, TRUE}

\* Mutated forms of WriteExecuting: the lifecycle is not checked again, and the
\* entry is made before the journal has the line.
WriteUnchecked(e, ok) ==
  /\ Append(IdOf[e], Executing(e), ok)
  /\ entries' = IF ok THEN [entries EXCEPT ![IdOf[e]] = Executing(e)] ELSE entries
  /\ up' = up

WriteEntryFirst(e, ok) ==
  /\ Check(e) = "absent"
  /\ Append(IdOf[e], Executing(e), ok)
  /\ entries' = [entries EXCEPT ![IdOf[e]] = Executing(e)]
  /\ up' = up

\* authorizeDispatch on an absent Action ID: the executing line, then the entry.
WriteExecuting(e, ok) ==
  /\ Check(e) = "absent"
  /\ Append(IdOf[e], Executing(e), ok)
  /\ entries' = IF ok THEN [entries EXCEPT ![IdOf[e]] = Executing(e)] ELSE entries
  /\ up' = up

\* resolve() throws before it changes anything when the response is about
\* another envelope than the ledger's.
ResolveMismatch(e) ==
  LET entry == EntryFor(entries, IdOf[e])
  IN  entry.status # "absent" /\ entry.env # e

\* resolve() returns without a trace: nothing to resolve, another resolution
\* stands, or a response is already retained.
ResolveIgnored(e, resolution) ==
  LET entry == EntryFor(entries, IdOf[e])
  IN  \/ entry.status = "absent"
      \/ /\ entry.status = "resolved"
         /\ entry.resolution # resolution \/ entry.response # NoResponse

\* resolve() of envelope e with a response: executing -> resolved, or the
\* response attached to an entry already resolved that way.
Resolve(e, resolution, response, ok) ==
  LET a == IdOf[e]
      k == EntryKey(entries, a)
      new == Resolved(entries[k], resolution, response)
  IN  /\ ~ResolveMismatch(e)
      /\ up' = up
      /\ IF ResolveIgnored(e, resolution)
         THEN ok /\ UNCHANGED <<entries, journal, torn>>
         ELSE /\ Append(k, ReplayResolved(journal[k], resolution, response), ok)
              /\ entries' = IF ok THEN [entries EXCEPT ![k] = new] ELSE entries

\* recoveryFor: terminal material is handed out for the exact envelope only.
Recoverable(e) ==
  LET entry == EntryFor(entries, IdOf[e])
  IN  entry.status = "resolved" /\ entry.env = e /\ entry.resolution # "none"

-----------------------------------------------------------------------------
\* Mutated forms of RecoverKeys: nothing is resolved, or as failed.
RecoverNothing(map, S) == map

RecoverAsFailed(map, S) ==
  [k \in Keys |-> IF k \in S /\ map[k].status = "executing"
                  THEN Resolved(map[k], "failed", NoResponse)
                  ELSE map[k]]

\* recover(): the entries of keys S found executing become indeterminate.
RecoverKeys(map, S) ==
  [k \in Keys |-> IF k \in S /\ map[k].status = "executing"
                  THEN Resolved(map[k], "indeterminate", NoResponse)
                  ELSE map[k]]

\* The constructor: replay() throws on a torn line, recover() appends an
\* indeterminate resolution for every executing entry, and such a line may be
\* cut short like any other.
Boot ==
  /\ ~up
  /\ ~torn
  /\ up' = TRUE
  /\ entries' = RecoverKeys(journal, Keys)
  /\ journal' = RecoverKeys(journal, Keys)
  /\ torn' \in {FALSE, DiskFaults /\ \E k \in Keys : journal[k].status = "executing"}

\* The constructor does not finish: the process stops, or an append throws,
\* after recover() has resolved the keys S.
BootInterrupted(S) ==
  /\ ~up
  /\ ~torn
  /\ \E k \in Keys \ S : journal[k].status = "executing"
  /\ journal' = RecoverKeys(journal, S)
  /\ torn' \in {torn, torn \/ DiskFaults}
  /\ UNCHANGED <<up, entries>>

\* The process dies.  `appending' is whether a journal line may be half written.
Die(appending) ==
  /\ up
  /\ up' = FALSE
  /\ entries' = [k \in Keys |-> Absent]
  /\ journal' = journal
  /\ torn' \in {torn, torn \/ (appending /\ DiskFaults)}

\* The disk a fresh process finds: no explicit pair yet, and what an older
\* release left under flattened keys.
LedgerInit ==
  /\ up = FALSE
  /\ entries = [k \in Keys |-> Absent]
  /\ torn = FALSE
  /\ journal \in [Keys -> {Absent} \cup {Executing(e) : e \in Envelopes}
                     \cup {Resolved(Executing(e), r, NoResponse) :
                              e \in Envelopes, r \in Resolutions}]
  /\ \A a \in ActionIds : journal[a] = Absent
  /\ \A l \in LegacyIds : journal[l].status # "absent" =>
        Legacy[IdOf[journal[l].env]] = l

LedgerTypeOK ==
  /\ up \in BOOLEAN
  /\ torn \in BOOLEAN
  /\ entries \in [Keys -> Entry]
  /\ journal \in [Keys -> Entry]
=============================================================================
