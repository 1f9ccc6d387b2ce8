---------------------------- MODULE WorkflowStore ----------------------------
(***************************************************************************)
(* The bridge's durable record of one Task                                 *)
(* (sdk/protocol/src/lib/workflow-store.ts and its SQLite twin,            *)
(* cli/src/bridge/sqlite-workflow-store.ts).  Every operation is one       *)
(* synchronous transaction, so it is a function of the record.             *)
(* An Action is its number within the Task: replaceAction moves to the     *)
(* next one, with an idempotency key and an expiry of its own, so the      *)
(* number stands for the Action ID, its package and its key.               *)
(***************************************************************************)
EXTENDS Naturals, FiniteSets

CONSTANTS
  Procs,       \* bridge processes sharing the store; each is a worker ID
  NoProc,      \* no live claim
  Gone,        \* the worker ID of a process that has exited
  MaxActions   \* bound: the Actions a Task goes through

ASSUME StoreAssumption ==
  /\ MaxActions \in Nat \ {0}
  /\ NoProc \notin Procs /\ Gone \notin Procs /\ NoProc # Gone

Actions == 1 .. MaxActions
Phases == {"initial", "completed"}
Active == {"created", "submittingToCoordination", "awaitingApprovals",
           "readyForSubmission", "submittingToVerifier",
           "awaitingVerifierResult"}
Terminal == {"resolved", "unresolvable", "cancelled"}
Absent == {"none", "purged"}

\* The record; bound holds the idempotency bindings of the current key.
Record ==
  [state: Active \cup Terminal \cup Absent, act: Actions, ref: BOOLEAN,
   pkg: 0 .. MaxActions, bound: SUBSET (Phases \X Actions),
   result: {"none", "executed", "rejected", "replay", "error"},
   overdue: BOOLEAN, lease: Procs \cup {NoProc, Gone}]

NoRecord ==
  [state |-> "none", act |-> 1, ref |-> FALSE, pkg |-> 0, bound |-> {},
   result |-> "none", overdue |-> FALSE, lease |-> NoProc]

CreateWorkflow == [NoRecord EXCEPT !.state = "created"]

\* Atomically the next Action; the reference and the completed package of the
\* retired one are dropped.  Callers test the replacement state.
ReplaceAction(r) ==
  [state |-> "submittingToCoordination", act |-> r.act + 1, ref |-> FALSE,
   pkg |-> 0, bound |-> {}, result |-> r.result, overdue |-> FALSE, lease |-> r.lease]

CompareAndSetState(r, from, to) ==
  IF r.state = from THEN [r EXCEPT !.state = to] ELSE r

\* A lapsed lease is NoProc.
\* Mutated form of Claimable: any worker takes a claim over.
ClaimableByAnyone(r, p) == r.state \in Active

Claimable(r, p) == r.state \in Active /\ r.lease \in {p, NoProc}

ClaimWorkflow(r, p) == [r EXCEPT !.lease = p]

\* Mutated form of ResolveWorkflow: a later resolution replaces the first.
ResolveAgain(r, kind, result) ==
  IF r.state \in Absent THEN r
  ELSE [r EXCEPT !.state = kind, !.result = result]

ResolveWorkflow(r, kind, result) ==
  IF r.state \in Active THEN [r EXCEPT !.state = kind, !.result = result]
  ELSE r

CancelWorkflow(r) == ResolveWorkflow(r, "cancelled", "none")

Purgeable(r) == r.state \in Terminal /\ r.overdue

\* Purged and unknown Tasks read as undefined; the Action index goes with them.
Purge(r) == [NoRecord EXCEPT !.state = "purged"]
==============================================================================
