# MPAS: TLA+ models and proofs

MPAS (multi-party authorisation of actions) lets an agent *propose* an action on
an application, people or services *approve* it, and a *Verifier* execute it. The
Verifier built in this repository is the **Credential Adapter**: it alone holds the
application's credentials, checks an Action Package against policy, and sends the
action to an MCP server at most once.

This directory holds TLA+ modules that model the protocol core of the repository,
TLC configurations that check them on small instances, and TLAPS proofs for all
instances. `PROJECT.json` maps every definition to the source lines it models.

## The system

| Part | Source | State | Operations |
|---|---|---|---|
| dispatch ledger | `cli/src/adapter/dispatch-ledger.ts` | map of entries (`executing`, `resolved` + response), append-only journal file | check, authorizeDispatch, resolve, recoveryFor, replay and recover at start |
| Credential Adapter | `cli/src/adapter/adapter-api-server.ts`, `daemon.ts` | in-flight dispatches, target sessions | action handler (HTTP), processAction (relay worker), join of a duplicate |
| MCP dispatch | `cli/src/adapter/dispatch/` | target session | prepare, transmit, close |
| Verifier relay worker | `cli/src/adapter/verifier-relay-worker.ts` | cursor and response cache on disk, socket, timers | poll, process, deliver, reconnect, stop |
| Coordination Service | `cli/src/coordination/store.ts`, `coordination-api-server.ts` | workflows by Action ID and by hash, decisions, idempotency cache | create, approve, poll, cancel, lazy expiry |
| Action Relay mailbox | same files | relayed actions, delivery log with sequence numbers, audit | submit and wait, poll by cursor, deliver response |
| notification hub | `cli/src/coordination/notifications.ts` | tickets, sockets | issue, upgrade, notify |
| approval requirements | `sdk/protocol/src/lib/approval-requirements.ts` | none (pure) | satisfied / pending / unreachable |
| policy engine | `sdk/protocol/src/lib/policy-engine.ts`, `auth-requirements-builder.ts` | none (pure) | requirement trees, thresholds, what is still missing |
| workflow engine and stores | `sdk/protocol/src/lib/workflow-engine.ts`, `workflow-store.ts`, `cli/src/bridge/sqlite-workflow-store.ts` | workflow rows with state, claim lease, result | propose, replace, coordinate, submit, cancel, settle |
| bridge runtime | `sdk/protocol/src/lib/bridge-runtime.ts` | tasks, observers | tool call, task get/cancel, shutdown |
| HTTP signatures | `sdk/protocol/src/lib/rfc9421.ts` | nonce claims | sign, verify, claim |
| verification, policy, configuration, plugin boundary | `sdk/protocol/src/lib/verification.ts`, `policy-engine.ts`, `plugin-loader.ts`, `cli/src/adapter/config-loader.ts`, `trust*.ts` | loaded configurations | load, verify, evaluate, close and apply schemas |
| OAuth operator | `cli/src/adapter/oauth-operator.ts` | session file, shared refresh, copies in memory | prepare for dispatch, refresh, login, status, logout |
| installer | `cli/src/cli/installer/` | the home's files, lock, marker, staged and kept copies | init, config, key rotate, mcp add, signer; commit, roll back, recover |
| CLI, bridge generator | rest of `cli/src/cli`, `bridge-generator/src` | files | command parsing, text generation |

How they interact: a bridge's workflow engine submits an Action Request (A1) to the
Verifier, directly or through the relay mailbox. When policy wants approvals the
Verifier answers with requirements; the engine builds a replacement Action (A2)
and creates a coordination workflow for it; signers poll, decide and submit;
the proposer polls the completed package and submits it to the Verifier, whose
ledger gate decides whether it may be sent.

What makes it hard: everything runs in event loops, so state read before an
`await` may be stale after it (verification, session preparation, nonce claims);
the adapter and the relay worker can crash between any two durable writes;
submissions are retried, duplicated and joined; waits are bounded and race late
answers; journal writes can fail half way. `PROJECT.json` lists these hazards at
their lines.

What makes each part correct:

* ledger and adapter: an Action ID is sent at most once, whatever crashes; what was
  sent or answered is in the journal, as long as that can be read; one receipt per
  action; an outcome is told only to a caller that presented the same request; every
  submission returns;
* coordination: decisions are final; a package is complete exactly when the
  requirements are met, and is not handed out once its envelope expired; cancelled and
  completed exclude each other; a retried mutation happens once;
* relay: no delivery is lost or overtaken by the cursor; an action gets one response,
  the same bytes however often it is submitted;
* workflow engine: one terminal result, at most one of a task's Actions executed,
  cancellation reaches coordination unless it was written on a stale reading, every
  task ends;
* policy and requirements: agree with a reference definition, and with each other;
* signed requests: a message is admitted once, a call takes effect once;
* OAuth session: a rotated refresh token is not presented again by anybody whose copy
  of the session is the stored one;
* installer: an update of several files is all or nothing.

## Modules of the adapter

* `DispatchLedger` - the ledger class. The journal file is represented by the flag
  `torn` (some line is cut short, so `replay()` throws on the file) and by `journal`,
  the value `replay()` computes from the lines otherwise (`replay` is a left fold, so
  appending a line is one replay step). `Append` has the outcomes of a failing disk: it
  throws with or without the line, and may leave a short line even when it returns,
  because `writeSync`'s result is ignored. Once the file is torn it gives nothing: no
  start succeeds, nothing depends on `journal`, and it only says what a whole file
  would hold. So properties about what can be recovered exclude that case (`WriteAhead`,
  `DeliveredIsDurable`); see the observations. `Boot` is the constructor (replay, then
  recover); `BootInterrupted` stops it between two recovery lines.
* `CredentialAdapter` - the action handler and `processAction`. One action is the
  code between two awaits; `pc[s]` says at which await submission `s` is:

  | pc | code |
  |---|---|
  | `verifying` | after the ledger check, in verification and policy |
  | `preparing` | credential and target session (`prepare`) |
  | `closing` | the gate refused; the session is closed |
  | `releasing`, `joined` | `joinDispatch`: own session released, waiting for the dispatch |
  | `dispatching`, `awaitingReply` | `transmit` before and after the request left |
  | `signing` | the receipt is signed, then `ledger.resolve` |
  | `recovering` | `processAction` signs the receipt of an indeterminate entry |

  `flight` is the `inFlight` map together with the promises it held. `signed`,
  `sent`, `delivered` are history. `Crash` and `Restart` may come between any two
  steps. Which verdict verification gives is nondeterministic: every stateless
  refusal is one answer, `refused`.
* `AtMostOnceDispatch` - the abstract Verifier lifecycle of the Core specification
  (unknown, executing, then exactly one of executed, failed, indeterminate).
  `CredentialAdapter!ImplementsLifecycle` is the refinement; its mapping reads the
  condition of an Action ID off the journal.
* `MCCredentialAdapter` - constants for TLC.
* `CredentialAdapterProofs` - theorems.

### Runs of the adapter

| Run | Instance | Shows |
|---|---|---|
| `adapter_race` | 1 Action ID, 1 envelope in 2 requests, 2 HTTP submissions and the worker, sound disk, fairness | one receipt, outcomes only to the same request, `notInProcess` only after a failure, every submission returns, restart resolves what was executing |
| `adapter_faults` | 1 Action ID in 2 envelopes, 1 client and the worker, disk faults, an old journal's flattened key | at most one transmission, the inductive invariant, what was answered is what a restart recovers unless a line was cut short, sessions are released unless the journal refused the executing line, refinement |

Bounds: `MaxReceipts` limits how often a receipt is signed for one Action ID; two
are needed for a second, different receipt to exist. Three submissions are the
least for a dispatcher, a racing duplicate and a joiner. Two requests with one
envelope (`adapter_race`) and two envelopes of one Action ID (`adapter_faults`) give
the duplicate cases: same request, other request, other envelope. Two Action IDs
that share a flattened key are covered by the proofs only.

Fairness: `WF` on a submission's next step (the event loop runs what is ready;
target calls and joins are bounded by timers, so awaits end), on the recovery
step, and on `Boot` (a supervisor restarts the process). None is assumed of
clients, crashes, expiry or disk faults.

## Modules of the Coordination Service

* `ApprovalRequirements` - `evaluateApprovalRequirements` as operators. The lists of
  thresholds are sets, since the code asks only for *some* or *every* member; the
  override list is a set of signers with the subsets that may approve and reject.
* `ApprovalCollection` - decisions arrive one signer at a time against fixed
  requirements; `Met` is the reference definition (sets of signers, no counting),
  `Futures` all ways the others may still decide.
* `CoordinationStore` - workflows by envelope (`wf`, the hash map) and by Action ID
  (`byId`), with validation and effect of create, approve, cancel and poll.
  A workflow's approvals are a function from signers to decisions, because a
  signer's second submission is refused or adds nothing. `expired` is the clock.
* `CoordinationService` - the three mutating handlers and `poll`. A request goes
  `received` (authenticated), `claiming` (the nonce claim is awaited; not when
  authentication is off), `queued` (its microtask is pending) or `waiting` (it shares
  the pending result of the same key). The store validates in `Validate` and again in
  `Commit`. `packages` and `commits` are history: what polls handed out, and how often
  a key committed.
* `MCApprovalCollection`, `MCCoordination` - constants for TLC.
* `ApprovalProofs`, `CoordinationProofs` - theorems (`ApprovalProofs` has those on
  authorization, too).

Abstractions: equality of requests stands for equality of idempotency fingerprints;
malformed, unsigned or misbound requests are one answer, `refused`; the nonce claim
may always refuse; dated requirements expire with their envelope, as the requirements
builder writes them; wording, progress counts and the requested decision are left out.
The store lives in memory, so a restart of the service is a new behaviour.

### Runs of the Coordination Service

| Run | Instance | Shows |
|---|---|---|
| `requirements` | 3,696 expressions over 3 signers, all orders of decisions | the verdict agrees with the reference definition; giving up is final |
| `coordination_race` | 2 envelopes of one Action ID, 7 requests, 2 concurrent, 1 shared key, authenticated | the inductive invariant (one workflow per Action ID, packages of a workflow agree, a key commits once), first decisions final, no decision on and no package of an expired envelope, cancelled and completed exclude each other, accepted means counted |
| `coordination_open` | 1 envelope, 8 requests, 2 concurrent, no authentication, fairness | states match decisions whoever writes; every request is answered; a completed workflow is collected or expires |

Bounds: a key commits at most once (part of `CoordInv`), so the state space is finite.
Two concurrent requests are the least for every race of two awaits; each client slot is
reused, so sequences of any length occur. One key used for different mutations and
without one gives every case of the cache. Three signers allow 2-of-2, an outsider and
an override beside a path.

Fairness: `WF` on each request's next step (microtasks run, claims return) and on each
participant's poll (clients poll on a timer). None on new requests, expiry or eviction.

## Modules of the relay

* `ActionRelay` - the mailbox in the Coordination Service's store (relayed actions,
  the log of deliveries to the Verifier, the first response settles) and the
  notification hub (a ticket, an upgrade that consumes it, `bind` with its check for
  outstanding work, `notify`). A proposer's bounded wait is no state of its own: what
  matters is whether the Action's promise is settled.
* `VerifierRelayWorker` - extends it by the worker. `conn` is the await of the
  connection loop, `drain.at` the await of the drain in progress:

  | drain.at | code |
  |---|---|
  | `polling` | `pollDeliveries` |
  | `deciding`, `processing` | `processDelivery` looks into the cache, awaits `processAction` |
  | `saving` | the response is in the cache, the state file is written |
  | `submitting`, `confirming` | `submitActionResponse`, then the state file again |
  | `advancing` | the cursor moved, delivered responses dropped, the file written |

  `mem` is the state object, `disk` the file. A crash keeps only `disk`. Each
  evaluation may sign new bytes (`Versions`), so a response that was submitted without
  having been saved can be contradicted after a crash.

Run `relay`: two Actions, two response versions, two faults (failed calls, lost frames,
dropped sockets, crashes), fairness. `RelayInv`: the cursor never passes a delivery that
is neither answered nor expired. `ExactResubmission`: one body per Action.
`RelayedIsAnswered`: lost wake-ups are made up for by the check at `bind` and by the
timer; a worker that became fatal is excepted, because the code stops there on purpose.
One poll waiting in the chain (`MaxQueue`) is enough for a wake-up during a drain. A
page is a set of deliveries and `Ready` what a poll of the mailbox returns for a cursor,
so that one page stands for all batches of it. Fairness: the drain, the connection loop,
the timer, and a fatal worker exiting; none on crashes, frames or the clock. `SaveFaults
= FALSE`: see the observations.

## Modules of the proposer bridge

* `WorkflowStore` - one Task's record and the store's operations as functions of it;
  each is one synchronous transaction in the code. An Action is its number in the Task.
* `ProposerBridge` - the engine of several processes on one store. `op[p].at` is what
  the Task's outbound lane awaits in process `p` (`initial`, `completed`, `creating`,
  or a replacement being built); requests travel in `net` and may be lost, late or
  answered after nobody waits. The Verifier (a ledger and a fixed policy verdict) and the
  Coordination Service are external: what this code may observe of them.
  `GetTaskResult` and `CompatibilityResult` are what a client reads from the record.
  Where one turn runs several store transactions and the other process may come
  between, each is an action: `section[p]` says where `p` stands. Cancelling is
  `CancelReads` (the reference and the Action, `workflow-engine.ts:437`), `CancelWrites`
  (446) and `Tell` (the last look and `cancelAction`); the return of `createWorkflow` is
  `CreateSaves` (639), `CreateLooks` (640) and `CreateConfirms` (650). The other turns
  are one step each, because they have one conditional write that decides, and what they
  read before it can only make it fail: the returns and failures of submissions
  (compare-and-set or resolve, where the first wins), a replacement (from the state it
  is for), expiry (under the claim), and a submission, which is bound to its key under
  the claim. The updates that both processes poll say the
  same of an Action, so the package that each would save is the same. What is left out is
  a turn during which the other process starts and ends a remote call, or the lease lapses.
* `TaskOutcome` - the abstract Task: an Action is executed at most once and no other one
  of the Task is; a client is told one outcome; `executed` is told of a finished
  execution, `replay` of one that was admitted, and after `rejected` none ever is.
  `ProposerBridge!ImplementsTask` is the refinement: `work` is the state of each Action in
  the Verifier's ledger and `outcome` what the record tells (`Told`). A Task that was
  cancelled or has become unresolvable may still be executed, since the request may be on
  its way.

Run `workflow`: two processes, up to three Actions, two faults (failed calls, crashes,
shutdowns), fairness; 775,756 states. `WorkflowInv`: no two
processes await a call for one Task, and a resumed Task submits what its key is bound
to. `CancelReachesCoordination`: a cancelled Task whose Action Coordination is known to
have is withdrawn there, also when the cancellation overtook the creation. It excuses
two ways out, which the code leaves and `untold` records: the other process saved the
reference and looked, or went on to the next Action, between the two transactions of
`cancel` (see the observations), or the process that had to tell died.
`OutcomeIsFinal`: readers never see a terminal outcome change. `EveryTaskEnds`: leases
lapse, envelopes expire and an observation then ends the Task. `ImplementsTask`: no second
Action of the Task is executed, since a replacement needs the Verifier's answer that the
first was not, and no outcome is told that is not true of what the Verifier did and will
do. For the latter the Verifier's policy stays as it is while the Task lasts: a request
that it rejected is not permitted when a late copy of it arrives.

A lease outlives the call it was renewed for, since the engine requires it to exceed the
submission timeout, and may lapse at any other time, also after its process is gone.
Fairness: a process that can go on does (`WF` of `Proceeds(p)`: calls return or time out,
a turn that began ends, clients observe, a stopped process is started again), and time
passes. Which of these a process does first is open. A Task may be replaced twice; the
update of a replaced Action (see the observations) needs the second replacement.

`SlowSigning` says whether a lease may lapse while a replacement is signed: the engine
renews none there. In `workflow` it may not (`FALSE`), which `ImplementsTask` needs (see the
observations); the other theorems cover both.

## Modules of authorization

* `PackageVerification` - `verifyActionPackage` with its checks in their order. An
  Approval is its top-level fields, the payload its signature covers and the key that
  made it; what is wrong with a document's form is a member of `defects`. What the
  handler refuses while it parses (`ParseActionPackage`, a bad request) and what
  `verifyActionPackage` finds later are kept apart.
* `VerifierPolicy` - validation and evaluation of a policy and
  `buildAuthorizationRequirements`. A requirement is the list of its expressions in
  document order; an `allOf` or `anyOf` names its members by their positions, which come
  after its own. So a tree of any depth is a function, and what `evaluateRequirement`
  computes by recursion is a recursive function over positions (`Unmet`). A list of signers
  is a sequence, which may name one twice: such a list is no list of DIDs (`IsDidArray`),
  validation of a default counts its entries and evaluation its signers.
* `PluginSchema` - loading a plugin, structural limits, `applyFailClosedDefaults`, and
  `Valid`, an external definition of JSON Schema: the keywords `type` (one or several),
  `properties`, `additionalProperties`, `required`, `maximum`, `items`, `allOf`, `anyOf`,
  `oneOf`, `not`, `if`/`then`. JSON values and schemas are lists of their parts in
  document order, like requirements. `Permitted` is the reference for what a published
  schema lets through.
* `DeploymentConfig` - the adapter's start: files are loaded one after another, each
  plugin is looked up at the trust service, the operator is asked.
* `AuthorizationRounds` - the composition: a started Verifier, a call, its package,
  requirements, a replacement, signers who decide while time passes, and the completed
  package. `Sign` is the signer server's tool, `Decide` the handler's checks.
  Coordination refuses a threshold whose list names a signer twice or is too short
  (`coordination/store.ts:813`); here it takes any, which only adds behaviours.

Run `policy`: three signers besides the proposer, 48 directories (policies of every
requirement type, with compositions inside compositions; lists that name a signer twice;
every class of file that loading
has to refuse; ungoverned operations), eleven argument sets (objects in objects and in
lists), defective packages, answers of the trust service that are incomplete, about another
artifact or another chain.

* `RoundsInv`, the inductive invariant: what was loaded passed every check and can be used
  by each proposer it admits, if its default asks for approvals and lists no signer twice
  (`LoadedIsUsable`, see the observations); Coordination counts what was signed
  (`DecisionsAreSigned`); an Action is replaced only where nothing but decisions is missing
  (`ReplacedForDecisions`).
* `AuthorizedBySigners`: over bundles put together from signed payloads, altered top-level
  fields and foreign keys, what the Verifier executes was granted by a reference definition
  on the signers' own decisions about this Action.
* `ProposerAloneIsNotEnough`, for policies that validation accepted.
* `ReadyIsEnough`: coordination's view of the requirements agrees with policy's, where the
  Verifier asked for one threshold of approvals (`OneAsked`).
* `WarnedUnlessEvidence`.
* `ArgumentsAsPublished`: what is executed is valid for the schema as published and has no
  member, at any depth, that it does not name or permit.

Two rounds and a clock that outlives the envelope give every expiry case.

Run `policy_conditional` (violation): see Findings.

## Signed requests

`SignedRequests` - client attempts (each with a fresh nonce and the same idempotency
key), a network that delays, drops and repeats every message, verification, preflight,
nonce claim, `runIdempotent` and the bounded wait. The clock counts half seconds,
because signatures carry whole seconds and claims milliseconds. Run `signed`: two calls,
one signed with another's key, messages of other implementations with each flaw, two
concurrent handlers, lifetime and skew of a second, a client clock that is a second
ahead. `ReplayRefused`: up to the instant its signature expires a nonce is claimed once.
`RequestAppliedOnce`: two mutations of one participant under one key are at least the
cache entry's life apart. Five ticks outlive the lifetime, the skew and the entry. An
operation may be answered with success, with a rejection or, when it throws anything
else, with a server error, which the client retries; nothing is cached then. Requests
without an idempotency key are left out. The constants are numbers (`TimeAssumption`)
and no nonce is drawn twice (`NonceAssumption`: `rfc9421.ts:128` takes random bytes).

## OAuth session

`OAuthSession` - the session file, the copies that calls, the shared refresh and the
operator's commands hold, and a server that may rotate the refresh token at each use
and lose its answer. All of them overlap as they may in the code: nothing locks the file.
`raced` records the first step whose outcome is decided by that: somebody writes the
file, or sends its refresh token, from a copy that is no longer what the file holds
(`Races`), or a call refused with 401 refreshes a session that it read while another
refresh of it was unresolved (`Unauthorized`). The properties are about everything before
such a step, and `oauth` stops there (`UntilRaced`): no lock keeps what is stored afterwards
from being outdated (see the observations).

Run `oauth`: two calls, the refresh they share and a login, or one call and two commands;
two tokens, a crash or failed write. `SessionInv`: a session the next dispatch would
refresh holds a token the server has not rotated away, and scopes stay within the
configuration (the latter also after a race, as the theorem says). `RefreshTokenNotReused`. `EveryCallAnswered`
under fair scheduling of what has started.

## Installer

`InstallerHome` - lock, recovery, the commands as the changes they plan, and
`commitChanges` file operation by file operation. Run `installer`: up to five commands
of one process at a time, two crashes or failed operations, two keys. `HomeIsWhole`:
without a marker the key, account and configs belong to the same update, and every
signer that a group of a draft lists has a key in it and is in `all`. Signers are added
to any group, `all` included; a template's placeholder may then be missing from `all`
while another group still has it (see the observations). `UndoIsPossible`: while an
update is not committed, putting the kept copies back gives a home that is whole.
`InstallerAssumption`: `NoFile` is neither a document nor a marker.

## Proofs

`CredentialAdapterProofs` proves for every number of Action IDs, legacy keys,
envelopes, requests and clients, with or without disk faults, from the named
assumptions `LedgerConstants` and `AdapterConstants` only:

* `LedgerInvariant`: `Spec => []LedgerInv`. `AtMostOnce` is not inductive: that a
  dispatching submission has not been sent for before follows only from what its
  ledger entry and the journal say. `LedgerInv` adds, in named parts: a process
  that is down has no submissions (`ActiveInv`); entries are well formed and filed
  under their own key (`WellFormed`); the journal is never behind the entries, and
  ahead only by an append that threw (`JournalInv`); a flattened key and an
  explicit pair are never both used (`LegacyInv`); a dispatcher owns its executing
  entry and is alone (`DispatchInv`); a transmission leaves a trace (`SentInv`);
  what was handed out is in the entry and among the lines that were appended
  (`DeliveredInv`); recovery signs only for an entry without a response (`RecoveryInv`); a fulfilled promise holds a response
  that was handed out (`FlightInv`). One lemma per action or group of actions
  shows that the step keeps each part it can disturb.
* From it: `TypeCorrect`, `AtMostOnceDispatched`, `SingleReceipt`, and, for a file that
  can be read (`~torn`), `WriteAheadHolds` and `ResponsesDurable`.
* `AdapterImplementsLifecycle`: every step changes the condition of at most one
  Action ID by a legal abstract step, or stutters; recovery, which may resolve
  several keys at once, maps to the abstract recovery step.

`ApprovalProofs`, on approval expressions, for any finite set of signers and any
requirements:

* `UnreachableStays`: a lemma on cardinalities shows that the signers who match plus those
  undecided never grow, hence each threshold, each path and the whole verdict stay
  unreachable.
* `VerdictsAreExact`: the verdict agrees with the reference definition. A pending verdict is
  witnessed by the future in which everybody undecided approves (`AllApprove`), an
  unreachable one stays so (`VerdictFinal`).

and on authorization, for any directories, policies, requirement trees, schemas, arguments,
trust answers, signers and bounds, from `DirectoriesAssumption` (files are of the
documents' form: positions of members come later), `ResponsesAssumption` (a complete and
valid answer of the expected chain is true), `RoundsAssumption`, `LimitsAssumption` and
`DidsFinite`:

* `RoundsInvariant`: `Spec => []RoundsInv`. None of the properties below is inductive: each
  is about what the Verifier would answer to some package in the state at hand, and follows
  in one step from `RoundsInv`, which is therefore kept to what the state remembers.
  `LoadedIsUsable` needs that `isRequirementSatisfiableForProposer` and
  `evaluateRequirement`, two recursions over one tree, agree.
* From it: `OnlyGrantedActions`; `OnlyGrantedBundles`, the same for every set of Approvals
  that can be made from signed payloads, which a run has to bound; `ExecutionIsGranted`, an
  action property: an Action that becomes executed is granted at that step, or passed
  through; `ProposerNeedsOthers`; `EvidenceOrWarning`.
* `CompletedIsExecuted`: `Spec => []ReadyIsEnough` if `Validity <= MaxValidity`, that is if
  the proposer's envelopes live no longer than the Verifier's limit. A completed package
  whose remaining life is longer is refused, whatever it was approved by.
* `PublishedArguments`: `Spec => []ArgumentsAsPublished` if the schemas are plain
  (`PlainPlugins`): no `if`, `not` or `oneOf`, and the document, every named member and
  every element of a list has properties, a type or `additionalProperties`. The closed
  schema then accepts less than the published one at every level (`ClosedAcceptsLess`), and
  what it accepts has only permitted members (`ClosedPermits`). Both conditions are needed:
  below `if`, `not` and `oneOf` a stricter subschema accepts more of the whole
  (`policy_conditional`), and a level that says nothing of its form is not closed. The
  schema of `policy` is plain; `anyOf` and `allOf` are allowed.

The trees are handled without induction over data. Positions of members are larger than
their parents', so what a recursive function says at each position is first shown to be
well defined from the positions after it (well-founded recursion on the positions), and a
statement about all positions is proved from the greatest one at which it would fail, a
fact about finite sets of numbers.

`CoordinationProofs` proves for any envelopes, requirements, requests, keys and number
of concurrent requests, with or without authentication, from `DidsFinite`,
`StoreConstants` and `ServiceConstants`:

* `CoordinationInvariant`: `Spec => []CoordInv`. `OnePackage` and `AcceptedIsCounted`
  are not inductive; the invariant adds that both maps hold the same workflows
  (`MapsInv`), that a package is the frozen content of its workflow (`PackageInv`), that
  whoever is queued or waiting with a key stands behind that key's pending entry and
  only one is queued (`QueueInv`), and that cached and given answers are backed by the
  store (`CacheInv`, `AnswerInv`). The store's operations are treated first, each as a
  lemma that it keeps the store's part and evolves workflows legally (`Evolves`); the
  service's actions then need only those lemmas.
* From it: `ServiceTypeCorrect`, `StatesJustified`, `PackagesAgree`,
  `CancelExcludesCompletion`, `WorkflowsUnique`, `AcceptedApprovalsCount`,
  `KeysCommitOnce`, `FirstDecisionsFinal`.

`CredentialAdapterProofs` also has `OutcomesToPresenters`, `NotInProcessIsFailure` and
`SessionsAreReleased`. They follow from `JoinInv`: a promise belongs to the request that
took its entry (`FlightEntryInv`), a joiner waits for a promise of its own request, and
only a submission between `prepare` and its end holds a session.

`VerifierRelayProofs`, for any envelopes, response versions, faults and lengths of the
log and the queue:

* `CursorIsSafe`: `Spec => []RelayInv`; the invariant is the one that `relay` checks.
  `PageInv` carries it: everything between the cursor and the page's last delivery is
  still to be done, handled or expired.
* `SameResponseAgain`: `Spec => []ExactResubmission` if `SaveFaults = FALSE` (the
  observation below shows why). What was submitted is in the saved cache until its
  delivery is behind the cursor (`SavedFirst`, `Retains`).

`ProposerBridgeProofs`, for any processes and bounds:

* `CallsExcludeEachOther` (`WorkflowInv`) and `CancellationsArePassedOn`: who awaits a
  call holds the lease (`LeaseInv`), what a key is bound to is the package of a call that
  was made or will be (`BindingInv`), an Action known to coordination is withdrawn
  with its Task (`WithdrawnInv`), and who is between two transactions of a creation still
  holds the lane (`SectionInv`). `BridgeInv` joins them. The second theorem needs no
  assumption; what it excuses is in the property, in `untold`.
* `FirstOutcomeWins`: an action property, from the record's type alone.
* `TaskExecutesOnce`: `Spec => []ExecutedOnce` if `SlowSigning = FALSE`. `OnceInv` and
  `AnswerInv` say that a request that can still reach the Verifier is for the current
  Action or for one whose answer is settled, and that the answers on their way are the
  Verifier's.
* `BridgeImplementsTask`: `Spec => ImplementsTask` if `SlowSigning = FALSE`. `OutcomeInv`
  says that an answer in a lane and an outcome in the record are true of the Verifier's
  ledger and verdicts (`Backed`), and that the Verifier has been asked about an Action
  only after it sent back all those before. Three lemmas say what a step can do: to the
  record (`RecordChanges`), to the ledger and the answers when it is not the Verifier's
  (`SteadyStep`), and when it is (`EvaluateSays`). Each way maps to one abstract step: a
  resolution is `End` with an answer that is backed (`TaskKept`), a decision that executes
  is `Execute`, because only the first Action that was not sent back can be
  (`TaskDecided`), and the rest are `Create`, `Complete`, `Purge` and stutters.

`SignedRequestsProofs`: `ReplaysAreRefused` and `KeyRunsOnce`, from `TimeAssumption` and
`NonceAssumption`. A nonce that was claimed in time is remembered as long as its
signature verifies (`NonceInv`, `ClaimInv`), so one claim wins; an entry of the cache
outlives every operation that is under its key.

`OAuthSessionProofs`: `StoredSessionIsReliable` and `RotatedTokenIsNotSent` for any
deployments, calls, commands, requests, servers, tokens and faults, from `OAuthAssumption`
only. Holders have what their place in the code says (`CopyInv`), tokens on their way are
nobody else's (`NewInv`), and what a failed login restores is as good as when it was read
(`OpInv`). Until a race, the disk holds the marker from the moment a refresh is to send
its token (`Clear`), and one holder at a time has sent a session's token and awaits what
comes of it (`RefreshInv`).

`InstallerHomeProofs`: `UpdatesAreAllOrNothing` and `UpdatesCanBeUndone` for any keys,
roles, URLs, sources, signers and numbers of commands and faults, as long as one command
runs at a time (`Sequential`) and from `InstallerAssumption`. `InstallerInv` says for each
stage of `commitChanges` what is staged, kept and renamed (`Prepares`, `Renames`,
`Undoes`): the home before, the home after the planned changes (`Target`) and the home
that a roll-back gives (`Undone`) are whole, renaming changes neither of the last two, and
a roll-back leaves `Undone` the same at each file. That the changes of every command make
a whole home is a lemma for each command; `Makes` composes their lists of changes.

## Checked by TLC only

* Liveness (`EverySubmissionReturns`, `RestartResolves`, `EveryRequestAnswered`,
  `ReadyIsCollected`, `RelayedIsAnswered`, `EveryTaskEnds`, `EveryCallAnswered`): out of
  the prover's reach, as is `ENABLED`.
* Every safety invariant and action property of the runs is stated by a theorem.
  Outside the assumptions of their theorems, `ImplementsTask`, `ExactResubmission`,
  `ReadyIsEnough`, `ArgumentsAsPublished` and the installer's invariants do not hold, and
  neither do `DeliveredIsDurable`, `CancelReachesCoordination`, `LoadedIsUsable` and the
  OAuth properties without the exception each states; the observations and the finding
  say what happens there.

## Findings

* `policy_conditional`: `applyFailClosedDefaults` closes the schema also below `if` and
  `not`, where a stricter subschema weakens the whole. An `if` that names only `note` no
  longer matches a payload with `note` and `amount`, so the bound its `then` puts on
  `amount` is not applied: the closed schema accepts, and the adapter dispatches, a
  payload that the published `executionPayloadSchema` rejects
  (`specs/mpas-profile-mcp.md:157`).

## Observations

Met while modelling, and stated here instead of as runs:

* When signing the receipt or the resolved append throws after the executing write, the
  entry stays `executing` with nothing in flight until a restart
  (`adapter-api-server.ts:505`); the Core specification (1363) has any failure after the
  write resolve the entry.
* `append` ignores how much `writeSync` wrote (`dispatch-ledger.ts:83`): after a short
  write it returns, the response is handed out, and no restart can recover it, although
  the ledger is to persist a response before it is returned. `DeliveredIsDurable` excludes
  a torn file.
* One short or torn journal line makes the ledger's constructor throw at every start
  (`dispatch-ledger.ts:103`), so an executing action is not resolved (Core, 1373).
* A retried cancellation is validated against the cancelled workflow before the
  idempotency cache is asked and gets 404 (`coordination-api-server.ts:383`; HTTP
  profile, 160).
* A proposer among the eligible signers counts as undecided for ever
  (`approval-requirements.ts:82`; HTTP profile, 1602).
* With override signers only, the empty paths count as satisfied, so a reject of an
  approve-only override signer makes the workflow ready (`approval-requirements.ts:46`).
* When the relay worker's save fails, the response stays in the memory cache and a drain
  that is already queued submits it unsaved (`verifier-relay-worker.ts:334`); a crash
  then may lead to other bytes. `relay` therefore takes saves to succeed.
* `applyUpdate` (`workflow-engine.ts:672`) finds a Task by any Action ID it ever had and
  applies the update to its current Action; Coordination's poll answers with every Action
  of the proposer (`coordination/store.ts:363`). After A2 was sent back for more Approvals
  and replaced by A3, the ready update of A2 has A2's package submitted again, which the
  bridge "MUST NOT" (`specs/mpas-profile-mcp-proposer-bridge-client.md:339`), and the Task
  then ends as ACTION_REPLACEMENT_FAILED. One process and no failure are enough.
* `cancel` reads the record in one store transaction and cancels in another
  (`workflow-engine.ts:437`, 446). If the other process saves the reference and looks at
  the record in between (639, 640), neither tells Coordination: the Task is cancelled, has a
  reference, and its workflow stays open there until it expires. If the other process
  replaced the Action in between, the withdrawal is of the retired one. The same is left
  when a process dies between cancelling, or saving the reference of a cancelled Task, and
  telling; nothing tries again.
* `replaceAction` compares only the state from which an Action is replaced
  (`workflow-store.ts:224`). With three processes and five Actions, a process whose lease
  lapsed while its replacement was signed can replace a later Action than the one it was
  made for; with updates about replaced Actions, the tool call can then be executed twice
  (`workflow-engine.ts:828`).
  `ImplementsTask` therefore takes `SlowSigning = FALSE`.
* An `allOf` policy whose parts are missing is handed to coordination as `anyOf`
  (`auth-requirements-builder.ts:46`; Core, 954): a ready package may be sent back for
  more approvals. `ReadyIsEnough` says nothing of a call for which the Verifier asks for
  several thresholds.
* `validateDefaultRequirement` (`config-loader.ts:591`) does not look at the decision a
  threshold counts: a default that asks for `propose` or `abstain` decisions is accepted,
  though no signer's tool makes them. `LoadedIsUsable` takes thresholds of approvals.
* A list of signers that names one twice is no list of DIDs for `isDidArray`
  (`policy-engine.ts:309`). A threshold that has a group and such a list passes validation
  as one with a group (269); the list then wins over the group (548), the configuration
  loader counts its entries (`config-loader.ts:627`) and evaluation its signers
  (`policy-engine.ts:497`). So a default of two approvals from `[x, x]` is loaded although
  nobody can meet it. `LoadedIsUsable` takes lists that name no signer twice.
* A type list with `object` in it does not make a level an object for
  `applyFailClosedDefaults` (`plugin-loader.ts:436`): without `properties` it stays open,
  and so does a level that has only `patternProperties`, `allOf` or nothing.
* A nonce claim is pruned once the clock passes the expiry, while verification accepts
  the whole second in which it falls (`rfc9421.ts:99`; HTTP profile, 216).
* The OAuth session file has no lock, neither between calls nor between the adapter and
  the operator's process: a login or logout during a refresh is overwritten by it
  (`oauth-operator.ts:630`), an interrupted login leaves its attempt in place of the stored
  grant (526), and calls that overlap a target's refusal each refresh for themselves and
  may present the same refresh token (713).
* A dispatch reads the session again after its preparation (`oauth-operator.ts:985`) and
  does not look at `refreshState` there, so that a call refused with 401 may send a token
  whose refresh by somebody else is unresolved.
* `mpas signer add --maintainer <did> --group all` takes the placeholders out of `all` even
  while other groups list them (`installer/signer.ts:101`; only their keys stay);
  `docs/features/install-script/spec.md:533` removes one from `all` once no group lists it.
  `Covered` therefore says of signers, not of placeholders, that `all` has them.
* Two commands that both find a stale lock can each remove the other's new one
  (`installer/lock.ts:53`); `installer` runs one process.

## Plan

1. Done: `DispatchLedger`, `CredentialAdapter`, `AtMostOnceDispatch` and proofs.
2. Done: `ApprovalRequirements`, `ApprovalCollection`, `CoordinationStore`,
   `CoordinationService` and proofs.
3. Done: `ActionRelay`, `VerifierRelayWorker`, `SignedRequests`, `WorkflowStore`,
   `ProposerBridge`, the authorization modules, `OAuthSession`, `InstallerHome`.
4. Done: proofs of every safety invariant and action property that a run checks.
5. Done: the refinement of the workflow engine to an abstract Task (`TaskOutcome`).
6. Later: wake-ups to signers after a commit in `CoordinationService`; several
   installer processes; what becomes of an OAuth session after a race.

## Not modelled

Cryptography, canonical JSON and hashing (verdicts and equality stand for them), HTTP
encoding and field-by-field parsing, the MCP session, SQL of the SQLite store (taken to
agree with the in-memory one), OAuth discovery, PKCE and the loopback listener, file
formats, logging, audit and traces, the health and admin routes, the rest of the CLI
(parsing, templates, doctor, services), the signer tools' rendering, and the bridge
generator (text assembly without protocol state).
