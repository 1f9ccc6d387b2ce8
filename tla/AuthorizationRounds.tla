------------------------- MODULE AuthorizationRounds -------------------------
(***************************************************************************)
(* The way to an authorized Action.  The Verifier starts with the          *)
(* configurations it loads; it verifies a package and evaluates its policy *)
(* (cli/src/adapter/adapter-api-server.ts); what is missing becomes        *)
(* requirements for a replacement Action, signers decide on it while time  *)
(* passes, and when Coordination has what it was asked for the completed   *)
(* package goes to the Verifier again.                                     *)
(***************************************************************************)
EXTENDS DeploymentConfig

CONSTANTS
  Proposer,
  Application,   \* the application the call is for
  Operation,     \* the operation's name
  Arguments,     \* its arguments: JSON objects
  Validity,      \* lifetime of an envelope
  MaxValidity,   \* the Verifier's maxEnvelopeValidityMs
  MaxRounds,     \* bound: Actions of one call
  MaxTime        \* bound: the clock

ASSUME RoundsAssumption ==
  /\ Proposer \in Dids
  /\ Validity \in Nat \ {0} /\ MaxValidity \in Nat
  /\ MaxRounds \in Nat \ {0} /\ MaxTime \in Nat \ {0}

VARIABLES
  args,     \* the arguments the call was made with
  round,    \* the current Action
  window,   \* when its envelope was created
  R, d,     \* Coordination: the requirements and the decisions for it
  pool,     \* every payload anyone has signed
  phase,
  now

callVars == <<args, round, window, R, d, pool, phase, now>>
vars == <<startVars, callVars>>

NoRequirements == BuildAuthorizationRequirements({})

\* configsByApplicationDid.get
Known == \E c \in loaded : c.app = Application
cfg == CHOOSE c \in loaded : c.app = Application

Init ==
  /\ StartInit
  /\ args \in Arguments
  /\ round = 1 /\ window = 1 /\ now = 1
  /\ R = NoRequirements
  /\ d = [NoDecisions EXCEPT ![Proposer] = "propose"]
  /\ pool = {Signed(Proposer, 1, "propose", 1, NoExpiry)}
  /\ phase = "submit"

Ends == {"executed", "rejected", "malformed", "badRequest", "expired",
         "notSupported", "closed"}

TypeOK ==
  /\ queue \in Seq(Files) /\ loaded \subseteq Files
  /\ R.anyOf \subseteq Threshold /\ R.allOf = {}
  /\ \A t \in R.anyOf : t.threshold >= 1
  /\ d \in Decisions
  /\ round \in 1 .. MaxRounds /\ now \in 1 .. MaxTime /\ window \in 1 .. now
  /\ phase \in {"submit", "collecting"} \cup Ends
  /\ \A s \in pool : s.signer \in Dids /\ s.act \in 1 .. round /\ s.decision \in Decision

\* The package of the current Action with some Approvals; assembled by
\* Coordination it has every one it was given.
Package(approvals, bundleAct, defects) ==
  [act |-> round, bundleAct |-> bundleAct, proposer |-> Proposer,
   created |-> window, expires |-> window + Validity,
   approvals |-> approvals, defects |-> defects]

Collected ==
  {Approval(s, s.act, s.decision, s.signer) : s \in {q \in pool : q.act = round}}

-----------------------------------------------------------------------------
\* validatePayloadAgainstPlugin, and who governs the operation: the plugin, or
\* else a policy entry of the operator.
PayloadCode == ValidatePayloadAgainstPlugin(Operation, args, cfg.plugin)

\* The arguments as the policy's conditions read them
Fields ==
  [n \in DOMAIN args[1][2] |->
     LET v == args[args[1][2][n]]
     IN  IF v[1] = "array" THEN <<"array", {args[k] : k \in v[2]}>> ELSE v]

Governed ==
  PayloadCode # "UNKNOWN_OPERATION" \/ Operation \in DOMAIN cfg.policy.policies

Votes(pkg) == {<<ap.payload.signer, ap.decision>> : ap \in pkg.approvals}

\* upstreamBindingMatches: the bridge was built for the plugin's tool surface
UpstreamBindingMatches(pkg) == "binding" \notin pkg.defects

\* validateMcpPayloadStructure: a name and arguments, and nothing else
PayloadStructure(pkg) == "toolsCall" \notin pkg.defects

\* The action handler's checks before it looks at the policy, in order, each
\* with the result it answers; the ledger's part is in CredentialAdapter.
FormChecks(pkg) ==
  << <<ParseActionPackage(pkg), "badRequest">>,
     <<ValidEnvelope(pkg, now), "malformed">>,
     <<Known /\ "application" \notin pkg.defects, "rejected">> >>

HandlerChecks(pkg) ==
  LET code == VerifyActionPackage(pkg, now, {k.did : k \in cfg.signerKeys}, MaxValidity)
  IN  << <<UpstreamBindingMatches(pkg), "rejected">>,
         <<~Expired(pkg, now), "expired">>,
         <<"profile" \notin pkg.defects, "notSupported">>,
         <<~ExceedsMaxValidity(pkg, now, MaxValidity), "rejected">>,
         <<code # "MALFORMED_APPROVAL_BUNDLE", "malformed">>,
         <<code # "EXPIRED_ACTION_ENVELOPE", "expired">>,
         <<code = "verified", "rejected">>,
         <<PayloadStructure(pkg), "malformed">>,
         <<ProposerAllowed(Proposer, cfg.policy), "rejected">>,
         <<PayloadCode \in {"ok", "UNKNOWN_OPERATION"}, "rejected">>,
         <<~Governed /\ ~cfg.plugin.legacy => Operation \in cfg.plugin.surface, "rejected">>,
         <<~Governed => cfg.passThrough, "rejected">> >>

\* The Verifier's decision on a package: the checks, then the policy for a
\* governed operation.
Decide(pkg) ==
  LET form == FirstFailure(FormChecks(pkg))
      early == FirstFailure(HandlerChecks(pkg))
      verdict == EvaluatePolicy(Operation, Fields, Votes(pkg), cfg.policy, Proposer)
  IN  IF form # "verified" THEN [result |-> form, missing |-> {}]
      ELSE IF early # "verified" THEN [result |-> early, missing |-> {}]
      ELSE IF ~Governed THEN [result |-> "executed", missing |-> {}]
      ELSE [result |-> IF verdict.status = "satisfied" THEN "executed"
                       ELSE verdict.status,
            missing |-> verdict.missing]

\* buildCoordinationReplacement: the same call as a new Action, with the
\* Verifier's approval conditions and the Proposer's signature.
Replace(missing) ==
  /\ round' = round + 1 /\ window' = now
  /\ R' = BuildAuthorizationRequirements(missing)
  /\ d' = [NoDecisions EXCEPT ![Proposer] = "propose"]
  /\ pool' = pool \cup {Signed(Proposer, round + 1, "propose", now, NoExpiry)}
  /\ phase' = "collecting"

\* The package reaches the Verifier, possibly with a document that a client
\* built wrongly.
Submit(defects) ==
  /\ startup = "up" /\ phase = "submit"
  /\ LET answer == Decide(Package(Collected, round, defects)) IN
     IF answer.result = "additionalApprovalsRequired"
     THEN round < MaxRounds /\ Replace(answer.missing)
     ELSE phase' = answer.result /\ UNCHANGED <<round, window, R, d, pool>>
  /\ UNCHANGED <<startVars, args, now>>

\* buildApproval, and an Approval of another builder that sets an expiry
BuildApproval(s, dec, until) == Signed(s, round, dec, now, until)

\* A signer's mpas_approve or mpas_reject: the pending request is polled for
\* again and signed.  Coordination counts the decision and closes the workflow
\* when it has what was asked for, or when it can no longer get it.
Sign(s, dec, until) ==
  /\ phase = "collecting" /\ now < window + Validity
  /\ s # Proposer /\ d[s] = Undecided
  /\ \E t \in R.anyOf : s \in t.eligible
  /\ d' = [d EXCEPT ![s] = dec]
  /\ pool' = pool \cup {BuildApproval(s, dec, until)}
  /\ LET status == Evaluate(R, d') IN
     phase' = IF status = "satisfied" THEN "submit"
              ELSE IF status = "unreachable" THEN "closed" ELSE phase
  /\ UNCHANGED <<startVars, args, round, window, R, now>>

Tick ==
  /\ startup = "up" /\ now < MaxTime /\ now' = now + 1
  /\ UNCHANGED <<startVars, args, round, window, R, d, pool, phase>>

Start ==
  /\ \/ \E r \in Responses, confirmed \in BOOLEAN : LoadFile(r, confirmed)
     \/ Started
  /\ UNCHANGED callVars

\* An Approval may end before its envelope does.
Until == {NoExpiry} \cup (now + 1 .. window + Validity - 1)

Next ==
  \/ Start
  \/ \E defects \in {{}} \cup {{x} : x \in Defects} : Submit(defects)
  \/ \E s \in Dids, dec \in {"approve", "reject"}, until \in Until : Sign(s, dec, until)
  \/ Tick

Spec == Init /\ [][Next]_vars

-----------------------------------------------------------------------------
(* Properties.                                                             *)

\* What Coordination counts for the current Action is what its signers signed,
\* the Proposer first.
DecisionsAreSigned ==
  /\ Signed(Proposer, round, "propose", window, NoExpiry) \in pool
  /\ \A q \in pool : q.act = round => d[q.signer] = q.decision
  /\ \A s \in Dids : d[s] # Undecided => \E q \in pool : q.act = round /\ q.signer = s

\* What the Verifier asks for when nobody but the Proposer has signed
AskedAtFirst ==
  EvaluatePolicy(Operation, Fields, {<<Proposer, "propose">>}, cfg.policy, Proposer).missing

OneAsked == \E t \in AskedAtFirst : AskedAtFirst = {t}

\* An Action is replaced only for a call that nothing but missing decisions
\* keeps from being executed, and it goes back to the Verifier with what was
\* asked for.
ReplacedForDecisions ==
  round > 1 =>
    /\ startup = "up" /\ Known /\ Governed
    /\ ProposerAllowed(Proposer, cfg.policy)
    /\ PayloadCode \in {"ok", "UNKNOWN_OPERATION"}
    /\ ~Malformed(Operation, Fields, cfg.policy) /\ ~Blocked(Operation, Fields, cfg.policy)
    /\ R.anyOf # {} /\ R = BuildAuthorizationRequirements(R.anyOf)
    /\ OneAsked => R.anyOf = AskedAtFirst
    /\ phase = "submit" => Evaluate(R, d) = "satisfied"

\* The types; what a start has loaded passed every check and can be used; what
\* is known of the decisions and of a replaced Action.
RoundsInv ==
  /\ TypeOK
  /\ LoadedIsChecked /\ LoadedIsUsable
  /\ DecisionsAreSigned /\ ReplacedForDecisions

\* The reference: whether the signers' own decisions grant the requirement.
GrantedThresholds(req, votes) ==
  {i \in DOMAIN req :
     /\ req[i].type = "threshold"
     /\ \E S \in kSubset(req[i].threshold,
                        EligibleSigners(req[i], cfg.policy) \ {Proposer}) :
          \A s \in S : <<s, req[i].decision>> \in votes}

Granted(req, votes) == Holds(req, ProposerSuffices(req) \cup GrantedThresholds(req, votes))

\* What was really signed for the current Action and still holds.
Holding ==
  {<<s.signer, s.decision>> :
     s \in {q \in pool : q.act = round /\ (q.expires = NoExpiry \/ now < q.expires)}}

\* A bundle with what others decided and still holds, and one more Approval:
\* of this Action or of a retired one, with top-level fields or a key that
\* differ from the signed.
Others(s) ==
  {ap \in Collected : /\ ApprovalTimely(ap, Package(Collected, round, {}), now)
                      /\ ap.payload.signer \in (Dids \ {s.signer}) \cup {Proposer}}

Assembled ==
  {Others(s) \cup {Approval(s, round, dec, k)} :
     s \in pool, dec \in {"propose", "approve"}, k \in {q.signer : q \in pool}}

\* Whatever a bundle is put together from, the Verifier authorizes a governed
\* Action only when its signers' own decisions on that Action, not those on a
\* retired one, grant every requirement that matches (verifyApprovalBundle,
\* evaluatePolicy).
AuthorizedBySigners ==
  Known /\ Governed =>
    \A approvals \in Assembled :
      Decide(Package(approvals, round, {})).result = "executed"
      => \A req \in EffectiveRequirements(Operation, Fields, cfg.policy) : Granted(req, Holding)

\* A policy that passed validation never lets a governed operation through on
\* the Proposer's decisions alone if a requirement that applies is of
\* thresholds only, not by a zero threshold, an unknown requirement or an empty
\* composition.
NeedsOthers(req) == ProposerSuffices(req) = {}

ProposerAloneIsNotEnough ==
  /\ Known /\ Governed
  /\ \E req \in EffectiveRequirements(Operation, Fields, cfg.policy) : NeedsOthers(req)
  => \A dec \in SUBSET Decision :
       EvaluatePolicy(Operation, Fields, {<<Proposer, x>> : x \in dec},
                      cfg.policy, Proposer).status # "satisfied"

\* "If any path is satisfied, the Action may be authorized": when one threshold
\* of approvals is all that the Verifier asks for, Coordination has collected it
\* and the Approvals still hold, the Verifier executes the completed package
\* (buildAuthorizationRequirements against evaluatePolicy).
ReadyIsEnough ==
  /\ phase = "submit" /\ round > 1
  /\ OneAsked /\ \A t \in AskedAtFirst : t.decision = "approve"
  /\ now < window + Validity
  /\ VerifyApprovalBundle(Package(Collected, round, {}), now,
                          {k.did : k \in cfg.signerKeys})
  => Decide(Package(Collected, round, {})).result = "executed"

\* "If the schema does not explicitly permit additional properties at a given
\* object level, unknown members at that level MUST cause rejection": what is
\* executed for an operation of the plugin is valid for the schema as it was
\* published and has no member it does not know (applyFailClosedDefaults).
ArgumentsAsPublished ==
  phase = "executed" /\ Operation \in DOMAIN cfg.plugin.operations
    => LET schema == cfg.plugin.operations[Operation] IN
       Validates(schema, args) /\ Permitted(schema, args)
==============================================================================
