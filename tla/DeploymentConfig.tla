--------------------------- MODULE DeploymentConfig ---------------------------
(***************************************************************************)
(* The adapter's start: the deployment configurations of a directory are   *)
(* loaded one after another (cli/src/adapter/config-loader.ts); the trust  *)
(* service is asked about each plugin (artifact-trust-client.ts, trust.ts, *)
(* trust-attestation.ts) and the operator decides (trust-prompt.ts).  The  *)
(* first file that fails ends the start.                                   *)
(*                                                                         *)
(* What is wrong with the form of a file is a member of its defects.       *)
(***************************************************************************)
EXTENDS VerifierPolicy, PackageVerification, PluginSchema

CONSTANTS
  Directories,   \* sequences of configuration files, sorted by name
  Responses,     \* answers of the trust service
  Evidence,      \* what OMATrust has verified about an artifact
  Chain          \* the chain the trust endpoint has to answer for

Files == UNION {{q[i] : i \in DOMAIN q} : q \in Directories}

ASSUME DirectoriesAssumption ==
  /\ Directories \subseteq Seq(Files)
  /\ \A c \in Files :
       /\ IsPolicy(c.policy)
       /\ \A name \in DOMAIN c.plugin.operations : IsSchema(c.plugin.operations[name])

\* What the trust service says in a complete answer about an artifact, for the
\* right chain and with every item valid, is so.
ASSUME ResponsesAssumption ==
  \A r \in Responses :
    /\ r.status = "ok" /\ r.complete /\ r.chain = Chain
    /\ \A item \in r.items : item.valid
    => r.items \subseteq Evidence[r.artifact]

VARIABLES
  queue,     \* files still to load
  loaded,    \* configurations by which Actions are routed
  told,      \* what the operator was told about a loaded plugin
  startup    \* "loading", "up", or why the start failed

startVars == <<queue, loaded, told, startup>>

StartInit ==
  /\ queue \in Directories
  /\ loaded = {} /\ told = {} /\ startup = "loading"

-----------------------------------------------------------------------------
\* Mutated form of OthersEligible: the proposer is counted with the others.
EveryoneEligible(e, policy, proposer) == Cardinality(EligibleSigners(e, policy))

\* The number of signers that can still decide, for one threshold: of a list,
\* even an empty one, as many as it has entries for others
OthersEligible(e, policy, proposer) ==
  IF e.inline THEN Cardinality({k \in DOMAIN e.signers : e.signers[k] # proposer})
  ELSE Cardinality(EligibleSigners(e, policy) \ {proposer})

\* isRequirementSatisfiableForProposer
SatisfiableThresholds(req, policy, proposer) ==
  {i \in DOMAIN req :
     /\ req[i].type = "threshold" /\ req[i].threshold >= 1
     /\ OthersEligible(req[i], policy, proposer) >= req[i].threshold}

ProposerSuffices(req) == {i \in DOMAIN req : req[i].type = "proposerOnly"}

Satisfiable(req, policy, proposer) ==
  Holds(req, ProposerSuffices(req) \cup SatisfiableThresholds(req, policy, proposer))

ValidateDefaultRequirement(policy) ==
  \A did \in Proposers(policy) : Satisfiable(policy.default, policy, did)

\* A did:jwk is its own key; any other DID needs one.
SignerKeyValid(k) ==
  IF k.isJwk THEN k.publicJwk \in {"absent", "same"} ELSE k.publicJwk = "valid"

\* validateManagedOAuthConfiguration, for a target with managed OAuth
ManagedOAuthValid(c) ==
  LET auth == c.oauth[1] IN
  /\ c.providers = <<"file">>
  /\ auth.session /\ auth.scopePolicy \in {"unset", "fixed"}
  /\ auth.issuer \in {"unset", "https"}
  /\ auth.client \in {"auto", "static", "cimd", "dynamic"}
  /\ auth.client = "static" => auth.clientId
  /\ auth.clientSecret \in {"unset", "reference"}
  /\ auth.client = "cimd" => auth.document = "https"
  /\ auth.document \in {"unset", "https"}
  /\ auth.sharing # {} => c.app \in auth.sharing
  /\ auth.safetyWindow \in 0 .. 300000 /\ auth.jitterMax \in 0 .. 60000

-----------------------------------------------------------------------------
\* deploymentConfigSchema: the form of a file
SchemaValid(c) == "schema" \notin c.defects

\* loadDeploymentConfigFile up to the trust lookup: the checks, in order
FileChecks(c) ==
  << <<"json" \notin c.defects, "CONFIG_INVALID_JSON">>,
     <<SchemaValid(c), "CONFIG_SCHEMA_INVALID">>,
     <<\A i \in DOMAIN c.providers : c.providers[i] = "file",
       "CREDENTIAL_PROVIDER_UNSUPPORTED">>,
     <<c.oauth # <<>> => ManagedOAuthValid(c), "CONFIG_SCHEMA_INVALID">>,
     <<ValidatePolicyConfig(c.policy), "CONFIG_SCHEMA_INVALID">>,
     <<ValidatePolicyConfig(c.policy) => ValidateDefaultRequirement(c.policy),
       "DEFAULT_REQUIREMENT_UNSATISFIABLE">>,
     <<\A k \in c.signerKeys : SignerKeyValid(k), "CONFIG_SCHEMA_INVALID">>,
     <<LoadPlugin(c.plugin), "PLUGIN_LOAD_FAILED">>,
     <<c.plugin.app = c.app, "PLUGIN_REFERENCE_MISMATCH">>,
     <<"policyReference" \notin c.defects, "POLICY_REFERENCE_MISMATCH">>,
     <<c.plugin.contents = c.artifact, "PLUGIN_HASH_MISMATCH">> >>

\* parseArtifactTrustResponse: nothing but verified evidence, and all of it
ParseResponse(r) ==
  /\ r.complete
  /\ \A item \in r.items : item.valid

\* Mutated form of FetchArtifactTrust: whose evidence it is is not looked at.
FetchAnyTrust(artifact, r) == r.status = "ok" /\ ParseResponse(r)

\* fetchArtifactTrust: evidence about this artifact, from the expected chain
FetchArtifactTrust(artifact, r) ==
  /\ r.status = "ok" /\ ParseResponse(r)
  /\ r.artifact = artifact /\ r.chain = Chain

\* checkAttestation: a claim counts when it names the declared publisher, an
\* assessment when its issuer is approved; linked identifiers never count.
PrimaryEvidence(items, publisher) ==
  \E item \in items :
    \/ item.kind = "claim" /\ item.party = publisher
    \/ item.kind = "assessment" /\ item.approved

\* buildTrustReport: a lookup that fails leaves no report.
TrustReport(c, r) ==
  IF ~FetchArtifactTrust(c.artifact, r) THEN "unavailable"
  ELSE IF PrimaryEvidence(r.items, c.plugin.publisher) THEN "primary" ELSE "none"

\* promptPluginUse: the operator is warned when there is no primary evidence
\* and when nothing could be checked.
PromptPluginUse(report) == IF report = "primary" THEN "evidence" ELSE "warning"

Failed(code) ==
  /\ startup' = code
  /\ UNCHANGED <<queue, loaded, told>>

\* loadDeploymentConfigs: one file, with the answer of the trust service and
\* of the operator (without a terminal the answer is no).
LoadFile(r, confirmed) ==
  /\ startup = "loading" /\ queue # <<>>
  /\ LET c == Head(queue)
         code == FirstFailure(FileChecks(c))
     IN  IF code # "verified" THEN Failed(code)
         ELSE IF ~confirmed THEN Failed("PLUGIN_TRUST_REJECTED")
         ELSE IF \E other \in loaded : other.app = c.app
         THEN Failed("DUPLICATE_APPLICATION_DID")
         ELSE /\ loaded' = loaded \cup {c}
              /\ told' = told \cup {<<c.plugin, PromptPluginUse(TrustReport(c, r))>>}
              /\ queue' = Tail(queue)
              /\ UNCHANGED startup

Started ==
  /\ startup = "loading" /\ queue = <<>>
  /\ startup' = "up"
  /\ UNCHANGED <<queue, loaded, told>>

-----------------------------------------------------------------------------
\* Whatever is loaded passed every check of its file.
LoadedIsChecked == \A c \in loaded : FirstFailure(FileChecks(c)) = "verified"

\* Whatever is loaded serves its application alone, and can be used by every
\* proposer it admits: if all the other signers approve, the default
\* requirement is met, where it asks for approvals and lists no signer twice
\* (validateDefaultRequirement against evaluateRequirement: the former looks
\* neither at the decisions nor for a signer that it counts twice).
AsksForApprovals(req) ==
  \A i \in DOMAIN req :
    req[i].type = "threshold" => req[i].decision = "approve" /\ Distinct(req[i].signers)

LoadedIsUsable ==
  \A c \in loaded :
    /\ \A other \in loaded : other.app = c.app => other = c
    /\ AsksForApprovals(c.policy.default) =>
         \A did \in Proposers(c.policy) :
           EvaluateRequirement(c.policy.default,
             {<<s, "approve">> : s \in Dids \ {did}}, c.policy, did) = {}

\* The operator is spared the warning about a plugin only if there is evidence
\* for the very contents that were loaded: a claim of their publisher or an
\* approved assessment (checkAttestation after computeArtifactDid).
WarnedUnlessEvidence ==
  \A report \in told :
    report[2] = "evidence"
      => PrimaryEvidence(Evidence[report[1].contents], report[1].publisher)
==============================================================================
