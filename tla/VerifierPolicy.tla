---------------------------- MODULE VerifierPolicy ----------------------------
(***************************************************************************)
(* The JSON Verifier policy (sdk/protocol/src/lib/policy-engine.ts) and    *)
(* the Authorization Requirements a Verifier derives from what is missing  *)
(* (auth-requirements-builder.ts).                                         *)
(*                                                                         *)
(* A JSON value is <<kind, value>>; "numeral" is a string that parses as a *)
(* number.  fields maps the JSON Pointers of a payload to values.          *)
(*                                                                         *)
(* A requirement is the list of its expressions in document order, the     *)
(* whole one first; an allOf or anyOf has the positions of its members,    *)
(* the first of which is the next position.  A threshold that is given a   *)
(* list of signers (inline) has it in signers, as it is written.           *)
(***************************************************************************)
EXTENDS ApprovalRequirements, Integers, Sequences

Missing == <<"missing", 0>>

\* getJsonPointerValue
ValueAt(fields, path) == IF path \in DOMAIN fields THEN fields[path] ELSE Missing

Compositions == {"allOf", "anyOf"}

\* The documents that are considered: DIDs, integers and nested expressions
IsRequirement(req) ==
  /\ req # <<>> /\ req \in Seq({req[i] : i \in DOMAIN req})
  /\ \A i \in DOMAIN req :
       /\ req[i].type = "threshold" =>
            /\ req[i].threshold \in Int /\ req[i].signers \in Seq(Dids)
            /\ req[i].inline \in BOOLEAN /\ (~req[i].inline => req[i].signers = <<>>)
            /\ req[i].decision \in Decision
       /\ req[i].type \in Compositions =>
            /\ req[i].members \subseteq i + 1 .. Len(req)
            /\ req[i].members # {} => i + 1 \in req[i].members

IsPolicy(policy) ==
  /\ \A g \in DOMAIN policy.groups : policy.groups[g] \subseteq Dids
  /\ IsRequirement(policy.default)
  /\ \A name \in DOMAIN policy.policies :
       \A i \in DOMAIN policy.policies[name] :
         LET entry == policy.policies[name][i] IN
         /\ entry.reject \in BOOLEAN
         /\ entry.requirements # <<>> => IsRequirement(entry.requirements)

\* Whether a requirement holds, when some of its basic expressions do
Holds(req, basic) ==
  LET holds[i \in DOMAIN req] ==
        \/ i \in basic
        \/ req[i].type = "allOf" /\ \A m \in req[i].members : holds[m]
        \/ req[i].type = "anyOf" /\ \E m \in req[i].members : holds[m]
  IN holds[1]

-----------------------------------------------------------------------------
Distinct(list) == \A j, k \in DOMAIN list : j # k => list[j] # list[k]

\* A list with a signer twice is none.
IsDidArray(list) == list # <<>> /\ Distinct(list)

\* Mutated form of ValidThreshold: zero passes as a threshold.
ValidThresholdZero(e, groups) ==
  /\ (e.group # "") # IsDidArray(e.signers)
  /\ e.group # "" => e.group \in DOMAIN groups
  /\ e.decision # "reject"

\* A positive threshold, exactly one of a known group and a list of signers,
\* and no threshold of rejections.  With a group, an empty list or one with a
\* signer twice goes unnoticed.
ValidThreshold(e, groups) ==
  /\ e.threshold >= 1
  /\ (e.group # "") # IsDidArray(e.signers)
  /\ e.group # "" => e.group \in DOMAIN groups
  /\ e.decision # "reject"

\* validateRequirement: every expression is of a known type and well formed,
\* and no composition is empty.
ValidRequirement(req, groups) ==
  \A i \in DOMAIN req :
    \/ req[i].type = "proposerOnly"
    \/ req[i].type = "threshold" /\ ValidThreshold(req[i], groups)
    \/ req[i].type \in Compositions /\ req[i].members # {}

Operators == {"eq", "neq", "in", "notIn", "gt", "gte", "lt", "lte",
              "exists", "notExists", "contains", "prefix"}

\* validatePolicyEntry and validateMatch: reject or requirements, not both.
ValidEntry(entry, groups) ==
  /\ entry.reject # (entry.requirements # <<>>)
  /\ entry.requirements # <<>> => ValidRequirement(entry.requirements, groups)
  /\ \A i \in DOMAIN entry.conditions : entry.conditions[i].op \in Operators

ValidatePolicyConfig(policy) ==
  /\ "all" \in DOMAIN policy.groups
  /\ \A g \in DOMAIN policy.groups : policy.groups[g] # {}
  /\ ValidRequirement(policy.default, policy.groups)
  /\ \A name \in DOMAIN policy.policies :
       \A i \in DOMAIN policy.policies[name] :
         ValidEntry(policy.policies[name][i], policy.groups)

\* checkProposerAuthorization: the proposers group, or else everyone
Proposers(policy) ==
  policy.groups[IF "proposers" \in DOMAIN policy.groups THEN "proposers" ELSE "all"]

ProposerAllowed(proposer, policy) == proposer \in Proposers(policy)

-----------------------------------------------------------------------------
IsNumber(v) == v[1] \in {"number", "numeral"}

Comparison == {"gt", "gte", "lt", "lte"}

\* toNumber: a missing value compares as NaN, any other value that is no
\* number makes the package malformed.
Unparseable(c, v) ==
  /\ c.op \in Comparison
  /\ \/ ~IsNumber(v) /\ v # Missing
     \/ ~IsNumber(c.value)

Compare(op, x, y) ==
  CASE op = "gt" -> x > y [] op = "gte" -> x >= y
    [] op = "lt" -> x < y [] op = "lte" -> x <= y

\* conditionMatches; the value of in and notIn is a set, and a string has the
\* prefixes it lists.
ConditionMatches(c, v) ==
  CASE c.op = "eq" -> v = c.value
    [] c.op = "neq" -> v # c.value
    [] c.op = "in" -> v \in c.value
    [] c.op = "notIn" -> v \notin c.value
    [] c.op \in Comparison ->
         IsNumber(v) /\ IsNumber(c.value) /\ Compare(c.op, v[2], c.value[2])
    [] c.op = "exists" -> v # Missing
    [] c.op = "notExists" -> v = Missing
    [] c.op = "contains" -> v[1] = "array" /\ c.value \in v[2]
    [] c.op = "prefix" -> v[1] = "string" /\ c.value \in v[2]

\* matchesConditions: every stops at the first condition that does not hold,
\* so what comes after it cannot make the package malformed.
MalformedBy(conditions, fields) ==
  \E i \in DOMAIN conditions :
    /\ Unparseable(conditions[i], ValueAt(fields, conditions[i].path))
    /\ \A j \in 1 .. i - 1 : ConditionMatches(conditions[j], ValueAt(fields, conditions[j].path))

Matches(conditions, fields) ==
  \A i \in DOMAIN conditions :
    ConditionMatches(conditions[i], ValueAt(fields, conditions[i].path))

-----------------------------------------------------------------------------
Listed(e) == {e.signers[k] : k \in DOMAIN e.signers}

\* resolveEligibleSigners: the inline list, or else the group
EligibleSigners(e, policy) ==
  IF e.signers # <<>> THEN Listed(e)
  ELSE IF e.group \in DOMAIN policy.groups THEN policy.groups[e.group] ELSE {}

Found(e, votes, policy, proposer) ==
  {s \in EligibleSigners(e, policy) \ {proposer} : <<s, e.decision>> \in votes}

\* Mutated form of EvaluateThreshold: asks anyone for the missing decisions.
EvaluateThresholdAnyone(e, votes, policy, proposer) ==
  IF Cardinality(Found(e, votes, policy, proposer)) >= e.threshold THEN {}
  ELSE {[eligible |-> policy.groups["all"],
         threshold |-> e.threshold, decision |-> e.decision]}

\* evaluateThreshold: the threshold, when it is not met
EvaluateThreshold(e, votes, policy, proposer) ==
  IF Cardinality(Found(e, votes, policy, proposer)) >= e.threshold THEN {}
  ELSE {[eligible |-> EligibleSigners(e, policy),
         threshold |-> e.threshold, decision |-> e.decision]}

Unsatisfiable == [eligible |-> {}, threshold |-> 1, decision |-> "approve"]

\* evaluateRequirement: what is not met, for each expression of a requirement.
\* An anyOf none of whose members is met tells the first as representative;
\* an unknown type is met.
Unmet(req, votes, policy, proposer) ==
  LET unmet[i \in DOMAIN req] ==
        IF req[i].type = "threshold" THEN EvaluateThreshold(req[i], votes, policy, proposer)
        ELSE IF req[i].type = "allOf" THEN UNION {unmet[m] : m \in req[i].members}
        ELSE IF req[i].type # "anyOf" THEN {}
        ELSE IF req[i].members = {} THEN {Unsatisfiable}
        ELSE IF \E m \in req[i].members : unmet[m] = {} THEN {}
        ELSE unmet[i + 1]
  IN unmet

EvaluateRequirement(req, votes, policy, proposer) == Unmet(req, votes, policy, proposer)[1]

\* The entries that match; all of them apply, as an allOf of theirs.  The
\* default requirement applies when none matches.
Entries(name, policy) ==
  IF name \in DOMAIN policy.policies THEN policy.policies[name] ELSE <<>>

Matched(name, fields, policy) ==
  {i \in DOMAIN Entries(name, policy) : Matches(Entries(name, policy)[i].conditions, fields)}

\* A value that a condition cannot be decided on, and an entry that blocks
Malformed(name, fields, policy) ==
  \E i \in DOMAIN Entries(name, policy) :
    MalformedBy(Entries(name, policy)[i].conditions, fields)

Blocked(name, fields, policy) ==
  \E i \in Matched(name, fields, policy) : Entries(name, policy)[i].reject

EffectiveRequirements(name, fields, policy) ==
  IF Matched(name, fields, policy) = {} THEN {policy.default}
  ELSE {Entries(name, policy)[i].requirements : i \in Matched(name, fields, policy)}

MissingThresholds(name, fields, votes, policy, proposer) ==
  UNION {EvaluateRequirement(req, votes, policy, proposer) :
           req \in EffectiveRequirements(name, fields, policy)}

\* evaluatePolicy: conflicting decisions of one signer, then values no
\* condition can be decided on, then a reject entry, then the requirements.
EvaluatePolicy(name, fields, votes, policy, proposer) ==
  LET missing == MissingThresholds(name, fields, votes, policy, proposer) IN
  IF \E v, w \in votes : v[1] = w[1] /\ v[2] # w[2]
  THEN [status |-> "rejected", missing |-> {}]
  ELSE IF Malformed(name, fields, policy) THEN [status |-> "malformed", missing |-> {}]
  ELSE IF Blocked(name, fields, policy) THEN [status |-> "rejected", missing |-> {}]
  ELSE [status |-> IF missing = {} THEN "satisfied" ELSE "additionalApprovalsRequired",
        missing |-> missing]

\* buildAuthorizationRequirements: every missing threshold is an alternative.
BuildAuthorizationRequirements(missing) ==
  [anyOf |-> missing, allOf |-> {}, overrides |-> {}, approvers |-> {},
   rejecters |-> {}, dated |-> TRUE]
==============================================================================
