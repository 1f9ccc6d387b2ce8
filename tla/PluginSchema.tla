----------------------------- MODULE PluginSchema -----------------------------
(***************************************************************************)
(* The Application Plugin boundary (sdk/protocol/src/lib/plugin-loader.ts).*)
(*                                                                         *)
(* A JSON value is the list of its values in document order, the whole one *)
(* first, each <<kind, x>>: for an object x maps names to the positions of *)
(* the members, for an array it is the set of its elements' positions; a   *)
(* "numeral" is a string that parses as a number.                          *)
(*                                                                         *)
(* A schema is the list of its levels in document order.  A level maps     *)
(* keywords to values, and has the positions of its subschemas; {} and     *)
(* true are the level without keywords.                                    *)
(***************************************************************************)
EXTENDS Integers, Sequences, FiniteSets, FiniteSetsExt

CONSTANTS
  MaxDepth,   \* PLUGIN_RESOURCE_LIMITS: depth of a payload
  MaxNodes    \* and number of values of a document

ASSUME LimitsAssumption == MaxDepth \in Nat /\ MaxNodes \in Nat

\* The schema false, considered where it closes a level
Closed == 0

Has(level, keyword) == keyword \in DOMAIN level

Named(level) == IF Has(level, "properties") THEN DOMAIN level.properties ELSE {}

Subschemas(level) ==
  {level.properties[n] : n \in Named(level)}
  \cup (UNION {level[k] : k \in {"allOf", "anyOf", "oneOf"} \cap DOMAIN level})
  \cup {level[k] : k \in {"items", "if", "then", "not"} \cap DOMAIN level}
  \cup ({level[k] : k \in {"additionalProperties"} \cap DOMAIN level} \ {Closed})

IsSchema(s) ==
  /\ s # <<>> /\ s \in Seq({s[i] : i \in DOMAIN s})
  /\ \A i \in DOMAIN s : Subschemas(s[i]) \subseteq i + 1 .. Len(s)

\* The values in an object or an array
Elements(v, j) ==
  IF v[j][1] = "object" THEN {v[j][2][n] : n \in DOMAIN v[j][2]}
  ELSE IF v[j][1] = "array" THEN v[j][2] ELSE {}

-----------------------------------------------------------------------------
\* applicationPluginSchema: the document's form.  What is wrong with it is a
\* member of its defects.
WellFormed(plugin) == plugin.defects = {} /\ plugin.operations # <<>>

\* checkOperationSchemaResources: plugin.sizes holds the number of values of
\* each operation's schema; all of them together are limited.
SchemasFit(plugin) ==
  MapThenSumSet(LAMBDA name : plugin.sizes[name], DOMAIN plugin.sizes) <= MaxNodes

LoadPlugin(plugin) == WellFormed(plugin) /\ SchemasFit(plugin)

\* measureJsonStructure: containment depth and number of values
Depth(v) ==
  LET depth[j \in DOMAIN v] ==
        IF Elements(v, j) = {} THEN 0 ELSE 1 + Max({depth[k] : k \in Elements(v, j)})
  IN  depth[1]

WithinLimits(v) == Depth(v) <= MaxDepth /\ Len(v) <= MaxNodes

\* Mutated form of DeclaresObject: properties alone do not make an object.
DeclaresTypedObject(level) == Has(level, "type") /\ level.type = "object"

\* An object level, for applyFailClosedDefaults; a list of types is none.
DeclaresObject(level) ==
  \/ Has(level, "type") /\ level.type = "object"
  \/ Has(level, "properties")

\* applyFailClosedDefaults: every object level that says nothing about
\* additional properties is closed, wherever a subschema can be.
FailClosed(s) ==
  [i \in DOMAIN s |->
     IF DeclaresObject(s[i]) /\ ~Has(s[i], "additionalProperties")
     THEN [k \in DOMAIN s[i] \cup {"additionalProperties"} |->
             IF k \in DOMAIN s[i] THEN s[i][k] ELSE Closed]
     ELSE s[i]]

JsonType(value) == IF value[1] = "numeral" THEN "string" ELSE value[1]

\* What the JSON Schema validator (Ajv) does with the keywords of one level,
\* when valid are the values that its subschemas accept.
Accepts(level, valid, v, j) ==
  /\ Has(level, "type") => JsonType(v[j]) = level.type
  /\ Has(level, "types") => JsonType(v[j]) \in level.types
  /\ Has(level, "maximum") /\ v[j][1] = "number" => v[j][2] <= level.maximum
  /\ v[j][1] = "object" =>
       /\ Has(level, "required") => level.required \subseteq DOMAIN v[j][2]
       /\ \A n \in DOMAIN v[j][2] :
            IF n \in Named(level) THEN v[j][2][n] \in valid[level.properties[n]]
            ELSE Has(level, "additionalProperties") =>
                   /\ level.additionalProperties # Closed
                   /\ v[j][2][n] \in valid[level.additionalProperties]
  /\ Has(level, "items") /\ v[j][1] = "array" => v[j][2] \subseteq valid[level.items]
  /\ Has(level, "allOf") => \A k \in level.allOf : j \in valid[k]
  /\ Has(level, "anyOf") => \E k \in level.anyOf : j \in valid[k]
  /\ Has(level, "oneOf") => \E k \in level.oneOf : {k} = {m \in level.oneOf : j \in valid[m]}
  /\ Has(level, "not") => j \notin valid[level.not]
  /\ Has(level, "if") /\ Has(level, "then") /\ j \in valid[level.if] => j \in valid[level.then]

\* The values that each level of a schema accepts
Valid(s, v) ==
  LET valid[i \in DOMAIN s] == {j \in DOMAIN v : Accepts(s[i], valid, v, j)} IN valid

Validates(s, v) == 1 \in Valid(s, v)[1]

\* compiledOperationSchema: a compiled schema is kept, which makes no
\* difference to its verdicts.
Compiled(schema) == FailClosed(schema)

\* validatePayloadAgainstPlugin: the limits come before the lookup, so that a
\* payload too large is never passed through.
ValidatePayloadAgainstPlugin(name, arguments, plugin) ==
  IF ~WithinLimits(arguments) THEN "PAYLOAD_RESOURCE_LIMIT"
  ELSE IF name \notin DOMAIN plugin.operations THEN "UNKNOWN_OPERATION"
  ELSE IF Validates(Compiled(plugin.operations[name]), arguments) THEN "ok"
  ELSE "PAYLOAD_SCHEMA_INVALID"

-----------------------------------------------------------------------------
\* The reference: every member is named by the schema of its level, or the
\* schema permits others explicitly.
Permitted(s, v) ==
  LET permitted[i \in DOMAIN s] ==
        {j \in DOMAIN v :
           /\ v[j][1] = "object" =>
                \A n \in DOMAIN v[j][2] :
                  \/ Has(s[i], "additionalProperties") /\ s[i].additionalProperties # Closed
                  \/ n \in Named(s[i]) /\ v[j][2][n] \in permitted[s[i].properties[n]]
           /\ v[j][1] = "array" /\ Has(s[i], "items") =>
                v[j][2] \subseteq permitted[s[i].items]}
  IN  1 \in permitted[1]
==============================================================================
