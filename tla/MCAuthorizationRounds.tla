------------------------ MODULE MCAuthorizationRounds ------------------------
(***************************************************************************)
(* Three signers besides the Proposer, and policies of every form: groups  *)
(* and lists, conditions that match, do not match or cannot be decided,    *)
(* alternatives, blocked operations; files that loading has to keep out;   *)
(* plugins with nested schemas, and answers of the trust service that are  *)
(* incomplete or about something else.                                     *)
(***************************************************************************)
EXTENDS AuthorizationRounds, TLC

CONSTANTS p, a, b, o

Th(n, signers) ==
  <<[type |-> "threshold", threshold |-> n, group |-> "", inline |-> TRUE,
     signers |-> signers, decision |-> "approve"]>>
Gr(n, group) ==
  <<[type |-> "threshold", threshold |-> n, group |-> group, inline |-> FALSE,
     signers |-> <<>>, decision |-> "approve"]>>
\* A group and a list, which validation takes if the list is none
GrTh(n, group, signers) ==
  <<[Gr(n, group)[1] EXCEPT !.inline = TRUE, !.signers = signers]>>
Alone == <<[type |-> "proposerOnly"]>>

\* A requirement k places further on, and one made of two
Moved(req, k) ==
  [i \in DOMAIN req |->
     IF req[i].type \in Compositions
     THEN [req[i] EXCEPT !.members = {m + k : m \in @}] ELSE req[i]]
Both(type, req, other) ==
  <<[type |-> type, members |-> {2, 2 + Len(req)}]>>
    \o Moved(req, 1) \o Moved(other, 1 + Len(req))
AnyOf(req, other) == Both("anyOf", req, other)
AllOf(req, other) == Both("allOf", req, other)
NoneOf == <<[type |-> "anyOf", members |-> {}]>>

Need(req) == [reject |-> FALSE, requirements |-> req, conditions |-> <<>>]
When(cond, req) == [Need(req) EXCEPT !.conditions = <<cond>>]
Block(cond) == [reject |-> TRUE, requirements |-> <<>>, conditions |-> <<cond>>]
Cond(op, value) == [path |-> "amount", op |-> op, value |-> value]
Num(n) == <<"number", n>>

Groups == [all |-> {p, a, b, o}, admins |-> {a, b}, proposers |-> {p}]

Policy(groups, default, entries) ==
  [groups |-> groups, default |-> default,
   policies |-> IF entries = <<>> THEN [x \in {} |-> <<>>] ELSE [call |-> entries]]

\* The plugin's schema: an amount or a note, options with one known member and
\* a list of such
Schema ==
  << [type |-> "object", anyOf |-> {7, 8},
      properties |-> [amount |-> 2, note |-> 3, options |-> 4, list |-> 6]],
     [types |-> {"number", "string"}, maximum |-> 9],
     [type |-> "string"],
     [properties |-> [fast |-> 5]],
     [type |-> "string"],
     [type |-> "array", items |-> 9],
     [required |-> {"amount"}],
     [required |-> {"note"}],
     [properties |-> [fast |-> 10]],
     [type |-> "string"] >>

Plugin(contents) ==
  [app |-> "app", contents |-> contents, publisher |-> "acme", legacy |-> FALSE,
   surface |-> {"call"}, operations |-> [call |-> Schema], sizes |-> [call |-> 3],
   defects |-> {}]

Key(did, isJwk, jwk) == [did |-> did, isJwk |-> isJwk, publicJwk |-> jwk]

Config(policy) ==
  [app |-> "app", policy |-> policy, plugin |-> Plugin("v1"), artifact |-> "v1",
   passThrough |-> TRUE, providers |-> <<"file">>, oauth |-> <<>>, defects |-> {},
   signerKeys |-> {Key(s, TRUE, "absent") : s \in {p, a, b, o}}]

OAuth ==
  [session |-> TRUE, scopePolicy |-> "fixed", issuer |-> "https", client |-> "auto",
   clientId |-> FALSE, clientSecret |-> "unset", document |-> "unset",
   sharing |-> {"app"}, safetyWindow |-> 300000, jitterMax |-> 0]

\* Policies with one requirement at a time
Single ==
  {Policy(Groups, Th(2, <<p, a, b>>), <<>>),
   Policy(Groups, Gr(1, "admins"), <<>>),
   Policy(Groups, GrTh(2, "admins", <<o, o>>), <<>>),
   Policy(Groups, Gr(1, "admins"), <<Need(GrTh(1, "admins", <<>>))>>),
   Policy(Groups, AnyOf(Th(2, <<a, b>>), Th(1, <<o>>)), <<>>),
   Policy(Groups, Alone, <<When(Cond("gte", Num(5)), Th(1, <<o>>))>>),
   Policy(Groups, Gr(1, "all"), <<Block(Cond("gt", Num(7))),
                                  When(Cond("lt", Num(3)), Alone)>>),
   Policy([all |-> {p, a, b}, proposers |-> {a}], Alone, <<>>),
   Policy([all |-> {p, a, b}], Gr(2, "all"), <<>>),
   Policy(Groups, Alone, <<When(Cond("eq", Num(9)), Th(1, <<a>>)),
                           When(Cond("exists", 0), Th(1, <<a>>))>>),
   Policy(Groups, AllOf(Th(1, <<a>>), AnyOf(Th(2, <<a, b>>), Th(1, <<o>>))), <<>>),
   Policy(Groups, Alone, <<When(Cond("lte", Num(9)), Th(1, <<a>>)),
                           When(Cond("neq", Num(9)), AnyOf(Th(1, <<b>>), Alone))>>),
   Policy(Groups, Th(1, <<b>>), <<When(Cond("in", {Num(1), Num(2)}), Alone),
                                When(Cond("notExists", 0), Th(1, <<o>>))>>)}

Simple == Config(Policy(Groups, Th(1, <<a>>), <<>>))

Refused ==
  {Config(q) : q \in
    {Policy(Groups, Th(0, <<a>>), <<>>),
     Policy(Groups, Gr(1, "admins"), <<Need(Th(0, <<a>>))>>),
     Policy(Groups, Gr(1, "nobody"), <<>>),
     Policy(Groups, GrTh(1, "admins", <<o>>), <<>>),
     Policy(Groups, GrTh(1, "admins", <<>>), <<>>),
     Policy(Groups, Th(2, <<o, o>>), <<>>),
     Policy(Groups, Gr(1, "proposers"), <<>>),
     Policy([all |-> {p, a}], Gr(2, "all"), <<>>),
     Policy(Groups, AllOf(Th(1, <<a>>), AnyOf(Th(1, <<p>>), Gr(3, "admins"))), <<>>),
     Policy(Groups, <<[type |-> "quorum"]>>, <<>>),
     Policy(Groups, NoneOf, <<>>),
     Policy(Groups, Th(1, <<a>>), <<[Block(Cond("between", Num(1)))
                                   EXCEPT !.requirements = Alone]>>)}}
  \cup {[Simple EXCEPT !.defects = {x}] : x \in {"json", "schema", "policyReference"}}
  \cup {[Simple EXCEPT !.providers = <<"file", "keychain">>],
        [Simple EXCEPT !.signerKeys = {Key(a, TRUE, "other")}],
        [Simple EXCEPT !.signerKeys = {Key(a, FALSE, "absent")}],
        [Simple EXCEPT !.plugin = [Plugin("v1") EXCEPT !.sizes = [call |-> 9]]],
        [Simple EXCEPT !.plugin = [Plugin("v1") EXCEPT !.app = "other"]],
        [Simple EXCEPT !.artifact = "v2"]}
  \cup {[Simple EXCEPT !.oauth = <<auth>>] :
          auth \in {[OAuth EXCEPT !.client = "static"], [OAuth EXCEPT !.sharing = {"other"}],
                 [OAuth EXCEPT !.safetyWindow = 300001]}}

Ungoverned ==
  {[Simple EXCEPT !.passThrough = allow,
      !.plugin = [Plugin("v1") EXCEPT !.operations = [other |-> Schema],
                                      !.legacy = legacy, !.surface = surface]] :
     allow \in BOOLEAN, legacy \in BOOLEAN, surface \in {{}, {"call"}}}

Other(plugin) == [Simple EXCEPT !.app = "other", !.plugin = [plugin EXCEPT !.app = "other"]]

MCDirectories ==
  {<<f>> : f \in {Config(q) : q \in Single} \cup Refused \cup Ungoverned}
  \cup {<<[Simple EXCEPT !.oauth = <<OAuth>>]>>, <<Simple, Simple>>,
        <<Other(Plugin("v1")), Simple>>, <<Other(Plugin("v1"))>>,
        <<[Simple EXCEPT !.plugin = Plugin("v2"), !.artifact = "v2"]>>}

Item(kind, party, approved) ==
  [kind |-> kind, party |-> party, approved |-> approved, valid |-> TRUE]

\* The first version has a claim of its publisher; the second has only what
\* does not count.
MCEvidence ==
  [v1 |-> {Item("claim", "acme", FALSE)},
   v2 |-> {Item("claim", "someone", FALSE), Item("linked", "acme", TRUE),
           Item("assessment", "lab", FALSE)}]

Answer(artifact, items) ==
  [status |-> "ok", artifact |-> artifact, chain |-> "main", complete |-> TRUE,
   items |-> items]

MCResponses ==
  {Answer(v, MCEvidence[v]) : v \in {"v1", "v2"}}
  \cup {[Answer("v2", {}) EXCEPT !.complete = FALSE],
        [Answer("v2", {Item("claim", "acme", FALSE)}) EXCEPT !.chain = "test"],
        [Answer("v2", {[Item("claim", "acme", FALSE) EXCEPT !.valid = FALSE]})
           EXCEPT !.status = "ok"],
        [Answer("v1", {}) EXCEPT !.status = "unreachable"]}

Text == <<"string", {}>>
Object(members) == <<"object", members>>

MCArguments ==
  {<<Object([amount |-> 2]), v>> :
     v \in {Num(1), Num(9), Num(10), <<"numeral", 6>>, Text}}
  \cup {<<Object([note |-> 2]), Text>>,
        <<Object([amount |-> 2, unknown |-> 3]), Num(1), Num(1)>>,
        <<Object([amount |-> 2, list |-> 3]), Num(1), <<"array", {4}>>,
          Object([fast |-> 5]), Text>>,
        <<Object([amount |-> 2, options |-> 3]), Num(1), Object([slow |-> 4]), Text>>,
        <<Object([amount |-> 2, list |-> 3]), Num(1), <<"array", {4}>>,
          Object([slow |-> 5]), Text>>,
        <<Object([options |-> 2]), Object([fast |-> 3]), Object([fast |-> 4]),
          <<"array", {5}>>, Num(1)>>}

\* A schema that bounds the amount of a call with a note
Conditional ==
  <<Schema[1] @@ [if |-> 11, then |-> 13]>> \o Tail(Schema)
  \o << [properties |-> [note |-> 12], required |-> {"note"}],
        [type |-> "string"],
        [properties |-> [amount |-> 14], additionalProperties |-> 15],
        [maximum |-> 5],
        [k \in {} |-> 0] >>

MCConditional ==
  {<<[Simple EXCEPT !.policy = Policy(Groups, Alone, <<>>),
       !.plugin = [Plugin("v1") EXCEPT !.operations = [call |-> Conditional]]]>>}

MCConditionalArguments == {<<Object([amount |-> 2, note |-> 3]), Num(9), Text>>}
==============================================================================
