----------------------------- MODULE OAuthSession -----------------------------
(***************************************************************************)
(* The stored OAuth session of a Credential Adapter                        *)
(* (cli/src/adapter/oauth-operator.ts): one file that the daemon's calls,  *)
(* the refresh they share, and the operator's login, status and logout     *)
(* commands read into memory and write back whole.                         *)
(*                                                                         *)
(* An access token is its number, a refresh token the number of the access *)
(* token it came with; 0 is none.  The authorization server is external:   *)
(* it may rotate a refresh token at every use and lose its answer.         *)
(***************************************************************************)
EXTENDS Naturals, FiniteSets

CONSTANTS
  Calls,         \* dispatches of the daemon
  Tx,            \* the shared refresh transaction
  Deployments,   \* calls, commands (bound), expects: client, scopes, owner, shared
  Requests,      \* operator requests: client, scopes, owner, shared, by
  Servers,       \* what a login may discover: cimd, register, resource, server, challenge
  Offline,       \* the refresh scope
  MaxTokens,     \* bound: access tokens the server issues
  MaxFaults      \* bound: crashes and failed writes

ASSUME OAuthAssumption ==
  /\ Tx \notin Calls /\ MaxTokens \in Nat /\ MaxFaults \in Nat

VARIABLES
  dep,      \* the deployment: who calls, what it configures
  disk,     \* the session file
  pc,       \* where each call is in prepareOAuthForDispatch and its dispatch
  tx,       \* refreshTransactions for the file
  copy,     \* the session each holder read into memory
  step,     \* where each holder's refresh is: not started, marking, sent, answered
  op,       \* the operator's command
  age,      \* of each access token
  issued, spent,   \* server: tokens issued, refresh tokens rotated away
  reused,   \* history: a rotated refresh token was sent
  raced,    \* history: see Races and Unauthorized
  faults, commands

server == <<age, issued, spent, reused>>
vars == <<dep, disk, pc, tx, copy, step, op, server, raced, faults, commands>>

Holders == Calls \cup {Tx}
Tokens == 0 .. MaxTokens

Idle == [kind |-> "none", tok |-> 0]
NoCommand == [at |-> "none"]
NoSession == [none |-> TRUE]   \* no file
Unset == "unset"

-----------------------------------------------------------------------------
\* resolveRequestedOAuthScopes: the configured scopes, or else those of the
\* challenge, or else the resource's; the ones granted before that are still
\* permitted (reauthorizationScopes); and the refresh scope if advertised.
Supported(req, srv) ==
  req.scopes # <<>> => req.scopes[1] \subseteq srv.resource \cup srv.server

Baseline(req, srv) ==
  IF req.scopes # <<>> THEN req.scopes[1]
  ELSE IF srv.challenge # {} THEN srv.challenge ELSE srv.resource

\* Mutated form of Before: a configured set does not limit what was granted before.
BeforeUnfiltered(req, prev) ==
  IF prev = NoSession \/ prev.tok = 0 THEN {} ELSE prev.scopes

Before(req, prev) ==
  IF prev = NoSession \/ prev.tok = 0 THEN {}
  ELSE IF req.scopes # <<>> THEN prev.scopes \cap req.scopes[1] ELSE prev.scopes

RequestedScopes(req, srv, prev) ==
  Baseline(req, srv) \cup Before(req, prev) \cup ({Offline} \cap srv.server)

\* selectClientMode: explicit modes do not fall back.
ClientMode(client, srv) ==
  IF client = "static" THEN "static"
  ELSE IF client \in {"cimd", "auto", Unset} /\ srv.cimd THEN "cimd"
  ELSE IF client \in {"dynamic", "auto", Unset} /\ srv.register THEN "dynamic"
  ELSE "none"

\* normalizeSharingPolicy and assertOperatorAccess
Owner(req) == IF req.owner = Unset THEN req.by ELSE req.owner
Shared(req) == IF req.shared = {} THEN {Owner(req)} ELSE req.shared

MayLogin(req) == req.by = Owner(req) /\ Owner(req) \in Shared(req)

MayOperate(req, s) == req.by = s.bound.owner \/ req.by \in s.bound.shared

\* sessionMatchesExpectation: the binding a session was authorized under is the
\* one that is configured, in every member that is configured.
Bound(s, want) ==
  /\ want.client # Unset => s.bound.client = want.client
  /\ want.scopes # <<>> => s.bound.scopes = want.scopes
  /\ want.owner # Unset => s.bound.owner = want.owner
  /\ want.shared # {} => s.bound.shared = want.shared

\* What a login's session is bound to
Binding(req) ==
  [client |-> IF req.client = Unset THEN "auto" ELSE req.client, scopes |-> req.scopes,
   owner |-> Owner(req), shared |-> Shared(req)]

Bindings == {Binding(req) : req \in Requests}

\* A login's session before and after consent
Attempt(req, mode, scopes) ==
  [tok |-> 0, rt |-> 0, mark |-> "none", reauth |-> FALSE, denied |-> FALSE,
   bound |-> Binding(req), mode |-> mode, scopes |-> scopes]

-----------------------------------------------------------------------------
HasTokens(s) == s # NoSession /\ s.tok # 0

\* isAccessTokenRefreshDue with its safety window, isAccessTokenExpired
Due(s) == age[s.tok] # "fresh"
Expired(s) == age[s.tok] = "expired"

\* writeSession replaces the file, or fails and leaves it.
Write(s) ==
  \/ disk' = s /\ UNCHANGED faults
  \/ faults < MaxFaults /\ faults' = faults + 1 /\ UNCHANGED disk

Wrote(s) == disk' = s

\* The file is written, or its refresh token sent, by someone whose copy of the
\* session is no longer what the file holds: nothing prevents it.
Races(s) == raced' = (raced \/ disk # s)

Init ==
  /\ dep \in Deployments
  /\ disk = NoSession
  /\ pc = [c \in Calls |-> "idle"]
  /\ tx = "none"
  /\ copy = [h \in Holders |-> NoSession]
  /\ step = [h \in Holders |-> Idle]
  /\ op = NoCommand
  /\ age = [t \in Tokens |-> "fresh"]
  /\ issued = 0 /\ spent = {} /\ reused = FALSE /\ raced = FALSE
  /\ faults = 0 /\ commands = 0

-----------------------------------------------------------------------------
(* prepareOAuthForDispatch                                                 *)

Leave(c) == pc' = [pc EXCEPT ![c] = "idle"] /\ copy' = [copy EXCEPT ![c] = NoSession]

\* A call first waits for the refresh that is running when it arrives.
Begin(c) ==
  /\ pc[c] = "idle" /\ c \in dep.calls /\ HasTokens(disk)
  /\ pc' = [pc EXCEPT ![c] = IF tx = "none" THEN "loading" ELSE "waiting"]
  /\ UNCHANGED <<dep, disk, tx, copy, step, op, server, faults, commands, raced>>

\* It joins the refresh that is running, or starts one.
Join(c) ==
  /\ pc' = [pc EXCEPT ![c] = "joined"]
  /\ tx' = IF tx = "none" THEN "read" ELSE tx

\* Mutated form of Refused: a refresh whose outcome is not known is no obstacle.
RefusedUnlessKnown(s) == HasTokens(s) => s.reauth

\* No session, a reauthorization flag or an unresolved refresh refuses the call.
Refused(s) == HasTokens(s) => s.reauth \/ s.mark = "uncertain"

Load(c) ==
  /\ pc[c] = "loading"
  /\ \/ Refused(disk) /\ Leave(c) /\ UNCHANGED tx
     \/ /\ ~Refused(disk) /\ ~Bound(disk, dep.expects)
        /\ pc' = [pc EXCEPT ![c] = "misbound"]
        /\ copy' = [copy EXCEPT ![c] = disk] /\ UNCHANGED tx
     \/ /\ ~Refused(disk) /\ Bound(disk, dep.expects)
        /\ \/ /\ ~Due(disk) \/ (disk.rt = 0 /\ ~Expired(disk))
              /\ pc' = [pc EXCEPT ![c] = "final"] /\ UNCHANGED <<tx, copy>>
           \/ \* expired with no refresh token, or a Retry-After still ahead
              /\ Due(disk) /\ \/ disk.rt = 0 /\ Expired(disk)
                              \/ disk.rt # 0 /\ disk.mark = "deferred"
              /\ Leave(c) /\ UNCHANGED tx
           \/ Due(disk) /\ disk.rt # 0 /\ Join(c) /\ UNCHANGED copy
  /\ UNCHANGED <<dep, disk, step, op, server, faults, commands, raced>>

\* markReauthorizationRequired for a session that is bound differently
MarkMisbound(c) ==
  /\ pc[c] = "misbound"
  /\ Write([copy[c] EXCEPT !.reauth = TRUE]) /\ Races(copy[c])
  /\ Leave(c)
  /\ UNCHANGED <<dep, tx, step, op, server, commands>>

\* The session is read again before the provider is built from it.
Final(c) ==
  /\ pc[c] = "final"
  /\ IF ~HasTokens(disk) \/ disk.reauth THEN Leave(c)
     ELSE /\ pc' = [pc EXCEPT ![c] = "dispatch"]
          /\ copy' = [copy EXCEPT ![c] = disk]
  /\ UNCHANGED <<dep, disk, tx, step, op, server, faults, commands, raced>>

-----------------------------------------------------------------------------
(* refreshOAuthSession, and the SDK's refresh after a 401 during dispatch  *)

\* Mutated form of TxEnds: a failed refresh does not release the calls that joined.
TxEndsSilently(ok) ==
  /\ tx' = "none"
  /\ pc' = [c \in Calls |-> IF pc[c] = "waiting" THEN "loading"
                            ELSE IF pc[c] = "joined" /\ ok THEN "final" ELSE pc[c]]
  /\ copy' = [copy EXCEPT ![Tx] = NoSession]

\* The transaction ends; the calls that joined it go on or are refused, the
\* ones that waited for it start.
TxEnds(ok) ==
  /\ tx' = "none"
  /\ pc' = [c \in Calls |-> IF pc[c] = "waiting" THEN "loading"
                            ELSE IF pc[c] # "joined" THEN pc[c]
                            ELSE IF ok THEN "final" ELSE "idle"]
  /\ copy' = [copy EXCEPT ![Tx] = NoSession]

\* refreshOAuthSession reads the session again and checks it again.  (A session with
\* tokens comes from a login that saved its client and discovery with them, so
\* the refusal of one without them, grant_unusable, does not arise.)
TxRead ==
  /\ tx = "read"
  /\ \/ (~Refused(disk) => Due(disk) /\ disk.rt = 0) /\ TxEnds(FALSE) /\ UNCHANGED step
     \/ ~Refused(disk) /\ ~Due(disk) /\ TxEnds(TRUE) /\ UNCHANGED step
     \/ /\ ~Refused(disk) /\ Due(disk) /\ disk.rt # 0
        /\ tx' = "refresh"
        /\ copy' = [copy EXCEPT ![Tx] = disk]
        /\ step' = [step EXCEPT ![Tx].kind = IF disk.mode = "cimd" THEN "document" ELSE "mark"]
        /\ UNCHANGED pc
  /\ UNCHANGED <<dep, disk, op, server, faults, commands, raced>>

\* validateClientMetadataDocument: the document is valid, cannot be had for now
\* (a transport failure, 429 or 5xx), or is not one for this client.
DocumentResults == {"valid", "unavailable", "invalid"}

\* assertClientDocumentUnchanged: a document that is not valid, or no longer
\* declares the method and key the session is bound to, ends the session.
ClientDocument(result, same) ==
  /\ step[Tx].kind = "document"
  /\ \/ /\ result = "valid" /\ same
        /\ step' = [step EXCEPT ![Tx].kind = "mark"]
        /\ UNCHANGED <<disk, raced, faults, tx, pc, copy>>
     \/ /\ result = "unavailable"
        /\ step' = [step EXCEPT ![Tx] = Idle] /\ TxEnds(FALSE) /\ UNCHANGED <<disk, raced, faults>>
     \/ /\ result = "invalid" \/ (result = "valid" /\ ~same)
        /\ Write([copy[Tx] EXCEPT !.reauth = TRUE]) /\ Races(copy[Tx])
        /\ step' = [step EXCEPT ![Tx] = Idle] /\ TxEnds(FALSE)
  /\ UNCHANGED <<dep, op, server, commands>>

Marked(s) == [s EXCEPT !.mark = "uncertain"]

\* Mutated form of MarkRefreshInFlight: the marker stays in memory.
MarkInMemory(h) ==
  /\ step[h].kind = "mark" /\ Races(copy[h])
  /\ step' = [step EXCEPT ![h].kind = "send"]
  /\ UNCHANGED <<dep, disk, pc, tx, copy, op, server, faults, commands>>

\* The marker is durable before the request is sent; if it cannot be written
\* nothing is sent.
MarkRefreshInFlight(h) ==
  /\ step[h].kind = "mark" /\ Races(copy[h])
  /\ \/ /\ Wrote(Marked(copy[h])) /\ copy' = [copy EXCEPT ![h] = Marked(@)]
        /\ step' = [step EXCEPT ![h].kind = "send"] /\ UNCHANGED faults
     \/ /\ faults < MaxFaults /\ faults' = faults + 1
        /\ step' = [step EXCEPT ![h].kind = "refused"] /\ UNCHANGED <<disk, copy>>
  /\ UNCHANGED <<dep, pc, tx, op, server, commands>>

\* External: the token endpoint and the network, as observeTokenRequests,
\* tokenErrorFromResponse and tokenTransportFailure tell their outcomes apart.
\* A success may rotate the refresh token; an unusable body, a 5xx and a lost
\* answer leave open whether it did.
Send(h) ==
  LET rt == copy[h].rt
      Reply(kind, t) == step' = [step EXCEPT ![h] = [kind |-> kind, tok |-> t]]
      Keep == UNCHANGED <<issued, spent>>
  IN
  /\ step[h].kind = "send" /\ Races(copy[h])
  /\ reused' = (reused \/ rt \in spent)
  /\ \/ /\ rt \notin spent /\ issued < MaxTokens /\ issued' = issued + 1
        /\ \/ Reply("rotated", issued') /\ spent' = spent \cup {rt}
           \/ Reply("kept", issued') /\ UNCHANGED spent
     \/ Reply("ambiguous", 0) /\ UNCHANGED issued /\ spent' \in {spent, spent \cup {rt}}
     \/ Reply("invalid_grant", 0) /\ Keep
     \/ \E kind \in {"limited", "refused"} : Reply(kind, 0) /\ Keep
  /\ UNCHANGED <<dep, disk, pc, tx, copy, op, age, faults, commands>>

\* saveTokens: the new tokens, a refresh token that is not sent again stays,
\* and the same write removes the marker and the reauthorization flag.
SaveTokens(s, reply) ==
  [s EXCEPT !.tok = reply.tok, !.mark = "none", !.reauth = FALSE,
            !.rt = IF reply.kind = "rotated" THEN reply.tok ELSE @]

\* persistTokenFailure: what a failure proves about the grant; only a definite
\* outcome removes the marker.
TokenFailure(s, kind) ==
  [s EXCEPT !.mark = IF kind = "ambiguous" THEN "uncertain"
                     ELSE IF kind = "limited" THEN "deferred" ELSE "none",
            !.reauth = IF kind = "invalid_grant" THEN TRUE ELSE @]

\* A holder's refresh is over: the transaction ends for all who joined, a call
\* repeats its request with the new token or fails.
Settle(h, ok) ==
  /\ step' = [step EXCEPT ![h] = Idle]
  /\ IF h = Tx THEN TxEnds(ok) ELSE Leave(h) /\ UNCHANGED tx

\* The new tokens are saved; if that fails the outcome is ambiguous.
RefreshSucceeds(h) ==
  LET s == SaveTokens(copy[h], step[h]) IN
  /\ step[h].kind \in {"rotated", "kept"} /\ Races(copy[h])
  /\ \/ Wrote(s) /\ UNCHANGED faults /\ Settle(h, TRUE)
     \/ /\ faults < MaxFaults /\ faults' = faults + 1
        /\ disk' \in {disk, TokenFailure(s, "ambiguous")}
        /\ Settle(h, FALSE)
  /\ UNCHANGED <<dep, op, server, commands>>

RefreshFails(h) ==
  /\ step[h].kind \in {"ambiguous", "invalid_grant", "limited", "refused"} /\ Races(copy[h])
  /\ Write(TokenFailure(copy[h], step[h].kind))
  /\ Settle(h, FALSE)
  /\ UNCHANGED <<dep, op, server, commands>>

-----------------------------------------------------------------------------
(* The dispatch with the provider (guardOAuthScopes, FileOAuthClientProvider) *)

Accepted(c) ==
  /\ pc[c] = "dispatch" /\ step[c] = Idle /\ Leave(c)
  /\ UNCHANGED <<dep, disk, tx, step, op, server, faults, commands, raced>>

\* 403 with a supported denial: recorded for status
AccessDenied(c) ==
  /\ pc[c] = "dispatch" /\ step[c] = Idle
  /\ Write([copy[c] EXCEPT !.denied = TRUE]) /\ Races(copy[c]) /\ Leave(c)
  /\ UNCHANGED <<dep, tx, step, op, server, commands>>

\* 401: the SDK refreshes with the provider's session, even one that was read
\* while another refresh of it was not over; without a refresh token it would
\* start consent, which a dispatch never does.
Unauthorized(c) ==
  /\ pc[c] = "dispatch" /\ step[c] = Idle
  /\ raced' = (raced \/ copy[c].mark = "uncertain")
  /\ IF copy[c].rt = 0 THEN Leave(c) /\ UNCHANGED step
     ELSE /\ pc' = [pc EXCEPT ![c] = "refreshing"]
          /\ step' = [step EXCEPT ![c].kind = "mark"] /\ UNCHANGED copy
  /\ UNCHANGED <<dep, disk, tx, op, server, faults, commands>>

-----------------------------------------------------------------------------
(* The operator's commands, each in a process of its own                   *)

Command(req) ==
  /\ op = NoCommand /\ commands < dep.commands /\ commands' = commands + 1
  /\ UNCHANGED <<dep, disk, pc, tx, copy, step, server, faults, raced>>

\* login keeps what is stored, discovers the server and selects the scopes and
\* the kind of client; it may end there.
Login(req, srv) ==
  /\ Command(req) /\ MayLogin(req) /\ Supported(req, srv)
  /\ ClientMode(req.client, srv) # "none"
  /\ op' = [at |-> "login", prev |-> disk,
            session |-> Attempt(req, ClientMode(req.client, srv),
                                RequestedScopes(req, srv, disk))]

OpKeeps == UNCHANGED <<dep, pc, tx, copy, step, age, spent, reused, commands>>

\* The attempt replaces the file before the browser is opened.
LoginWrites ==
  /\ op.at = "login"
  /\ Wrote(op.session) /\ Races(op.prev)
  /\ op' = [op EXCEPT !.at = "attempt"]
  /\ OpKeeps /\ UNCHANGED <<issued, faults>>

\* The callback server takes one callback with the attempt's state and issuer,
\* and writes the attempt again as consumed.
Callback ==
  /\ op.at = "attempt"
  /\ Wrote(op.session) /\ Races(op.session)
  /\ op' = [op EXCEPT !.at = "consumed"]
  /\ OpKeeps /\ UNCHANGED <<issued, faults>>

\* The code is exchanged; a server need not issue a refresh token.
LoginCommits(refreshable) ==
  /\ op.at = "consumed" /\ issued < MaxTokens
  /\ issued' = issued + 1
  /\ Races(op.session)
  /\ Wrote([op.session EXCEPT !.tok = issued', !.rt = IF refreshable THEN issued' ELSE 0])
  /\ op' = NoCommand
  /\ OpKeeps /\ UNCHANGED faults

\* A failed, denied or timed-out login puts back what it replaced; one that
\* failed before it wrote has nothing to put back.
LoginFails ==
  /\ op.at \in {"login", "attempt", "consumed"}
  /\ IF op.at = "login" THEN UNCHANGED <<disk, raced>> ELSE Wrote(op.prev) /\ Races(op.session)
  /\ op' = NoCommand
  /\ OpKeeps /\ UNCHANGED <<issued, faults>>

\* The command is interrupted: the attempt stays where the grant was.
LoginInterrupted ==
  /\ op.at \in {"login", "attempt", "consumed"}
  /\ faults < MaxFaults /\ faults' = faults + 1
  /\ op' = NoCommand
  /\ OpKeeps /\ UNCHANGED <<disk, issued, raced>>

\* status reports, and flags a session that is bound differently.
Status(req) ==
  /\ Command(req) /\ HasTokens(disk) /\ MayOperate(req, disk) /\ ~Bound(disk, req)
  /\ op' = [at |-> "flag", prev |-> disk, session |-> [disk EXCEPT !.reauth = TRUE]]

\* logout revokes what it read, whatever the outcome, and deletes the file.
Logout(req) ==
  /\ Command(req)
  /\ disk # NoSession => MayOperate(req, disk) /\ Bound(disk, req)
  /\ op' = [at |-> "revoke", prev |-> disk]

Flag ==
  /\ op.at = "flag" /\ Wrote(op.session) /\ Races(op.prev)
  /\ op' = NoCommand
  /\ OpKeeps /\ UNCHANGED <<issued, faults>>

\* revokeAdvertisedTokens may succeed or fail; the file is deleted either way.
Revoke ==
  /\ op.at = "revoke" /\ disk' = NoSession
  /\ spent' \in {spent, spent \cup (IF op.prev = NoSession THEN {} ELSE {op.prev.rt} \ {0})}
  /\ op' = NoCommand
  /\ UNCHANGED <<dep, pc, tx, copy, step, age, issued, reused, faults, commands, raced>>

-----------------------------------------------------------------------------
(* Time and failure                                                        *)

\* Nobody asks for the age of a token that the file does not hold.
TokenAges ==
  /\ HasTokens(disk) /\ ~Expired(disk)
  /\ age' = [age EXCEPT ![disk.tok] = IF @ = "fresh" THEN "due" ELSE "expired"]
  /\ UNCHANGED <<dep, disk, pc, tx, copy, step, op, issued, spent, reused, faults, commands, raced>>

\* The daemon stops at any point; what it held in memory is lost.
Crash ==
  /\ faults < MaxFaults /\ faults' = faults + 1
  /\ \E c \in Calls : pc[c] # "idle"
  /\ pc' = [c \in Calls |-> "idle"] /\ tx' = "none"
  /\ copy' = [h \in Holders |-> NoSession]
  /\ step' = [h \in Holders |-> Idle]
  /\ UNCHANGED <<dep, disk, op, server, commands, raced>>

Refreshes(h) == MarkRefreshInFlight(h) \/ Send(h) \/ RefreshSucceeds(h) \/ RefreshFails(h)

Prepares(c) == Load(c) \/ MarkMisbound(c) \/ Final(c)

Dispatches(c) == Accepted(c) \/ AccessDenied(c) \/ Unauthorized(c)

Transaction ==
  \/ TxRead
  \/ \E result \in DocumentResults, same \in BOOLEAN : ClientDocument(result, same)

Operates ==
  \/ \E req \in Requests : Status(req) \/ Logout(req) \/ \E srv \in Servers : Login(req, srv)
  \/ LoginWrites \/ Callback \/ LoginFails \/ LoginInterrupted \/ (\E r \in BOOLEAN : LoginCommits(r))
  \/ Flag \/ Revoke

Next ==
  \/ \E c \in Calls : Begin(c) \/ Prepares(c) \/ Dispatches(c)
  \/ \E h \in Holders : Refreshes(h)
  \/ Transaction \/ Operates \/ Crash \/ TokenAges

Spec == Init /\ [][Next]_vars

\* The event loop and the server's time limits: what has started goes on.
Fairness ==
  /\ \A c \in Calls : WF_vars(Prepares(c)) /\ WF_vars(Dispatches(c))
  /\ \A h \in Holders : WF_vars(Refreshes(h))
  /\ WF_vars(Transaction)

FairSpec == Spec /\ Fairness

-----------------------------------------------------------------------------
(* Properties.                                                             *)

Kinds == {"none", "document", "mark", "send", "rotated", "kept", "ambiguous",
          "invalid_grant", "limited", "refused"}

\* A stored session when n tokens were issued; one without tokens is an attempt
\* and has no flags.
IsSession(s, n) ==
  /\ s \in [tok: 0 .. n, rt: 0 .. n, mark: {"none", "uncertain", "deferred"},
            reauth: BOOLEAN, denied: BOOLEAN, bound: Bindings,
            mode: {"static", "cimd", "dynamic"}, scopes: {s.scopes}]
  /\ s.tok = 0 => s.rt = 0 /\ s.mark = "none" /\ ~s.reauth

TypeOK ==
  /\ dep \in Deployments
  /\ disk # NoSession => IsSession(disk, issued)
  /\ copy = [h \in Holders |-> copy[h]]
  /\ \A h \in Holders : copy[h] # NoSession => IsSession(copy[h], issued)
  /\ pc \in [Calls -> {"idle", "waiting", "loading", "joined", "misbound", "final",
                       "dispatch", "refreshing"}]
  /\ tx \in {"none", "read", "refresh"}
  /\ step \in [Holders -> [kind: Kinds, tok: 0 .. issued]]
  /\ issued \in 0 .. MaxTokens /\ spent \subseteq 1 .. issued
  /\ faults \in 0 .. MaxFaults /\ raced \in BOOLEAN

Usable(s, gone) == ~Refused(s) => s.rt \notin gone

\* A session that the next dispatch would refresh holds a refresh token the
\* server has not rotated away, until somebody races: a lost answer, a crash or
\* a failed write leaves the marker (markRefreshInFlight, persistTokenFailure,
\* restoreSession).
UnmarkedIsUsable == raced \/ Usable(disk, spent)

\* "the old refresh token is never resent": no refresh sends a token that the
\* server already exchanged for another, until somebody races.
RefreshTokenNotReused == reused => raced

Within(s) ==
  s.bound.scopes # <<>> => s.scopes \subseteq s.bound.scopes[1] \cup {Offline}

\* Whatever logins came before, one with configured scopes asks for those and
\* the refresh scope only (resolveRequestedOAuthScopes).
ScopesStayConfigured == disk # NoSession => Within(disk)

\* A stored session can be relied on: its types, no scope that its login did not
\* configure, and until somebody races a refresh token that is good unless it
\* is marked.
SessionInv == TypeOK /\ UnmarkedIsUsable /\ ScopesStayConfigured

\* A call that asked for a session gets one or is refused: nobody waits for a
\* refresh for ever, whatever its outcome (refreshTransactions).
EveryCallAnswered ==
  \A c \in Calls : pc[c] # "idle" ~> pc[c] = "idle"

-----------------------------------------------------------------------------
(***************************************************************************)
(* Why they hold.                                                          *)
(***************************************************************************)
Sound(s, n) == IsSession(s, n) /\ Within(s)

Logins == {"login", "attempt", "consumed"}

\* What a command holds
OpInv ==
  /\ op.at \in Logins \cup {"none", "flag", "revoke"}
  /\ op.at = "none" => op = NoCommand
  /\ op.at # "none" /\ op.prev # NoSession => Sound(op.prev, issued)
  /\ op.at \in Logins =>
       /\ op = [at |-> op.at, prev |-> op.prev, session |-> op.session]
       /\ Sound(op.session, issued) /\ op.session.tok = 0
  /\ op.at = "flag" => HasTokens(op.prev) /\ op.session = [op.prev EXCEPT !.reauth = TRUE]

\* Whoever holds a copy of the session: a call, or the shared refresh
Place(h) == IF h = Tx THEN tx ELSE pc[h]

Holding == {"refresh", "misbound", "dispatch", "refreshing"}

Sending == {"send", "rotated", "kept", "ambiguous", "invalid_grant", "limited"}

\* A holder at place, with copy s and its refresh at st, when n tokens were issued
Holder(place, s, st, n) ==
  /\ IF place \in Holding THEN Sound(s, n) /\ s.tok # 0 ELSE s = NoSession
  /\ place = "dispatch" => ~s.reauth
  /\ st.kind # "none" <=> place \in {"refresh", "refreshing"}
  /\ st.kind # "none" => s.rt # 0
  /\ st.kind \in Sending => s.mark = "uncertain"

CopyInv == \A h \in Holders : Holder(Place(h), copy[h], step[h], issued)

\* A failed login would put back what was stored before it.
Restorable == op.at \in {"attempt", "consumed"}

Saving(h) == step[h].kind \in {"rotated", "kept"}

\* Session s has neither token of number t.
Spares(s, t) == s # NoSession => s.tok # t /\ s.rt # t

\* New tokens are nobody else's.
NewInv ==
  \A h \in Holders : Saving(h) =>
    /\ step[h].tok # 0 /\ step[h].tok \notin spent
    /\ Spares(disk, step[h].tok) /\ (op.at # "none" => Spares(op.prev, step[h].tok))
    /\ \A k \in Holders :
         Spares(copy[k], step[h].tok) /\ (k # h /\ Saving(k) => step[k].tok # step[h].tok)

\* A refresh of s that was marked and is not over
Pending(s, st) == st.kind \notin {"none", "document", "mark"} /\ s.mark = "uncertain"

\* What is stored, when s of a holder is being refreshed: the same session is
\* marked, and its refresh token good until it is rotated.
Clear(stored, s, st, gone) ==
  Pending(s, st) /\ stored # NoSession /\ stored.tok = s.tok =>
    Refused(stored) /\ (st.kind \notin {"rotated", "ambiguous"} => s.rt \notin gone)

\* Until somebody races, what is stored or may be restored is usable or marked,
\* and one holder at a time refreshes a session.
RefreshInv ==
  /\ Usable(disk, spent)
  /\ Restorable => disk = op.session /\ Usable(op.prev, spent)
  /\ \A h \in Holders :
       /\ Clear(disk, copy[h], step[h], spent)
       /\ Restorable => Clear(op.prev, copy[h], step[h], spent)
       /\ step[h].kind \in {"document", "mark"} => ~Refused(copy[h])
       /\ \A k \in Holders \ {h} :
            Pending(copy[h], step[h]) /\ Pending(copy[k], step[k]) => copy[k].tok # copy[h].tok

OAuthInv ==
  /\ SessionInv /\ RefreshTokenNotReused /\ OpInv /\ CopyInv /\ NewInv
  /\ raced \/ RefreshInv
==============================================================================
