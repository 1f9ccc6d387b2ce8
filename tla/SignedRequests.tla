---------------------------- MODULE SignedRequests ----------------------------
(***************************************************************************)
(* The signed HTTP request between an MPAS client and a service that       *)
(* enforces authentication.  The client signs every attempt afresh, with a *)
(* new nonce and the same idempotency key; the network may delay, lose and *)
(* repeat what was sent.  The service verifies the message, runs its       *)
(* preflight, claims the nonce and then runs the mutation once per key.    *)
(* The clock counts half seconds: signatures carry whole seconds, nonce    *)
(* claims and idempotency entries milliseconds.                            *)
(***************************************************************************)
EXTENDS Integers

CONSTANTS
  Calls,       \* calls of this client: [did, signer, key, body]
  Foreign,     \* messages signed by other implementations
  Handlers,    \* requests the service handles at the same time
  Flaws,       \* what a received message can be wrong in; "none" if nothing
  Lifetime,    \* declared lifetime of a signature, in seconds
  Skew,        \* accepted clock skew, in seconds
  Ahead,       \* by how many ticks the client's clock is ahead of the service's
  Ttl,         \* life of an idempotency entry, in ticks
  MaxTries, MaxClock   \* bounds: attempts of a call, ticks

ASSUME TimeAssumption ==
  /\ Lifetime \in Nat /\ Skew \in Nat /\ Ahead \in Int /\ Ttl \in Nat
  /\ MaxTries \in Nat /\ MaxClock \in Nat

\* Every signer draws a nonce of its own for each message it signs.
ASSUME NonceAssumption ==
  /\ \A m \in Foreign : m.expires \in Int
  /\ \A m1, m2 \in Foreign : m1.nonce = m2.nonce => m1 = m2
  /\ \A m \in Foreign, c \in Calls, k \in 1 .. MaxTries : m.nonce # <<c, k>>

VARIABLES
  clock,      \* the service's clock
  wire,       \* every message that was sent; any of them may arrive at any time
  call,       \* what each call's caller knows: its phase and attempts
  handler,    \* a request being handled: its message and how far it is
  claims,     \* InMemoryNonceStore: claimed nonces and their expiry
  ops,        \* operations started by runIdempotent: the cache, and what was done
  timely      \* how often a nonce was claimed by its expiry (counted to 2)

vars == <<clock, wire, call, handler, claims, ops, timely>>

Sec(t) == t \div 2
Free == [phase |-> "free"]

Init ==
  /\ clock = 0
  /\ wire = Foreign
  /\ call = [c \in Calls |-> [phase |-> "idle", tries |-> 0]]
  /\ handler = [h \in Handlers |-> Free]
  /\ claims = {}
  /\ ops = {}
  /\ timely = [n \in {m.nonce : m \in Foreign} |-> 0]

-----------------------------------------------------------------------------
(* The client *)

\* signMpasRfc9421: created and expires are whole seconds
Signed(c, t) ==
  [did |-> c.did, keyid |-> c.signer, nonce |-> <<c, call[c].tries + 1>>,
   created |-> Sec(t), expires |-> Sec(t + 2 * Lifetime),
   key |-> c.key, body |-> c.body, flaw |-> "none"]

\* MpasHttpTransport.post, up to fetch: the signer has to be who the request
\* speaks for; a call that was unavailable is posted again under the same key
Post(c) ==
  /\ call[c].phase \in {"idle", "unavailable"}
  /\ call[c].tries < MaxTries
  /\ IF c.signer # c.did
     THEN /\ call' = [call EXCEPT ![c].phase = "identity_mismatch"]
          /\ UNCHANGED <<wire, timely>>
     ELSE LET m == Signed(c, clock + Ahead) IN
          /\ wire' = wire \cup {m}
          /\ timely' = [n \in DOMAIN timely \cup {m.nonce} |->
                          IF n \in DOMAIN timely THEN timely[n] ELSE 0]
          /\ call' = [call EXCEPT ![c] = [phase |-> "waiting", tries |-> @.tries + 1]]
  /\ UNCHANGED <<clock, handler, claims, ops>>

\* abortableRequest: the request timed out, or its answer was lost
Abort(c) ==
  /\ call[c].phase = "waiting"
  /\ call' = [call EXCEPT ![c].phase = "unavailable"]
  /\ UNCHANGED <<clock, wire, handler, claims, ops, timely>>

\* How post classifies an answer: 401 and 403 are authentication errors, 500
\* and 503 are retryable, any other failure is final
Classify(code) ==
  CASE code = "ok" -> "done"
    [] code \in {"authentication_required", "signature_invalid",
                 "permission_denied"} -> "auth_error"
    [] code \in {"timeout", "server_error"} -> "unavailable"
    [] OTHER -> "rejected"

\* An answer that reaches the attempts still waiting for one; it is lost to others
Told(code, msgs) ==
  [c \in Calls |->
     IF call[c].phase = "waiting" /\ \E m \in msgs : m.nonce = <<c, call[c].tries>>
     THEN [call[c] EXCEPT !.phase = Classify(code)]
     ELSE call[c]]

-----------------------------------------------------------------------------
(* The service *)

\* Failures of verifyMpasRfc9421 before and after its freshness check
Malformed == {"headers", "dictionary", "candidate", "member", "covered", "parameters"}
Unverifiable == {"key", "signature", "digest"}

Fresh(m, now) ==
  /\ m.expires > m.created
  /\ m.expires - m.created <= Lifetime
  /\ m.created <= Sec(now) + Skew
  /\ m.expires >= Sec(now)

\* verifyContentDigest and validAudience: the body is the one that was
\* digested, and was meant for this service
DigestMatches(m) == m.flaw # "body"
ValidAudience(m) == m.flaw # "audience"

\* verifyMpasRfc9421, in the order of its checks
Verify(m, now) ==
  CASE m.flaw = "unsigned" -> "authentication_required"
    [] m.flaw \in Malformed -> "signature_invalid"
    [] ~Fresh(m, now) -> "signature_invalid"
    [] m.flaw \in Unverifiable -> "signature_invalid"
    [] ~DigestMatches(m) -> "artifact_hash_mismatch"
    [] ~ValidAudience(m) -> "signature_invalid"
    [] OTHER -> "ok"

\* The request body parses as what its endpoint expects
ValidRequest(m) == m.flaw # "request"

\* Preflight of a mutation handler: the request parses, and its sender signed it
Preflight(m) ==
  CASE ~ValidRequest(m) -> "INVALID_REQUEST"
    [] m.keyid # m.did -> "permission_denied"
    [] OTHER -> "ok"

\* authenticateRequest: a copy of any message arrives and is verified
Arrive(h, m) ==
  /\ handler[h] = Free
  /\ m \in wire
  /\ LET code == Verify(m, clock) IN
     IF code = "ok"
     THEN /\ handler' = [handler EXCEPT ![h] = [phase |-> "verified", msg |-> m]]
          /\ call' = call
     ELSE /\ handler' = handler
          /\ call' = Told(code, {m})
  /\ UNCHANGED <<clock, wire, claims, ops, timely>>

Claim(m) == [keyid |-> m.keyid, nonce |-> m.nonce, expiry |-> 2 * m.expires]

\* Mutated form of Remembered: a claim is kept one lifetime from now on
RememberedForLifetime(m, now) ==
  [Claim(m) EXCEPT !.expiry = now + 2 * Lifetime]

\* What a successful claim stores: it is kept to the signature's expiry
Remembered(m, now) == Claim(m)

\* InMemoryNonceStore.claim: expired claims are pruned, then the nonce is taken
Admit(h) ==
  /\ handler[h].phase = "verified"
  /\ LET m == handler[h].msg
         kept == {k \in claims : k.expiry >= clock}
         taken == \E k \in kept : k.keyid = m.keyid /\ k.nonce = m.nonce
         code == IF Preflight(m) # "ok" THEN Preflight(m)
                 ELSE IF taken THEN "signature_invalid" ELSE "ok"
     IN IF code = "ok"
        THEN /\ claims' = kept \cup {Remembered(m, clock)}
             /\ timely' = [timely EXCEPT ![m.nonce] =
                             IF clock <= 2 * m.expires /\ @ < 2 THEN @ + 1 ELSE @]
             /\ handler' = [handler EXCEPT ![h].phase = "admitted"]
             /\ call' = call
        ELSE /\ claims' = IF Preflight(m) = "ok" THEN kept ELSE claims
             /\ handler' = [handler EXCEPT ![h] = Free]
             /\ call' = Told(code, {m})
             /\ timely' = timely
  /\ UNCHANGED <<clock, wire, ops>>

Scope(m) == <<m.did, m.key>>

\* computeIdempotencyFingerprint: the request without its key and audience
Fingerprint(m) == m.body

\* Mutated form of Existing: only an operation that has settled is reused
ExistingSettled(scope) ==
  {o \in ops : o.scope = scope /\ o.at + Ttl > clock /\ o.result = "settled"}

\* The entry runIdempotent finds under a key, once expired ones are deleted
Existing(scope) == {o \in ops : o.scope = scope /\ o.at + Ttl > clock}

\* runIdempotent: the same request under the same key shares the operation,
\* another request is a conflict, a free key starts the operation
Run(h) ==
  /\ handler[h].phase = "admitted"
  /\ LET m == handler[h].msg
         found == Existing(Scope(m))
         new == [scope |-> Scope(m), body |-> Fingerprint(m), at |-> clock, by |-> m.nonce,
                 result |-> "scheduled"]
         join(o) == handler' = [handler EXCEPT ![h] =
                      [phase |-> "waiting", msg |-> m, by |-> o.by, at |-> o.at]]
     IN \/ /\ found = {}
           /\ ops' = ops \cup {new}
           /\ join(new)
           /\ call' = call
        \/ \E o \in found :
             /\ o.body = Fingerprint(m)
             /\ join(o)
             /\ UNCHANGED <<ops, call>>
        \/ \E o \in found :
             /\ o.body # Fingerprint(m)
             /\ handler' = [handler EXCEPT ![h] = Free]
             /\ call' = Told("idempotency_conflict", {m})
             /\ ops' = ops
  /\ UNCHANGED <<clock, wire, claims, timely>>

Waiting(o) ==
  {h \in Handlers : handler[h].phase = "waiting" /\ handler[h].by = o.by /\ handler[h].at = o.at}

\* Everyone who shares the operation is answered
Answer(o, code) ==
  /\ handler' = [h \in Handlers |-> IF h \in Waiting(o) THEN Free ELSE handler[h]]
  /\ call' = Told(code, {handler[h].msg : h \in Waiting(o)})

\* The operation mutates the store; one that throws leaves no entry behind and
\* is answered as MpasServiceError says, or else by a 500 (replyStoreError)
Operate(o) ==
  /\ o.result = "scheduled" /\ o.at = clock
  /\ \/ /\ ops' = (ops \ {o}) \cup {[o EXCEPT !.result = "applied"]}
        /\ UNCHANGED <<handler, call>>
     \/ /\ ops' = ops \ {o}
        /\ \E code \in {"rejected", "server_error"} : Answer(o, code)
  /\ UNCHANGED <<clock, wire, claims, timely>>

\* Its result is there: at once, or when the Verifier answers the relay
Settle(o) ==
  /\ o.result = "applied"
  /\ ops' = (ops \ {o}) \cup {[o EXCEPT !.result = "settled"]}
  /\ Answer(o, "ok")
  /\ UNCHANGED <<clock, wire, claims, timely>>

\* The promise of an entry that has settled answers whoever joins it
Resume(h) ==
  /\ handler[h].phase = "waiting"
  /\ \E o \in ops : h \in Waiting(o) /\ o.result = "settled"
  /\ handler' = [handler EXCEPT ![h] = Free]
  /\ call' = Told("ok", {handler[h].msg})
  /\ UNCHANGED <<clock, wire, claims, ops, timely>>

\* waitForRelayedResponse: the wait ends with 503, the operation goes on
WaitEnds(h) ==
  /\ handler[h].phase = "waiting"
  /\ \E o \in ops : h \in Waiting(o) /\ o.result = "applied"
  /\ handler' = [handler EXCEPT ![h] = Free]
  /\ call' = Told("timeout", {handler[h].msg})
  /\ UNCHANGED <<clock, wire, claims, ops, timely>>

-----------------------------------------------------------------------------
\* An operation is scheduled as a microtask: it starts before time passes
Tick ==
  /\ clock < MaxClock
  /\ \A o \in ops : o.result # "scheduled"
  /\ clock' = clock + 1
  /\ UNCHANGED <<wire, call, handler, claims, ops, timely>>

Next ==
  \/ \E c \in Calls : Post(c) \/ Abort(c)
  \/ \E h \in Handlers :
       \/ \E m \in wire : Arrive(h, m)
       \/ Admit(h) \/ Run(h) \/ Resume(h) \/ WaitEnds(h)
  \/ \E o \in ops : Operate(o) \/ Settle(o)
  \/ Tick

Spec == Init /\ [][Next]_vars

-----------------------------------------------------------------------------
\* A captured message is good for one mutation: up to the instant its
\* signature expires the service claims each nonce once, however often and
\* however late copies arrive and whatever the client's clock says.
ReplayRefused == \A n \in DOMAIN timely : timely[n] <= 1

\* A call takes effect once although every attempt has a nonce of its own and
\* an abandoned attempt may arrive after the retry: two mutations of one
\* participant under one idempotency key are at least the entry's life apart.
RequestAppliedOnce ==
  \A o1, o2 \in ops : o1.scope = o2.scope /\ o1 # o2 => o1.at + Ttl <= o2.at \/ o2.at + Ttl <= o1.at

-----------------------------------------------------------------------------
(***************************************************************************)
(* Why they hold.                                                          *)
(***************************************************************************)
Nonces == {m.nonce : m \in wire}

Verified == [phase: {"verified", "admitted"}, msg: wire]
Joined == [phase: {"waiting"}, msg: wire, by: Nonces, at: Int]
Operation ==
  [scope: {Scope(m) : m \in wire}, body: {m.body : m \in wire}, at: Int, by: Nonces,
   result: {"scheduled", "applied", "settled"}]

TypeOK ==
  /\ clock \in Int
  /\ \A m \in wire : m.expires \in Int
  /\ call \in [Calls -> [phase: {"idle", "waiting", "unavailable", "identity_mismatch", "done",
                                "auth_error", "rejected"},
                        tries: 0 .. MaxTries]]
  /\ handler \in [Handlers -> {Free} \cup Verified \cup Joined]
  /\ ops \subseteq Operation
  /\ timely \in [Nonces -> 0 .. 2]

\* A nonce names one message, and an attempt not made yet has an unused one.
NonceInv ==
  /\ \A m1, m2 \in wire : m1.nonce = m2.nonce => m1 = m2
  /\ \A m \in wire, c \in Calls, k \in 1 .. MaxTries : m.nonce = <<c, k>> => k <= call[c].tries

\* As long as its signature is good, a message that was admitted is remembered.
ClaimInv ==
  \A m \in wire :
    timely[m.nonce] > 0 /\ clock <= 2 * m.expires =>
      \E k \in claims : k.keyid = m.keyid /\ k.nonce = m.nonce /\ k.expiry = 2 * m.expires

SignedInv == TypeOK /\ NonceInv /\ ClaimInv /\ ReplayRefused /\ RequestAppliedOnce
==============================================================================
