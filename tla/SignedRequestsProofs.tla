------------------------- MODULE SignedRequestsProofs -------------------------
(***************************************************************************)
(* Proofs about signed requests, for any calls, foreign messages, handlers *)
(* and lifetimes: a nonce is claimed once while its signature is good, and *)
(* an idempotency key starts one operation per life of its entry.          *)
(* SignedInv of SignedRequests is inductive.                               *)
(***************************************************************************)
EXTENDS SignedRequests, TLAPS

Phases == {"idle", "waiting", "unavailable", "identity_mismatch", "done", "auth_error", "rejected"}

\* An answer changes the phase of some calls and nothing else.
LEMMA ToldFacts ==
  ASSUME TypeOK, NEW code, NEW msgs
  PROVE  /\ Told(code, msgs) \in [Calls -> [phase: Phases, tries: 0 .. MaxTries]]
         /\ \A c \in Calls : Told(code, msgs)[c].tries = call[c].tries
<1>1. Classify(code) \in Phases
  BY DEF Classify, Phases
<1>2. \A c \in Calls : call[c] \in [phase: Phases, tries: 0 .. MaxTries]
  BY DEF TypeOK, Phases
<1>3. ASSUME NEW c \in Calls, NEW x \in Phases
      PROVE  /\ [call[c] EXCEPT !.phase = x] \in [phase: Phases, tries: 0 .. MaxTries]
             /\ [call[c] EXCEPT !.phase = x].tries = call[c].tries
  BY <1>2
<1> QED
  BY <1>1, <1>2, <1>3 DEF Told

\* A handler's message is on the wire.
LEMMA HandlerFacts ==
  ASSUME TypeOK, NEW h \in Handlers
  PROVE  /\ handler[h].phase \in {"verified", "admitted"} => handler[h] \in Verified
         /\ handler[h].phase \in {"verified", "admitted", "waiting"} => handler[h].msg \in wire
  BY DEF TypeOK, Free, Verified, Joined

\* A step that sends nothing and moves only handlers, calls and the clock.
LEMMA AnswerStep ==
  ASSUME SignedInv, UNCHANGED <<wire, claims, timely>>, clock' \in Int, clock <= clock',
         call' \in [Calls -> [phase: Phases, tries: 0 .. MaxTries]],
         \A c \in Calls : call'[c].tries = call[c].tries,
         handler' \in [Handlers -> {Free} \cup Verified \cup Joined],
         ops' \subseteq Operation,
         RequestAppliedOnce'
  PROVE  SignedInv'
<1>a. TypeOK /\ NonceInv /\ ClaimInv /\ ReplayRefused
  BY DEF SignedInv
<1>1. TypeOK'
  BY <1>a DEF TypeOK, Phases, Verified, Joined, Operation, Nonces, Scope
<1>2. NonceInv'
  BY <1>a DEF NonceInv
<1>3. ClaimInv'
  <2> SUFFICES ASSUME NEW m \in wire, timely[m.nonce] > 0, clock' <= 2 * m.expires
               PROVE  \E k \in claims : k.keyid = m.keyid /\ k.nonce = m.nonce /\ k.expiry = 2 * m.expires
    BY DEF ClaimInv
  <2>1. clock <= 2 * m.expires
    BY <1>a DEF TypeOK
  <2> QED
    BY <1>a, <2>1 DEF ClaimInv
<1>4. ReplayRefused'
  BY <1>a DEF ReplayRefused
<1> QED
  BY <1>1, <1>2, <1>3, <1>4 DEF SignedInv

LEMMA PostStep ==
  ASSUME SignedInv, NEW c \in Calls, Post(c)
  PROVE  SignedInv'
<1>a. /\ TypeOK /\ NonceInv /\ ClaimInv /\ ReplayRefused /\ RequestAppliedOnce
      /\ UNCHANGED <<clock, handler, claims, ops>>
      /\ call[c] \in [phase: Phases, tries: 0 .. MaxTries] /\ call[c].tries < MaxTries
  BY DEF SignedInv, Post, TypeOK, Phases
<1>1. CASE c.signer # c.did
  <2>1. call' = [call EXCEPT ![c] = [call[c] EXCEPT !.phase = "identity_mismatch"]]
        /\ UNCHANGED <<wire, timely>>
    BY <1>1 DEF Post
  <2>2. /\ call' \in [Calls -> [phase: Phases, tries: 0 .. MaxTries]]
        /\ \A d \in Calls : call'[d].tries = call[d].tries
    BY <1>a, <2>1 DEF TypeOK, Phases
  <2>3. RequestAppliedOnce' /\ clock' \in Int /\ clock <= clock'
    BY <1>a DEF RequestAppliedOnce, TypeOK
  <2> QED
    BY <1>a, <2>1, <2>2, <2>3, AnswerStep DEF TypeOK
<1>2. CASE c.signer = c.did
  <2> DEFINE m == Signed(c, clock + Ahead)
             x == [phase |-> "waiting", tries |-> call[c].tries + 1]
  <2>1. /\ wire' = wire \cup {m} /\ call' = [call EXCEPT ![c] = x]
        /\ timely' = [n \in DOMAIN timely \cup {m.nonce} |-> IF n \in DOMAIN timely THEN timely[n] ELSE 0]
    BY <1>2 DEF Post
  <2>2. m.nonce = <<c, call[c].tries + 1>> /\ m.expires \in Int
    BY <1>a, TimeAssumption DEF Signed, Sec, TypeOK
  <2>3. x \in [phase: Phases, tries: 0 .. MaxTries] /\ x.tries = call[c].tries + 1
        /\ call[c].tries + 1 \in 1 .. MaxTries
    BY <1>a, TimeAssumption DEF Phases
  <2> HIDE DEF m, x
  <2>4. /\ call' \in [Calls -> [phase: Phases, tries: 0 .. MaxTries]]
        /\ call'[c].tries = call[c].tries + 1
        /\ \A d \in Calls \ {c} : call'[d] = call[d]
    BY <1>a, <2>1, <2>3 DEF TypeOK, Phases
  <2>5. \A w \in wire : w.nonce # m.nonce
    BY <1>a, <2>2, <2>3 DEF NonceInv
  <2>6. Nonces' = Nonces \cup {m.nonce} /\ DOMAIN timely = Nonces
    BY <1>a, <2>1 DEF Nonces, TypeOK
  <2>7. /\ timely' \in [Nonces' -> 0 .. 2] /\ timely'[m.nonce] = 0
        /\ \A n \in Nonces : timely'[n] = timely[n]
    <3>1. m.nonce \notin Nonces
      BY <2>5 DEF Nonces
    <3>2. timely \in [Nonces -> 0 .. 2]
      BY <1>a DEF TypeOK
    <3> QED
      BY <2>1, <2>6, <3>1, <3>2
  <2>8. TypeOK'
    <3>1. Verified \subseteq Verified' /\ Joined \subseteq Joined' /\ Operation \subseteq Operation'
      BY <2>1, <2>6 DEF Verified, Joined, Operation, Scope
    <3>2. handler' \in [Handlers -> {Free} \cup Verified' \cup Joined'] /\ ops' \subseteq Operation'
      BY <1>a, <3>1 DEF TypeOK
    <3>3. clock' \in Int /\ \A w \in wire' : w.expires \in Int
      BY <1>a, <2>1, <2>2 DEF TypeOK
    <3> QED
      BY <2>4, <2>7, <3>2, <3>3 DEF TypeOK, Phases, Free
  <2>9. NonceInv'
    <3>1. \A m1, m2 \in wire' : m1.nonce = m2.nonce => m1 = m2
      BY <1>a, <2>1, <2>5 DEF NonceInv
    <3>2. ASSUME NEW w \in wire', NEW d \in Calls, NEW k \in 1 .. MaxTries, w.nonce = <<d, k>>
          PROVE  k <= call'[d].tries
      <4>1. CASE w \in wire
        <5>1. k <= call[d].tries /\ call[d].tries \in Int /\ call'[d].tries \in Int
          BY <1>a, <2>4, <3>2, <4>1 DEF NonceInv, TypeOK
        <5> QED
          BY <2>4, <5>1
      <4>2. CASE w = m
        BY <2>2, <2>3, <2>4, <3>2, <4>2
      <4> QED
        BY <2>1, <4>1, <4>2
    <3> QED
      BY <3>1, <3>2 DEF NonceInv
  <2>10. ClaimInv'
    <3> SUFFICES ASSUME NEW w \in wire', timely'[w.nonce] > 0, clock <= 2 * w.expires
                 PROVE  \E k \in claims : k.keyid = w.keyid /\ k.nonce = w.nonce /\ k.expiry = 2 * w.expires
      BY <1>a DEF ClaimInv
    <3>1. w \in wire
      BY <2>1, <2>7
    <3>2. timely'[w.nonce] = timely[w.nonce]
      BY <2>7, <3>1 DEF Nonces
    <3> QED
      BY <1>a, <3>1, <3>2 DEF ClaimInv
  <2>11. ReplayRefused'
    <3>1. DOMAIN timely' = Nonces \cup {m.nonce}
      BY <2>6, <2>7
    <3> QED
      BY <1>a, <2>6, <2>7, <3>1 DEF ReplayRefused
  <2>12. RequestAppliedOnce'
    BY <1>a DEF RequestAppliedOnce
  <2> QED
    BY <2>8, <2>9, <2>10, <2>11, <2>12 DEF SignedInv
<1> QED
  BY <1>1, <1>2

LEMMA AbortStep ==
  ASSUME SignedInv, NEW c \in Calls, Abort(c)
  PROVE  SignedInv'
<1>a. /\ TypeOK /\ RequestAppliedOnce /\ UNCHANGED <<clock, wire, handler, claims, ops, timely>>
      /\ call[c] \in [phase: Phases, tries: 0 .. MaxTries]
      /\ call' = [call EXCEPT ![c] = [call[c] EXCEPT !.phase = "unavailable"]]
  BY DEF SignedInv, Abort, TypeOK, Phases
<1>1. /\ call' \in [Calls -> [phase: Phases, tries: 0 .. MaxTries]]
      /\ \A d \in Calls : call'[d].tries = call[d].tries
  BY <1>a DEF TypeOK, Phases
<1>2. RequestAppliedOnce' /\ clock' \in Int /\ clock <= clock'
  BY <1>a DEF RequestAppliedOnce, TypeOK
<1> QED
  BY <1>a, <1>1, <1>2, AnswerStep DEF TypeOK

\* The calls stay as they are, or are told something.
LEMMA CallFacts ==
  ASSUME TypeOK, call' = call \/ (\E code, msgs : call' = Told(code, msgs))
  PROVE  /\ call' \in [Calls -> [phase: Phases, tries: 0 .. MaxTries]]
         /\ \A c \in Calls : call'[c].tries = call[c].tries
<1>1. CASE call' = call
  BY <1>1 DEF TypeOK, Phases
<1>2. CASE \E code, msgs : call' = Told(code, msgs)
  BY <1>2, ToldFacts
<1> QED
  BY <1>1, <1>2

LEMMA ArriveStep ==
  ASSUME SignedInv, NEW h \in Handlers, NEW m \in wire, Arrive(h, m)
  PROVE  SignedInv'
<1>a. /\ TypeOK /\ RequestAppliedOnce /\ UNCHANGED <<clock, wire, claims, ops, timely>>
  BY DEF SignedInv, Arrive
<1>1. call' = call \/ (\E code, msgs : call' = Told(code, msgs))
  BY DEF Arrive
<1>2. handler' \in [Handlers -> {Free} \cup Verified \cup Joined]
  <2>1. [phase |-> "verified", msg |-> m] \in Verified
    BY DEF Verified
  <2> QED
    BY <1>a, <2>1 DEF Arrive, TypeOK
<1>3. RequestAppliedOnce' /\ clock' \in Int /\ clock <= clock'
  BY <1>a DEF RequestAppliedOnce, TypeOK
<1> QED
  BY <1>a, <1>1, <1>2, <1>3, CallFacts, AnswerStep DEF TypeOK

\* A nonce is claimed: the claim lasts as long as the signature.
LEMMA AdmitStep ==
  ASSUME SignedInv, NEW h \in Handlers, Admit(h)
  PROVE  SignedInv'
<1> DEFINE m == handler[h].msg
           kept == {k \in claims : k.expiry >= clock}
           taken == \E k \in kept : k.keyid = m.keyid /\ k.nonce = m.nonce
<1>a. /\ TypeOK /\ NonceInv /\ ClaimInv /\ ReplayRefused /\ RequestAppliedOnce
      /\ UNCHANGED <<clock, wire, ops>>
      /\ handler[h] \in Verified /\ m \in wire /\ m.nonce \in Nonces
  BY HandlerFacts DEF SignedInv, Admit, Nonces
<1>b. \/ /\ ~taken /\ claims' = kept \cup {Remembered(m, clock)}
         /\ timely' = [timely EXCEPT ![m.nonce] = IF clock <= 2 * m.expires /\ @ < 2 THEN @ + 1 ELSE @]
         /\ handler' = [handler EXCEPT ![h] = [handler[h] EXCEPT !.phase = "admitted"]]
         /\ call' = call
      \/ /\ claims' \in {kept, claims} /\ timely' = timely
         /\ handler' = [handler EXCEPT ![h] = Free]
         /\ \E code, msgs : call' = Told(code, msgs)
  BY DEF Admit
<1> HIDE DEF m
<1>1. /\ call' \in [Calls -> [phase: Phases, tries: 0 .. MaxTries]]
      /\ \A c \in Calls : call'[c].tries = call[c].tries
  BY <1>a, <1>b, CallFacts
<1>2. handler' \in [Handlers -> {Free} \cup Verified \cup Joined]
  <2>1. [handler[h] EXCEPT !.phase = "admitted"] \in Verified
    BY <1>a DEF Verified
  <2> QED
    BY <1>a, <1>b, <2>1 DEF TypeOK
<1>c. m.expires \in Int /\ clock \in Int /\ timely \in [Nonces -> 0 .. 2]
  BY <1>a DEF TypeOK
<1>3. /\ timely' \in [Nonces -> 0 .. 2]
      /\ \A n \in Nonces : timely'[n] = timely[n] \/ (n = m.nonce /\ claims' = kept \cup {Remembered(m, clock)})
      /\ \A n \in Nonces : timely'[n] <= 1
  <2>1. CASE timely' = timely
    BY <1>a, <1>c, <2>1 DEF ReplayRefused
  <2>2. CASE /\ ~taken /\ claims' = kept \cup {Remembered(m, clock)}
             /\ timely' = [timely EXCEPT ![m.nonce] = IF clock <= 2 * m.expires /\ @ < 2 THEN @ + 1 ELSE @]
    <3>1. clock <= 2 * m.expires => timely[m.nonce] = 0
      <4> SUFFICES ASSUME clock <= 2 * m.expires, timely[m.nonce] > 0 PROVE FALSE
        BY <1>a, <1>c
      <4>1. PICK k \in claims : k.keyid = m.keyid /\ k.nonce = m.nonce /\ k.expiry = 2 * m.expires
        BY <1>a DEF ClaimInv
      <4>2. k \in kept
        BY <1>c, <4>1
      <4> QED
        BY <2>2, <4>1, <4>2
    <3>2. \A n \in Nonces : timely[n] \in 0 .. 2 /\ timely[n] <= 1
      BY <1>a, <1>c DEF ReplayRefused
    <3>3. /\ timely'[m.nonce] \in 0 .. 2 /\ timely'[m.nonce] <= 1
          /\ \A n \in Nonces \ {m.nonce} : timely'[n] = timely[n]
          /\ DOMAIN timely' = Nonces
      BY <1>a, <1>c, <2>2, <3>1, <3>2
    <3>4. timely' \in [Nonces -> 0 .. 2]
      BY <1>a, <1>c, <2>2, <3>3
    <3> QED
      BY <2>2, <3>2, <3>3, <3>4
  <2> QED
    BY <1>b, <2>1, <2>2
<1>4. TypeOK'
  <2>1. Nonces' = Nonces /\ Verified' = Verified /\ Joined' = Joined /\ Operation' = Operation
    BY <1>a DEF Nonces, Verified, Joined, Operation, Scope
  <2> QED
    BY <1>a, <1>1, <1>2, <1>3, <2>1 DEF TypeOK, Phases, Free
<1>5. NonceInv'
  BY <1>a, <1>1 DEF NonceInv
<1>6. ClaimInv'
  <2> SUFFICES ASSUME NEW w \in wire, timely'[w.nonce] > 0, clock <= 2 * w.expires
               PROVE  \E k \in claims' : k.keyid = w.keyid /\ k.nonce = w.nonce /\ k.expiry = 2 * w.expires
    BY <1>a DEF ClaimInv
  <2>1. w.nonce \in Nonces /\ w.expires \in Int
    BY <1>a DEF Nonces, TypeOK
  <2>2. CASE timely'[w.nonce] = timely[w.nonce]
    <3>1. PICK k \in claims : k.keyid = w.keyid /\ k.nonce = w.nonce /\ k.expiry = 2 * w.expires
      BY <1>a, <2>2 DEF ClaimInv
    <3>2. k \in kept /\ kept \subseteq claims'
      BY <1>b, <1>c, <2>1, <3>1
    <3> QED
      BY <3>1, <3>2
  <2>3. CASE w.nonce = m.nonce /\ claims' = kept \cup {Remembered(m, clock)}
    <3>1. w = m
      BY <1>a, <2>3 DEF NonceInv
    <3>2. LET k == Remembered(m, clock) IN
          k.keyid = m.keyid /\ k.nonce = m.nonce /\ k.expiry = 2 * m.expires
      BY DEF Remembered, Claim
    <3> QED
      BY <2>3, <3>1, <3>2
  <2> QED
    BY <1>3, <2>1, <2>2, <2>3
<1>7. ReplayRefused'
  BY <1>3 DEF ReplayRefused
<1>8. RequestAppliedOnce'
  BY <1>a DEF RequestAppliedOnce
<1> QED
  BY <1>4, <1>5, <1>6, <1>7, <1>8 DEF SignedInv

\* A new operation starts only when every entry of its key has outlived its life.
LEMMA RunStep ==
  ASSUME SignedInv, NEW h \in Handlers, Run(h)
  PROVE  SignedInv'
<1> DEFINE m == handler[h].msg
           found == Existing(Scope(m))
           new == [scope |-> Scope(m), body |-> Fingerprint(m), at |-> clock, by |-> m.nonce,
                   result |-> "scheduled"]
           J(o) == [phase |-> "waiting", msg |-> m, by |-> o.by, at |-> o.at]
<1>a. /\ TypeOK /\ RequestAppliedOnce /\ UNCHANGED <<clock, wire, claims, timely>> /\ m \in wire
      /\ clock' \in Int /\ clock <= clock' /\ clock \in Int
  BY HandlerFacts DEF SignedInv, Run, TypeOK
<1>b. \/ found = {} /\ ops' = ops \cup {new} /\ handler' = [handler EXCEPT ![h] = J(new)] /\ call' = call
      \/ \E o \in ops : handler' = [handler EXCEPT ![h] = J(o)] /\ ops' = ops /\ call' = call
      \/ /\ handler' = [handler EXCEPT ![h] = Free] /\ ops' = ops
         /\ \E code, msgs : call' = Told(code, msgs)
  BY DEF Run, Existing
<1>1. /\ new \in Operation /\ new.scope = Scope(m) /\ new.at = clock
  BY <1>a DEF Operation, Fingerprint, Nonces
<1>2. \A o \in Operation : J(o) \in Joined
  BY <1>a DEF Operation, Joined
<1>3. /\ call' \in [Calls -> [phase: Phases, tries: 0 .. MaxTries]]
      /\ \A c \in Calls : call'[c].tries = call[c].tries
  BY <1>a, <1>b, CallFacts
<1> HIDE DEF m, new, J
<1>4. handler' \in [Handlers -> {Free} \cup Verified \cup Joined] /\ ops' \subseteq Operation
  BY <1>a, <1>b, <1>1, <1>2 DEF TypeOK
<1>5. RequestAppliedOnce'
  <2>1. CASE ops' = ops
    BY <1>a, <2>1 DEF RequestAppliedOnce
  <2>2. CASE found = {} /\ ops' = ops \cup {new}
    <3>1. \A o \in ops : o.at \in Int /\ Ttl \in Int
      BY <1>a, TimeAssumption DEF TypeOK, Operation
    <3>2. \A o \in ops : o.scope = new.scope => o.at + Ttl <= new.at
      BY <1>a, <1>1, <2>2, <3>1 DEF Existing
    <3> QED
      BY <1>a, <2>2, <3>2 DEF RequestAppliedOnce
  <2> QED
    BY <1>b, <2>1, <2>2
<1> QED
  BY <1>a, <1>3, <1>4, <1>5, AnswerStep

\* An operation goes on, or leaves no entry behind.
LEMMA OperationStep ==
  ASSUME SignedInv, NEW o \in ops, Operate(o) \/ Settle(o)
  PROVE  SignedInv'
<1>a. /\ TypeOK /\ RequestAppliedOnce /\ UNCHANGED <<clock, wire, claims, timely>>
      /\ clock' \in Int /\ clock <= clock' /\ o \in Operation
  BY DEF SignedInv, Operate, Settle, TypeOK
<1>1. call' = call \/ (\E code, msgs : call' = Told(code, msgs))
  BY DEF Operate, Settle, Answer
<1>2. handler' \in [Handlers -> {Free} \cup Verified \cup Joined]
  BY <1>a DEF Operate, Settle, Answer, TypeOK
<1>3. ASSUME NEW x \in {"applied", "settled"}, ops' = (ops \ {o}) \cup {[o EXCEPT !.result = x]}
      PROVE  ops' \subseteq Operation /\ RequestAppliedOnce'
  <2> DEFINE y == [o EXCEPT !.result = x]
  <2>1. y \in Operation /\ y.scope = o.scope /\ y.at = o.at
    BY <1>a DEF Operation
  <2>2. ops' = (ops \ {o}) \cup {y}
    BY <1>3
  <2> HIDE DEF y
  <2>3. RequestAppliedOnce'
    BY <1>a, <2>1, <2>2 DEF RequestAppliedOnce
  <2> QED
    BY <1>a, <2>1, <2>2, <2>3 DEF TypeOK
<1>4. ASSUME ops' = ops \ {o} PROVE ops' \subseteq Operation /\ RequestAppliedOnce'
  BY <1>a, <1>4 DEF TypeOK, RequestAppliedOnce
<1>5. ops' \subseteq Operation /\ RequestAppliedOnce'
  BY <1>3, <1>4 DEF Operate, Settle
<1> QED
  BY <1>a, <1>1, <1>2, <1>5, CallFacts, AnswerStep

LEMMA WaitStep ==
  ASSUME SignedInv, NEW h \in Handlers, Resume(h) \/ WaitEnds(h)
  PROVE  SignedInv'
<1>a. /\ TypeOK /\ RequestAppliedOnce /\ UNCHANGED <<clock, wire, claims, ops, timely>>
      /\ \E code, msgs : call' = Told(code, msgs)
      /\ handler' = [handler EXCEPT ![h] = Free]
  BY DEF SignedInv, Resume, WaitEnds
<1>1. handler' \in [Handlers -> {Free} \cup Verified \cup Joined]
  BY <1>a DEF TypeOK
<1>2. RequestAppliedOnce' /\ clock' \in Int /\ clock <= clock'
  BY <1>a DEF RequestAppliedOnce, TypeOK
<1> QED
  BY <1>a, <1>1, <1>2, CallFacts, AnswerStep DEF TypeOK

LEMMA TickStep ==
  ASSUME SignedInv, Tick
  PROVE  SignedInv'
<1>a. /\ TypeOK /\ RequestAppliedOnce /\ UNCHANGED <<wire, call, handler, claims, ops, timely>>
      /\ clock' = clock + 1
  BY DEF SignedInv, Tick
<1>1. RequestAppliedOnce' /\ clock' \in Int /\ clock <= clock'
  BY <1>a DEF RequestAppliedOnce, TypeOK
<1> QED
  BY <1>a, <1>1, CallFacts, AnswerStep DEF TypeOK

-----------------------------------------------------------------------------
LEMMA SignedInit == Init => SignedInv
<1> SUFFICES ASSUME Init PROVE SignedInv
  OBVIOUS
<1>1. TypeOK
  BY NonceAssumption, TimeAssumption DEF Init, TypeOK, Nonces, Operation
<1>2. NonceInv
  BY NonceAssumption DEF Init, NonceInv
<1>3. ReplayRefused /\ ClaimInv /\ RequestAppliedOnce
  BY DEF Init, ReplayRefused, ClaimInv, RequestAppliedOnce
<1> QED
  BY <1>1, <1>2, <1>3 DEF SignedInv

LEMMA SignedStep == SignedInv /\ [Next]_vars => SignedInv'
<1> SUFFICES ASSUME SignedInv, [Next]_vars PROVE SignedInv'
  OBVIOUS
<1>1. CASE UNCHANGED vars
  BY <1>1 DEF vars, SignedInv, TypeOK, NonceInv, ClaimInv, ReplayRefused, RequestAppliedOnce,
     Nonces, Verified, Joined, Operation, Scope
<1> QED
  BY <1>1, PostStep, AbortStep, ArriveStep, AdmitStep, RunStep, OperationStep, WaitStep, TickStep DEF Next

\* However often and however late copies of a message arrive, its nonce is
\* claimed once up to the instant its signature expires: a claim is pruned only
\* when the signature it stands for no longer verifies (InMemoryNonceStore.claim).
THEOREM ReplaysAreRefused == Spec => []ReplayRefused
<1>1. SignedInv => ReplayRefused
  BY DEF SignedInv
<1> QED
  BY <1>1, SignedInit, SignedStep, PTL DEF Spec

\* Two mutations under one participant's idempotency key are at least the life
\* of an entry apart, however attempts, retries and handlers interleave
\* (runIdempotent).
THEOREM KeyRunsOnce == Spec => []RequestAppliedOnce
<1>1. SignedInv => RequestAppliedOnce
  BY DEF SignedInv
<1> QED
  BY <1>1, SignedInit, SignedStep, PTL DEF Spec
=============================================================================
