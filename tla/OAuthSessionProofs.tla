-------------------------- MODULE OAuthSessionProofs --------------------------
(***************************************************************************)
(* Proofs about the stored OAuth session, for any deployments, calls,      *)
(* requests, servers and bounds: a stored session can be relied on, and no *)
(* rotated refresh token is sent again, until somebody races: writes or    *)
(* sends a copy of the session that the file no longer holds, or refreshes *)
(* one that was marked when it read it.  OAuthInv is inductive.            *)
(***************************************************************************)
EXTENDS OAuthSession, TLAPS

Marks == {"none", "uncertain", "deferred"}

\* A session is not the missing one.
LEMMA SomeSession ==
  ASSUME NEW s, NEW n, Sound(s, n)
  PROVE  s # NoSession
<1>1. "tok" \in DOMAIN s
  BY DEF Sound, IsSession
<1>2. "tok" \notin DOMAIN NoSession
  BY DEF NoSession
<1> QED
  BY <1>1, <1>2

\* What is a session stays one as tokens are issued.
LEMMA SessionLasts ==
  ASSUME NEW s, NEW n \in Nat, NEW m \in Nat, n <= m, Sound(s, n)
  PROVE  Sound(s, m)
  BY DEF Sound, IsSession

\* There is no refresh token without an access token.
LEMMA SessionFacts ==
  ASSUME NEW s, NEW n \in Nat, Sound(s, n)
  PROVE  /\ s.tok \in 0 .. n /\ s.rt \in 0 .. n /\ (s.tok = 0 => s.rt = 0)
         /\ s.mark \in Marks /\ s.reauth \in BOOLEAN
         /\ s.bound \in Bindings
  BY DEF Sound, IsSession, Marks

\* What each change of a session keeps and sets
LEMMA ReauthIs ==
  ASSUME NEW s, NEW n \in Nat, Sound(s, n), s.tok # 0,
         NEW q, q = [s EXCEPT !.reauth = TRUE]
  PROVE  Sound(q, n) /\ q.tok = s.tok /\ q.rt = s.rt /\ q.reauth
  BY DEF Sound, IsSession, Within

LEMMA DeniedIs ==
  ASSUME NEW s, NEW n \in Nat, Sound(s, n), s.tok # 0,
         NEW q, q = [s EXCEPT !.denied = TRUE]
  PROVE  /\ Sound(q, n) /\ q.tok = s.tok
         /\ q.reauth = s.reauth /\ q.mark = s.mark /\ q.rt = s.rt
  BY DEF Sound, IsSession, Within

LEMMA MarkedIs ==
  ASSUME NEW s, NEW n \in Nat, Sound(s, n), s.tok # 0
  PROVE  /\ Sound(Marked(s), n) /\ Marked(s).tok = s.tok /\ Marked(s).rt = s.rt
         /\ Marked(s).mark = "uncertain"
  BY DEF Sound, IsSession, Within, Marked

LEMMA FailureIs ==
  ASSUME NEW s, NEW n \in Nat, Sound(s, n), s.tok # 0, NEW kind
  PROVE  LET q == TokenFailure(s, kind) IN
         /\ Sound(q, n) /\ q.tok = s.tok /\ q.rt = s.rt
         /\ kind = "ambiguous" => q.mark = "uncertain"
         /\ q.reauth <=> s.reauth \/ kind = "invalid_grant"
         /\ kind # "ambiguous" => q.mark # "uncertain"
  BY DEF Sound, IsSession, Within, TokenFailure

LEMMA SavedIs ==
  ASSUME NEW s, NEW n \in Nat, Sound(s, n), s.tok # 0,
         NEW reply, reply.tok \in 0 .. n, reply.tok # 0
  PROVE  LET q == SaveTokens(s, reply) IN
         /\ Sound(q, n) /\ q.tok = reply.tok
         /\ q.mark = "none" /\ q.rt = IF reply.kind = "rotated" THEN reply.tok ELSE s.rt
<1> DEFINE rt == IF reply.kind = "rotated" THEN reply.tok ELSE s.rt
           q == [s EXCEPT !.tok = reply.tok, !.mark = "none", !.reauth = FALSE, !.rt = rt]
<1>1. rt \in 0 .. n
  BY SessionFacts
<1>2. SaveTokens(s, reply) = q
  BY DEF SaveTokens, Sound, IsSession
<1> HIDE DEF rt
<1>3. q \in [tok: {reply.tok}, rt: {rt}, mark: {"none"}, reauth: {FALSE}, denied: {s.denied},
             bound: {s.bound}, mode: {s.mode}, scopes: {s.scopes}]
  <2>1. s \in [tok: {s.tok}, rt: {s.rt}, mark: {s.mark}, reauth: {s.reauth}, denied: {s.denied},
               bound: {s.bound}, mode: {s.mode}, scopes: {s.scopes}]
    BY DEF Sound, IsSession
  <2> QED
    BY <2>1
<1>4. /\ s.denied \in BOOLEAN /\ s.bound \in Bindings /\ s.mode \in {"static", "cimd", "dynamic"}
      /\ Within(s)
  BY DEF Sound, IsSession
<1> HIDE DEF q
<1>5. IsSession(q, n)
  BY <1>1, <1>3, <1>4 DEF IsSession
<1>6. Within(q)
  BY <1>3, <1>4 DEF Within
<1> QED
  BY <1>1, <1>2, <1>3, <1>5, <1>6 DEF Sound, rt

\* A login asks for scopes within the configured ones.
LEMMA AttemptIs ==
  ASSUME NEW req \in Requests, NEW srv, NEW prev, NEW n \in Nat,
         NEW mode \in {"static", "cimd", "dynamic"}
  PROVE  LET s == Attempt(req, mode, RequestedScopes(req, srv, prev)) IN
         Sound(s, n) /\ s.tok = 0
<1> DEFINE scopes == RequestedScopes(req, srv, prev)
           s == Attempt(req, mode, scopes)
<1>1. Binding(req).scopes = req.scopes /\ Binding(req) \in Bindings
  BY DEF Binding, Bindings
<1>2. req.scopes # <<>> => scopes \subseteq req.scopes[1] \cup {Offline}
  BY DEF RequestedScopes, Baseline, Before
<1> HIDE DEF scopes
<1>3. IsSession(s, n) /\ s.tok = 0
  BY <1>1 DEF Attempt, IsSession
<1>4. Within(s)
  BY <1>1, <1>2 DEF Attempt, Within
<1> QED
  BY <1>3, <1>4 DEF Sound, scopes

Committed(s, k, rt) == [s EXCEPT !.tok = k, !.rt = rt]

LEMMA CommittedIs ==
  ASSUME NEW s, NEW n \in Nat, Sound(s, n), s.tok = 0, NEW k \in {n + 1}, NEW rt \in {0, n + 1}
  PROVE  Sound(Committed(s, k, rt), k) /\ Committed(s, k, rt).rt = rt
<1> DEFINE q == Committed(s, k, rt)
<1>1. /\ s \in [tok: {s.tok}, rt: {s.rt}, mark: {s.mark}, reauth: {s.reauth}, denied: {s.denied},
               bound: {s.bound}, mode: {s.mode}, scopes: {s.scopes}]
      /\ s.mark = "none" /\ s.reauth = FALSE /\ s.denied \in BOOLEAN /\ s.bound \in Bindings
      /\ s.mode \in {"static", "cimd", "dynamic"} /\ Within(s)
  BY DEF Sound, IsSession
<1>2. q \in [tok: {k}, rt: {rt}, mark: {s.mark}, reauth: {s.reauth}, denied: {s.denied},
             bound: {s.bound}, mode: {s.mode}, scopes: {s.scopes}]
  BY <1>1 DEF Committed
<1> HIDE DEF q
<1>a. rt \in 0 .. k /\ k \in 0 .. k /\ k # 0
  OBVIOUS
<1>3. IsSession(q, k) /\ q.rt = rt
  BY <1>a, <1>1, <1>2 DEF IsSession
<1>4. Within(q)
  BY <1>1, <1>2 DEF Within
<1> QED
  BY <1>3, <1>4 DEF Sound, q
-----------------------------------------------------------------------------
\* What holds whoever races: types, and what each holder has read
Core == TypeOK /\ ScopesStayConfigured /\ OpInv /\ CopyInv

Places == {"idle", "waiting", "loading", "joined", "misbound", "final", "dispatch", "refreshing"}

Counts ==
  /\ dep' = dep /\ issued' \in issued .. MaxTokens /\ spent' \subseteq 1 .. issued'
  /\ faults' \in 0 .. MaxFaults /\ raced' \in BOOLEAN

LEMMA CoreFacts ==
  ASSUME Core
  PROVE  /\ issued \in Nat /\ issued \in 0 .. MaxTokens /\ spent \subseteq 1 .. issued
         /\ MaxTokens \in Nat /\ MaxFaults \in Nat /\ faults \in 0 .. MaxFaults
         /\ raced \in BOOLEAN
         /\ disk # NoSession => Sound(disk, issued)
         /\ pc \in [Calls -> Places] /\ tx \in {"none", "read", "refresh"}
         /\ copy = [h \in Holders |-> copy[h]]
         /\ step \in [Holders -> [kind: Kinds, tok: 0 .. issued]]
         /\ \A h \in Holders : Holder(Place(h), copy[h], step[h], issued)
         /\ Tx \in Holders /\ Calls \subseteq Holders /\ Tx \notin Calls
         /\ Holders = Calls \cup {Tx}
         /\ \A c \in Calls : Place(c) = pc[c]
         /\ Place(Tx) = tx
  BY OAuthAssumption
     DEF Core, TypeOK, ScopesStayConfigured, CopyInv, Sound, Places, Holders, Place

\* What a holder has read stays as tokens are issued.
LEMMA HolderLasts ==
  ASSUME NEW p, NEW s, NEW st, NEW n \in Nat, NEW m \in Nat, n <= m, Holder(p, s, st, n)
  PROVE  Holder(p, s, st, m)
  BY SessionLasts DEF Holder

\* One without a copy and without a refresh
LEMMA HoldsNothing ==
  ASSUME NEW p, p \notin Holding, NEW s, s = NoSession, NEW st, st.kind = "none", NEW n
  PROVE  Holder(p, s, st, n)
  BY DEF Holder, Holding, Sending

LEMMA CoreStep ==
  ASSUME Core, Counts, disk' # NoSession => Sound(disk', issued'),
         pc' \in [Calls -> Places], tx' \in {"none", "read", "refresh"},
         copy' = [h \in Holders |-> copy'[h]],
         step' \in [Holders -> [kind: Kinds, tok: 0 .. issued']],
         \A h \in Holders : Holder(Place(h)', copy'[h], step'[h], issued'), OpInv'
  PROVE  Core'
<1>1. \A h \in Holders : copy'[h] # NoSession => IsSession(copy'[h], issued')
  BY DEF Holder, Sound
<1>2. TypeOK'
  BY <1>1, CoreFacts DEF Core, TypeOK, Counts, Sound, Places
<1> QED
  BY <1>2 DEF Core, ScopesStayConfigured, CopyInv, Sound

\* What the operator's command holds is nobody else's business.
LEMMA OpLasts ==
  ASSUME Core, Counts, op' = op
  PROVE  OpInv'
<1>1. issued \in Nat /\ issued' \in Nat /\ issued <= issued'
  BY CoreFacts DEF Counts
<1>2. \A s : Sound(s, issued) => Sound(s, issued')
  BY <1>1, SessionLasts
<1> QED
  BY <1>2 DEF Core, OpInv

LEMMA Typed ==
  ASSUME NEW n \in Nat, NEW m \in Nat, n <= m, NEW f \in [Holders -> [kind: Kinds, tok: 0 .. n]]
  PROVE  f \in [Holders -> [kind: Kinds, tok: 0 .. m]]
<1>1. 0 .. n \subseteq 0 .. m
  OBVIOUS
<1> QED
  BY <1>1

\* Nobody's copy or refresh moves.
LEMMA CoreUnmoved ==
  ASSUME Core, Counts, UNCHANGED <<pc, tx, copy, step>>,
         disk' # NoSession => Sound(disk', issued'), OpInv'
  PROVE  Core'
<1>1. issued \in Nat /\ issued' \in Nat /\ issued <= issued'
  BY CoreFacts DEF Counts
<1>2. \A h \in Holders : Place(h)' = Place(h)
  BY DEF Place
<1>3. \A h \in Holders : Holder(Place(h)', copy'[h], step'[h], issued')
  BY <1>1, <1>2, CoreFacts, HolderLasts
<1>4. step' \in [Holders -> [kind: Kinds, tok: 0 .. issued']]
  BY <1>1, CoreFacts, Typed
<1> QED
  BY <1>3, <1>4, CoreFacts, CoreStep

\* One call moves; it may start the shared refresh.
LEMMA CoreCall ==
  ASSUME Core, Counts, op' = op, issued' = issued,
         disk' # NoSession => Sound(disk', issued),
         NEW c \in Calls, NEW p \in Places, NEW q, NEW st \in [kind: Kinds, tok: 0 .. issued],
         pc' = [pc EXCEPT ![c] = p], tx' = tx \/ (tx = "none" /\ tx' = "read"),
         copy' = [copy EXCEPT ![c] = q], step' = [step EXCEPT ![c] = st],
         Holder(p, q, st, issued)
  PROVE  Core'
<1>1. \A h \in Holders : Holder(Place(h)', copy'[h], step'[h], issued')
  <2> SUFFICES ASSUME NEW h \in Holders PROVE Holder(Place(h)', copy'[h], step'[h], issued')
    OBVIOUS
  <2>1. CASE h = c
    <3>1. Place(h)' = p /\ copy'[h] = q /\ step'[h] = st
      BY <2>1, CoreFacts DEF Place
    <3> QED
      BY <3>1
  <2>2. CASE h # c /\ h # Tx
    <3>1. Place(h)' = Place(h) /\ copy'[h] = copy[h] /\ step'[h] = step[h]
      BY <2>2, CoreFacts DEF Place
    <3> QED
      BY <3>1, CoreFacts
  <2>3. CASE h = Tx
    <3>1. /\ copy'[h] = copy[h] /\ step'[h] = step[h] /\ Place(h) = tx /\ Place(h)' = tx'
          /\ Holder(Place(h), copy[h], step[h], issued)
      BY <2>3, CoreFacts DEF Place
    <3> QED
      BY <3>1 DEF Holder, Holding
  <2> QED
    BY <2>1, <2>2, <2>3
<1>2. /\ pc' \in [Calls -> Places] /\ copy' = [h \in Holders |-> copy'[h]]
      /\ step' \in [Holders -> [kind: Kinds, tok: 0 .. issued']]
      /\ tx' \in {"none", "read", "refresh"}
  BY CoreFacts
<1>3. OpInv'
  BY OpLasts
<1> QED
  BY <1>1, <1>2, <1>3, CoreStep

\* The shared refresh moves on, or a holder's refresh does.
LEMMA CoreHolder ==
  ASSUME Core, Counts, op' = op, disk' # NoSession => Sound(disk', issued'), pc' = pc,
         NEW h \in Holders, NEW q, NEW st \in [kind: Kinds, tok: 0 .. issued'],
         tx' \in {"none", "read", "refresh"}, h # Tx => tx' = tx,
         copy' = [copy EXCEPT ![h] = q], step' = [step EXCEPT ![h] = st],
         Holder(Place(h)', q, st, issued')
  PROVE  Core'
<1>1. issued \in Nat /\ issued' \in Nat /\ issued <= issued'
  BY CoreFacts DEF Counts
<1>2. \A k \in Holders : Holder(Place(k)', copy'[k], step'[k], issued')
  <2> SUFFICES ASSUME NEW k \in Holders PROVE Holder(Place(k)', copy'[k], step'[k], issued')
    OBVIOUS
  <2>1. CASE k = h
    BY <2>1, CoreFacts
  <2>2. CASE k # h
    <3>1. Place(k)' = Place(k) /\ copy'[k] = copy[k] /\ step'[k] = step[k]
      BY <2>2, CoreFacts DEF Place
    <3> QED
      BY <1>1, <3>1, CoreFacts, HolderLasts
  <2> QED
    BY <2>1, <2>2
<1>3. /\ pc' \in [Calls -> Places] /\ copy' = [k \in Holders |-> copy'[k]]
      /\ step' \in [Holders -> [kind: Kinds, tok: 0 .. issued']]
  <2>1. step \in [Holders -> [kind: Kinds, tok: 0 .. issued']]
    BY <1>1, CoreFacts, Typed
  <2> QED
    BY <2>1, CoreFacts
<1>4. OpInv'
  BY OpLasts
<1> QED
  BY <1>2, <1>3, <1>4, CoreStep

\* The shared refresh ends, and the calls that joined it go on.
LEMMA CoreTxEnds ==
  ASSUME Core, Counts, op' = op, issued' = issued, disk' # NoSession => Sound(disk', issued),
         NEW ok \in BOOLEAN, TxEnds(ok), step'[Tx].kind = "none",
         step' \in [Holders -> [kind: Kinds, tok: 0 .. issued]],
         \A c \in Calls : step'[c] = step[c]
  PROVE  Core'
<1>0. /\ tx' = "none" /\ copy' = [copy EXCEPT ![Tx] = NoSession]
      /\ pc' = [c \in Calls |-> IF pc[c] = "waiting" THEN "loading"
                                ELSE IF pc[c] # "joined" THEN pc[c]
                                ELSE IF ok THEN "final" ELSE "idle"]
  BY DEF TxEnds
<1>1. \A h \in Holders : Holder(Place(h)', copy'[h], step'[h], issued')
  <2> SUFFICES ASSUME NEW h \in Holders PROVE Holder(Place(h)', copy'[h], step'[h], issued')
    OBVIOUS
  <2>1. CASE h = Tx
    <3>1. Place(h)' = "none" /\ copy'[h] = NoSession
      BY <1>0, <2>1, CoreFacts DEF Place
    <3> QED
      BY <2>1, <3>1, HoldsNothing DEF Holding
  <2>2. CASE h \in Calls
    <3>1. /\ Place(h) = pc[h] /\ Place(h)' = pc'[h] /\ copy'[h] = copy[h] /\ step'[h] = step[h]
          /\ Holder(pc[h], copy[h], step[h], issued)
      BY <1>0, <2>2, CoreFacts DEF Place
    <3>2. pc'[h] = pc[h] \/ (pc[h] \in {"waiting", "joined"} /\ pc'[h] \in {"loading", "final", "idle"})
      BY <1>0, <2>2
    <3> QED
      BY <3>1, <3>2 DEF Holder, Holding
  <2> QED
    BY <2>1, <2>2, CoreFacts
<1>2. /\ pc' \in [Calls -> Places] /\ copy' = [h \in Holders |-> copy'[h]]
  BY <1>0, CoreFacts DEF Places
<1>3. OpInv'
  BY OpLasts
<1> QED
  BY <1>0, <1>1, <1>2, <1>3, CoreStep

\* A holder's refresh is over.
LEMMA CoreSettles ==
  ASSUME Core, Counts, op' = op, issued' = issued, disk' # NoSession => Sound(disk', issued),
         NEW h \in Holders, NEW ok \in BOOLEAN, Settle(h, ok)
  PROVE  Core'
<1>1. Idle \in [kind: Kinds, tok: 0 .. issued] /\ Idle.kind = "none" /\ step' = [step EXCEPT ![h] = Idle]
  BY CoreFacts DEF Idle, Kinds, Settle
<1>2. CASE h = Tx
  <2>1. /\ TxEnds(ok) /\ step'[Tx].kind = "none" /\ \A c \in Calls : step'[c] = step[c]
        /\ step' \in [Holders -> [kind: Kinds, tok: 0 .. issued]]
    BY <1>1, <1>2, CoreFacts DEF Settle
  <2> QED
    BY <2>1, CoreTxEnds
<1>3. CASE h # Tx
  <2>1. h \in Calls /\ Leave(h) /\ tx' = tx
    BY <1>3, CoreFacts DEF Settle
  <2>2. Holder("idle", NoSession, Idle, issued)
    BY <1>1, HoldsNothing DEF Holding
  <2> QED
    BY <1>1, <2>1, <2>2, CoreCall DEF Leave, Places
<1> QED
  BY <1>2, <1>3
-----------------------------------------------------------------------------
\* OAuthInv, grouped for the proof: what must hold until somebody races comes last.
Ind == Core /\ NewInv /\ RefreshTokenNotReused /\ (raced \/ RefreshInv)

LEMMA IndIs ==
  ASSUME Ind
  PROVE  OAuthInv
  BY DEF Ind, Core, OAuthInv, SessionInv, UnmarkedIsUsable, RefreshInv

\* A holder that starts, gives up or ends its refresh, or leaves it alone
Quiet(h) ==
  \/ step'[h] = step[h] /\ copy'[h] = copy[h]
  \/ step'[h].kind = "none" /\ copy'[h] \in {copy[h], disk, NoSession}
  \/ /\ step'[h].kind \in {"document", "mark", "refused"}
     /\ copy'[h] \in {copy[h], disk} /\ (raced' \/ ~Refused(copy'[h]))

\* Tokens that are new stay so: nobody else starts saving.
LEMMA NewStays ==
  ASSUME NewInv, \A h \in Holders : Quiet(h), spent' = spent,
         disk' = disk \/ (\A h \in Holders : Saving(h)' => Spares(disk', step[h].tok)),
         op' = op \/ op'.at = "none" \/ (op'.at # "none" /\ op'.prev = disk)
           \/ (op.at # "none" /\ op'.at # "none" /\ op'.prev = op.prev)
  PROVE  NewInv'
<1> SUFFICES ASSUME NEW h \in Holders, Saving(h)'
             PROVE  /\ step'[h].tok # 0 /\ step'[h].tok \notin spent'
                    /\ Spares(disk', step'[h].tok) /\ (op'.at # "none" => Spares(op'.prev, step'[h].tok))
                    /\ \A k \in Holders :
                         /\ Spares(copy'[k], step'[h].tok)
                         /\ k # h /\ Saving(k)' => step'[k].tok # step'[h].tok
  BY DEF NewInv
<1>1. \A k \in Holders : Saving(k)' => Saving(k) /\ step'[k] = step[k]
  BY DEF Quiet, Saving
<1>2. \A k \in Holders : copy'[k] \in {copy[k], disk, NoSession}
  BY DEF Quiet
<1>3. /\ Saving(h) /\ step'[h] = step[h] /\ step[h].tok # 0 /\ step[h].tok \notin spent
      /\ Spares(disk, step[h].tok) /\ (op.at # "none" => Spares(op.prev, step[h].tok))
      /\ \A k \in Holders :
           Spares(copy[k], step[h].tok) /\ (k # h /\ Saving(k) => step[k].tok # step[h].tok)
  BY <1>1 DEF NewInv
<1>4. Spares(disk', step[h].tok)
  BY <1>3
<1>5. op'.at # "none" => Spares(op'.prev, step[h].tok)
  BY <1>3
<1>6. Spares(NoSession, step[h].tok)
  BY DEF Spares
<1> QED
  BY <1>1, <1>2, <1>3, <1>4, <1>5, <1>6

\* The sessions that wait for their refresh, and those that go on with it, stay
\* good while what is stored does.
LEMMA RefreshStays ==
  ASSUME RefreshInv, Core, ~raced', \A h \in Holders : Quiet(h), spent' = spent,
         Usable(disk', spent),
         \A h \in Holders : step'[h] = step[h] /\ copy'[h] = copy[h] =>
           Clear(disk', copy[h], step[h], spent),
         Restorable' => Restorable /\ op'.prev = op.prev /\ disk' = op'.session
  PROVE  RefreshInv'
<1>1. Restorable' => disk' = op'.session /\ Usable(op'.prev, spent)
  BY DEF RefreshInv
<1>2. ASSUME NEW h \in Holders, step'[h] = step[h], copy'[h] = copy[h]
      PROVE  /\ Clear(disk', copy'[h], step'[h], spent)
             /\ Restorable' => Clear(op'.prev, copy'[h], step'[h], spent)
             /\ step'[h].kind \in {"document", "mark"} => ~Refused(copy'[h])
  BY <1>2 DEF RefreshInv
<1>3. ASSUME NEW h \in Holders, ~(step'[h] = step[h] /\ copy'[h] = copy[h])
      PROVE  /\ ~Pending(copy'[h], step'[h])
             /\ step'[h].kind \in {"document", "mark"} => ~Refused(copy'[h])
  BY <1>3 DEF Quiet, Pending, Refused
<1>4. \A h \in Holders : Pending(copy'[h], step'[h]) => step'[h] = step[h] /\ copy'[h] = copy[h]
  BY <1>3
<1>5. \A h \in Holders, k \in Holders : h # k /\ Pending(copy'[h], step'[h]) /\ Pending(copy'[k], step'[k])
        => copy'[k].tok # copy'[h].tok
  BY <1>4 DEF RefreshInv
<1>6. \A h \in Holders : ~Pending(copy'[h], step'[h]) =>
        Clear(disk', copy'[h], step'[h], spent) /\ Clear(op'.prev, copy'[h], step'[h], spent)
  BY DEF Clear
<1> QED
  BY <1>1, <1>2, <1>3, <1>5, <1>6 DEF RefreshInv

\* Nothing that is stored changes.
LEMMA StoredStays ==
  ASSUME Ind, Core', \A h \in Holders : Quiet(h), UNCHANGED <<disk, spent, reused>>,
         raced => raced',
         op' = op \/ op'.at = "none"
           \/ (op'.at \in {"login", "flag", "revoke"} /\ op'.prev = disk)
  PROVE  Ind'
<1>1. NewInv'
  BY NewStays DEF Ind
<1>2. ASSUME ~raced' PROVE RefreshInv'
  <2>1. RefreshInv /\ Core
    BY <1>2 DEF Ind
  <2>2. Usable(disk', spent) /\ \A h \in Holders : Clear(disk', copy[h], step[h], spent)
    BY <2>1 DEF RefreshInv
  <2>3. Restorable' => Restorable /\ op'.prev = op.prev /\ disk' = op'.session
    BY <2>1 DEF RefreshInv, Restorable
  <2> QED
    BY <1>2, <2>1, <2>2, <2>3, RefreshStays
<1> QED
  BY <1>1, <1>2 DEF Ind, RefreshTokenNotReused

\* Session q is written back as d, by one of its holders or a command; the
\* holders it is in flight with are told.
LEMMA WrittenBack ==
  ASSUME Ind, Core', \A h \in Holders : Quiet(h), UNCHANGED <<spent, reused>>,
         NEW q, raced' = (raced \/ disk # q), Sound(q, issued), q.tok # 0,
         \A h \in Holders : Saving(h) => Spares(q, step[h].tok),
         NEW d, d.tok = q.tok, d.rt = q.rt, disk' = d,
         ~raced' => Usable(d, spent) /\ \A h \in Holders :
           Pending(copy[h], step[h]) /\ step'[h] = step[h] /\ copy[h].tok = q.tok => Refused(d),
         op' = op \/ op'.at = "none"
  PROVE  Ind'
<1>0. q # NoSession
  BY SomeSession
<1>1. NewInv'
  <2>1. \A h \in Holders : Saving(h) => Spares(disk', step[h].tok)
    BY <1>0 DEF Spares
  <2>2. \A h \in Holders : Saving(h)' => Saving(h)
    BY DEF Quiet, Saving
  <2> QED
    BY <2>1, <2>2, NewStays DEF Ind
<1>2. ASSUME ~raced' PROVE RefreshInv'
  <2>1. RefreshInv /\ Core /\ disk = q
    BY <1>2 DEF Ind
  <2>2. ~Restorable
    BY <2>1 DEF RefreshInv, Restorable, Core, OpInv, Logins
  <2>3. ASSUME NEW h \in Holders, step'[h] = step[h], copy'[h] = copy[h]
        PROVE  Clear(disk', copy[h], step[h], spent)
    <3>1. Clear(disk, copy[h], step[h], spent)
      BY <2>1 DEF RefreshInv
    <3> QED
      BY <1>0, <1>2, <2>1, <2>3, <3>1 DEF Clear
  <2>4. ~Restorable'
    BY <2>2 DEF Restorable
  <2> QED
    BY <1>2, <2>1, <2>3, <2>4, RefreshStays
<1> QED
  BY <1>1, <1>2 DEF Ind, RefreshTokenNotReused
-----------------------------------------------------------------------------
LEMMA Kept ==
  ASSUME Core, UNCHANGED <<dep, issued, spent>>, faults' \in 0 .. MaxFaults, raced' \in BOOLEAN
  PROVE  Counts
  BY CoreFacts DEF Counts, Core, TypeOK

\* A call's preparation and its dispatch change nothing that is stored, but for
\* the flags.
LEMMA CallStep ==
  ASSUME Ind, NEW c \in Calls, UNCHANGED <<dep, disk, op, issued, spent, reused>>,
         faults' \in 0 .. MaxFaults, raced' \in BOOLEAN, raced => raced',
         NEW p \in Places, NEW q \in {copy[c], disk, NoSession},
         NEW st \in [kind: Kinds, tok: 0 .. issued],
         pc' = [pc EXCEPT ![c] = p], tx' = tx \/ (tx = "none" /\ tx' = "read"),
         copy' = [copy EXCEPT ![c] = q], step' = [step EXCEPT ![c] = st],
         Holder(p, q, st, issued),
         st.kind = "none" \/ (st.kind = "mark" /\ q = copy[c] /\ (raced' \/ ~Refused(q)))
  PROVE  Ind'
<1>1. Core
  BY DEF Ind
<1>2. Core'
  BY <1>1, Kept, CoreCall, CoreFacts
<1>3. ASSUME NEW h \in Holders PROVE Quiet(h)
  <2>1. step \in [Holders -> [kind: Kinds, tok: 0 .. issued]] /\ copy = [k \in Holders |-> copy[k]]
    BY <1>1, CoreFacts
  <2>2. CASE h = c
    <3>1. step'[h] = st /\ copy'[h] = q
      BY <2>1, <2>2
    <3> QED
      BY <2>2, <3>1 DEF Quiet
  <2>3. CASE h # c
    BY <2>1, <2>3 DEF Quiet
  <2> QED
    BY <2>2, <2>3
<1> QED
  BY <1>2, <1>3, StoredStays

LEMMA BeginStep ==
  ASSUME Ind, NEW c \in Calls, Begin(c)
  PROVE  Ind'
<1>1. Core
  BY DEF Ind
<1> DEFINE p == IF tx = "none" THEN "loading" ELSE "waiting"
<1>2. /\ pc[c] = "idle" /\ pc' = [pc EXCEPT ![c] = p] /\ p \in Places /\ p \notin Holding
      /\ UNCHANGED <<dep, disk, op, issued, spent, reused, tx, copy, step, raced, faults>>
  BY DEF Begin, server, Places, Holding
<1>3. Holder("idle", copy[c], step[c], issued)
  BY <1>1, <1>2, CoreFacts
<1>4. copy[c] = NoSession /\ step[c].kind = "none" /\ step[c] \in [kind: Kinds, tok: 0 .. issued]
  BY <1>1, <1>3, CoreFacts DEF Holder, Holding
<1>5. copy' = [copy EXCEPT ![c] = copy[c]] /\ step' = [step EXCEPT ![c] = step[c]]
  BY <1>1, <1>2, CoreFacts
<1>6. Holder(p, copy[c], step[c], issued)
  BY <1>2, <1>4, HoldsNothing
<1> HIDE DEF p
<1> QED
  BY <1>1, <1>2, <1>4, <1>5, <1>6, CoreFacts, CallStep

\* A call without a refresh of its own goes where it holds nothing, or takes the
\* session that is stored.
LEMMA PreparesStep ==
  ASSUME Ind, NEW c \in Calls, Load(c) \/ Final(c)
  PROVE  Ind'
<1>1. Core
  BY DEF Ind
<1>2. /\ pc[c] \in {"loading", "final"}
      /\ UNCHANGED <<dep, disk, op, issued, spent, reused, step, raced, faults>>
  BY DEF Load, Final, server
<1>3. Holder(pc[c], copy[c], step[c], issued)
  BY <1>1, CoreFacts
<1>4. copy[c] = NoSession /\ step[c].kind = "none" /\ step[c] \in [kind: Kinds, tok: 0 .. issued]
  BY <1>1, <1>2, <1>3, CoreFacts DEF Holder, Holding
<1>5. step' = [step EXCEPT ![c] = step[c]] /\ copy = [copy EXCEPT ![c] = NoSession]
  BY <1>1, <1>2, <1>4, CoreFacts
<1>6. PICK p \in {"idle", "final", "joined", "misbound", "dispatch"} :
        /\ pc' = [pc EXCEPT ![c] = p] /\ (tx' = tx \/ (tx = "none" /\ tx' = "read"))
        /\ \/ p \in {"idle", "final", "joined"} /\ copy' = [copy EXCEPT ![c] = NoSession]
           \/ /\ p \in {"misbound", "dispatch"} /\ copy' = [copy EXCEPT ![c] = disk] /\ HasTokens(disk)
              /\ p = "dispatch" => ~disk.reauth
  <2>1. CASE Final(c)
    BY <2>1, <1>5 DEF Final, Leave
  <2>2. CASE Load(c)
    <3>1. \/ Leave(c) /\ tx' = tx
          \/ pc' = [pc EXCEPT ![c] = "misbound"] /\ copy' = [copy EXCEPT ![c] = disk]
             /\ tx' = tx /\ ~Refused(disk)
          \/ pc' = [pc EXCEPT ![c] = "final"] /\ copy' = copy /\ tx' = tx
          \/ Join(c) /\ copy' = copy
      BY <2>2 DEF Load
    <3> QED
      BY <3>1, <1>5 DEF Leave, Join, Refused
  <2> QED
    BY <2>1, <2>2
<1>7. CASE copy' = [copy EXCEPT ![c] = NoSession] /\ p \in {"idle", "final", "joined"}
  <2>1. Holder(p, NoSession, step[c], issued)
    BY <1>4, <1>7, HoldsNothing DEF Holding
  <2>2. p \in Places /\ faults' \in 0 .. MaxFaults /\ raced' \in BOOLEAN
    BY <1>1, <1>2, CoreFacts DEF Places
  <2> QED
    BY <1>2, <1>4, <1>5, <1>6, <1>7, <2>1, <2>2, CallStep
<1>8. CASE /\ p \in {"misbound", "dispatch"} /\ copy' = [copy EXCEPT ![c] = disk] /\ HasTokens(disk)
           /\ p = "dispatch" => ~disk.reauth
  <2>1. Sound(disk, issued) /\ disk.tok # 0
    BY <1>1, <1>8, CoreFacts DEF HasTokens
  <2>2. Holder(p, disk, step[c], issued)
    BY <1>4, <1>8, <2>1 DEF Holder, Holding, Sending
  <2>3. p \in Places /\ faults' \in 0 .. MaxFaults /\ raced' \in BOOLEAN
    BY <1>1, <1>2, CoreFacts DEF Places
  <2> QED
    BY <1>2, <1>4, <1>5, <1>6, <1>8, <2>2, <2>3, CallStep
<1> QED
  BY <1>6, <1>7, <1>8

\* A call that leaves, and may have written back what it holds
LEMMA LeaveStep ==
  ASSUME Ind, NEW c \in Calls, pc[c] \in {"misbound", "dispatch"}, step[c].kind = "none", Leave(c),
         UNCHANGED <<dep, tx, step, op, issued, spent, reused>>, faults' \in 0 .. MaxFaults,
         \/ UNCHANGED disk /\ raced' \in BOOLEAN /\ (raced => raced')
         \/ /\ raced' = (raced \/ disk # copy[c])
            /\ disk' \in {[copy[c] EXCEPT !.reauth = TRUE], [copy[c] EXCEPT !.denied = TRUE]}
  PROVE  Ind'
<1>1. Core
  BY DEF Ind
<1>2. Sound(copy[c], issued) /\ copy[c].tok # 0 /\ c \in Holders
  <2>1. Holder(pc[c], copy[c], step[c], issued)
    BY <1>1, CoreFacts
  <2> QED
    BY <1>1, <2>1, CoreFacts DEF Holder, Holding
<1>3. /\ step' = [step EXCEPT ![c] = step[c]] /\ step[c] \in [kind: Kinds, tok: 0 .. issued]
      /\ pc' = [pc EXCEPT ![c] = "idle"] /\ copy' = [copy EXCEPT ![c] = NoSession]
  BY <1>1, <1>2, CoreFacts DEF Leave
<1>4. Holder("idle", NoSession, step[c], issued)
  BY HoldsNothing DEF Holding
<1>5. CASE UNCHANGED disk /\ raced' \in BOOLEAN /\ (raced => raced')
  BY <1>1, <1>3, <1>4, <1>5, CallStep DEF Places
<1>6. CASE /\ raced' = (raced \/ disk # copy[c])
           /\ disk' \in {[copy[c] EXCEPT !.reauth = TRUE], [copy[c] EXCEPT !.denied = TRUE]}
  <2>a. issued \in Nat
    BY <1>1, CoreFacts
  <2>1. /\ Sound(disk', issued) /\ disk'.tok = copy[c].tok /\ disk'.rt = copy[c].rt
        /\ disk'.reauth \/ (disk'.reauth = copy[c].reauth /\ disk'.mark = copy[c].mark)
    BY <1>2, <1>6, <2>a, ReauthIs, DeniedIs
  <2>2. Counts
    <3>1. raced' \in BOOLEAN
      BY <1>1, <1>6, CoreFacts
    <3> QED
      BY <1>1, <3>1, Kept
  <2>3. Core'
    BY <1>1, <1>3, <1>4, <2>1, <2>2, CoreCall DEF Places
  <2>4. \A h \in Holders : Quiet(h)
    BY <1>1, <1>3, CoreFacts DEF Quiet
  <2>5. ASSUME NEW h \in Holders, Saving(h) PROVE Spares(copy[c], step[h].tok)
    BY <1>2, <2>5 DEF Ind, NewInv
  <2>6. disk' # NoSession /\ copy[c] # NoSession
    BY <1>2, <2>1, SomeSession
  <2>7. ASSUME ~raced'
        PROVE  /\ Usable(disk', spent)
               /\ \A h \in Holders : Pending(copy[h], step[h]) /\ copy[h].tok = copy[c].tok => Refused(disk')
    <3>1. RefreshInv /\ disk = copy[c]
      BY <1>6, <2>7 DEF Ind
    <3>2. Refused(copy[c]) => Refused(disk')
      BY <1>2, <2>1, <2>6 DEF Refused, HasTokens
    <3> QED
      BY <2>1, <2>6, <3>1, <3>2 DEF RefreshInv, Usable, Clear
  <2> QED
    BY <1>2, <1>6, <2>1, <2>3, <2>4, <2>5, <2>7, WrittenBack
<1> QED
  BY <1>5, <1>6

\* The step a call takes without a refresh of its own
LEMMA CallsStep ==
  ASSUME Ind, NEW c \in Calls, Begin(c) \/ Prepares(c) \/ Dispatches(c)
  PROVE  Ind'
<1>1. Core
  BY DEF Ind
<1>2. faults \in 0 .. MaxFaults /\ raced \in BOOLEAN /\ MaxFaults \in Nat /\ c \in Holders
  BY <1>1, CoreFacts
<1>3. Holder(pc[c], copy[c], step[c], issued)
  BY <1>1, CoreFacts
<1>4. CASE MarkMisbound(c) \/ AccessDenied(c) \/ Accepted(c)
  <2>1. /\ pc[c] \in {"misbound", "dispatch"} /\ Leave(c)
        /\ UNCHANGED <<dep, tx, step, op, issued, spent, reused>>
    BY <1>4 DEF MarkMisbound, AccessDenied, Accepted, server
  <2>2. step[c].kind = "none"
    BY <1>3, <2>1 DEF Holder
  <2>3. /\ faults' \in 0 .. MaxFaults
        /\ \/ UNCHANGED disk /\ raced' \in BOOLEAN /\ (raced => raced')
           \/ /\ raced' = (raced \/ disk # copy[c])
              /\ disk' \in {[copy[c] EXCEPT !.reauth = TRUE], [copy[c] EXCEPT !.denied = TRUE]}
    <3> DEFINE a == [copy[c] EXCEPT !.reauth = TRUE]
               b == [copy[c] EXCEPT !.denied = TRUE]
    <3>1. \/ disk' = disk /\ faults' = faults /\ raced' = raced
          \/ (Write(a) \/ Write(b)) /\ raced' = (raced \/ disk # copy[c])
      BY <1>4 DEF MarkMisbound, AccessDenied, Accepted, Races
    <3> HIDE DEF a, b
    <3>2. faults' \in 0 .. MaxFaults
      <4>1. faults' = faults \/ (faults < MaxFaults /\ faults' = faults + 1)
        BY <3>1 DEF Write
      <4> QED
        BY <1>2, <4>1
    <3>a. raced' \in BOOLEAN /\ (raced => raced')
      BY <1>2, <3>1
    <3>3. disk' = disk \/ (disk' \in {a, b} /\ raced' = (raced \/ disk # copy[c]))
      BY <3>1 DEF Write
    <3> QED
      BY <3>2, <3>a, <3>3 DEF a, b
  <2> QED
    BY <2>1, <2>2, <2>3, LeaveStep
<1>5. CASE Unauthorized(c)
  <2>1. /\ pc[c] = "dispatch" /\ UNCHANGED <<dep, disk, tx, op, issued, spent, reused, faults>>
        /\ raced' = (raced \/ copy[c].mark = "uncertain")
    BY <1>5 DEF Unauthorized, server
  <2>2. /\ Sound(copy[c], issued) /\ copy[c].tok # 0 /\ ~copy[c].reauth /\ step[c].kind = "none"
        /\ step[c] \in [kind: Kinds, tok: 0 .. issued]
    BY <1>1, <1>2, <1>3, <2>1, CoreFacts DEF Holder, Holding
  <2>3. raced' \in BOOLEAN /\ (raced => raced')
    BY <1>2, <2>1
  <2>4. CASE copy[c].rt = 0
    <3>1. Leave(c) /\ UNCHANGED step
      BY <1>5, <2>4 DEF Unauthorized
    <3> QED
      BY <1>2, <2>1, <2>2, <2>3, <3>1, LeaveStep
  <2>5. CASE copy[c].rt # 0
    <3> DEFINE st == [step[c] EXCEPT !.kind = "mark"]
    <3>1. /\ pc' = [pc EXCEPT ![c] = "refreshing"] /\ copy' = copy
          /\ step' = [step EXCEPT ![c].kind = "mark"]
      BY <1>5, <2>5 DEF Unauthorized
    <3>2. st \in [kind: Kinds, tok: 0 .. issued] /\ st.kind = "mark"
      BY <2>2 DEF Kinds
    <3>3. step' = [step EXCEPT ![c] = st] /\ copy' = [copy EXCEPT ![c] = copy[c]]
      BY <1>1, <1>2, <3>1, CoreFacts
    <3> HIDE DEF st
    <3>4. Holder("refreshing", copy[c], st, issued)
      BY <2>2, <2>5, <3>2 DEF Holder, Holding, Sending
    <3>5. raced' \/ ~Refused(copy[c])
      BY <2>1, <2>2, SomeSession DEF Refused, HasTokens
    <3>6. "refreshing" \in Places
      BY DEF Places
    <3> QED
      BY <1>2, <2>1, <2>3, <3>1, <3>2, <3>3, <3>4, <3>5, <3>6, CallStep
  <2> QED
    BY <2>4, <2>5
<1> QED
  BY <1>4, <1>5, BeginStep, PreparesStep DEF Prepares, Dispatches

-----------------------------------------------------------------------------
\* A refresh that was not sent is over, and nothing was stored.
LEMMA GivenUp ==
  ASSUME Ind, Core', tx # "none", NEW ok \in BOOLEAN, TxEnds(ok), step'[Tx].kind = "none",
         \A c \in Calls : step'[c] = step[c],
         UNCHANGED <<disk, op, spent, reused, raced>>
  PROVE  Ind'
<1>1. Core
  BY DEF Ind
<1>2. \A h \in Holders : Quiet(h)
  BY <1>1, CoreFacts DEF Quiet, TxEnds
<1> QED
  BY <1>2, StoredStays

LEMMA TxReadStep ==
  ASSUME Ind, TxRead
  PROVE  Ind'
<1>1. Core
  BY DEF Ind
<1>2. /\ tx = "read" /\ UNCHANGED <<dep, disk, op, issued, spent, reused, faults, raced>>
  BY DEF TxRead, server
<1>3. Holder(tx, copy[Tx], step[Tx], issued) /\ Tx \in Holders
  BY <1>1, CoreFacts
<1>4. step[Tx].kind = "none" /\ step[Tx] \in [kind: Kinds, tok: 0 .. issued]
  BY <1>1, <1>2, <1>3, CoreFacts DEF Holder
<1>5. Counts
  BY <1>1, <1>2, CoreFacts, Kept
<1>6. CASE \E ok \in BOOLEAN : TxEnds(ok) /\ UNCHANGED step
  <2>1. PICK ok \in BOOLEAN : TxEnds(ok) /\ UNCHANGED step
    BY <1>6
  <2>2. Core'
    BY <1>1, <1>2, <1>4, <1>5, <2>1, CoreTxEnds, CoreFacts
  <2> QED
    BY <1>2, <1>4, <2>1, <2>2, GivenUp
<1>7. CASE ~(\E ok \in BOOLEAN : TxEnds(ok) /\ UNCHANGED step)
  <2> DEFINE st == [step[Tx] EXCEPT !.kind = IF disk.mode = "cimd" THEN "document" ELSE "mark"]
  <2>1. /\ ~Refused(disk) /\ disk.rt # 0 /\ tx' = "refresh" /\ pc' = pc
        /\ copy' = [copy EXCEPT ![Tx] = disk]
        /\ step' = [step EXCEPT ![Tx].kind = IF disk.mode = "cimd" THEN "document" ELSE "mark"]
    BY <1>7 DEF TxRead
  <2>2. st \in [kind: Kinds, tok: 0 .. issued] /\ st.kind \in {"document", "mark"}
    BY <1>4 DEF Kinds
  <2>3. step' = [step EXCEPT ![Tx] = st]
    BY <2>1
  <2> HIDE DEF st
  <2>4. Sound(disk, issued) /\ disk.tok # 0
    BY <1>1, <2>1, CoreFacts DEF Refused, HasTokens
  <2>5. Holder("refresh", disk, st, issued)
    BY <2>1, <2>2, <2>4 DEF Holder, Holding, Sending
  <2>6. Place(Tx)' = "refresh"
    BY <2>1 DEF Place
  <2>7. Core'
    <3>1. /\ st \in [kind: Kinds, tok: 0 .. issued']
          /\ Holder(Place(Tx)', disk, st, issued') /\ tx' \in {"none", "read", "refresh"}
      BY <1>2, <2>1, <2>2, <2>4, <2>5, <2>6
    <3>2. disk' # NoSession => Sound(disk', issued')
      BY <1>2, <2>4
    <3> QED
      BY <1>1, <1>2, <1>3, <1>5, <2>1, <2>2, <2>3, <3>1, <3>2, CoreHolder
  <2>8. ASSUME NEW h \in Holders PROVE Quiet(h)
    <3>1. step \in [Holders -> [kind: Kinds, tok: 0 .. issued]] /\ copy = [k \in Holders |-> copy[k]]
      BY <1>1, CoreFacts
    <3>2. CASE h = Tx
      <4>1. step'[h] = st /\ copy'[h] = disk
        BY <2>1, <2>3, <3>1, <3>2
      <4> QED
        BY <2>1, <2>2, <4>1 DEF Quiet
    <3>3. CASE h # Tx
      BY <2>1, <2>3, <3>1, <3>3 DEF Quiet
    <3> QED
      BY <3>2, <3>3
  <2> QED
    BY <1>2, <2>7, <2>8, StoredStays
<1> QED
  BY <1>6, <1>7

\* A failed write is one of the faults.
LEMMA Written ==
  ASSUME Core, NEW s, Write(s)
  PROVE  disk' \in {disk, s} /\ faults' \in 0 .. MaxFaults
<1>1. faults' = faults \/ (faults < MaxFaults /\ faults' = faults + 1)
  BY DEF Write
<1>2. faults' \in 0 .. MaxFaults
  BY <1>1, CoreFacts
<1> QED
  BY <1>2 DEF Write

\* A holder's refresh is over without a success: what it held may be written
\* back as d.
LEMMA EndsWith ==
  ASSUME Ind, Core', \A h \in Holders : Quiet(h), UNCHANGED <<op, spent, reused>>,
         NEW h \in Holders, Place(h) \in Holding, NEW d, disk' \in {disk, d},
         raced' = (raced \/ disk # copy[h]), Sound(d, issued), d.tok = copy[h].tok, d.rt = copy[h].rt,
         ~raced' => Usable(d, spent) /\ \A k \in Holders :
           Pending(copy[k], step[k]) /\ step'[k] = step[k] /\ copy[k].tok = copy[h].tok => Refused(d)
  PROVE  Ind'
<1>1. Sound(copy[h], issued) /\ copy[h].tok # 0
  <2>1. Holder(Place(h), copy[h], step[h], issued)
    BY CoreFacts DEF Ind
  <2> QED
    BY <2>1 DEF Holder
<1>2. CASE disk' = d
  <2>1. \A k \in Holders : Saving(k) => Spares(copy[h], step[k].tok)
    BY DEF Ind, NewInv
  <2> QED
    BY <1>1, <1>2, <2>1, WrittenBack
<1>3. CASE disk' = disk
  BY <1>3, StoredStays
<1> QED
  BY <1>2, <1>3

LEMMA DocumentStep ==
  ASSUME Ind, NEW result \in DocumentResults, NEW same \in BOOLEAN, ClientDocument(result, same)
  PROVE  Ind'
<1>1. Core
  BY DEF Ind
<1>2. step[Tx].kind = "document" /\ UNCHANGED <<dep, op, issued, spent, reused>>
  BY DEF ClientDocument, server
<1>3. /\ Holder(tx, copy[Tx], step[Tx], issued) /\ Tx \in Holders
      /\ step[Tx] \in [kind: Kinds, tok: 0 .. issued] /\ faults \in 0 .. MaxFaults
      /\ raced \in BOOLEAN /\ issued \in Nat
      /\ step \in [Holders -> [kind: Kinds, tok: 0 .. issued]] /\ copy = [h \in Holders |-> copy[h]]
  BY <1>1, CoreFacts
<1>4. /\ tx = "refresh" /\ Sound(copy[Tx], issued) /\ copy[Tx].tok # 0 /\ copy[Tx].rt # 0
      /\ Place(Tx) = "refresh"
  <2>1. tx = "refresh"
    BY <1>1, <1>2, <1>3, CoreFacts DEF Holder
  <2> QED
    BY <1>2, <1>3, <2>1 DEF Holder, Holding, Place
<1>5. Idle \in [kind: Kinds, tok: 0 .. issued] /\ Idle.kind = "none"
  BY <1>3 DEF Idle, Kinds
<1>6. CASE result = "valid" /\ same
  <2> DEFINE st == [step[Tx] EXCEPT !.kind = "mark"]
  <2>1. step' = [step EXCEPT ![Tx].kind = "mark"] /\ UNCHANGED <<disk, raced, faults, tx, pc, copy>>
    BY <1>6 DEF ClientDocument
  <2>2. st \in [kind: Kinds, tok: 0 .. issued] /\ st.kind = "mark" /\ step' = [step EXCEPT ![Tx] = st]
    BY <1>3, <2>1 DEF Kinds
  <2> HIDE DEF st
  <2>3. Holder("refresh", copy[Tx], st, issued)
    BY <1>4, <2>2 DEF Holder, Holding, Sending
  <2>4. Core'
    <3>1. /\ Place(Tx)' = "refresh" /\ copy' = [copy EXCEPT ![Tx] = copy[Tx]]
      BY <1>3, <1>4, <2>1 DEF Place
    <3>2. disk' # NoSession => Sound(disk', issued')
      BY <1>1, <1>2, <2>1, CoreFacts
    <3>3. Counts
      BY <1>1, <1>2, <1>3, <2>1, Kept
    <3>4. Holder(Place(Tx)', copy[Tx], st, issued') /\ st \in [kind: Kinds, tok: 0 .. issued']
      BY <1>2, <2>2, <2>3, <3>1
    <3>5. tx' \in {"none", "read", "refresh"}
      BY <1>4, <2>1
    <3> QED
      BY <1>1, <1>2, <1>3, <2>1, <2>2, <3>1, <3>2, <3>3, <3>4, <3>5, CoreHolder
  <2>5. ASSUME NEW h \in Holders PROVE Quiet(h)
    <3>1. CASE h = Tx
      <4>1. step'[h] = st /\ copy'[h] = copy[h]
        BY <1>3, <2>1, <2>2, <3>1
      <4>2. raced' \/ ~Refused(copy[h])
        BY <1>2, <2>1, <3>1, <1>3 DEF Ind, RefreshInv
      <4> QED
        BY <2>2, <4>1, <4>2 DEF Quiet
    <3>2. CASE h # Tx
      BY <1>3, <2>1, <2>2, <3>2 DEF Quiet
    <3> QED
      BY <3>1, <3>2
  <2> QED
    BY <1>2, <2>1, <2>4, <2>5, StoredStays
<1>7. CASE ~(result = "valid" /\ same)
  <2> DEFINE d == [copy[Tx] EXCEPT !.reauth = TRUE]
  <2>1. /\ step' = [step EXCEPT ![Tx] = Idle] /\ TxEnds(FALSE)
        /\ \/ UNCHANGED <<disk, raced, faults>>
           \/ Write(d) /\ raced' = (raced \/ disk # copy[Tx])
    BY <1>7 DEF ClientDocument, Races, DocumentResults
  <2>2. Sound(d, issued) /\ d.tok = copy[Tx].tok /\ d.rt = copy[Tx].rt /\ d.reauth
    BY <1>3, <1>4, ReauthIs
  <2> HIDE DEF d
  <2>3. disk' \in {disk, d} /\ faults' \in 0 .. MaxFaults
    BY <1>1, <1>3, <2>1, Written
  <2>4. raced' \in BOOLEAN
    BY <1>3, <2>1
  <2>5. /\ step'[Tx].kind = "none" /\ \A c \in Calls : step'[c] = step[c]
        /\ step' \in [Holders -> [kind: Kinds, tok: 0 .. issued]]
    BY <1>1, <1>3, <1>5, <2>1, CoreFacts
  <2>6. Core'
    <3>1. disk' # NoSession => Sound(disk', issued)
      BY <1>1, <2>2, <2>3, CoreFacts
    <3>2. Counts
      BY <1>1, <1>2, <2>3, <2>4, Kept
    <3> QED
      BY <1>1, <1>2, <2>1, <2>5, <3>1, <3>2, CoreTxEnds
  <2>7. CASE UNCHANGED <<disk, raced, faults>>
    BY <1>2, <1>4, <2>1, <2>5, <2>6, <2>7, GivenUp
  <2>8. CASE raced' = (raced \/ disk # copy[Tx])
    <3>1. \A h \in Holders : Quiet(h)
      BY <1>1, <1>3, <2>1, <2>5, CoreFacts DEF Quiet, TxEnds
    <3>2. Usable(d, spent) /\ Refused(d)
      BY <2>2 DEF Usable, Refused
    <3>3. Place(Tx) \in Holding
      BY <1>4 DEF Holding
    <3> QED
      BY <1>2, <1>3, <2>2, <2>3, <2>6, <2>8, <3>1, <3>2, <3>3, EndsWith
  <2> QED
    BY <2>1, <2>7, <2>8
<1> QED
  BY <1>6, <1>7

-----------------------------------------------------------------------------
\* Where a holder that refreshes is, and what it holds
LEMMA Refreshing ==
  ASSUME Ind, NEW h \in Holders, step[h].kind # "none"
  PROVE  /\ Place(h) \in {"refresh", "refreshing"} /\ Place(h) \in Holding
         /\ Sound(copy[h], issued) /\ copy[h].tok # 0 /\ copy[h].rt # 0 /\ copy[h] # NoSession
         /\ step[h].kind \in Sending => copy[h].mark = "uncertain"
         /\ step[h] \in [kind: Kinds, tok: 0 .. issued] /\ issued \in Nat
<1>1. Holder(Place(h), copy[h], step[h], issued) /\ step[h] \in [kind: Kinds, tok: 0 .. issued]
      /\ issued \in Nat
  BY CoreFacts DEF Ind
<1>2. Place(h) \in {"refresh", "refreshing"}
  BY <1>1 DEF Holder
<1>3. Place(h) \in Holding
  BY <1>2 DEF Holding
<1> QED
  BY <1>1, <1>2, <1>3, SomeSession DEF Holder

\* Who refreshes what the file holds does so alone, with a good refresh token,
\* and no failed login will put anything back.
LEMMA Alone ==
  ASSUME Ind, ~raced, NEW h \in Holders, step[h].kind # "none", disk = copy[h]
  PROVE  /\ ~Restorable
         /\ step[h].kind \in {"document", "mark"} =>
              /\ ~Refused(copy[h]) /\ copy[h].rt \notin spent
              /\ \A k \in Holders : Pending(copy[k], step[k]) => copy[k].tok # copy[h].tok
         /\ Pending(copy[h], step[h]) =>
              /\ step[h].kind \notin {"rotated", "ambiguous"} => copy[h].rt \notin spent
              /\ \A k \in Holders \ {h} : Pending(copy[k], step[k]) => copy[k].tok # copy[h].tok
<1>1. RefreshInv /\ Core
  BY DEF Ind
<1>2. copy[h].tok # 0 /\ copy[h] # NoSession
  BY Refreshing
<1>3. ~Restorable
  BY <1>1, <1>2 DEF RefreshInv, Restorable, Core, OpInv, Logins
<1>4. ASSUME step[h].kind \in {"document", "mark"}
      PROVE  /\ ~Refused(copy[h]) /\ copy[h].rt \notin spent
             /\ \A k \in Holders : Pending(copy[k], step[k]) => copy[k].tok # copy[h].tok
  BY <1>1, <1>2, <1>4 DEF RefreshInv, Usable, Clear
<1>5. ASSUME Pending(copy[h], step[h])
      PROVE  /\ step[h].kind \notin {"rotated", "ambiguous"} => copy[h].rt \notin spent
             /\ \A k \in Holders \ {h} : Pending(copy[k], step[k]) => copy[k].tok # copy[h].tok
  BY <1>1, <1>2, <1>5 DEF RefreshInv, Clear
<1> QED
  BY <1>3, <1>4, <1>5

LEMMA MarkStep ==
  ASSUME Ind, NEW h \in Holders, MarkRefreshInFlight(h)
  PROVE  Ind'
<1>1. Core
  BY DEF Ind
<1>2. /\ step[h].kind = "mark" /\ raced' = (raced \/ disk # copy[h])
      /\ UNCHANGED <<dep, pc, tx, op, issued, spent, reused>>
  BY DEF MarkRefreshInFlight, Races, server
<1>3. /\ Place(h) \in {"refresh", "refreshing"} /\ Place(h) \in Holding
      /\ Sound(copy[h], issued) /\ copy[h].tok # 0 /\ copy[h].rt # 0 /\ copy[h] # NoSession
      /\ step[h] \in [kind: Kinds, tok: 0 .. issued] /\ issued \in Nat
  BY <1>2, Refreshing
<1>4. /\ step \in [Holders -> [kind: Kinds, tok: 0 .. issued]] /\ copy = [k \in Holders |-> copy[k]]
      /\ faults \in 0 .. MaxFaults /\ MaxFaults \in Nat /\ raced \in BOOLEAN
      /\ disk # NoSession => Sound(disk, issued)
  BY <1>1, CoreFacts
<1>5. Place(h)' = Place(h) /\ raced' \in BOOLEAN /\ (raced => raced')
  BY <1>2, <1>4 DEF Place
<1>6. CASE /\ Wrote(Marked(copy[h])) /\ copy' = [copy EXCEPT ![h] = Marked(@)]
           /\ step' = [step EXCEPT ![h].kind = "send"] /\ UNCHANGED faults
  <2> DEFINE m == Marked(copy[h])
             st == [step[h] EXCEPT !.kind = "send"]
  <2>1. Sound(m, issued) /\ m.tok = copy[h].tok /\ m.rt = copy[h].rt /\ m.mark = "uncertain"
    BY <1>3, MarkedIs
  <2>2. /\ st \in [kind: Kinds, tok: 0 .. issued] /\ st.kind = "send"
    BY <1>3 DEF Kinds
  <2>3. disk' = m /\ copy' = [copy EXCEPT ![h] = m] /\ step' = [step EXCEPT ![h] = st]
    BY <1>6 DEF Wrote
  <2> HIDE DEF m, st
  <2>a. /\ copy'[h] = m /\ step'[h] = st /\ m # NoSession
        /\ \A k \in Holders \ {h} : copy'[k] = copy[k] /\ step'[k] = step[k]
    BY <1>4, <2>1, <2>3, SomeSession
  <2>4. Holder(Place(h), m, st, issued)
    BY <1>3, <2>1, <2>2 DEF Holder
  <2>5. Core'
    <3>1. Counts
      BY <1>1, <1>2, <1>4, <1>5, <1>6, Kept
    <3>2. /\ disk' # NoSession => Sound(disk', issued')
      BY <1>2, <2>1, <2>3
    <3>3. st \in [kind: Kinds, tok: 0 .. issued'] /\ Holder(Place(h)', m, st, issued')
      BY <1>2, <1>5, <2>2, <2>4
    <3>4. tx' \in {"none", "read", "refresh"}
      BY <1>1, <1>2, CoreFacts
    <3> QED
      BY <1>1, <1>2, <2>3, <3>1, <3>2, <3>3, <3>4, CoreHolder
  <2>6. NewInv'
    <3> SUFFICES ASSUME NEW k \in Holders, Saving(k)'
                 PROVE  /\ step'[k].tok # 0 /\ step'[k].tok \notin spent'
                        /\ Spares(disk', step'[k].tok)
                        /\ (op'.at # "none" => Spares(op'.prev, step'[k].tok))
                        /\ \A j \in Holders :
                             /\ Spares(copy'[j], step'[k].tok)
                             /\ j # k /\ Saving(j)' => step'[j].tok # step'[k].tok
      BY DEF NewInv
    <3>1. k # h /\ Saving(k) /\ step'[k] = step[k]
      BY <2>2, <2>a DEF Saving
    <3>2. Spares(m, step[k].tok)
      BY <1>3, <2>1, <2>a, <3>1 DEF Ind, NewInv, Spares
    <3>3. \A j \in Holders : Saving(j)' => Saving(j) /\ step'[j] = step[j]
      BY <2>2, <2>a DEF Saving
    <3> QED
      BY <1>2, <2>3, <2>a, <3>1, <3>2, <3>3 DEF Ind, NewInv
  <2>7. ASSUME ~raced' PROVE RefreshInv'
    <3>1. RefreshInv /\ disk = copy[h] /\ ~raced
      BY <1>2, <2>7 DEF Ind
    <3>2. /\ ~Restorable /\ copy[h].rt \notin spent
          /\ \A k \in Holders : Pending(copy[k], step[k]) => copy[k].tok # copy[h].tok
      BY <1>2, <3>1, Alone
    <3>3. ~Restorable' /\ Refused(m) /\ Usable(m, spent)
      BY <1>2, <2>1, <3>2 DEF Restorable, Refused, Usable
    <3>4. \A k \in Holders \ {h} :
            /\ Clear(m, copy[k], step[k], spent)
            /\ step[k].kind \in {"document", "mark"} => ~Refused(copy[k])
            /\ \A j \in Holders \ {k} :
                 Pending(copy[k], step[k]) /\ Pending(copy[j], step[j]) => copy[j].tok # copy[k].tok
      BY <2>1, <3>1, <3>2 DEF RefreshInv, Clear
    <3>5. Clear(m, m, st, spent)
      BY <2>1, <2>2, <3>2, <3>3 DEF Clear
    <3>6. \A k \in Holders :
            /\ Clear(m, copy'[k], step'[k], spent)
            /\ step'[k].kind \in {"document", "mark"} => ~Refused(copy'[k])
      BY <2>2, <2>a, <3>4, <3>5
    <3>7. \A k \in Holders : \A j \in Holders \ {k} :
            Pending(copy'[k], step'[k]) /\ Pending(copy'[j], step'[j]) => copy'[j].tok # copy'[k].tok
      BY <2>1, <2>a, <3>2, <3>4
    <3> QED
      BY <1>2, <2>3, <3>3, <3>6, <3>7 DEF RefreshInv
  <2>8. RefreshTokenNotReused'
    BY <1>2, <1>5 DEF Ind, RefreshTokenNotReused
  <2> QED
    BY <2>5, <2>6, <2>7, <2>8 DEF Ind
<1>7. CASE /\ faults < MaxFaults /\ faults' = faults + 1
           /\ step' = [step EXCEPT ![h].kind = "refused"] /\ UNCHANGED <<disk, copy>>
  <2> DEFINE st == [step[h] EXCEPT !.kind = "refused"]
  <2>1. st \in [kind: Kinds, tok: 0 .. issued] /\ st.kind = "refused" /\ step' = [step EXCEPT ![h] = st]
    BY <1>3, <1>7 DEF Kinds
  <2> HIDE DEF st
  <2>2. Holder(Place(h), copy[h], st, issued)
    BY <1>3, <2>1 DEF Holder, Sending
  <2>3. faults' \in 0 .. MaxFaults
    BY <1>4, <1>7
  <2>4. Core'
    <3>1. Counts
      BY <1>1, <1>2, <1>5, <2>3, Kept
    <3>2. /\ disk' # NoSession => Sound(disk', issued')
      BY <1>2, <1>4, <1>7
    <3>3. st \in [kind: Kinds, tok: 0 .. issued'] /\ Holder(Place(h)', copy[h], st, issued')
      BY <1>2, <1>5, <2>1, <2>2
    <3>4. tx' \in {"none", "read", "refresh"} /\ copy' = [copy EXCEPT ![h] = copy[h]]
      BY <1>1, <1>2, <1>4, <1>7, CoreFacts
    <3> QED
      BY <1>1, <1>2, <2>1, <3>1, <3>2, <3>3, <3>4, CoreHolder
  <2>5. ASSUME NEW k \in Holders PROVE Quiet(k)
    <3>1. CASE k = h
      <4>1. step'[k] = st /\ copy'[k] = copy[k]
        BY <1>4, <1>7, <2>1, <3>1
      <4>2. raced' \/ ~Refused(copy[k])
        BY <1>2, <3>1, Alone
      <4> QED
        BY <2>1, <4>1, <4>2 DEF Quiet
    <3>2. CASE k # h
      BY <1>4, <1>7, <2>1, <3>2 DEF Quiet
    <3> QED
      BY <3>1, <3>2
  <2> QED
    BY <1>2, <1>5, <1>7, <2>4, <2>5, StoredStays
<1> QED
  BY <1>6, <1>7 DEF MarkRefreshInFlight

\* The refresh token that is sent was not rotated away, unless somebody races.
LEMMA SendStep ==
  ASSUME Ind, NEW h \in Holders, Send(h)
  PROVE  Ind'
<1>1. Core
  BY DEF Ind
<1>2. /\ step[h].kind = "send" /\ raced' = (raced \/ disk # copy[h])
      /\ reused' = (reused \/ copy[h].rt \in spent)
      /\ UNCHANGED <<dep, disk, pc, tx, copy, op, faults>>
  BY DEF Send, Races
<1>3. /\ Place(h) \in {"refresh", "refreshing"} /\ Place(h) \in Holding
      /\ Sound(copy[h], issued) /\ copy[h].tok # 0 /\ copy[h].rt # 0 /\ copy[h] # NoSession
      /\ copy[h].mark = "uncertain" /\ issued \in Nat /\ copy[h].rt \in 0 .. issued
  BY <1>2, Refreshing, SessionFacts DEF Sending
<1>4. /\ step \in [Holders -> [kind: Kinds, tok: 0 .. issued]] /\ copy = [k \in Holders |-> copy[k]]
      /\ faults \in 0 .. MaxFaults /\ raced \in BOOLEAN /\ MaxTokens \in Nat /\ issued \in 0 .. MaxTokens
      /\ spent \subseteq 1 .. issued /\ (disk # NoSession => Sound(disk, issued))
  BY <1>1, CoreFacts
<1>5. Place(h)' = Place(h) /\ raced' \in BOOLEAN /\ (raced => raced')
  BY <1>2, <1>4 DEF Place
<1>6. PICK kind \in {"rotated", "kept", "ambiguous", "invalid_grant", "limited", "refused"}, t \in 0 .. issued' :
        /\ step' = [step EXCEPT ![h] = [kind |-> kind, tok |-> t]]
        /\ issued' \in {issued, issued + 1} /\ issued' <= MaxTokens
        /\ kind \in {"rotated", "kept"} => t = issued + 1 /\ issued' = issued + 1 /\ copy[h].rt \notin spent
        /\ spent' \in {spent, spent \cup {copy[h].rt}}
        /\ kind \notin {"rotated", "ambiguous"} => spent' = spent
  <2>1. CASE /\ copy[h].rt \notin spent /\ issued < MaxTokens /\ issued' = issued + 1
             /\ \/ /\ step' = [step EXCEPT ![h] = [kind |-> "rotated", tok |-> issued']]
                   /\ spent' = spent \cup {copy[h].rt}
                \/ /\ step' = [step EXCEPT ![h] = [kind |-> "kept", tok |-> issued']]
                   /\ UNCHANGED spent
    BY <1>4, <2>1
  <2>2. CASE /\ step' = [step EXCEPT ![h] = [kind |-> "ambiguous", tok |-> 0]]
             /\ UNCHANGED issued /\ spent' \in {spent, spent \cup {copy[h].rt}}
    <3>1. issued' \in {issued, issued + 1} /\ 0 \in 0 .. issued' /\ issued' <= MaxTokens
      BY <1>4, <2>2
    <3> QED
      BY <2>2, <3>1
  <2>3. CASE \E kind \in {"invalid_grant", "limited", "refused"} :
               step' = [step EXCEPT ![h] = [kind |-> kind, tok |-> 0]] /\ UNCHANGED <<issued, spent>>
    <3>1. issued' \in {issued, issued + 1} /\ 0 \in 0 .. issued' /\ issued' <= MaxTokens
      BY <1>4, <2>3
    <3>2. spent' \in {spent, spent \cup {copy[h].rt}} /\ spent' = spent
      BY <2>3
    <3> QED
      BY <2>3, <3>1, <3>2
  <2> QED
    BY <2>1, <2>2, <2>3 DEF Send
<1> DEFINE st == [kind |-> kind, tok |-> t]
<1>7. /\ st.kind = kind /\ st.tok = t /\ st \in [kind: Kinds, tok: 0 .. issued']
      /\ step' = [step EXCEPT ![h] = st]
  BY <1>6 DEF Kinds
<1> HIDE DEF st
<1>8. step'[h] = st /\ \A k \in Holders \ {h} : step'[k] = step[k]
  BY <1>4, <1>7
<1>9. issued' \in Nat /\ issued <= issued' /\ issued' \in issued .. MaxTokens /\ spent' \subseteq 1 .. issued'
  BY <1>3, <1>4, <1>6
<1>10. Core'
  <2>1. Counts
    BY <1>1, <1>2, <1>4, <1>5, <1>9 DEF Counts
  <2>2. disk' # NoSession => Sound(disk', issued')
    BY <1>2, <1>3, <1>4, <1>9, SessionLasts
  <2>3. Holder(Place(h)', copy[h], st, issued')
    <3>1. Sound(copy[h], issued')
      BY <1>3, <1>9, SessionLasts
    <3>2. st.kind # "none"
      BY <1>6, <1>7
    <3> QED
      BY <1>3, <1>5, <3>1, <3>2 DEF Holder
  <2>4. tx' \in {"none", "read", "refresh"} /\ copy' = [copy EXCEPT ![h] = copy[h]]
    BY <1>1, <1>2, <1>4, CoreFacts
  <2> QED
    BY <1>1, <1>2, <1>7, <2>1, <2>2, <2>3, <2>4, CoreHolder
<1>11. ASSUME NEW s, s # NoSession, Sound(s, issued)
       PROVE  s.tok \in 0 .. issued /\ s.rt \in 0 .. issued
  BY <1>3, <1>11, SessionFacts
<1>12. NewInv'
  <2> SUFFICES ASSUME NEW k \in Holders, Saving(k)'
               PROVE  /\ step'[k].tok # 0 /\ step'[k].tok \notin spent'
                      /\ Spares(disk', step'[k].tok)
                      /\ (op'.at # "none" => Spares(op'.prev, step'[k].tok))
                      /\ \A j \in Holders :
                           /\ Spares(copy'[j], step'[k].tok)
                           /\ j # k /\ Saving(j)' => step'[j].tok # step'[k].tok
    BY DEF NewInv
  <2>1. CASE k # h
    <3>1. Saving(k) /\ step'[k] = step[k] /\ step[k].tok \in 0 .. issued
      BY <1>4, <1>8, <2>1 DEF Saving
    <3>2. step[k].tok \notin spent'
      BY <1>3, <1>6, <3>1 DEF Ind, NewInv, Spares
    <3>3. ASSUME NEW j \in Holders, j # k, Saving(j)' PROVE step'[j].tok # step[k].tok
      <4>1. CASE j = h
        BY <1>3, <1>6, <1>7, <1>8, <3>1, <3>3, <4>1 DEF Saving
      <4>2. CASE j # h
        BY <1>8, <3>1, <3>3, <4>2 DEF Ind, NewInv, Saving
      <4> QED
        BY <4>1, <4>2
    <3> QED
      BY <1>2, <3>1, <3>2, <3>3 DEF Ind, NewInv
  <2>2. CASE k = h
    <3>1. step'[k].tok = issued + 1 /\ issued' = issued + 1
      BY <1>6, <1>7, <1>8, <2>2 DEF Saving
    <3>2. issued + 1 # 0 /\ issued + 1 \notin spent' /\ issued + 1 \notin 0 .. issued
      BY <1>3, <1>4, <1>6
    <3>3. ASSUME NEW s, Sound(s, issued) PROVE Spares(s, issued + 1)
      BY <1>11, <3>2, <3>3 DEF Spares
    <3>4. Spares(NoSession, issued + 1)
      BY DEF Spares
    <3>5. ASSUME NEW j \in Holders PROVE Spares(copy'[j], issued + 1)
      <4>1. copy[j] = NoSession \/ Sound(copy[j], issued)
        BY <1>1, CoreFacts DEF Holder
      <4> QED
        BY <1>2, <3>3, <3>4, <4>1
    <3>6. op'.at # "none" => Spares(op'.prev, issued + 1)
      BY <1>1, <1>2, <3>3, <3>4 DEF Core, OpInv
    <3>7. Spares(disk', issued + 1)
      BY <1>2, <1>4, <3>3, <3>4
    <3>8. ASSUME NEW j \in Holders, j # h PROVE step'[j].tok # issued + 1
      BY <1>3, <1>4, <1>8, <3>2, <3>8
    <3> QED
      BY <2>2, <3>1, <3>2, <3>5, <3>6, <3>7, <3>8
  <2> QED
    BY <2>1, <2>2
<1>13. ASSUME ~raced' PROVE RefreshInv' /\ copy[h].rt \notin spent
  <2>1. RefreshInv /\ disk = copy[h] /\ ~raced
    BY <1>2, <1>13 DEF Ind
  <2>2. Pending(copy[h], step[h])
    BY <1>2, <1>3 DEF Pending
  <2>3. /\ ~Restorable /\ copy[h].rt \notin spent
        /\ \A k \in Holders \ {h} : Pending(copy[k], step[k]) => copy[k].tok # copy[h].tok
    BY <1>2, <2>1, <2>2, Alone
  <2>4. ~Restorable' /\ Refused(disk) /\ Usable(disk, spent')
    BY <1>2, <1>3, <2>1, <2>3 DEF Restorable, Refused, Usable
  <2>5. \A k \in Holders \ {h} :
          /\ Clear(disk, copy[k], step[k], spent')
          /\ step[k].kind \in {"document", "mark"} => ~Refused(copy[k])
    BY <2>1, <2>3 DEF RefreshInv, Clear
  <2>6. Clear(disk, copy[h], st, spent') /\ st.kind \notin {"document", "mark"}
    <3>1. kind \notin {"rotated", "ambiguous"} => copy[h].rt \notin spent'
      BY <1>6, <2>3
    <3> QED
      BY <1>6, <1>7, <2>4, <3>1 DEF Clear
  <2>7. \A k \in Holders :
          /\ Clear(disk, copy[k], step'[k], spent')
          /\ step'[k].kind \in {"document", "mark"} => ~Refused(copy[k])
    BY <1>8, <2>5, <2>6
  <2>8. \A k \in Holders : Pending(copy[k], step'[k]) => Pending(copy[k], step[k])
    BY <1>8, <2>2
  <2>9. \A k \in Holders : \A j \in Holders \ {k} :
          Pending(copy[k], step'[k]) /\ Pending(copy[j], step'[j]) => copy[j].tok # copy[k].tok
    BY <2>1, <2>8 DEF RefreshInv
  <2> QED
    BY <1>2, <2>3, <2>4, <2>7, <2>9 DEF RefreshInv
<1>14. RefreshTokenNotReused'
  BY <1>2, <1>5, <1>13 DEF Ind, RefreshTokenNotReused
<1> QED
  BY <1>10, <1>12, <1>13, <1>14 DEF Ind

\* A holder's refresh is over: everyone else is left alone.
LEMMA SettleIsQuiet ==
  ASSUME Core, NEW h \in Holders, NEW ok \in BOOLEAN, Settle(h, ok)
  PROVE  /\ \A k \in Holders : Quiet(k)
         /\ step'[h].kind = "none" /\ \A k \in Holders \ {h} : step'[k] = step[k]
<1>1. /\ step \in [Holders -> [kind: Kinds, tok: 0 .. issued]] /\ copy = [k \in Holders |-> copy[k]]
      /\ step' = [step EXCEPT ![h] = Idle] /\ Idle.kind = "none"
  BY CoreFacts DEF Settle, Idle
<1>2. copy' = [copy EXCEPT ![h] = NoSession]
  BY DEF Settle, TxEnds, Leave
<1>3. ASSUME NEW k \in Holders PROVE Quiet(k)
  <2>1. CASE k = h
    <3>1. step'[k].kind = "none" /\ copy'[k] = NoSession
      BY <1>1, <1>2, <2>1
    <3> QED
      BY <3>1 DEF Quiet
  <2>2. CASE k # h
    BY <1>1, <1>2, <2>2 DEF Quiet
  <2> QED
    BY <2>1, <2>2
<1> QED
  BY <1>1, <1>3

LEMMA FailsStep ==
  ASSUME Ind, NEW h \in Holders, RefreshFails(h)
  PROVE  Ind'
<1> DEFINE kind == step[h].kind
           d == TokenFailure(copy[h], kind)
<1>1. Core
  BY DEF Ind
<1>2. /\ kind \in {"ambiguous", "invalid_grant", "limited", "refused"}
      /\ raced' = (raced \/ disk # copy[h])
      /\ Write(d) /\ Settle(h, FALSE) /\ UNCHANGED <<dep, op, issued, spent, reused>>
  BY DEF RefreshFails, Races, server
<1>3. /\ Place(h) \in Holding
      /\ Sound(copy[h], issued) /\ copy[h].tok # 0 /\ copy[h] # NoSession /\ issued \in Nat
      /\ kind # "refused" => copy[h].mark = "uncertain"
  BY <1>2, Refreshing DEF Sending
<1>4. /\ Sound(d, issued) /\ d.tok = copy[h].tok /\ d.rt = copy[h].rt
      /\ kind = "ambiguous" => d.mark = "uncertain"
      /\ d.reauth <=> copy[h].reauth \/ kind = "invalid_grant"
  BY <1>3, FailureIs
<1> HIDE DEF d
<1>5. disk' \in {disk, d} /\ faults' \in 0 .. MaxFaults
  BY <1>1, <1>2, Written
<1>6. Core'
  <2>1. raced' \in BOOLEAN
    BY <1>1, <1>2, CoreFacts
  <2>2. disk' # NoSession => Sound(disk', issued)
    BY <1>1, <1>4, <1>5, CoreFacts
  <2>3. Counts
    BY <1>1, <1>2, <1>5, <2>1, Kept
  <2> QED
    BY <1>1, <1>2, <2>2, <2>3, CoreSettles
<1>7. \A k \in Holders : Quiet(k) /\ (k # h => step'[k] = step[k])
  BY <1>1, <1>2, SettleIsQuiet
<1>8. step'[h] # step[h]
  BY <1>1, <1>2, SettleIsQuiet
<1>9. ASSUME ~raced'
      PROVE  /\ Usable(d, spent)
             /\ \A k \in Holders :
                  Pending(copy[k], step[k]) /\ step'[k] = step[k] /\ copy[k].tok = copy[h].tok => Refused(d)
  <2>1. RefreshInv /\ disk = copy[h] /\ ~raced
    BY <1>2, <1>9 DEF Ind
  <2>2. CASE copy[h].mark = "uncertain"
    <3>1. Pending(copy[h], step[h])
      BY <1>2, <2>2 DEF Pending
    <3>2. /\ kind # "ambiguous" => copy[h].rt \notin spent
          /\ \A k \in Holders \ {h} : Pending(copy[k], step[k]) => copy[k].tok # copy[h].tok
      BY <1>2, <2>1, <3>1, Alone
    <3> QED
      BY <1>4, <1>8, <3>2 DEF Usable, Refused
  <2>3. CASE copy[h].mark # "uncertain"
    <3>1. Refused(copy[h]) => Refused(d)
      BY <1>3, <1>4, <2>3 DEF Refused, HasTokens
    <3>2. ~Refused(copy[h]) => copy[h].rt \notin spent
      BY <2>1 DEF RefreshInv, Usable
    <3>3. \A k \in Holders : Pending(copy[k], step[k]) /\ copy[k].tok = copy[h].tok => Refused(copy[h])
      BY <1>3, <2>1 DEF RefreshInv, Clear
    <3> QED
      BY <1>4, <3>1, <3>2, <3>3 DEF Usable
  <2> QED
    BY <2>2, <2>3
<1> QED
  BY <1>2, <1>3, <1>4, <1>5, <1>6, <1>7, <1>9, EndsWith

LEMMA SucceedsStep ==
  ASSUME Ind, NEW h \in Holders, RefreshSucceeds(h)
  PROVE  Ind'
<1> DEFINE s == SaveTokens(copy[h], step[h])
           f == TokenFailure(s, "ambiguous")
           t == step[h].tok
<1>1. Core
  BY DEF Ind
<1>2. /\ Saving(h) /\ raced' = (raced \/ disk # copy[h])
      /\ UNCHANGED <<dep, op, issued, spent, reused>> /\ disk' \in {disk, s, f}
      /\ \E ok \in BOOLEAN : Settle(h, ok)
      /\ faults' = faults \/ (faults < MaxFaults /\ faults' = faults + 1)
  BY DEF RefreshSucceeds, Races, server, Saving, Wrote
<1>3. step[h].kind \in {"rotated", "kept"}
  BY <1>2 DEF Saving
<1>4. /\ Sound(copy[h], issued) /\ copy[h].tok # 0 /\ copy[h] # NoSession /\ copy[h].mark = "uncertain"
      /\ step[h] \in [kind: Kinds, tok: 0 .. issued] /\ issued \in Nat
  BY <1>3, Refreshing DEF Sending
<1>5. /\ t # 0 /\ t \notin spent
      /\ \A k \in Holders : Spares(copy[k], t) /\ (k # h /\ Saving(k) => step[k].tok # t)
  BY <1>2 DEF Ind, NewInv
<1>6. /\ Sound(s, issued) /\ s.tok = t /\ s.rt = IF step[h].kind = "rotated" THEN t ELSE copy[h].rt
  BY <1>4, <1>5, SavedIs
<1> HIDE DEF s
<1>7. Sound(f, issued) /\ f.tok = t /\ f.rt = s.rt
  BY <1>4, <1>5, <1>6, FailureIs
<1> HIDE DEF f
<1>8. PICK ok \in BOOLEAN : Settle(h, ok)
  BY <1>2
<1>9. /\ \A k \in Holders : Quiet(k) /\ (k # h => step'[k] = step[k])
      /\ step'[h].kind = "none"
  BY <1>1, <1>8, SettleIsQuiet
<1>10. faults' \in 0 .. MaxFaults /\ raced' \in BOOLEAN /\ (raced => raced')
  <2>1. faults \in 0 .. MaxFaults /\ MaxFaults \in Nat /\ raced \in BOOLEAN
    BY <1>1, CoreFacts
  <2>2. faults' \in 0 .. MaxFaults
    BY <1>2, <2>1
  <2>3. raced' \in BOOLEAN /\ (raced => raced')
    BY <1>2, <2>1
  <2> QED
    BY <2>2, <2>3
<1>11. Core'
  <2>1. disk' # NoSession => Sound(disk', issued)
    BY <1>1, <1>2, <1>6, <1>7, CoreFacts
  <2>2. Counts
    BY <1>1, <1>2, <1>10, Kept
  <2> QED
    BY <1>1, <1>2, <1>8, <2>1, <2>2, CoreSettles
<1>12. CASE disk' = disk
  BY <1>2, <1>9, <1>10, <1>11, <1>12, StoredStays
<1>13. CASE disk' \in {s, f}
  <2>1. disk'.tok = t /\ disk'.rt = s.rt /\ disk' # NoSession
    BY <1>6, <1>7, <1>13, SomeSession
  <2>2. NewInv'
    <3>1. ASSUME NEW k \in Holders, Saving(k)' PROVE Spares(disk', step[k].tok)
      <4>1. k # h /\ Saving(k) /\ step[k].tok # t
        BY <1>5, <1>9, <3>1 DEF Saving
      <4>2. Spares(copy[h], step[k].tok)
        BY <4>1 DEF Ind, NewInv
      <4> QED
        BY <1>4, <1>6, <2>1, <4>1, <4>2 DEF Spares
    <3>2. NewInv /\ \A k \in Holders : Quiet(k)
      BY <1>9 DEF Ind
    <3> QED
      BY <1>2, <3>1, <3>2, NewStays
  <2>3. ASSUME ~raced' PROVE RefreshInv'
    <3>1. RefreshInv /\ disk = copy[h] /\ ~raced
      BY <1>2, <2>3 DEF Ind
    <3>2. Pending(copy[h], step[h])
      BY <1>3, <1>4 DEF Pending
    <3>3. ~Restorable /\ (step[h].kind = "kept" => copy[h].rt \notin spent)
      BY <1>3, <3>1, <3>2, Alone
    <3>4. Usable(disk', spent) /\ ~Restorable'
      BY <1>2, <1>3, <1>5, <1>6, <2>1, <3>3 DEF Usable, Restorable
    <3>5. ASSUME NEW k \in Holders, step'[k] = step[k], copy'[k] = copy[k]
          PROVE  Clear(disk', copy[k], step[k], spent)
      <4>1. k # h /\ Spares(copy[k], t)
        BY <1>3, <1>5, <1>9, <3>5
      <4>2. step[k].kind = "none" \/ copy[k] # NoSession
        BY <4>1, Refreshing
      <4> QED
        BY <2>1, <4>1, <4>2 DEF Clear, Pending, Spares
    <3> QED
      BY <1>1, <1>2, <1>9, <2>3, <3>1, <3>4, <3>5, RefreshStays
  <2> QED
    BY <1>2, <1>10, <1>11, <2>2, <2>3 DEF Ind, RefreshTokenNotReused
<1> QED
  BY <1>2, <1>12, <1>13

-----------------------------------------------------------------------------
\* The daemon does nothing while a command does: commands are frames.
LEMMA OperatorCore ==
  ASSUME Core, UNCHANGED <<dep, pc, tx, copy, step>>,
         issued' \in issued .. MaxTokens, spent' \subseteq 1 .. issued',
         faults' \in 0 .. MaxFaults, raced' \in BOOLEAN,
         disk' # NoSession => Sound(disk', issued'), OpInv'
  PROVE  Core'
<1>1. Counts
  BY DEF Counts
<1> QED
  BY <1>1, CoreUnmoved

LEMMA Unmoved ==
  ASSUME UNCHANGED <<copy, step>>
  PROVE  \A h \in Holders : Quiet(h)
  BY DEF Quiet

\* A command starts with what the file holds.
LEMMA CommandStep ==
  ASSUME Ind, NEW req \in Requests,
         Status(req) \/ Logout(req) \/ \E srv \in Servers : Login(req, srv)
  PROVE  Ind'
<1>1. Core
  BY DEF Ind
<1>2. UNCHANGED <<dep, disk, pc, tx, copy, step, issued, spent, reused, faults, raced>>
  BY DEF Status, Logout, Login, Command, server
<1>3. /\ issued \in Nat /\ issued \in 0 .. MaxTokens /\ MaxTokens \in Nat /\ spent \subseteq 1 .. issued
      /\ faults \in 0 .. MaxFaults /\ raced \in BOOLEAN /\ (disk # NoSession => Sound(disk, issued))
  BY <1>1, CoreFacts
<1>4. op'.at \in {"login", "flag", "revoke"} /\ op'.prev = disk /\ OpInv'
  <2>1. CASE Status(req)
    <3> DEFINE q == [disk EXCEPT !.reauth = TRUE]
    <3>1. HasTokens(disk) /\ op' = [at |-> "flag", prev |-> disk, session |-> q]
      BY <2>1 DEF Status
    <3> HIDE DEF q
    <3>2. op'.at = "flag" /\ op'.prev = disk /\ op'.session = q
      BY <3>1
    <3>3. OpInv'
      BY <1>2, <1>3, <3>1, <3>2 DEF OpInv, Logins, HasTokens, q
    <3> QED
      BY <3>2, <3>3
  <2>2. CASE Logout(req)
    <3>1. op' = [at |-> "revoke", prev |-> disk]
      BY <2>2 DEF Logout
    <3>2. op'.at = "revoke" /\ op'.prev = disk
      BY <3>1
    <3> QED
      BY <1>2, <1>3, <3>2 DEF OpInv, Logins
  <2>3. CASE \E srv \in Servers : Login(req, srv)
    <3>1. PICK srv \in Servers : Login(req, srv)
      BY <2>3
    <3> DEFINE s == Attempt(req, ClientMode(req.client, srv), RequestedScopes(req, srv, disk))
    <3>2. op' = [at |-> "login", prev |-> disk, session |-> s]
      BY <3>1 DEF Login
    <3>3. ClientMode(req.client, srv) \in {"static", "cimd", "dynamic"}
      BY <3>1 DEF Login, ClientMode
    <3>4. Sound(s, issued) /\ s.tok = 0
      BY <1>3, <3>3, AttemptIs
    <3> HIDE DEF s
    <3>5. op'.at = "login" /\ op'.prev = disk /\ op'.session = s
      BY <3>2
    <3>6. OpInv'
      BY <1>2, <1>3, <3>2, <3>4, <3>5 DEF OpInv, Logins
    <3> QED
      BY <3>5, <3>6
  <2> QED
    BY <2>1, <2>2, <2>3
<1>5. Core'
  BY <1>1, <1>2, <1>3, <1>4, OperatorCore
<1> QED
  BY <1>2, <1>4, <1>5, Unmoved, StoredStays

\* What a command holds, and what it leaves behind
LEMMA OpFacts ==
  ASSUME Ind
  PROVE  /\ op.at \in Logins =>
              /\ op = [at |-> op.at, prev |-> op.prev, session |-> op.session]
              /\ op.prev # NoSession => Sound(op.prev, issued)
              /\ Sound(op.session, issued) /\ op.session.tok = 0 /\ op.session.rt = 0
              /\ op.session # NoSession
         /\ op.at # "none" /\ op.prev # NoSession => Sound(op.prev, issued)
         /\ op.at = "flag" =>
              HasTokens(op.prev) /\ op.session = [op.prev EXCEPT !.reauth = TRUE]
         /\ issued \in Nat /\ issued \in 0 .. MaxTokens /\ MaxTokens \in Nat /\ spent \subseteq 1 .. issued
         /\ faults \in 0 .. MaxFaults /\ MaxFaults \in Nat /\ raced \in BOOLEAN
         /\ disk # NoSession => Sound(disk, issued)
<1>1. Core
  BY DEF Ind
<1>2. issued \in Nat
  BY <1>1, CoreFacts
<1>3. op.at \in Logins => Sound(op.session, issued) /\ op.session.tok = 0
  BY <1>1 DEF Core, OpInv
<1>4. op.at \in Logins => op.session.rt = 0 /\ op.session # NoSession
  BY <1>2, <1>3, SessionFacts, SomeSession
<1> QED
  BY <1>1, <1>3, <1>4, CoreFacts DEF Core, OpInv, Logins

\* A session without tokens is nothing a refresh could be of.
LEMMA Tokenless ==
  ASSUME Ind, NEW s, s = NoSession \/ s.tok = 0
  PROVE  /\ \A gone : Usable(s, gone)
         /\ \A h \in Holders : \A gone : Clear(s, copy[h], step[h], gone)
<1>1. ASSUME NEW h \in Holders, NEW gone PROVE Clear(s, copy[h], step[h], gone)
  <2>1. step[h].kind # "none" => copy[h].tok # 0
    BY Refreshing
  <2> QED
    BY <2>1 DEF Clear, Pending
<1>2. ASSUME NEW gone PROVE Usable(s, gone)
  BY DEF Usable, Refused, HasTokens
<1> QED
  BY <1>1, <1>2

\* NewInv, when only the operator moves
LEMMA NewKept ==
  ASSUME NewInv, UNCHANGED <<copy, step>>,
         \A h \in Holders : Saving(h) =>
           /\ step[h].tok \notin spent' /\ Spares(disk', step[h].tok)
           /\ op'.at # "none" => Spares(op'.prev, step[h].tok)
  PROVE  NewInv'
  BY DEF NewInv, Saving

\* RefreshInv, when only the operator moves
LEMMA RefreshKept ==
  ASSUME RefreshInv, UNCHANGED <<copy, step>>, Usable(disk', spent'),
         Restorable' => disk' = op'.session /\ Usable(op'.prev, spent'),
         \A h \in Holders : Clear(disk', copy[h], step[h], spent'),
         Restorable' => \A h \in Holders : Clear(op'.prev, copy[h], step[h], spent')
  PROVE  RefreshInv'
  BY DEF RefreshInv

\* An attempt takes the place of what was stored, or is written again.
LEMMA AttemptStep ==
  ASSUME Ind, LoginWrites \/ Callback
  PROVE  Ind'
<1>1. Core /\ NewInv
  BY DEF Ind
<1>2. /\ op.at \in Logins /\ disk' = op.session
      /\ UNCHANGED <<dep, pc, tx, copy, step, issued, spent, reused, faults>>
      /\ op.at = "login" => raced' = (raced \/ disk # op.prev)
      /\ op.at # "login" => Restorable /\ raced' = (raced \/ disk # op.session)
  BY DEF LoginWrites, Callback, Wrote, OpKeeps, Races, Logins, Restorable
<1>3. op' = [op EXCEPT !.at = op'.at] /\ op'.at \in {"attempt", "consumed"}
  BY <1>2, OpFacts DEF LoginWrites, Callback
<1>4. op'.at \in Logins /\ op'.prev = op.prev /\ op'.session = op.session
      /\ op' = [at |-> op'.at, prev |-> op'.prev, session |-> op'.session]
  BY <1>2, <1>3, OpFacts DEF Logins
<1>5. /\ op.prev # NoSession => Sound(op.prev, issued)
      /\ Sound(op.session, issued) /\ op.session.tok = 0 /\ op.session.rt = 0
      /\ issued \in Nat /\ issued \in 0 .. MaxTokens /\ MaxTokens \in Nat
      /\ spent \subseteq 1 .. issued /\ faults \in 0 .. MaxFaults /\ raced \in BOOLEAN
  BY <1>2, OpFacts
<1>6. OpInv'
  BY <1>2, <1>4, <1>5 DEF OpInv, Logins
<1>7. raced' \in BOOLEAN /\ (raced => raced')
  BY <1>2, <1>5
<1>8. Core'
  BY <1>1, <1>2, <1>5, <1>6, <1>7, OperatorCore
<1>9. NewInv'
  <2>1. ASSUME NEW h \in Holders, Saving(h)
        PROVE  /\ step[h].tok \notin spent' /\ Spares(disk', step[h].tok)
               /\ op'.at # "none" => Spares(op'.prev, step[h].tok)
    <3>1. step[h].tok # 0 /\ step[h].tok \notin spent /\ (op.at # "none" => Spares(op.prev, step[h].tok))
      BY <1>1, <2>1 DEF NewInv
    <3> QED
      BY <1>2, <1>4, <1>5, <3>1 DEF Spares, Logins
  <2> QED
    BY <1>1, <1>2, <2>1, NewKept
<1>10. ASSUME ~raced' PROVE RefreshInv'
  <2>1. RefreshInv /\ ~raced
    BY <1>7, <1>10 DEF Ind
  <2>2. Usable(op.prev, spent) /\ \A h \in Holders : Clear(op.prev, copy[h], step[h], spent)
    BY <1>2, <1>10, <2>1 DEF RefreshInv
  <2>3. Usable(disk', spent) /\ \A h \in Holders : Clear(disk', copy[h], step[h], spent)
    BY <1>2, <1>5, Tokenless
  <2> QED
    BY <1>2, <1>4, <2>1, <2>2, <2>3, RefreshKept
<1> QED
  BY <1>2, <1>7, <1>8, <1>9, <1>10 DEF Ind, RefreshTokenNotReused

\* A login's tokens are new.
LEMMA CommitStep ==
  ASSUME Ind, NEW r \in BOOLEAN, LoginCommits(r)
  PROVE  Ind'
<1> DEFINE rt == IF r THEN issued' ELSE 0
<1>1. Core /\ NewInv
  BY DEF Ind
<1>2. /\ op.at = "consumed" /\ op' = NoCommand /\ issued' = issued + 1 /\ issued < MaxTokens
      /\ disk' = Committed(op.session, issued', rt)
      /\ UNCHANGED <<dep, pc, tx, copy, step, spent, reused, faults>>
      /\ raced' = (raced \/ disk # op.session)
  BY DEF LoginCommits, Wrote, OpKeeps, Races, Committed
<1>3. /\ Sound(op.session, issued) /\ op.session.tok = 0
      /\ issued \in Nat /\ issued \in 0 .. MaxTokens /\ MaxTokens \in Nat
      /\ spent \subseteq 1 .. issued /\ faults \in 0 .. MaxFaults /\ raced \in BOOLEAN
  BY <1>2, OpFacts DEF Logins
<1>4. issued' \in {issued + 1} /\ rt \in {0, issued + 1}
  BY <1>2
<1> HIDE DEF rt
<1>5. Sound(disk', issued') /\ disk'.rt = rt
  BY <1>2, <1>3, <1>4, CommittedIs
<1>6. disk'.tok = issued + 1
  <2>1. op.session \in [tok: {op.session.tok}, rt: {op.session.rt}, mark: {op.session.mark},
                        reauth: {op.session.reauth}, denied: {op.session.denied},
                        bound: {op.session.bound}, mode: {op.session.mode}, scopes: {op.session.scopes}]
    BY <1>3 DEF Sound, IsSession
  <2> QED
    BY <1>2, <2>1 DEF Committed
<1>7. issued' \in issued .. MaxTokens /\ spent' \subseteq 1 .. issued' /\ rt \notin spent
      /\ issued + 1 \notin 0 .. issued /\ 0 \notin spent
  BY <1>2, <1>3, <1>4
<1>8. raced' \in BOOLEAN /\ (raced => raced')
  BY <1>2, <1>3
<1>9. OpInv'
  BY <1>2 DEF OpInv, NoCommand, Logins
<1>10. Core'
  BY <1>1, <1>2, <1>3, <1>5, <1>7, <1>8, <1>9, OperatorCore
<1>11. NewInv'
  <2>1. ASSUME NEW h \in Holders, Saving(h)
        PROVE  /\ step[h].tok \notin spent' /\ Spares(disk', step[h].tok)
               /\ op'.at # "none" => Spares(op'.prev, step[h].tok)
    <3>1. step[h].tok # 0 /\ step[h].tok \notin spent
      BY <1>1, <2>1 DEF NewInv
    <3>2. step[h].tok \in 0 .. issued
      BY <1>1, CoreFacts
    <3>3. op'.at = "none"
      BY <1>2 DEF NoCommand
    <3> QED
      BY <1>2, <1>4, <1>5, <1>6, <1>7, <3>1, <3>2, <3>3 DEF Spares
  <2> QED
    BY <1>1, <1>2, <2>1, NewKept
<1>12. ASSUME ~raced' PROVE RefreshInv'
  <2>1. RefreshInv /\ ~raced /\ ~Restorable'
    BY <1>2, <1>8, <1>12 DEF Ind, Restorable, NoCommand
  <2>2. Usable(disk', spent')
    BY <1>2, <1>5, <1>7 DEF Usable
  <2>3. ASSUME NEW h \in Holders PROVE Clear(disk', copy[h], step[h], spent')
    <3>1. step[h].kind # "none" => copy[h].tok \in 0 .. issued
      BY <1>3, Refreshing, SessionFacts
    <3> QED
      BY <1>6, <1>7, <3>1 DEF Clear, Pending
  <2> QED
    BY <1>2, <2>1, <2>2, <2>3, RefreshKept
<1> QED
  BY <1>2, <1>8, <1>10, <1>11, <1>12 DEF Ind, RefreshTokenNotReused

\* A command that ends without a new session: what was stored stays or is put
\* back, or the file is gone.
LEMMA OverStep ==
  ASSUME Ind, LoginFails \/ LoginInterrupted \/ Revoke
  PROVE  Ind'
<1>1. Core /\ NewInv
  BY DEF Ind
<1>2. /\ op' = NoCommand /\ UNCHANGED <<dep, pc, tx, copy, step, issued, reused>>
      /\ op.at # "none"
      /\ \/ disk' = disk /\ spent' = spent /\ raced' = raced
         \/ /\ op.at \in {"attempt", "consumed"} /\ disk' = op.prev /\ spent' = spent
            /\ raced' = (raced \/ disk # op.session)
         \/ /\ disk' = NoSession /\ raced' = raced
            /\ spent' \in {spent, spent \cup (IF op.prev = NoSession THEN {} ELSE {op.prev.rt} \ {0})}
  BY DEF LoginFails, LoginInterrupted, Revoke, Wrote, OpKeeps, Races
<1>3. /\ issued \in Nat /\ issued \in 0 .. MaxTokens /\ MaxTokens \in Nat /\ MaxFaults \in Nat
      /\ spent \subseteq 1 .. issued /\ faults \in 0 .. MaxFaults /\ raced \in BOOLEAN
      /\ (op.prev # NoSession => Sound(op.prev, issued)) /\ (disk # NoSession => Sound(disk, issued))
  BY <1>2, OpFacts
<1>4. faults' \in 0 .. MaxFaults
  <2>1. faults' = faults \/ (faults < MaxFaults /\ faults' = faults + 1)
    BY DEF LoginFails, LoginInterrupted, Revoke, OpKeeps
  <2> QED
    BY <1>3, <2>1
<1>5. raced' \in BOOLEAN /\ (raced => raced')
  BY <1>2, <1>3
<1>6. OpInv' /\ op'.at = "none"
  BY <1>2 DEF OpInv, NoCommand, Logins
<1>7. spent' \subseteq 1 .. issued /\ spent \subseteq spent'
  <2>1. op.prev # NoSession => op.prev.rt \in 0 .. issued
    BY <1>3, SessionFacts
  <2>2. spent' = spent \/ spent' = spent \cup {} \/
          (op.prev # NoSession /\ spent' = spent \cup ({op.prev.rt} \ {0}))
    BY <1>2
  <2>3. op.prev # NoSession => {op.prev.rt} \ {0} \subseteq 1 .. issued
    BY <1>3, <2>1
  <2> QED
    BY <1>3, <2>2, <2>3
<1>8. Core'
  BY <1>1, <1>2, <1>3, <1>4, <1>5, <1>6, <1>7, OperatorCore
<1>9. NewInv'
  <2>1. ASSUME NEW h \in Holders, Saving(h)
        PROVE  /\ step[h].tok \notin spent' /\ Spares(disk', step[h].tok)
               /\ op'.at # "none" => Spares(op'.prev, step[h].tok)
    <3>1. step[h].tok \notin spent /\ Spares(op.prev, step[h].tok) /\ Spares(disk, step[h].tok)
      BY <1>1, <1>2, <2>1 DEF NewInv
    <3>2. Spares(NoSession, step[h].tok)
      BY DEF Spares
    <3>3. step[h].tok \notin spent'
      BY <1>2, <3>1 DEF Spares
    <3> QED
      BY <1>2, <1>6, <3>1, <3>2, <3>3
  <2> QED
    BY <1>1, <1>2, <2>1, NewKept
<1>10. ASSUME ~raced' PROVE RefreshInv'
  <2>1. RefreshInv /\ ~raced /\ ~Restorable'
    BY <1>5, <1>6, <1>10 DEF Ind, Restorable
  <2>2. Usable(disk', spent') /\ \A h \in Holders : Clear(disk', copy[h], step[h], spent')
    <3>1. CASE disk' = NoSession
      BY <3>1, Tokenless
    <3>2. CASE disk' # NoSession
      <4>1. spent' = spent /\ (disk' = disk \/ (Restorable /\ disk' = op.prev))
        BY <1>2, <3>2 DEF Restorable
      <4> QED
        BY <2>1, <4>1 DEF RefreshInv
    <3> QED
      BY <3>1, <3>2
  <2> QED
    BY <1>2, <2>1, <2>2, RefreshKept
<1> QED
  BY <1>2, <1>5, <1>8, <1>9, <1>10 DEF Ind, RefreshTokenNotReused

\* status flags a session that is bound differently.
LEMMA FlagStep ==
  ASSUME Ind, Flag
  PROVE  Ind'
<1>1. Core
  BY DEF Ind
<1>2. /\ op.at = "flag" /\ disk' = op.session /\ op' = NoCommand
      /\ UNCHANGED <<dep, pc, tx, copy, step, issued, spent, reused, faults>>
      /\ raced' = (raced \/ disk # op.prev)
  BY DEF Flag, Wrote, OpKeeps, Races
<1>3. /\ HasTokens(op.prev) /\ op.session = [op.prev EXCEPT !.reauth = TRUE]
      /\ Sound(op.prev, issued) /\ op.prev.tok # 0
      /\ issued \in Nat /\ issued \in 0 .. MaxTokens /\ MaxTokens \in Nat
      /\ spent \subseteq 1 .. issued /\ faults \in 0 .. MaxFaults /\ raced \in BOOLEAN
  BY <1>2, OpFacts DEF HasTokens
<1>4. /\ Sound(disk', issued) /\ disk'.tok = op.prev.tok /\ disk'.rt = op.prev.rt /\ disk'.reauth
  BY <1>2, <1>3, ReauthIs
<1>5. OpInv' /\ op'.at = "none"
  BY <1>2 DEF OpInv, NoCommand, Logins
<1>6. raced' \in BOOLEAN
  BY <1>2, <1>3
<1>7. Core'
  BY <1>1, <1>2, <1>3, <1>4, <1>5, <1>6, OperatorCore
<1>8. \A h \in Holders : Saving(h) => Spares(op.prev, step[h].tok)
  BY <1>2 DEF Ind, NewInv
<1>9. Usable(disk', spent) /\ Refused(disk')
  BY <1>4 DEF Usable, Refused
<1>10. \A h \in Holders : Quiet(h)
  BY <1>2, Unmoved
<1> QED
  BY <1>2, <1>3, <1>4, <1>5, <1>7, <1>8, <1>9, <1>10, WrittenBack

LEMMA CrashStep ==
  ASSUME Ind, Crash
  PROVE  Ind'
<1>1. Core
  BY DEF Ind
<1>2. /\ pc' = [c \in Calls |-> "idle"] /\ tx' = "none"
      /\ copy' = [h \in Holders |-> NoSession] /\ step' = [h \in Holders |-> Idle]
      /\ UNCHANGED <<dep, disk, op, issued, spent, reused, raced>>
      /\ faults < MaxFaults /\ faults' = faults + 1
  BY DEF Crash, server
<1>3. faults' \in 0 .. MaxFaults /\ raced' \in BOOLEAN
  BY <1>1, <1>2, CoreFacts
<1>4. Idle \in [kind: Kinds, tok: 0 .. issued] /\ Idle.kind = "none"
  BY <1>1, CoreFacts DEF Idle, Kinds
<1>5. ASSUME NEW h \in Holders PROVE Holder(Place(h)', copy'[h], step'[h], issued') /\ Quiet(h)
  <2>1. Place(h)' \in {"idle", "none"} /\ copy'[h] = NoSession /\ step'[h].kind = "none"
    BY <1>1, <1>2, <1>4, <1>5, CoreFacts DEF Place
  <2> QED
    BY <2>1, HoldsNothing DEF Holding, Quiet
<1>6. Core'
  <2>1. Counts /\ OpInv'
    BY <1>1, <1>2, <1>3, Kept, OpLasts
  <2>2. disk' # NoSession => Sound(disk', issued')
    BY <1>1, <1>2, CoreFacts
  <2>3. pc' \in [Calls -> Places] /\ copy' = [h \in Holders |-> copy'[h]]
        /\ step' \in [Holders -> [kind: Kinds, tok: 0 .. issued']]
    BY <1>2, <1>4 DEF Places
  <2> QED
    BY <1>1, <1>2, <1>5, <2>1, <2>2, <2>3, CoreStep
<1> QED
  BY <1>2, <1>5, <1>6, StoredStays

LEMMA AgesStep ==
  ASSUME Ind, UNCHANGED <<dep, disk, pc, tx, copy, step, op, issued, spent, reused, faults, raced>>
  PROVE  Ind'
<1>1. Core
  BY DEF Ind
<1>2. Core'
  BY <1>1 DEF Core, TypeOK, ScopesStayConfigured, OpInv, CopyInv, Place
<1> QED
  BY <1>2, Unmoved, StoredStays

-----------------------------------------------------------------------------
LEMMA InitInd ==
  ASSUME Init
  PROVE  Ind
<1>1. OAuthAssumption
  BY OAuthAssumption
<1>2. \A h \in Holders : copy[h] = NoSession /\ step[h].kind = "none" /\ Place(h) \notin Holding
  BY DEF Init, Idle, Place, Holders, Holding
<1>3. CopyInv
  BY <1>2, HoldsNothing DEF CopyInv
<1>4. TypeOK /\ ScopesStayConfigured
  <2>1. Idle \in [kind: Kinds, tok: 0 .. issued] /\ issued \in 0 .. MaxTokens /\ faults \in 0 .. MaxFaults
    BY <1>1 DEF Init, OAuthAssumption, Idle, Kinds
  <2>2. step \in [Holders -> [kind: Kinds, tok: 0 .. issued]] /\ copy = [h \in Holders |-> copy[h]]
    BY <2>1 DEF Init
  <2> QED
    BY <1>2, <2>1, <2>2 DEF Init, TypeOK, ScopesStayConfigured
<1>5. OpInv
  BY DEF Init, OpInv, NoCommand, Logins
<1>6. NewInv
  BY <1>2 DEF NewInv, Saving
<1>7. RefreshTokenNotReused
  BY DEF Init, RefreshTokenNotReused
<1>8. RefreshInv
  <2>1. Usable(disk, spent) /\ ~Restorable
    BY DEF Init, Usable, Restorable, NoCommand
  <2>2. \A h \in Holders : ~Pending(copy[h], step[h]) /\ step[h].kind = "none"
    BY <1>2 DEF Pending
  <2> QED
    BY <2>1, <2>2 DEF RefreshInv, Clear
<1> QED
  BY <1>3, <1>4, <1>5, <1>6, <1>7, <1>8 DEF Ind, Core

LEMMA NextInd ==
  ASSUME Ind, [Next]_vars
  PROVE  Ind'
<1>1. ASSUME NEW c \in Calls, Begin(c) \/ Prepares(c) \/ Dispatches(c) PROVE Ind'
  BY <1>1, CallsStep
<1>2. ASSUME NEW h \in Holders, Refreshes(h) PROVE Ind'
  BY <1>2, MarkStep, SendStep, SucceedsStep, FailsStep DEF Refreshes
<1>3. CASE Transaction
  BY <1>3, TxReadStep, DocumentStep DEF Transaction
<1>4. CASE Operates
  <2>1. CASE \E req \in Requests : Status(req) \/ Logout(req) \/ \E srv \in Servers : Login(req, srv)
    BY <2>1, CommandStep
  <2>2. CASE \E r \in BOOLEAN : LoginCommits(r)
    BY <2>2, CommitStep
  <2> QED
    BY <1>4, <2>1, <2>2, AttemptStep, OverStep, FlagStep DEF Operates
<1>5. CASE Crash
  BY <1>5, CrashStep
<1>6. CASE TokenAges \/ UNCHANGED vars
  BY <1>6, AgesStep DEF TokenAges, vars, server
<1> QED
  BY <1>1, <1>2, <1>3, <1>4, <1>5, <1>6 DEF Next

LEMMA OAuthInvariant == Spec => []Ind
  BY InitInd, NextInd, PTL DEF Spec

\* A stored session can be relied on: its types, no scope that its login did not
\* configure, and until somebody writes or sends a copy of the session that the
\* file no longer holds, or refreshes after a 401 one that was marked when it was
\* read, a refresh token that is good unless it is marked
\* (oauth-operator.ts: markRefreshInFlight, persistTokenFailure, restoreSession).
THEOREM StoredSessionIsReliable == Spec => []SessionInv
<1>1. Ind => SessionInv
  BY IndIs DEF OAuthInv
<1> QED
  BY <1>1, OAuthInvariant, PTL

\* "the old refresh token is never resent", whatever is lost, fails or stops,
\* until somebody writes or sends a copy of the session that the file no longer
\* holds, or refreshes after a 401 one that was marked when it was read
\* (oauth-operator.ts: prepareOAuthForDispatch, refreshOAuthSession).
THEOREM RotatedTokenIsNotSent == Spec => []RefreshTokenNotReused
<1>1. Ind => RefreshTokenNotReused
  BY DEF Ind
<1> QED
  BY <1>1, OAuthInvariant, PTL
=============================================================================
