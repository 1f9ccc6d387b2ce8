------------------------- MODULE VerifierRelayProofs -------------------------
(***************************************************************************)
(* Proofs about the Verifier's relay worker, for any number of Actions and *)
(* response bodies, any page size, any number of faults and polls.         *)
(*                                                                         *)
(* RelayInv is inductive as it stands.  ExactResubmission needs            *)
(* ResubmissionInv as well, and a state file that can be written.          *)
(***************************************************************************)
EXTENDS VerifierRelayWorker, FiniteSetTheorems, WellFoundedInduction, TLAPS

USE RelayConstants, WorkerConstants

-----------------------------------------------------------------------------
\* A set of numbers has a least element, and a bounded one a greatest.
LEMMA LeastElement ==
  ASSUME NEW S \in SUBSET Nat, S # {}
  PROVE  Min(S) \in S /\ \A y \in S : Min(S) <= y
<1> DEFINE Below == {z \in Nat \X Nat : z[1] < z[2]}
<1>1. IsWellFoundedOn(Below, Nat)
  BY NatLessThanWellFounded, Zenon DEF OpToRel
<1>2. PICK x \in S : \A y \in S : ~(<<y, x>> \in Below)
  BY <1>1, WFMin, Zenon
<1>3. ASSUME NEW y \in S PROVE x <= y
  <2>1. <<y, x>> \in Nat \X Nat /\ x \in Nat /\ y \in Nat
    OBVIOUS
  <2>2. ~(<<y, x>> \in Below)
    BY <1>2
  <2>3. ~(y < x)
    BY <2>1, <2>2
  <2> QED
    BY <2>1, <2>3
<1> QED
  BY <1>3 DEF Min

LEMMA GreatestElement ==
  ASSUME NEW n \in Nat, NEW S \in SUBSET (1 .. n), S # {}
  PROVE  Max(S) \in S /\ \A y \in S : y <= Max(S)
<1> DEFINE U == {u \in Nat : \A y \in S : y <= u}
<1>1. n \in U /\ U \in SUBSET Nat
  OBVIOUS
<1>2. Min(U) \in U /\ \A u \in U : Min(U) <= u
  BY <1>1, LeastElement
<1>3. Min(U) \in S
  <2> SUFFICES ASSUME Min(U) \notin S PROVE FALSE
    OBVIOUS
  <2>1. PICK z \in S : TRUE
    OBVIOUS
  <2>2. Min(U) \in Nat /\ z >= 1 /\ z <= Min(U)
    BY <1>2
  <2>3. Min(U) - 1 \in U
    BY <1>2, <2>2
  <2> QED
    BY <1>2, <2>2, <2>3
<1> HIDE DEF U
<1>4. \A y \in S : y <= Min(U)
  BY <1>2 DEF U
<1>5. \E x \in S : \A y \in S : x >= y
  BY <1>3, <1>4
<1> QED
  BY <1>5 DEF Max

-----------------------------------------------------------------------------
\* The page pollDeliveries answers: unexpired deliveries after the cursor, with
\* every unexpired delivery before each of them.
LEMMA ReadyFinite ==
  ASSUME RelayTypeOK, NEW cursor \in Nat, NEW i \in Nat
  PROVE  IsFiniteSet(Ready(cursor, i)) /\ Cardinality(Ready(cursor, i)) \in Nat
<1>1. Ready(cursor, i) \subseteq cursor + 1 .. i /\ IsFiniteSet(cursor + 1 .. i)
  BY FS_Interval DEF Ready
<1> QED
  BY <1>1, FS_Subset, FS_CardinalityType

LEMMA ReadyMonotone ==
  ASSUME RelayTypeOK, NEW cursor \in Nat, NEW i \in Nat, NEW T, T \subseteq Ready(cursor, i)
  PROVE  IsFiniteSet(T) /\ Cardinality(T) \in Nat /\ Cardinality(T) <= Cardinality(Ready(cursor, i))
  BY ReadyFinite, FS_Subset, FS_CardinalityType

LEMMA PageFacts ==
  ASSUME RelayTypeOK, NEW cursor \in 0 .. Len(log)
  PROVE  /\ PollDeliveries(cursor) \in SUBSET (1 .. Len(log))
         /\ \A m \in PollDeliveries(cursor) :
              /\ cursor < m /\ Live(m)
              /\ \A i \in cursor + 1 .. m : i \in PollDeliveries(cursor) \/ ~Live(i)
<1>0. Len(log) \in Nat
  BY DEF RelayTypeOK
<1>1. PollDeliveries(cursor) \in SUBSET (1 .. Len(log))
  BY <1>0 DEF PollDeliveries, Ready
<1>2. ASSUME NEW m \in PollDeliveries(cursor)
      PROVE  /\ cursor < m /\ Live(m)
             /\ \A i \in cursor + 1 .. m : i \in PollDeliveries(cursor) \/ ~Live(i)
  <2>1. /\ m \in cursor + 1 .. Len(log) /\ Live(m)
        /\ Cardinality(Ready(cursor, m)) <= PageSize
    BY DEF PollDeliveries, Ready
  <2>2. ASSUME NEW i \in cursor + 1 .. m, Live(i) PROVE i \in PollDeliveries(cursor)
    <3>1. i \in Nat /\ m \in Nat /\ i <= m /\ i \in cursor + 1 .. Len(log)
      BY <1>0, <2>1
    <3>2. Ready(cursor, i) \subseteq Ready(cursor, m)
      BY <1>0, <3>1 DEF Ready
    <3>3. Cardinality(Ready(cursor, i)) \in Nat /\ Cardinality(Ready(cursor, m)) \in Nat
      BY <1>0, <3>1, ReadyFinite
    <3>4. Cardinality(Ready(cursor, i)) <= Cardinality(Ready(cursor, m))
      BY <1>0, <3>1, <3>2, ReadyMonotone
    <3>5. Cardinality(Ready(cursor, i)) <= PageSize
      BY <2>1, <3>3, <3>4
    <3>6. i \in Ready(cursor, Len(log))
      BY <2>2, <3>1 DEF Ready
    <3> QED
      BY <3>5, <3>6 DEF PollDeliveries
  <2> QED
    BY <1>0, <2>1, <2>2
<1> QED
  BY <1>1, <1>2

-----------------------------------------------------------------------------
\* The relay only adds: deliveries stay where they are, what is settled or has
\* expired stays so.
RelayGrows ==
  /\ Len(log) <= Len(log')
  /\ \A i \in 1 .. Len(log) : log'[i] = log[i]
  /\ settled \subseteq settled'
  /\ late \subseteq late'

ConnStates == {"off", "connecting", "polling", "listening", "delay", "done"}

LEMMA AppendFacts ==
  ASSUME NEW S, NEW q \in Seq(S), NEW x \in S
  PROVE  /\ Append(q, x) \in Seq(S)
         /\ Len(Append(q, x)) = Len(q) + 1
         /\ \A i \in 1 .. Len(q) : Append(q, x)[i] = q[i]
         /\ Append(q, x)[Len(q) + 1] = x
  OBVIOUS

LEMMA TailFacts ==
  ASSUME NEW S, NEW q \in Seq(S), q # <<>>
  PROVE  /\ Tail(q) \in Seq(S) /\ Len(q) >= 1
         /\ Len(Tail(q)) = Len(q) - 1 /\ Len(Tail(q)) \in Nat
         /\ \A i \in 1 .. Len(Tail(q)) : Tail(q)[i] = q[i + 1]
         /\ Head(q) = q[1] /\ Head(q) \in S
  OBVIOUS

\* A drain leaves the chain; the connection loop goes on if it was its own.
LEMMA PopChain ==
  ASSUME TypeOK, ChainInv, queue # <<>>, queue' = Tail(queue), drain' = NoDrain,
         conn' \in ConnStates,
         IF Head(queue) = "connect" THEN conn' # "polling" ELSE conn' = conn
  PROVE  ChainInv' /\ queue' \in Seq(Callers) /\ Len(queue') <= MaxQueue + 1
<1>0. queue \in Seq(Callers) /\ Len(queue) <= MaxQueue + 1
  BY DEF TypeOK
<1>1. /\ queue' \in Seq(Callers) /\ Len(queue) >= 1 /\ Len(queue') = Len(queue) - 1
      /\ Len(queue) \in Nat
      /\ \A i \in 1 .. Len(queue') : queue'[i] = queue[i + 1]
      /\ Head(queue) = queue[1]
  BY <1>0, TailFacts
<1>2. \A i \in 1 .. Len(queue') : i + 1 \in 1 .. Len(queue) /\ i + 1 # 1
  BY <1>1
<1>3. \A i, j \in 1 .. Len(queue') :
        queue'[i] = "connect" /\ queue'[j] = "connect" => i = j
  <2> SUFFICES ASSUME NEW i \in 1 .. Len(queue'), NEW j \in 1 .. Len(queue'),
                      queue'[i] = "connect", queue'[j] = "connect"
               PROVE  i = j
    OBVIOUS
  <2>1. i + 1 = j + 1
    BY <1>1, <1>2 DEF ChainInv
  <2> QED
    BY <1>1, <2>1
<1>4. ASSUME conn' # "polling"
      PROVE  Len(queue') <= MaxQueue /\ \A i \in 1 .. Len(queue') : queue'[i] # "connect"
  <2>1. CASE Head(queue) = "connect"
    <3>1. \A i \in 1 .. Len(queue') : queue'[i] # "connect"
      <4> SUFFICES ASSUME NEW i \in 1 .. Len(queue'), queue'[i] = "connect" PROVE FALSE
        OBVIOUS
      <4>1. i + 1 = 1
        BY <1>1, <1>2, <2>1 DEF ChainInv
      <4> QED
        BY <1>2, <4>1
    <3> QED
      BY <1>0, <1>1, <3>1
  <2>2. CASE Head(queue) # "connect"
    BY <1>1, <1>2, <1>4, <2>2 DEF ChainInv
  <2> QED
    BY <2>1, <2>2
<1>5. NoDrain.at = "polling"
  BY DEF NoDrain
<1> QED
  BY <1>0, <1>1, <1>3, <1>4, <1>5 DEF ChainInv

LEMMA DrainEnds ==
  ASSUME TypeOK, ChainInv, queue # <<>>,
         DrainReturns \/ \E permanent \in BOOLEAN : DrainFails(permanent)
  PROVE  /\ ChainInv' /\ queue' \in Seq(Callers) /\ Len(queue') <= MaxQueue + 1
         /\ conn' \in ConnStates /\ socket' \in {"none", "open", "closed"} /\ fatal' \in BOOLEAN
         /\ drain' = NoDrain
<1>0. queue \in Seq(Callers) /\ conn \in ConnStates /\ socket \in {"none", "open", "closed"}
      /\ fatal \in BOOLEAN
  BY DEF TypeOK, ConnStates
<1>1. Head(queue) = "connect" => conn = "polling"
  <2>1. 1 \in 1 .. Len(queue) /\ Head(queue) = queue[1]
    BY <1>0, TailFacts
  <2> QED
    BY <2>1 DEF ChainInv
<1>2. queue' = Tail(queue) /\ drain' = NoDrain
  BY DEF DrainReturns, DrainFails
<1>3. fatal' \in BOOLEAN
  BY <1>0 DEF DrainReturns, DrainFails
<1>4. /\ conn' \in ConnStates /\ socket' \in {"none", "open", "closed"}
      /\ IF Head(queue) = "connect" THEN conn' # "polling" ELSE conn' = conn
  BY <1>0, <1>1 DEF DrainReturns, DrainFails, Resume, ConnStates
<1> QED
  BY <1>2, <1>3, <1>4, PopChain

-----------------------------------------------------------------------------
\* The parts of the type invariant, by the variables they speak of.
Phases == {"polling", "deciding", "processing", "saving", "submitting",
           "confirming", "advancing"}

LEMMA TypeParts ==
  TypeOK <=> /\ RelayTypeOK
             /\ conn \in ConnStates /\ socket \in {"none", "open", "closed"}
             /\ fatal \in BOOLEAN
             /\ queue \in Seq(Callers) /\ Len(queue) <= MaxQueue + 1
             /\ drain \in [at: Phases, page: SUBSET (1 .. Len(log)), todo: SUBSET (1 .. Len(log))]
             /\ mem \in State /\ disk \in State
             /\ faults \in 0 .. MaxFaults
             /\ submitted \subseteq Envelopes \X Versions
  BY DEF TypeOK, ConnStates, Phases

\* The delivery the drain looks at.
LEMMA FirstFacts ==
  ASSUME TypeOK, drain.todo # {}
  PROVE  /\ First \in drain.todo /\ First \in 1 .. Len(log)
         /\ \A i \in drain.todo : First <= i
         /\ log[First] \in Entry /\ Current \in Envelopes
<1>1. Len(log) \in Nat /\ log \in Seq(Entry) /\ drain.todo \in SUBSET (1 .. Len(log))
  BY DEF TypeOK, RelayTypeOK
<1>2. drain.todo \in SUBSET Nat
  BY <1>1
<1>3. First \in drain.todo /\ \A i \in drain.todo : First <= i
  BY <1>2, LeastElement DEF First
<1>4. log[First] \in Entry
  BY <1>1, <1>3
<1> QED
  BY <1>1, <1>3, <1>4 DEF Current, Entry

\* While the relay only adds, a handled delivery stays handled, an expired one
\* expired, and the saved and the current state keep their type.
LEMMA Persist ==
  ASSUME TypeOK, RelayTypeOK', RelayGrows
  PROVE  /\ \A i \in 1 .. Len(log) : Handled(i) => Handled(i)'
         /\ \A i \in 1 .. Len(log) : ~Live(i) => ~Live(i)'
         /\ \A i \in 1 .. Len(log) : IsActionRequest(i) <=> IsActionRequest(i)'
         /\ 1 .. Len(log) \subseteq 1 .. Len(log')
         /\ mem \in State' /\ disk \in State'
<1>1. Len(log) \in Nat /\ Len(log') \in Nat
  BY DEF TypeOK, RelayTypeOK
<1>2. \A i \in 1 .. Len(log) : Handled(i) => Handled(i)'
  BY DEF RelayGrows, Handled, IsActionRequest
<1>3. \A i \in 1 .. Len(log) : ~Live(i) => ~Live(i)'
  BY DEF RelayGrows, Live
<1>4. \A i \in 1 .. Len(log) : IsActionRequest(i) <=> IsActionRequest(i)'
  BY DEF RelayGrows, IsActionRequest
<1>5. 1 .. Len(log) \subseteq 1 .. Len(log') /\ 0 .. Len(log) \subseteq 0 .. Len(log')
  BY <1>1 DEF RelayGrows
<1>6. mem \in State' /\ disk \in State'
  BY <1>5 DEF TypeOK, State, Cached
<1> QED
  BY <1>2, <1>3, <1>4, <1>5, <1>6

\* A step that changes neither the drain nor the worker's state.
LEMMA DrainKept ==
  ASSUME RelayInv, RelayTypeOK', RelayGrows, UNCHANGED <<drain, mem, disk>>
  PROVE  /\ CursorPassesOnlyHandled' /\ PageInv'
         /\ drain' \in [at: Phases, page: SUBSET (1 .. Len(log')), todo: SUBSET (1 .. Len(log'))]
         /\ mem' \in State' /\ disk' \in State'
<1>a. TypeOK /\ CursorPassesOnlyHandled /\ PageInv
  BY DEF RelayInv
<1>b. /\ \A i \in 1 .. Len(log) : Handled(i) => Handled(i)'
      /\ \A i \in 1 .. Len(log) : ~Live(i) => ~Live(i)'
      /\ \A i \in 1 .. Len(log) : IsActionRequest(i) <=> IsActionRequest(i)'
      /\ 1 .. Len(log) \subseteq 1 .. Len(log')
      /\ mem \in State' /\ disk \in State'
  BY <1>a, Persist
<1>c. /\ drain \in [at: Phases, page: SUBSET (1 .. Len(log)), todo: SUBSET (1 .. Len(log))]
      /\ mem.cursor \in 0 .. Len(log) /\ disk.cursor \in 0 .. Len(log) /\ Len(log) \in Nat
  BY <1>a, TypeParts DEF State, RelayTypeOK
<1>1. CursorPassesOnlyHandled'
  <2> SUFFICES ASSUME NEW s \in {mem, disk}
               PROVE  /\ \A i \in 1 .. s.cursor : Handled(i)'
                      /\ \A e \in Envelopes : s.cache[e].delivered => e \in settled'
    BY DEF CursorPassesOnlyHandled
  <2>1. \A i \in 1 .. s.cursor : i \in 1 .. Len(log)
    BY <1>c
  <2> QED
    BY <1>a, <1>b, <2>1 DEF CursorPassesOnlyHandled, RelayGrows
<1>2. PageInv'
  <2>0. drain.page \subseteq 1 .. Len(log) /\ drain.todo \subseteq 1 .. Len(log)
    BY <1>c
  <2>1. drain.todo # {} => /\ First' = First /\ Current' = Current
                           /\ (IsActionRequest(First) => IsActionRequest(First)')
    <3> SUFFICES ASSUME drain.todo # {}
                 PROVE  /\ First' = First /\ Current' = Current
                        /\ (IsActionRequest(First) => IsActionRequest(First)')
      OBVIOUS
    <3>1. First' = First
      BY DEF First
    <3>2. First \in 1 .. Len(log)
      BY <1>a, FirstFacts
    <3>3. log'[First] = log[First]
      BY <3>2 DEF RelayGrows
    <3> QED
      BY <3>1, <3>3 DEF Current, IsActionRequest
  <2>2. \A i \in drain.page \ drain.todo : Handled(i)'
    BY <1>a, <1>b, <2>0 DEF PageInv
  <2>3. ASSUME drain.at # "advancing", NEW m \in drain.page
        PROVE  /\ mem.cursor < m
               /\ \A i \in mem.cursor + 1 .. m : i \in drain.page \/ ~Live(i)'
    <3>1. \A i \in mem.cursor + 1 .. m : i \in 1 .. Len(log)
      BY <1>c, <2>0
    <3> QED
      BY <1>a, <1>b, <2>3, <3>1 DEF PageInv
  <2>4. ASSUME drain.at \in {"processing", "saving", "submitting", "confirming"}
        PROVE  /\ drain.todo # {} /\ IsActionRequest(First)'
               /\ drain.at # "processing" => mem.cache[Current'].version # NoVersion
               /\ drain.at = "confirming" => Current' \in settled'
    BY <1>a, <2>1, <2>4 DEF PageInv, RelayGrows
  <2> QED
    BY <1>a, <2>2, <2>3, <2>4 DEF PageInv
<1>3. drain' \in [at: Phases, page: SUBSET (1 .. Len(log')), todo: SUBSET (1 .. Len(log'))]
  BY <1>b, <1>c
<1> QED
  BY <1>b, <1>1, <1>2, <1>3

\* A step that ends the drain and keeps the worker's state.
LEMMA DrainOver ==
  ASSUME RelayInv, RelayTypeOK', RelayGrows, drain' = NoDrain, UNCHANGED <<mem, disk>>
  PROVE  /\ CursorPassesOnlyHandled' /\ PageInv'
         /\ drain' \in [at: Phases, page: SUBSET (1 .. Len(log')), todo: SUBSET (1 .. Len(log'))]
         /\ mem' \in State' /\ disk' \in State'
<1>a. TypeOK /\ CursorPassesOnlyHandled
  BY DEF RelayInv
<1>b. /\ \A i \in 1 .. Len(log) : Handled(i) => Handled(i)'
      /\ mem \in State' /\ disk \in State'
  BY <1>a, Persist
<1>c. mem.cursor \in 0 .. Len(log) /\ disk.cursor \in 0 .. Len(log) /\ Len(log) \in Nat
  BY <1>a DEF TypeOK, State, RelayTypeOK
<1>1. CursorPassesOnlyHandled'
  <2> SUFFICES ASSUME NEW s \in {mem, disk}
               PROVE  /\ \A i \in 1 .. s.cursor : Handled(i)'
                      /\ \A e \in Envelopes : s.cache[e].delivered => e \in settled'
    BY DEF CursorPassesOnlyHandled
  <2>1. \A i \in 1 .. s.cursor : i \in 1 .. Len(log)
    BY <1>c
  <2> QED
    BY <1>a, <1>b, <2>1 DEF CursorPassesOnlyHandled, RelayGrows
<1>2. PageInv' /\ drain' \in [at: Phases, page: SUBSET (1 .. Len(log')), todo: SUBSET (1 .. Len(log'))]
  BY DEF PageInv, NoDrain, Phases
<1> QED
  BY <1>b, <1>1, <1>2

\* What the proposers and the Verifier's other clients do at the relay.
LEMMA ProposalStep ==
  ASSUME RelayInv, Proposal
  PROVE  RelayInv'
<1>a. TypeOK /\ ChainInv /\ RelayTypeOK
  BY DEF RelayInv, TypeOK
<1>b. UNCHANGED <<conn, socket, fatal, queue, drain, mem, disk, faults, submitted>>
  BY DEF Proposal, workerVars, loopVars
<1>1. RelayTypeOK' /\ RelayGrows
  <2>1. ASSUME NEW e \in Envelopes, NEW kind \in {"request", "other"}, StoreEnvelope(kind, e)
        PROVE  /\ log' \in Seq(Entry) /\ wake' \in BOOLEAN
               /\ Len(log) <= Len(log') /\ \A i \in 1 .. Len(log) : log'[i] = log[i]
    <3>1. [kind |-> kind, env |-> e] \in Entry /\ Len(log) \in Nat
      BY <1>a DEF Entry, RelayTypeOK
    <3>2. log' \in Seq(Entry) /\ Len(log') = Len(log) + 1
          /\ \A i \in 1 .. Len(log) : log'[i] = log[i]
      BY <1>a, <2>1, <3>1, AppendFacts DEF StoreEnvelope, RelayTypeOK
    <3>3. wake' \in BOOLEAN
      BY <2>1 DEF StoreEnvelope
    <3> QED
      BY <3>1, <3>2, <3>3
  <2>2. ASSUME NEW e \in Envelopes, RelayAction(e) PROVE RelayTypeOK' /\ RelayGrows
    BY <1>a, <2>1, <2>2 DEF RelayAction, RelayTypeOK, RelayGrows
  <2>3. ASSUME NEW e \in Envelopes, Expire(e) PROVE RelayTypeOK' /\ RelayGrows
    <3>1. Len(log) \in Nat
      BY <1>a DEF RelayTypeOK
    <3> QED
      BY <1>a, <2>3, <3>1 DEF Expire, RelayTypeOK, RelayGrows, hubVars
  <2>4. ASSUME NEW e \in Envelopes, DeliverToVerifier(e) PROVE RelayTypeOK' /\ RelayGrows
    BY <1>a, <2>1, <2>4 DEF DeliverToVerifier, RelayTypeOK, RelayGrows
  <2> QED
    BY <2>2, <2>3, <2>4 DEF Proposal
<1>2. ChainInv'
  BY <1>a, <1>b DEF ChainInv
<1>3. TypeOK'
  BY <1>a, <1>b, <1>1, DrainKept DEF TypeOK, Phases
<1> QED
  BY <1>b, <1>1, <1>2, <1>3, DrainKept DEF RelayInv

\* The connection loop, the socket and the timer leave the drain alone.
LEMMA LoopPart ==
  ASSUME RelayInv, LoopStep \/ Upgrade \/ Wake \/ FallbackPoll \/ Drop \/ LoseFrame
                   \/ UNCHANGED vars
  PROVE  RelayInv'
<1>a. TypeOK /\ ChainInv /\ RelayTypeOK
  BY DEF RelayInv, TypeOK
<1>b. UNCHANGED <<relayVars, drain, mem, disk, submitted>>
  BY DEF LoopStep, Start, Connect, Disconnected, Retry, Upgrade, Wake, FallbackPoll, Drop,
         LoseFrame, vars, workerVars, loopVars
<1>c. Len(log) \in Nat /\ Len(queue) \in Nat /\ queue \in Seq(Callers)
      /\ faults \in 0 .. MaxFaults /\ Len(queue) <= MaxQueue + 1
      /\ conn \in ConnStates /\ socket \in {"none", "open", "closed"} /\ fatal \in BOOLEAN
  BY <1>a, TypeParts DEF RelayTypeOK
<1>1. RelayTypeOK' /\ RelayGrows
  <2>1. link' \in {"none", "ticket", "bound"} /\ wake' \in BOOLEAN
    BY <1>a DEF RelayTypeOK, LoopStep, Start, Connect, Disconnected, Retry, Upgrade, Wake,
       FallbackPoll, Drop, LoseFrame, vars, hubVars, Issue, HandleUpgrade, Unbind
  <2> QED
    BY <1>a, <1>b, <1>c, <2>1 DEF RelayTypeOK, RelayGrows, relayVars
<1>2. faults' \in 0 .. MaxFaults
  BY <1>c DEF LoopStep, Start, Connect, Disconnected, Retry, Upgrade, Wake, FallbackPoll, Drop,
         LoseFrame, vars, workerVars, loopVars, Fault
<1>3. /\ ChainInv' /\ queue' \in Seq(Callers) /\ Len(queue') <= MaxQueue + 1
      /\ conn' \in ConnStates /\ socket' \in {"none", "open", "closed"} /\ fatal' \in BOOLEAN
  <2>1. ASSUME NEW x \in {"notify", "timer"}, Enqueue(x), UNCHANGED loopVars
        PROVE  /\ ChainInv' /\ queue' \in Seq(Callers) /\ Len(queue') <= MaxQueue + 1
    <3>1. /\ queue' \in Seq(Callers) /\ Len(queue') = Len(queue) + 1 /\ Len(queue) < MaxQueue
          /\ \A i \in 1 .. Len(queue) : queue'[i] = queue[i]
          /\ queue'[Len(queue) + 1] = x
      BY <1>c, <2>1, AppendFacts DEF Enqueue, Callers
    <3>2. \A i \in 1 .. Len(queue') : i \in 1 .. Len(queue) \/ queue'[i] # "connect"
      BY <1>c, <3>1
    <3>3. queue' # <<>>
      BY <1>c, <3>1
    <3> QED
      BY <1>a, <1>b, <1>c, <2>1, <3>1, <3>2, <3>3 DEF ChainInv, loopVars
  <2>2. CASE Wake \/ FallbackPoll
    BY <1>c, <2>1, <2>2 DEF Wake, FallbackPoll, loopVars
  <2>3. CASE Connect
    <3>1. /\ queue' \in Seq(Callers) /\ Len(queue') = Len(queue) + 1
          /\ \A i \in 1 .. Len(queue) : queue'[i] = queue[i]
      BY <1>c, <2>3, AppendFacts DEF Connect, Callers
    <3>2. /\ Len(queue) <= MaxQueue /\ \A i \in 1 .. Len(queue) : queue[i] # "connect"
          /\ conn' = "polling" /\ socket' = "open" /\ fatal' = fatal
      BY <1>a, <2>3 DEF Connect, ChainInv
    <3>3. \A i \in 1 .. Len(queue') : i = Len(queue') \/ queue'[i] # "connect"
      BY <1>c, <3>1, <3>2
    <3>4. queue' # <<>>
      BY <1>c, <3>1
    <3> QED
      BY <1>c, <3>1, <3>2, <3>3, <3>4 DEF ChainInv, ConnStates
  <2>4. CASE Start \/ Disconnected \/ Retry \/ Upgrade \/ Drop \/ LoseFrame \/ UNCHANGED vars
    <3>1. /\ queue' = queue /\ (conn' = conn \/ (conn # "polling" /\ conn' # "polling"))
          /\ conn' \in ConnStates
      BY <1>c, <2>4 DEF Start, Disconnected, Retry, Upgrade, Drop, LoseFrame, vars, workerVars,
         loopVars, ConnStates
    <3>2. socket' \in {"none", "open", "closed"} /\ fatal' \in BOOLEAN
      BY <1>c, <2>4 DEF Start, Disconnected, Retry, Upgrade, Drop, LoseFrame, vars, workerVars,
         loopVars
    <3> QED
      BY <1>a, <1>b, <1>c, <3>1, <3>2 DEF ChainInv
  <2> QED
    BY <2>2, <2>3, <2>4 DEF LoopStep
<1>4. TypeOK'
  BY <1>a, <1>b, <1>1, <1>2, <1>3, DrainKept DEF TypeOK, Phases, ConnStates
<1> QED
  BY <1>b, <1>1, <1>3, <1>4, DrainKept DEF RelayInv

-----------------------------------------------------------------------------
\* A drain ends: it found nothing, a call failed, a delivery was no Action
\* Request, or the acknowledgement of a response was lost.
LEMMA DrainEndStep ==
  ASSUME RelayInv, queue # <<>>,
         DrainReturns \/ \E permanent \in BOOLEAN : DrainFails(permanent),
         UNCHANGED <<log, late, hubVars, mem, disk>>,
         settled \subseteq settled', settled' \subseteq Envelopes,
         faults' \in 0 .. MaxFaults,
         submitted' \subseteq Envelopes \X Versions
  PROVE  RelayInv'
<1>a. TypeOK /\ ChainInv /\ RelayTypeOK /\ Len(log) \in Nat
  BY DEF RelayInv, TypeOK, RelayTypeOK
<1>1. RelayTypeOK' /\ RelayGrows
  BY <1>a DEF RelayTypeOK, RelayGrows, hubVars
<1>2. /\ ChainInv' /\ queue' \in Seq(Callers) /\ Len(queue') <= MaxQueue + 1
      /\ conn' \in ConnStates /\ socket' \in {"none", "open", "closed"} /\ fatal' \in BOOLEAN
      /\ drain' = NoDrain
  BY <1>a, DrainEnds
<1>3. /\ CursorPassesOnlyHandled' /\ PageInv'
      /\ drain' \in [at: Phases, page: SUBSET (1 .. Len(log')), todo: SUBSET (1 .. Len(log'))]
      /\ mem' \in State' /\ disk' \in State'
  BY <1>1, <1>2, DrainOver
<1>4. TypeOK'
  BY <1>1, <1>2, <1>3 DEF TypeOK, Phases, ConnStates
<1> QED
  BY <1>2, <1>3, <1>4 DEF RelayInv

\* A step within a drain: the chain stays, and so does the relay but for the
\* promises a response settles.
LEMMA DrainGoesOn ==
  ASSUME RelayInv, queue # <<>>,
         UNCHANGED <<conn, socket, fatal, queue, log, late, hubVars, faults>>,
         settled \subseteq settled', settled' \subseteq Envelopes,
         submitted' \subseteq Envelopes \X Versions,
         drain' \in [at: Phases, page: SUBSET (1 .. Len(log)), todo: SUBSET (1 .. Len(log))],
         mem' \in State, disk' \in State,
         CursorPassesOnlyHandled', PageInv'
  PROVE  RelayInv'
<1>a. TypeOK /\ ChainInv /\ RelayTypeOK
  BY DEF RelayInv, TypeOK
<1>1. RelayTypeOK' /\ State' = State
  BY <1>a DEF RelayTypeOK, hubVars, State
<1>2. ChainInv'
  BY <1>a DEF ChainInv
<1>3. TypeOK'
  BY <1>a, <1>1 DEF TypeOK, Phases
<1> QED
  BY <1>2, <1>3 DEF RelayInv

LEMMA PollStep ==
  ASSUME RelayInv, Poll
  PROVE  RelayInv'
<1>a. /\ TypeOK /\ RelayTypeOK /\ queue # <<>> /\ Len(log) \in Nat /\ CursorPassesOnlyHandled
      /\ settled \subseteq Envelopes
  BY DEF RelayInv, TypeOK, RelayTypeOK, Poll
<1>b. UNCHANGED <<relayVars, hubVars, mem, disk, faults, submitted>>
  BY DEF Poll
<1> DEFINE page == PollDeliveries(mem.cursor)
<1>1. CASE page = {}
  <2>1. DrainReturns
    BY <1>1 DEF Poll
  <2>2. faults' \in 0 .. MaxFaults /\ submitted' \subseteq Envelopes \X Versions
    BY <1>a, <1>b DEF TypeOK
  <2> QED
    BY <1>a, <1>b, <2>1, <2>2, DrainEndStep DEF relayVars
<1>2. CASE page # {}
  <2>1. /\ drain' = [at |-> "deciding", page |-> page, todo |-> page]
        /\ UNCHANGED <<queue, fatal, conn, socket>>
    BY <1>2 DEF Poll
  <2>2. mem.cursor \in 0 .. Len(log)
    BY <1>a DEF TypeOK, State
  <2>3. /\ page \in SUBSET (1 .. Len(log))
        /\ \A m \in page : /\ mem.cursor < m
                           /\ \A i \in mem.cursor + 1 .. m : i \in page \/ ~Live(i)
    BY <1>a, <2>2, PageFacts
  <2> HIDE DEF page
  <2>4. drain'.at = "deciding" /\ drain'.page = page /\ drain'.todo = page
    BY <2>1
  <2>5. \A i : Live(i)' <=> Live(i)
    BY <1>b DEF Live, relayVars
  <2>6. PageInv'
    BY <1>b, <1>2, <2>3, <2>4, <2>5 DEF PageInv
  <2>7. CursorPassesOnlyHandled'
    BY <1>a, <1>b DEF CursorPassesOnlyHandled, Handled, IsActionRequest, relayVars
  <2>8. drain' \in [at: Phases, page: SUBSET (1 .. Len(log)), todo: SUBSET (1 .. Len(log))]
    BY <2>1, <2>3 DEF Phases
  <2>9. mem' \in State /\ disk' \in State /\ submitted' \subseteq Envelopes \X Versions
    BY <1>a, <1>b DEF TypeOK
  <2> QED
    BY <1>a, <1>b, <2>1, <2>6, <2>7, <2>8, <2>9, DrainGoesOn DEF relayVars
<1> QED
  BY <1>1, <1>2

\* The drain has done with its first delivery, which is handled.
LEMMA NextDeliveryFacts ==
  ASSUME RelayInv, drain.at \in {"deciding", "confirming"}, drain.todo # {}, NextDelivery,
         Handled(First), UNCHANGED <<relayVars, mem>>
  PROVE  /\ PageInv'
         /\ drain' \in [at: Phases, page: SUBSET (1 .. Len(log)), todo: SUBSET (1 .. Len(log))]
<1>a. TypeOK /\ PageInv /\ First \in drain.todo
  BY FirstFacts DEF RelayInv
<1>1. drain'.at = "deciding" /\ drain'.page = drain.page /\ drain'.todo = drain.todo \ {First}
  BY DEF NextDelivery
<1>2. drain.page # {}
  BY <1>a DEF PageInv
<1>3. \A i : (Live(i)' <=> Live(i)) /\ (Handled(i)' <=> Handled(i))
  BY DEF Live, Handled, IsActionRequest, relayVars
<1>4. PageInv'
  BY <1>a, <1>1, <1>2, <1>3 DEF PageInv
<1>5. drain' \in [at: Phases, page: SUBSET (1 .. Len(log)), todo: SUBSET (1 .. Len(log))]
  BY <1>a DEF TypeOK, NextDelivery, Phases
<1> QED
  BY <1>4, <1>5

\* The drain awaits something about its first delivery.
LEMMA AwaitFacts ==
  ASSUME RelayInv, drain.todo # {}, drain.at # "advancing",
         NEW where \in {"processing", "saving", "submitting", "confirming"}, Await(where),
         IsActionRequest(First), UNCHANGED <<log, late>>, settled \subseteq settled',
         mem'.cursor = mem.cursor,
         where # "processing" => mem'.cache[Current].version # NoVersion,
         where = "confirming" => Current \in settled'
  PROVE  /\ PageInv'
         /\ drain' \in [at: Phases, page: SUBSET (1 .. Len(log)), todo: SUBSET (1 .. Len(log))]
<1>a. TypeOK /\ PageInv /\ First \in drain.todo
  BY FirstFacts DEF RelayInv
<1>1. drain'.at = where /\ drain'.page = drain.page /\ drain'.todo = drain.todo
  BY DEF Await
<1>2. First' = First /\ Current' = Current
  BY <1>1 DEF First, Current
<1>3. \A i : (Live(i)' <=> Live(i)) /\ (Handled(i) => Handled(i)')
             /\ (IsActionRequest(i)' <=> IsActionRequest(i))
  BY DEF Live, Handled, IsActionRequest
<1>4. PageInv'
  BY <1>a, <1>1, <1>2, <1>3 DEF PageInv
<1>5. drain' \in [at: Phases, page: SUBSET (1 .. Len(log)), todo: SUBSET (1 .. Len(log))]
  BY <1>a DEF TypeOK, Await, Phases
<1> QED
  BY <1>4, <1>5

LEMMA CallFailsStep ==
  ASSUME RelayInv, CallFails
  PROVE  RelayInv'
<1>a. settled \subseteq Envelopes /\ faults \in 0 .. MaxFaults
      /\ submitted \subseteq Envelopes \X Versions
  BY DEF RelayInv, TypeOK, RelayTypeOK
<1>1. faults' \in 0 .. MaxFaults
  BY <1>a DEF CallFails, Fault
<1> QED
  BY <1>a, <1>1, DrainEndStep DEF CallFails, relayVars

LEMMA ProcessDeliveryStep ==
  ASSUME RelayInv, ProcessDelivery
  PROVE  RelayInv'
<1>a. /\ TypeOK /\ CursorPassesOnlyHandled /\ PageInv /\ queue # <<>>
      /\ settled \subseteq Envelopes
      /\ drain.at = "deciding" /\ drain.todo # {} /\ Current \in Envelopes
      /\ UNCHANGED <<relayVars, hubVars, mem, disk, faults, submitted>>
  BY FirstFacts DEF RelayInv, ProcessDelivery, ChainInv, TypeOK, RelayTypeOK
<1>b. mem' \in State /\ disk' \in State /\ submitted' \subseteq Envelopes \X Versions
      /\ faults' \in 0 .. MaxFaults
  BY <1>a DEF TypeOK
<1>c. CursorPassesOnlyHandled'
  BY <1>a DEF CursorPassesOnlyHandled, Handled, IsActionRequest, relayVars
<1>1. CASE ~IsActionRequest(First)
  <2>1. DrainFails(TRUE)
    BY <1>1 DEF ProcessDelivery
  <2> QED
    BY <1>a, <1>b, <2>1, DrainEndStep DEF relayVars
<1>2. CASE IsActionRequest(First)
  <2>1. UNCHANGED <<queue, fatal, conn, socket>>
    BY <1>2 DEF ProcessDelivery
  <2>2. CASE NextDelivery /\ (Current \in late \/ mem.cache[Current].delivered)
    <3>1. Handled(First)
      BY <1>a, <1>2, <2>2 DEF Handled, Current, CursorPassesOnlyHandled
    <3> QED
      BY <1>a, <1>b, <1>c, <2>1, <2>2, <3>1, NextDeliveryFacts, DrainGoesOn DEF relayVars
  <2>3. CASE Await("processing")
    BY <1>a, <1>b, <1>c, <1>2, <2>1, <2>3, AwaitFacts, DrainGoesOn DEF relayVars
  <2>4. CASE Await("submitting") /\ mem.cache[Current].version # NoVersion
    BY <1>a, <1>b, <1>c, <1>2, <2>1, <2>4, AwaitFacts, DrainGoesOn DEF relayVars
  <2> QED
    BY <1>2, <2>2, <2>3, <2>4 DEF ProcessDelivery
<1> QED
  BY <1>1, <1>2

\* The cache changes in the entry of one envelope.
LEMMA CacheFacts ==
  ASSUME TypeOK, NEW e \in Envelopes, NEW x \in Cached, Cache(e, x)
  PROVE  /\ mem' \in State /\ mem'.cursor = mem.cursor
         /\ mem'.cache[e] = x
         /\ \A f \in Envelopes \ {e} : mem'.cache[f] = mem.cache[f]
<1>1. mem.cursor \in 0 .. Len(log) /\ mem.cache \in [Envelopes -> Cached]
  BY DEF TypeOK, State
<1>2. mem'.cursor = mem.cursor /\ mem'.cache = [mem.cache EXCEPT ![e] = x]
  BY DEF Cache
<1>3. mem' \in State
  BY <1>1 DEF Cache, State
<1> QED
  BY <1>1, <1>2, <1>3

LEMMA ProcessActionStep ==
  ASSUME RelayInv, NEW v \in Versions, ProcessAction(v)
  PROVE  RelayInv'
<1> DEFINE x == [version |-> v, delivered |-> FALSE]
<1>a. /\ TypeOK /\ CursorPassesOnlyHandled /\ PageInv /\ queue # <<>>
      /\ settled \subseteq Envelopes
      /\ drain.at = "processing" /\ drain.todo # {} /\ IsActionRequest(First)
      /\ UNCHANGED <<relayVars, hubVars, loopVars, queue, disk, faults, submitted>>
      /\ Cache(Current, x) /\ Await("saving")
  BY DEF RelayInv, ProcessAction, ChainInv, TypeOK, RelayTypeOK, PageInv
<1>b. Current \in Envelopes /\ x \in Cached /\ x.version = v /\ x.delivered = FALSE
  BY <1>a, FirstFacts DEF Cached
<1>1. /\ mem' \in State /\ mem'.cursor = mem.cursor /\ mem'.cache[Current] = x
      /\ \A f \in Envelopes \ {Current} : mem'.cache[f] = mem.cache[f]
  BY <1>a, <1>b, CacheFacts
<1> HIDE DEF x
<1>2. CursorPassesOnlyHandled'
  BY <1>a, <1>b, <1>1 DEF CursorPassesOnlyHandled, Handled, IsActionRequest, relayVars
<1>3. disk' \in State /\ submitted' \subseteq Envelopes \X Versions
  BY <1>a DEF TypeOK
<1>4. mem'.cache[Current].version # NoVersion
  BY <1>b, <1>1
<1> QED
  BY <1>a, <1>1, <1>2, <1>3, <1>4, AwaitFacts, DrainGoesOn DEF relayVars, loopVars

LEMMA SaveStep ==
  ASSUME RelayInv, Save
  PROVE  RelayInv'
<1>a. /\ TypeOK /\ CursorPassesOnlyHandled /\ PageInv /\ queue # <<>>
      /\ settled \subseteq Envelopes
      /\ UNCHANGED <<relayVars, hubVars, loopVars, queue, mem, faults, submitted>>
      /\ disk' = mem
  BY DEF RelayInv, Save, ChainInv, TypeOK, RelayTypeOK
<1>1. CursorPassesOnlyHandled'
  BY <1>a DEF CursorPassesOnlyHandled, Handled, IsActionRequest, relayVars
<1>2. mem' \in State /\ disk' \in State /\ submitted' \subseteq Envelopes \X Versions
  BY <1>a DEF TypeOK
<1>3. CASE drain.at = "saving" /\ Await("submitting")
  <2>1. drain.todo # {} /\ IsActionRequest(First) /\ mem.cache[Current].version # NoVersion
    BY <1>a, <1>3 DEF PageInv
  <2> QED
    BY <1>a, <1>1, <1>2, <1>3, <2>1, AwaitFacts, DrainGoesOn DEF relayVars, loopVars
<1>4. CASE drain.at = "confirming" /\ NextDelivery
  <2>1. drain.todo # {} /\ Handled(First)
    BY <1>a, <1>4 DEF PageInv, Handled, Current
  <2> QED
    BY <1>a, <1>1, <1>2, <1>4, <2>1, NextDeliveryFacts, DrainGoesOn DEF relayVars, loopVars
<1>5. CASE drain' = NoDrain
  <2>1. /\ PageInv'
        /\ drain' \in [at: Phases, page: SUBSET (1 .. Len(log)), todo: SUBSET (1 .. Len(log))]
    BY <1>5 DEF PageInv, NoDrain, Phases
  <2> QED
    BY <1>a, <1>1, <1>2, <2>1, DrainGoesOn DEF relayVars, loopVars
<1> QED
  BY <1>3, <1>4, <1>5 DEF Save

LEMMA SubmitStep ==
  ASSUME RelayInv, Submit
  PROVE  RelayInv'
<1> DEFINE v == mem.cache[Current].version
           x == [version |-> v, delivered |-> TRUE]
<1>a. /\ TypeOK /\ CursorPassesOnlyHandled /\ PageInv /\ queue # <<>>
      /\ settled \subseteq Envelopes /\ faults \in 0 .. MaxFaults
      /\ drain.at = "submitting" /\ drain.todo # {} /\ IsActionRequest(First)
      /\ v # NoVersion
      /\ UNCHANGED <<log, late, hubVars, disk>>
      /\ settled' = settled \cup {Current}
      /\ submitted' = submitted \cup {<<Current, v>>}
  BY DEF RelayInv, Submit, ChainInv, TypeOK, RelayTypeOK, PageInv, SubmitResponseDelivery
<1>b. Current \in Envelopes
  BY <1>a, FirstFacts
<1>c. v \in Versions
  BY <1>a, <1>b DEF TypeOK, State, Cached
<1>d. x \in Cached /\ x.version = v
  BY <1>c DEF Cached
<1>e. submitted' \subseteq Envelopes \X Versions
  BY <1>a, <1>b, <1>c DEF TypeOK
<1>1. CASE Cache(Current, x) /\ Await("confirming")
           /\ UNCHANGED <<queue, fatal, conn, socket, faults>>
  <2>1. /\ mem' \in State /\ mem'.cursor = mem.cursor /\ mem'.cache[Current] = x
        /\ \A f \in Envelopes \ {Current} : mem'.cache[f] = mem.cache[f]
    BY <1>a, <1>b, <1>d, <1>1, CacheFacts
  <2> HIDE DEF v, x
  <2>2. CursorPassesOnlyHandled'
    BY <1>a, <1>b, <2>1 DEF CursorPassesOnlyHandled, Handled, IsActionRequest
  <2>3. disk' \in State
    BY <1>a DEF TypeOK
  <2>4. mem'.cache[Current].version # NoVersion
    BY <1>a, <1>d, <2>1
  <2> QED
    BY <1>a, <1>b, <1>e, <1>1, <2>1, <2>2, <2>3, <2>4, AwaitFacts, DrainGoesOn
<1>2. CASE Fault /\ DrainFails(FALSE) /\ UNCHANGED mem
  <2>1. faults' \in 0 .. MaxFaults
    BY <1>a, <1>2 DEF Fault
  <2> QED
    BY <1>a, <1>b, <1>e, <1>2, <2>1, DrainEndStep
<1> QED
  BY <1>1, <1>2 DEF Submit

\* The cursor moves over the whole page: what it passes is the page, which is
\* handled, and what had expired when the page was asked for.
LEMMA AdvanceStep ==
  ASSUME RelayInv, AdvanceCursor
  PROVE  RelayInv'
<1>a. /\ TypeOK /\ CursorPassesOnlyHandled /\ PageInv /\ queue # <<>>
      /\ settled \subseteq Envelopes /\ Len(log) \in Nat
      /\ drain.at = "deciding" /\ drain.todo = {} /\ drain.page # {}
      /\ drain.page \in SUBSET (1 .. Len(log))
      /\ mem.cursor \in 0 .. Len(log) /\ mem.cache \in [Envelopes -> Cached]
      /\ UNCHANGED <<relayVars, hubVars, loopVars, queue, disk, faults, submitted>>
  BY DEF RelayInv, AdvanceCursor, ChainInv, TypeOK, RelayTypeOK, PageInv, State
<1>1. /\ mem'.cursor = Max(drain.page)
      /\ mem'.cache = [e \in Envelopes |-> IF mem.cache[e].delivered THEN NoCached ELSE mem.cache[e]]
      /\ drain' = [at |-> "advancing", page |-> drain.page, todo |-> drain.todo]
  BY DEF AdvanceCursor, Await
<1>2. Max(drain.page) \in drain.page
  BY <1>a, GreatestElement
<1>3. NoCached \in Cached /\ ~NoCached.delivered
  BY DEF NoCached, Cached
<1>4. mem' \in State
  BY <1>a, <1>2, <1>3 DEF AdvanceCursor, State
<1>5. ASSUME NEW i \in 1 .. mem'.cursor PROVE Handled(i)
  <2>1. CASE i <= mem.cursor
    <3>1. i \in 1 .. mem.cursor
      BY <1>a, <1>1, <1>2, <2>1
    <3> QED
      BY <1>a, <3>1 DEF CursorPassesOnlyHandled
  <2>2. CASE ~(i <= mem.cursor)
    <3>1. i \in mem.cursor + 1 .. Max(drain.page)
      BY <1>a, <1>1, <1>2, <2>2
    <3>2. i \in drain.page \/ ~Live(i)
      BY <1>a, <1>2, <3>1 DEF PageInv
    <3>3. CASE i \in drain.page
      BY <1>a, <3>3 DEF PageInv
    <3>4. CASE ~Live(i)
      <4>1. log[i] \in Entry
        BY <1>a, <1>2, <3>1 DEF TypeOK, RelayTypeOK
      <4> QED
        BY <3>4, <4>1 DEF Live, Handled, IsActionRequest, Entry
    <3> QED
      BY <3>2, <3>3, <3>4
  <2> QED
    BY <2>1, <2>2
<1>6. \A e \in Envelopes : ~mem'.cache[e].delivered
  BY <1>1, <1>3
<1>7. CursorPassesOnlyHandled'
  BY <1>a, <1>5, <1>6 DEF CursorPassesOnlyHandled, Handled, IsActionRequest, relayVars
<1>8. PageInv'
  BY <1>a, <1>1 DEF PageInv, Handled, IsActionRequest, relayVars
<1>9. /\ drain' \in [at: Phases, page: SUBSET (1 .. Len(log)), todo: SUBSET (1 .. Len(log))]
      /\ disk' \in State /\ submitted' \subseteq Envelopes \X Versions
  BY <1>a, <1>1 DEF TypeOK, Phases
<1> QED
  BY <1>a, <1>4, <1>7, <1>8, <1>9, DrainGoesOn DEF relayVars, loopVars

\* The worker starts again from what is on disk.
LEMMA ExitStep ==
  ASSUME RelayInv, Exit
  PROVE  RelayInv'
<1>a. TypeOK /\ CursorPassesOnlyHandled /\ ChainInv /\ faults \in 0 .. MaxFaults
  BY DEF RelayInv, TypeOK
<1>b. /\ conn' = "off" /\ socket' = "none" /\ queue' = <<>> /\ drain' = NoDrain
      /\ fatal' = FALSE /\ mem' = disk /\ link' = "none" /\ wake' = FALSE
      /\ UNCHANGED <<relayVars, disk, submitted>>
  BY DEF Exit, Unbind
<1>1. faults' \in 0 .. MaxFaults
  BY <1>a DEF Exit, Fault
<1>2. RelayTypeOK' /\ State' = State
  BY <1>a, <1>b DEF TypeOK, RelayTypeOK, relayVars, State
<1>6. /\ NoDrain \in [at: Phases, page: SUBSET (1 .. Len(log')), todo: SUBSET (1 .. Len(log'))]
      /\ <<>> \in Seq(Callers) /\ Len(<<>>) <= MaxQueue + 1
  BY DEF NoDrain, Phases
<1>3. TypeOK'
  BY <1>a, <1>b, <1>1, <1>2, <1>6 DEF TypeOK, Phases
<1>4. CursorPassesOnlyHandled'
  BY <1>a, <1>b DEF CursorPassesOnlyHandled, Handled, IsActionRequest, relayVars
<1>5. PageInv' /\ ChainInv'
  BY <1>b DEF PageInv, ChainInv, NoDrain
<1> QED
  BY <1>3, <1>4, <1>5 DEF RelayInv

LEMMA RelayInit1 == Init => RelayInv
<1> SUFFICES ASSUME Init PROVE RelayInv
  OBVIOUS
<1>1. NoCached \in Cached /\ ~NoCached.delivered
  BY DEF NoCached, Cached
<1>2. NewState \in State /\ NewState.cursor = 0 /\ \A e \in Envelopes : ~NewState.cache[e].delivered
  BY <1>1 DEF NewState, State, Init, RelayInit
<1>6. /\ NoDrain \in [at: Phases, page: SUBSET (1 .. Len(log)), todo: SUBSET (1 .. Len(log))]
      /\ <<>> \in Seq(Callers) /\ <<>> \in Seq(Entry) /\ Len(<<>>) <= MaxQueue + 1
  BY DEF NoDrain, Phases
<1>7. RelayTypeOK
  BY <1>6 DEF Init, RelayInit, RelayTypeOK
<1>8. /\ conn \in ConnStates /\ socket \in {"none", "open", "closed"} /\ fatal \in BOOLEAN
      /\ queue = <<>> /\ drain = NoDrain /\ mem \in State /\ disk \in State
  <2>1. mem \in State /\ disk \in State
    BY <1>2 DEF Init
  <2>2. conn = "off" /\ socket = "none" /\ fatal = FALSE /\ queue = <<>> /\ drain = NoDrain
    BY DEF Init
  <2> QED
    BY <2>1, <2>2 DEF ConnStates
<1>9. faults \in 0 .. MaxFaults /\ submitted \subseteq Envelopes \X Versions
  <2>1. faults = 0 /\ submitted = {}
    BY DEF Init
  <2> QED
    BY <2>1
<1>3. TypeOK
  BY <1>6, <1>7, <1>8, <1>9, TypeParts
<1>4. CursorPassesOnlyHandled
  BY <1>2 DEF Init, CursorPassesOnlyHandled
<1>5. PageInv /\ ChainInv
  BY DEF Init, PageInv, ChainInv, NoDrain
<1> QED
  BY <1>3, <1>4, <1>5 DEF RelayInv

LEMMA RelayStep == RelayInv /\ [Next]_vars => RelayInv'
  BY ProposalStep, LoopPart, PollStep, CallFailsStep, ProcessDeliveryStep, ProcessActionStep,
     SaveStep, SubmitStep, AdvanceStep, ExitStep DEF Next, DrainStep

\* Whatever is lost, fails or crashes between a page's first delivery and the
\* save of its cursor, the cursor never passes a delivery that still has to be
\* answered, neither in memory nor on disk (drainAvailableWork).
THEOREM CursorIsSafe == Spec => []RelayInv
  BY RelayInit1, RelayStep, PTL DEF Spec

-----------------------------------------------------------------------------
\* A delivery in the next page stays there until it expires: the relay only
\* adds behind it, and what expires before it makes room.
LEMMA PageStays ==
  ASSUME RelayTypeOK, RelayTypeOK', RelayGrows, NEW cursor \in 0 .. Len(log),
         NEW i \in PollDeliveries(cursor), Live(i)'
  PROVE  i \in PollDeliveries(cursor)'
<1>0. Len(log) \in Nat /\ Len(log') \in Nat /\ Len(log) <= Len(log')
  BY DEF RelayTypeOK, RelayGrows
<1>1. i \in cursor + 1 .. Len(log) /\ Cardinality(Ready(cursor, i)) <= PageSize /\ i \in Nat
  BY <1>0 DEF PollDeliveries, Ready
<1>2. Ready(cursor, i)' \subseteq Ready(cursor, i)
  <2> SUFFICES ASSUME NEW j \in cursor + 1 .. i, Live(j)' PROVE Live(j)
    BY DEF Ready
  <2>1. j \in 1 .. Len(log)
    BY <1>0, <1>1
  <2> QED
    BY <2>1 DEF Live, RelayGrows
<1>3. /\ Cardinality(Ready(cursor, i)') \in Nat /\ Cardinality(Ready(cursor, i)) \in Nat
      /\ Cardinality(Ready(cursor, i)') <= Cardinality(Ready(cursor, i))
  <2>1. cursor \in Nat /\ i \in Nat
    BY <1>0, <1>1
  <2>2. IsFiniteSet(Ready(cursor, i)) /\ Cardinality(Ready(cursor, i)) \in Nat
    BY <2>1, ReadyFinite
  <2>3. IsFiniteSet(Ready(cursor, i)')
        /\ Cardinality(Ready(cursor, i)') <= Cardinality(Ready(cursor, i))
    BY <1>2, <2>2, FS_Subset
  <2> QED
    BY <2>2, <2>3, FS_CardinalityType
<1>4. Cardinality(Ready(cursor, i))' <= PageSize
  <2>1. PageSize \in Nat
    BY RelayConstants
  <2> QED
    BY <1>1, <1>3, <2>1
<1>5. i \in Ready(cursor, Len(log))'
  BY <1>0, <1>1 DEF Ready
<1> QED
  BY <1>4, <1>5 DEF PollDeliveries

\* No second delivery of a relayed envelope is added.
NoneTwice ==
  \A e \in Relayed : \A i \in 1 .. Len(log') : Delivers(i, e)' => i \in 1 .. Len(log)

LEMMA RetainsKept ==
  ASSUME TypeOK, RelayTypeOK', RelayGrows, NoneTwice, submitted' = submitted,
         \A x \in submitted : x[1] \in Relayed, NEW s \in State, Retains(s)
  PROVE  Retains(s)'
<1>0. Len(log) \in Nat /\ Len(log') \in Nat /\ s.cursor \in 0 .. Len(log) /\ RelayTypeOK
  BY DEF TypeOK, RelayTypeOK, State
<1>1. \A i \in 1 .. Len(log) : \A e : Delivers(i, e)' <=> Delivers(i, e)
  BY DEF Delivers, RelayGrows
<1>2. Relayed \subseteq Relayed'
  BY <1>0 DEF Relayed, RelayGrows
<1>3. ASSUME NEW e \in Relayed, Done(e, s.cursor) PROVE Done(e, s.cursor)'
  BY <1>1, <1>3 DEF Done, NoneTwice, RelayGrows
<1>4. ASSUME NEW e \in Relayed, InPage(e, s.cursor, PollDeliveries(s.cursor))
      PROVE  InPage(e, s.cursor, PollDeliveries(s.cursor))'
  <2> SUFFICES ASSUME e \notin late', NEW i \in 1 .. Len(log'), Delivers(i, e)'
               PROVE  i <= s.cursor \/ i \in PollDeliveries(s.cursor)'
    BY DEF InPage
  <2>1. i \in 1 .. Len(log) /\ Delivers(i, e) /\ e \notin late
    BY <1>1 DEF NoneTwice, RelayGrows
  <2>2. i <= s.cursor \/ i \in PollDeliveries(s.cursor)
    BY <1>4, <2>1 DEF InPage
  <2>3. Live(i)'
    BY DEF Delivers, Live
  <2> QED
    BY <1>0, <2>2, <2>3, PageStays
<1>5. \A x \in submitted :
        \/ s.cache[x[1]].version = x[2]
        \/ s.cache[x[1]].version = NoVersion /\ Done(x[1], s.cursor)'
  BY <1>3 DEF Retains
<1>6. \A e \in Envelopes : s.cache[e].delivered =>
        e \in Relayed' /\ InPage(e, s.cursor, PollDeliveries(s.cursor))'
  BY <1>2, <1>4 DEF Retains
<1> QED
  BY <1>5, <1>6 DEF Retains

LEMMA ResubmitProposal ==
  ASSUME RelayInv, ResubmissionInv, Proposal
  PROVE  ResubmissionInv'
<1>a. /\ TypeOK /\ PageInv /\ RelayTypeOK /\ log \in Seq(Entry) /\ Len(log) \in Nat
      /\ mem \in State /\ disk \in State
  BY DEF RelayInv, TypeOK, RelayTypeOK
<1>b. UNCHANGED <<drain, mem, disk, submitted>>
  BY DEF Proposal, workerVars
<1>c. RelayTypeOK'
  BY ProposalStep DEF RelayInv, TypeOK
<1>1. RelayGrows /\ NoneTwice
  <2>1. ASSUME NEW e \in Envelopes, NEW kind \in {"request", "other"}, StoreEnvelope(kind, e)
        PROVE  /\ Len(log') = Len(log) + 1
               /\ \A i \in 1 .. Len(log) : log'[i] = log[i]
               /\ log'[Len(log')] = [kind |-> kind, env |-> e]
    <3>1. [kind |-> kind, env |-> e] \in Entry
      BY DEF Entry
    <3> QED
      BY <1>a, <2>1, <3>1, AppendFacts DEF StoreEnvelope
  <2>2. ASSUME NEW e \in Envelopes, RelayAction(e) PROVE RelayGrows /\ NoneTwice
    <3>1. /\ Len(log') = Len(log) + 1 /\ \A i \in 1 .. Len(log) : log'[i] = log[i]
          /\ log'[Len(log')] = [kind |-> "request", env |-> e]
          /\ e \notin Relayed /\ UNCHANGED <<settled, late>>
      BY <2>1, <2>2 DEF RelayAction
    <3>2. RelayGrows
      BY <1>a, <3>1 DEF RelayGrows
    <3>3. ASSUME NEW f \in Relayed, NEW i \in 1 .. Len(log'), Delivers(i, f)'
          PROVE  i \in 1 .. Len(log)
      <4>1. i = Len(log') => f = e
        BY <3>1, <3>3 DEF Delivers
      <4> QED
        BY <1>a, <3>1, <4>1
    <3> QED
      BY <3>2, <3>3 DEF NoneTwice
  <2>3. ASSUME NEW e \in Envelopes, Expire(e) PROVE RelayGrows /\ NoneTwice
    BY <1>a, <2>3 DEF Expire, RelayGrows, NoneTwice
  <2>4. ASSUME NEW e \in Envelopes, DeliverToVerifier(e) PROVE RelayGrows /\ NoneTwice
    <3>1. /\ Len(log') = Len(log) + 1 /\ \A i \in 1 .. Len(log) : log'[i] = log[i]
          /\ log'[Len(log')] = [kind |-> "other", env |-> e]
          /\ settled \subseteq settled' /\ UNCHANGED late
      BY <2>1, <2>4 DEF DeliverToVerifier
    <3>2. RelayGrows
      BY <1>a, <3>1 DEF RelayGrows
    <3>3. ASSUME NEW f \in Relayed, NEW i \in 1 .. Len(log'), Delivers(i, f)'
          PROVE  i \in 1 .. Len(log)
      <4>1. i # Len(log')
        BY <3>1, <3>3 DEF Delivers
      <4> QED
        BY <1>a, <3>1, <4>1
    <3> QED
      BY <3>2, <3>3 DEF NoneTwice
  <2> QED
    BY <2>2, <2>3, <2>4 DEF Proposal
<1>d. \A i \in 1 .. Len(log) : \A e : Delivers(i, e)' <=> Delivers(i, e)
  BY <1>1 DEF Delivers, RelayGrows
<1>e. Relayed \subseteq Relayed' /\ \A i \in 1 .. Len(log) : \A e : Delivers(i, e) => e \in Relayed
  BY <1>a, <1>1 DEF Relayed, RelayGrows, Delivers
<1>2. OneDelivery'
  <2> SUFFICES ASSUME NEW e \in Envelopes, NEW i \in 1 .. Len(log'), NEW j \in 1 .. Len(log'),
                      Delivers(i, e)', Delivers(j, e)'
               PROVE  i = j
    BY DEF OneDelivery
  <2>1. CASE e \in Relayed
    BY <1>1, <1>d, <2>1 DEF NoneTwice, ResubmissionInv, OneDelivery
  <2>2. CASE e \notin Relayed
    <3>1. i \notin 1 .. Len(log) /\ j \notin 1 .. Len(log)
      BY <1>d, <1>e, <2>2
    <3>2. Len(log') \in {Len(log), Len(log) + 1}
      BY <1>a, AppendFacts DEF Proposal, RelayAction, Expire, DeliverToVerifier, StoreEnvelope, Entry
    <3> QED
      BY <1>a, <3>1, <3>2
  <2> QED
    BY <2>1, <2>2
<1>3. Retains(mem)' /\ Retains(disk)'
  BY <1>a, <1>b, <1>c, <1>1, RetainsKept DEF ResubmissionInv, Retains
<1>4. PageStands'
  <2> SUFFICES ASSUME drain.at # "advancing" PROVE PageStands'
    BY <1>b DEF PageStands
  <2>0. drain.page \subseteq 1 .. Len(log) /\ mem.cursor \in 0 .. Len(log)
    BY <1>a DEF TypeOK, State
  <2>1. ASSUME NEW i \in drain.page, Live(i)' PROVE i \in PollDeliveries(mem.cursor)'
    <3>1. Live(i)
      BY <1>1, <2>0, <2>1 DEF Live, RelayGrows
    <3>2. i \in PollDeliveries(mem.cursor)
      BY <3>1 DEF ResubmissionInv, PageStands
    <3> DEFINE k == mem.cursor
    <3>3. k \in 0 .. Len(log) /\ i \in PollDeliveries(k)
      BY <2>0, <3>2
    <3>4. i \in PollDeliveries(k)' /\ k' = k
      <4>1. k' = k
        BY <1>b
      <4>2. \A c \in 0 .. Len(log) : i \in PollDeliveries(c) => i \in PollDeliveries(c)'
        BY <1>a, <1>c, <1>1, <2>1, PageStays
      <4> QED
        BY <1>b, <3>3, <4>1, <4>2 DEF PollDeliveries, Ready
    <3> QED
      BY <3>4
  <2>2. ASSUME drain.at # "polling", NEW e \in Envelopes, mem.cache[e].delivered
        PROVE  InPage(e, mem.cursor, drain.page)'
    <3>1. InPage(e, mem.cursor, drain.page) /\ e \in Relayed
      BY <2>2 DEF ResubmissionInv, PageStands, Retains
    <3> QED
      BY <1>b, <1>d, <1>1, <3>1 DEF InPage, NoneTwice, RelayGrows
  <2> QED
    BY <1>b, <2>1, <2>2 DEF PageStands
<1>5. SavedFirst'
  <2>1. drain.at \in {"processing", "saving"} => Current' = Current
    <3>1. drain.at \in {"processing", "saving"} => drain.todo # {}
      BY <1>a DEF PageInv
    <3> QED
      BY <1>a, <1>b, <1>1, <3>1, FirstFacts DEF Current, First, RelayGrows
  <2> QED
    BY <1>b, <2>1 DEF ResubmissionInv, SavedFirst
<1> QED
  BY <1>b, <1>e, <1>2, <1>3, <1>4, <1>5 DEF ResubmissionInv, ExactResubmission

\* With the relay's log as it was, what is done, in the page or next is the same.
LEMMA SameRelay ==
  ASSUME UNCHANGED <<log, late>>
  PROVE  /\ Relayed' = Relayed /\ (OneDelivery' <=> OneDelivery)
         /\ \A i : Live(i)' <=> Live(i)
         /\ \A c : PollDeliveries(c)' = PollDeliveries(c)
         /\ \A e, c : Done(e, c)' <=> Done(e, c)
         /\ \A e, c, p : InPage(e, c, p)' <=> InPage(e, c, p)
<1>1. Relayed' = Relayed
  BY DEF Relayed
<1>2. OneDelivery' <=> OneDelivery
  BY DEF OneDelivery, Delivers
<1>3. \A i : Live(i)' <=> Live(i)
  BY DEF Live
<1>4. \A c : PollDeliveries(c)' = PollDeliveries(c)
  BY DEF PollDeliveries, Ready, Live
<1>5. \A e, c : Done(e, c)' <=> Done(e, c)
  BY DEF Done, Delivers
<1>6. \A e, c, p : InPage(e, c, p)' <=> InPage(e, c, p)
  BY DEF InPage, Delivers
<1> QED
  BY <1>1, <1>2, <1>3, <1>4, <1>5, <1>6

\* The drain moves on or is over, and nothing is cached, saved or submitted.
LEMMA ResubmitQuiet ==
  ASSUME RelayInv, ResubmissionInv, UNCHANGED <<log, late, mem, disk, submitted>>,
         PageStands', SavedFirst'
  PROVE  ResubmissionInv'
<1>1. Retains(mem)' /\ Retains(disk)'
  BY SameRelay DEF ResubmissionInv, Retains
<1> QED
  BY <1>1, SameRelay DEF ResubmissionInv, ExactResubmission

\* A drain that ends between two saves leaves memory as it is on disk.
LEMMA ResubmitEnds ==
  ASSUME RelayInv, ResubmissionInv, UNCHANGED <<log, late, mem, disk, submitted>>,
         drain' = NoDrain, drain.at \notin {"saving", "advancing"}
  PROVE  ResubmissionInv'
<1>1. drain'.at = "polling" /\ drain'.page = {}
  BY DEF NoDrain
<1>2. PageStands'
  BY <1>1 DEF PageStands
<1>3. SavedFirst'
  BY <1>1 DEF SavedFirst, ResubmissionInv
<1> QED
  BY <1>2, <1>3, ResubmitQuiet

LEMMA ResubmitLoop ==
  ASSUME RelayInv, ResubmissionInv, UNCHANGED <<log, late, drain, mem, disk, submitted>>
  PROVE  ResubmissionInv'
<1>1. PageStands'
  BY SameRelay DEF PageStands, ResubmissionInv
<1>2. SavedFirst'
  BY DEF SavedFirst, Current, First, ResubmissionInv
<1> QED
  BY <1>1, <1>2, ResubmitQuiet

LEMMA ResubmitPoll ==
  ASSUME RelayInv, ResubmissionInv, Poll
  PROVE  ResubmissionInv'
<1>a. drain.at = "polling" /\ UNCHANGED <<log, late, mem, disk, submitted>>
  BY DEF Poll, relayVars
<1> DEFINE page == PollDeliveries(mem.cursor)
<1>1. CASE page = {}
  <2>1. drain' = NoDrain
    BY <1>1 DEF Poll, DrainReturns
  <2> QED
    BY <1>a, <2>1, ResubmitEnds
<1>2. CASE page # {}
  <2>1. drain' = [at |-> "deciding", page |-> page, todo |-> page]
    BY <1>2 DEF Poll
  <2>2. drain'.at = "deciding" /\ drain'.page = PollDeliveries(mem.cursor)
    BY <2>1
  <2>3. PageStands'
    BY <1>a, <2>2, SameRelay DEF PageStands, Retains, ResubmissionInv
  <2>4. SavedFirst'
    BY <1>a, <2>2 DEF SavedFirst, ResubmissionInv
  <2> QED
    BY <1>a, <2>3, <2>4, ResubmitQuiet
<1> QED
  BY <1>1, <1>2

LEMMA ResubmitFails ==
  ASSUME RelayInv, ResubmissionInv, CallFails, SaveFaults = FALSE
  PROVE  ResubmissionInv'
<1>1. drain.at \notin {"saving", "advancing"} /\ drain' = NoDrain
  BY DEF CallFails, DrainFails
<1>2. UNCHANGED <<log, late, mem, disk, submitted>>
  BY DEF CallFails, relayVars
<1> QED
  BY <1>1, <1>2, ResubmitEnds

\* The drain's first delivery is the only one of its envelope, and behind the
\* cursor.
LEMMA CurrentFacts ==
  ASSUME RelayInv, OneDelivery, drain.todo # {}, IsActionRequest(First),
         drain.at # "advancing"
  PROVE  /\ Current \in Envelopes /\ Current \in Relayed
         /\ First \in drain.page /\ First \in 1 .. Len(log)
         /\ mem.cursor < First
         /\ Delivers(First, Current)
         /\ \A i \in 1 .. Len(log) : Delivers(i, Current) => i = First
         /\ Current \notin late => Live(First)
<1>a. TypeOK /\ PageInv /\ First \in drain.todo /\ First \in 1 .. Len(log) /\ Current \in Envelopes
  BY FirstFacts DEF RelayInv
<1>1. First \in drain.page /\ mem.cursor < First
  BY <1>a DEF PageInv
<1>2. log[First] \in Entry /\ log[First].kind = "request"
  BY <1>a DEF TypeOK, RelayTypeOK, IsActionRequest
<1>3. Delivers(First, Current)
  BY <1>2 DEF Delivers, Current, Entry
<1>4. Current \in Relayed
  BY <1>a DEF Relayed, Current
<1>5. \A i \in 1 .. Len(log) : Delivers(i, Current) => i = First
  BY <1>a, <1>3 DEF OneDelivery
<1>6. Current \notin late => Live(First)
  BY DEF Live, Current
<1> QED
  BY <1>a, <1>1, <1>3, <1>4, <1>5, <1>6

LEMMA ResubmitDelivery ==
  ASSUME RelayInv, ResubmissionInv, ProcessDelivery
  PROVE  ResubmissionInv'
<1>a. /\ TypeOK /\ drain.at = "deciding" /\ drain.todo # {}
      /\ UNCHANGED <<log, late, mem, disk, submitted>>
  BY DEF RelayInv, ProcessDelivery, relayVars
<1>1. CASE ~IsActionRequest(First)
  <2>1. drain' = NoDrain
    BY <1>1 DEF ProcessDelivery, DrainFails
  <2> QED
    BY <1>a, <2>1, ResubmitEnds
<1>2. CASE IsActionRequest(First)
  <2>1. \/ NextDelivery
        \/ Await("submitting")
        \/ Await("processing") /\ Current \notin late /\ mem.cache[Current].version = NoVersion
    BY <1>2 DEF ProcessDelivery
  <2>2. drain'.page = drain.page /\ drain'.at \in {"deciding", "submitting", "processing"}
    BY <2>1 DEF NextDelivery, Await
  <2>3. PageStands'
    BY <1>a, <2>2, SameRelay DEF PageStands, ResubmissionInv
  <2>4. ASSUME Current \notin late, mem.cache[Current].version = NoVersion,
               NEW x \in submitted, x[1] = Current
        PROVE  FALSE
    <3>1. x[2] \in Versions
      BY <1>a DEF TypeOK
    <3>2. Done(Current, mem.cursor)
      BY <2>4, <3>1, WorkerConstants DEF ResubmissionInv, Retains
    <3>3. /\ Delivers(First, Current) /\ First \in 1 .. Len(log) /\ mem.cursor < First
      BY <1>a, <1>2, CurrentFacts DEF ResubmissionInv
    <3>4. First <= mem.cursor /\ mem.cursor \in Nat
      BY <1>a, <2>4, <3>2, <3>3 DEF Done, TypeOK, State
    <3> QED
      BY <3>3, <3>4
  <2>5. drain'.at = "processing" => /\ Current' = Current /\ Current \notin late
                                    /\ mem.cache[Current].version = NoVersion
    BY <1>a, <2>1 DEF NextDelivery, Await, Current, First
  <2>6. SavedFirst'
    BY <1>a, <2>2, <2>4, <2>5 DEF SavedFirst, ResubmissionInv
  <2> QED
    BY <1>a, <2>3, <2>6, ResubmitQuiet
<1> QED
  BY <1>1, <1>2

LEMMA ResubmitAction ==
  ASSUME RelayInv, ResubmissionInv, NEW v \in Versions, ProcessAction(v)
  PROVE  ResubmissionInv'
<1> DEFINE x == [version |-> v, delivered |-> FALSE]
<1>a. /\ TypeOK /\ PageInv /\ drain.at = "processing" /\ drain.todo # {}
      /\ UNCHANGED <<log, late, disk, submitted>>
      /\ Cache(Current, x) /\ Await("saving")
  BY DEF RelayInv, ProcessAction, PageInv, relayVars
<1>b. Current \in Envelopes /\ x \in Cached /\ x.version = v /\ x.delivered = FALSE
  BY <1>a, FirstFacts DEF Cached
<1>1. /\ mem'.cursor = mem.cursor /\ mem'.cache[Current] = x
      /\ \A f \in Envelopes \ {Current} : mem'.cache[f] = mem.cache[f]
  BY <1>a, <1>b, CacheFacts
<1> HIDE DEF x
<1>2. drain'.at = "saving" /\ drain'.page = drain.page /\ Current' = Current
  BY <1>a DEF Await, Current, First
<1>3. \A y \in submitted : y[1] # Current /\ y[1] \in Envelopes
  BY <1>a DEF ResubmissionInv, SavedFirst, TypeOK
<1>4. Retains(mem)'
  <2>1. ASSUME NEW y \in submitted
        PROVE  \/ mem'.cache[y[1]].version = y[2]
               \/ mem'.cache[y[1]].version = NoVersion /\ Done(y[1], mem'.cursor)
    BY <1>1, <1>3 DEF ResubmissionInv, Retains
  <2>2. ASSUME NEW e \in Envelopes, mem'.cache[e].delivered
        PROVE  e \in Relayed /\ InPage(e, mem'.cursor, PollDeliveries(mem'.cursor))
    BY <1>b, <1>1, <2>2 DEF ResubmissionInv, Retains
  <2> QED
    BY <1>a, <2>1, <2>2, SameRelay DEF Retains
<1>5. Retains(disk)'
  BY <1>a, SameRelay DEF ResubmissionInv, Retains
<1>6. PageStands'
  <2>1. ASSUME NEW e \in Envelopes, mem'.cache[e].delivered
        PROVE  InPage(e, mem.cursor, drain.page)
    BY <1>a, <1>b, <1>1, <2>1 DEF ResubmissionInv, PageStands
  <2> QED
    BY <1>a, <1>1, <1>2, <2>1, SameRelay DEF PageStands, ResubmissionInv
<1>7. SavedFirst'
  BY <1>a, <1>1, <1>2, <1>3 DEF SavedFirst, ResubmissionInv
<1> QED
  BY <1>a, <1>4, <1>5, <1>6, <1>7, SameRelay DEF ResubmissionInv, ExactResubmission

LEMMA ResubmitSave ==
  ASSUME RelayInv, ResubmissionInv, Save
  PROVE  ResubmissionInv'
<1>a. UNCHANGED <<log, late, mem, submitted>> /\ disk' = mem
  BY DEF Save, relayVars
<1>1. Retains(mem)' /\ Retains(disk)'
  BY <1>a, SameRelay DEF ResubmissionInv, Retains
<1>2. \/ /\ drain.at \in {"saving", "confirming"} /\ drain'.page = drain.page
         /\ drain'.at \in {"submitting", "deciding"}
      \/ drain'.at = "polling" /\ drain'.page = {}
  BY DEF Save, Await, NextDelivery, NoDrain
<1>3. PageStands'
  BY <1>a, <1>2, SameRelay DEF PageStands, ResubmissionInv
<1>4. SavedFirst'
  BY <1>a, <1>2 DEF SavedFirst
<1> QED
  BY <1>a, <1>1, <1>3, <1>4, SameRelay DEF ResubmissionInv, ExactResubmission

LEMMA ResubmitSubmit ==
  ASSUME RelayInv, ResubmissionInv, Submit
  PROVE  ResubmissionInv'
<1> DEFINE v == mem.cache[Current].version
           x == [version |-> v, delivered |-> TRUE]
<1>a. /\ TypeOK /\ PageInv
      /\ drain.at = "submitting" /\ drain.todo # {} /\ IsActionRequest(First)
      /\ v # NoVersion /\ drain.at # "advancing" /\ OneDelivery
      /\ UNCHANGED <<log, late, disk>>
      /\ submitted' = submitted \cup {<<Current, v>>}
  BY DEF RelayInv, Submit, PageInv, ResubmissionInv
<1>b. /\ Current \in Envelopes /\ Current \in Relayed
      /\ First \in drain.page /\ First \in 1 .. Len(log)
      /\ \A i \in 1 .. Len(log) : Delivers(i, Current) => i = First
      /\ Current \notin late => Live(First)
  BY <1>a, CurrentFacts
<1>c. v \in Versions
  BY <1>a, <1>b DEF TypeOK, State, Cached
<1>d. \A y \in submitted : y[1] \in Envelopes /\ y[2] \in Versions
  BY <1>a DEF TypeOK
<1>e. disk.cache[Current].version = v
  BY <1>a, <1>b DEF ResubmissionInv, SavedFirst
<1>1. \A y \in submitted : y[1] = Current => y[2] = v
  BY <1>a DEF ResubmissionInv, Retains
<1>2. \A y \in submitted' : y \in submitted \/ (y[1] = Current /\ y[2] = v)
  BY <1>a
<1>3. ExactResubmission' /\ \A y \in submitted' : y[1] \in Relayed'
  BY <1>a, <1>b, <1>1, <1>2, SameRelay DEF ResubmissionInv, ExactResubmission
<1>4. Retains(disk)'
  <2>1. ASSUME NEW y \in submitted'
        PROVE  \/ disk.cache[y[1]].version = y[2]
               \/ disk.cache[y[1]].version = NoVersion /\ Done(y[1], disk.cursor)
    BY <1>2, <1>e DEF ResubmissionInv, Retains
  <2> QED
    BY <1>a, <2>1, SameRelay DEF ResubmissionInv, Retains
<1>5. ASSUME NEW s, s.cursor = mem.cursor, s.cache[Current].version = v,
             \A f \in Envelopes \ {Current} : s.cache[f] = mem.cache[f], NEW y \in submitted'
      PROVE  \/ s.cache[y[1]].version = y[2]
             \/ s.cache[y[1]].version = NoVersion /\ Done(y[1], s.cursor)
  <2>1. CASE y[1] = Current
    BY <1>1, <1>2, <1>5, <2>1
  <2>2. CASE y[1] # Current
    <3>1. y \in submitted /\ y[1] \in Envelopes \ {Current}
      BY <1>2, <1>d, <2>2
    <3> QED
      BY <1>5, <3>1 DEF ResubmissionInv, Retains
  <2> QED
    BY <2>1, <2>2
<1>6. \A e \in Envelopes : (mem.cache[e].version # disk.cache[e].version) = FALSE
  BY <1>a DEF ResubmissionInv, SavedFirst
<1>7. CASE Cache(Current, x) /\ Await("confirming")
  <2>1. x \in Cached /\ x.version = v
    BY <1>c DEF Cached
  <2>2. /\ mem'.cursor = mem.cursor /\ mem'.cache[Current] = x
        /\ \A f \in Envelopes \ {Current} : mem'.cache[f] = mem.cache[f]
    BY <1>a, <1>b, <1>7, <2>1, CacheFacts
  <2>3. drain'.at = "confirming" /\ drain'.page = drain.page
    BY <1>7 DEF Await
  <2> HIDE DEF x, v
  <2>4. /\ InPage(Current, mem.cursor, PollDeliveries(mem.cursor))
        /\ InPage(Current, mem.cursor, drain.page)
    BY <1>a, <1>b DEF InPage, ResubmissionInv, PageStands
  <2>5. Retains(mem)'
    <3>1. \A y \in submitted' :
            \/ mem'.cache[y[1]].version = y[2]
            \/ mem'.cache[y[1]].version = NoVersion /\ Done(y[1], mem'.cursor)
      BY <1>5, <2>1, <2>2
    <3>2. ASSUME NEW e \in Envelopes, mem'.cache[e].delivered
          PROVE  e \in Relayed /\ InPage(e, mem'.cursor, PollDeliveries(mem'.cursor))
      BY <1>b, <2>2, <2>4, <3>2 DEF ResubmissionInv, Retains
    <3> QED
      BY <1>a, <3>1, <3>2, SameRelay DEF Retains
  <2>6. PageStands'
    <3>1. ASSUME NEW e \in Envelopes, mem'.cache[e].delivered
          PROVE  InPage(e, mem.cursor, drain.page)
      BY <1>a, <1>b, <2>2, <2>4, <3>1 DEF ResubmissionInv, PageStands
    <3> QED
      BY <1>a, <2>2, <2>3, <3>1, SameRelay DEF PageStands, ResubmissionInv
  <2>7. SavedFirst'
    BY <1>a, <1>e, <1>6, <2>1, <2>2, <2>3 DEF SavedFirst
  <2> QED
    BY <1>a, <1>3, <1>4, <2>5, <2>6, <2>7, SameRelay DEF ResubmissionInv
<1>8. CASE drain' = NoDrain /\ UNCHANGED mem
  <2> HIDE DEF v
  <2>1. Retains(mem)'
    <3>1. \A y \in submitted' :
            \/ mem.cache[y[1]].version = y[2]
            \/ mem.cache[y[1]].version = NoVersion /\ Done(y[1], mem.cursor)
      BY <1>5 DEF v
    <3> QED
      BY <1>a, <1>8, <3>1, SameRelay DEF Retains, ResubmissionInv
  <2>2. drain'.at = "polling" /\ drain'.page = {}
    BY <1>8 DEF NoDrain
  <2>3. PageStands'
    BY <2>2 DEF PageStands
  <2>4. SavedFirst'
    BY <1>a, <1>6, <1>8, <2>2 DEF SavedFirst
  <2> QED
    BY <1>a, <1>3, <1>4, <2>1, <2>3, <2>4, SameRelay DEF ResubmissionInv
<1> QED
  BY <1>7, <1>8 DEF Submit, DrainFails

\* The cursor moves over the page: a response is dropped from the cache only
\* when its delivery is behind the cursor or expired.
LEMMA ResubmitAdvance ==
  ASSUME RelayInv, ResubmissionInv, AdvanceCursor
  PROVE  ResubmissionInv'
<1>a. /\ TypeOK /\ PageInv /\ Len(log) \in Nat
      /\ drain.at = "deciding" /\ drain.page # {} /\ drain.page \in SUBSET (1 .. Len(log))
      /\ mem.cursor \in 0 .. Len(log)
      /\ UNCHANGED <<log, late, disk, submitted>>
  BY DEF RelayInv, AdvanceCursor, TypeOK, RelayTypeOK, PageInv, State, relayVars
<1> DEFINE M == Max(drain.page)
<1>1. /\ mem'.cursor = M
      /\ mem'.cache = [e \in Envelopes |-> IF mem.cache[e].delivered THEN NoCached ELSE mem.cache[e]]
      /\ drain'.at = "advancing"
  BY DEF AdvanceCursor, Await
<1>2. M \in drain.page /\ \A i \in drain.page : i <= M
  BY <1>a, GreatestElement
<1>3. mem.cursor < M /\ M \in Nat
  BY <1>a, <1>2 DEF PageInv
<1> HIDE DEF M
<1>4. NoCached.version = NoVersion /\ ~NoCached.delivered
  BY DEF NoCached
<1>5. Retains(mem)'
  <2>1. ASSUME NEW x \in submitted
        PROVE  \/ mem'.cache[x[1]].version = x[2]
               \/ mem'.cache[x[1]].version = NoVersion /\ Done(x[1], mem'.cursor)
    <3>1. x[1] \in Envelopes
      BY <1>a DEF TypeOK
    <3>2. CASE mem.cache[x[1]].delivered
      <4>1. InPage(x[1], mem.cursor, drain.page)
        BY <1>a, <3>1, <3>2 DEF ResubmissionInv, PageStands
      <4>2. Done(x[1], M)
        BY <1>a, <1>2, <1>3, <4>1 DEF InPage, Done
      <4> QED
        BY <1>1, <1>4, <3>1, <3>2, <4>2
    <3>3. CASE ~mem.cache[x[1]].delivered
      <4>1. mem'.cache[x[1]] = mem.cache[x[1]]
        BY <1>1, <3>1, <3>3
      <4>2. Done(x[1], mem.cursor) => Done(x[1], M)
        BY <1>a, <1>3 DEF Done
      <4> QED
        BY <1>1, <4>1, <4>2 DEF ResubmissionInv, Retains
    <3> QED
      BY <3>2, <3>3
  <2>2. \A e \in Envelopes : ~mem'.cache[e].delivered
    BY <1>1, <1>4
  <2> QED
    BY <1>a, <2>1, <2>2, SameRelay DEF Retains
<1>6. Retains(disk)'
  BY <1>a, SameRelay DEF ResubmissionInv, Retains
<1>7. PageStands'
  BY <1>1 DEF PageStands
<1>8. SavedFirst'
  <2>1. \A e \in Envelopes : mem.cache[e].version = disk.cache[e].version
    BY <1>a DEF ResubmissionInv, SavedFirst
  <2> QED
    BY <1>a, <1>1, <1>4, <2>1 DEF SavedFirst
<1> QED
  BY <1>a, <1>5, <1>6, <1>7, <1>8, SameRelay DEF ResubmissionInv, ExactResubmission

LEMMA ResubmitExit ==
  ASSUME RelayInv, ResubmissionInv, Exit
  PROVE  ResubmissionInv'
<1>a. UNCHANGED <<log, late, disk, submitted>> /\ mem' = disk /\ drain' = NoDrain
  BY DEF Exit, relayVars
<1>1. drain'.at = "polling" /\ drain'.page = {}
  BY <1>a DEF NoDrain
<1>2. Retains(mem)' /\ Retains(disk)'
  BY <1>a, SameRelay DEF ResubmissionInv, Retains
<1>3. PageStands'
  BY <1>1 DEF PageStands
<1>4. SavedFirst'
  BY <1>a, <1>1 DEF SavedFirst
<1> QED
  BY <1>a, <1>2, <1>3, <1>4, SameRelay DEF ResubmissionInv, ExactResubmission

LEMMA ResubmitInit == Init => ResubmissionInv
<1> SUFFICES ASSUME Init PROVE ResubmissionInv
  OBVIOUS
<1>1. /\ log = <<>> /\ Len(log) = 0 /\ submitted = {} /\ mem = NewState /\ disk = NewState
      /\ drain.at = "polling" /\ drain.page = {}
  BY DEF Init, RelayInit, NoDrain
<1>2. \A e \in Envelopes : ~NewState.cache[e].delivered
  BY DEF NewState, NoCached
<1>3. OneDelivery
  BY <1>1 DEF OneDelivery
<1>4. Retains(mem) /\ Retains(disk)
  BY <1>1, <1>2 DEF Retains
<1>5. PageStands /\ SavedFirst
  BY <1>1 DEF PageStands, SavedFirst
<1> QED
  BY <1>1, <1>3, <1>4, <1>5 DEF ResubmissionInv, ExactResubmission

LEMMA ResubmitStep ==
  SaveFaults = FALSE /\ RelayInv /\ ResubmissionInv /\ [Next]_vars => ResubmissionInv'
<1> SUFFICES ASSUME SaveFaults = FALSE, RelayInv, ResubmissionInv, [Next]_vars
             PROVE  ResubmissionInv'
  OBVIOUS
<1>1. CASE \/ LoopStep \/ Upgrade \/ Wake \/ FallbackPoll \/ Drop \/ LoseFrame
           \/ UNCHANGED vars
  <2>1. UNCHANGED <<log, late, drain, mem, disk, submitted>>
    BY <1>1 DEF LoopStep, Start, Connect, Disconnected, Retry, Upgrade, Wake, FallbackPoll,
                Drop, LoseFrame, vars, relayVars, workerVars
  <2> QED
    BY <2>1, ResubmitLoop
<1> QED
  BY <1>1, ResubmitProposal, ResubmitPoll, ResubmitFails, ResubmitDelivery, ResubmitAction,
     ResubmitSave, ResubmitSubmit, ResubmitAdvance, ResubmitExit DEF Next, DrainStep

\* As long as the state file can be written, the worker submits one response
\* for an Action however often it is polled again: after a lost acknowledgement,
\* a reconnect or a crash at any await it submits the bytes it submitted first
\* (processDelivery saves the response before submitActionResponse).
THEOREM SameResponseAgain ==
  ASSUME SaveFaults = FALSE
  PROVE  Spec => []ExactResubmission
<1>1. ResubmissionInv => ExactResubmission
  BY DEF ResubmissionInv
<1>2. RelayInv /\ ResubmissionInv /\ [Next]_vars => ResubmissionInv'
  BY ResubmitStep
<1> QED
  BY <1>1, <1>2, ResubmitInit, RelayInit1, RelayStep, PTL DEF Spec
==============================================================================
