--------------------------- MODULE ApprovalProofs ---------------------------
(***************************************************************************)
(* From one approval expression to an authorized Action, for every policy, *)
(* requirement and number of signers.  First, the verdict on the decisions *)
(* of an expression is exact and "unreachable" is a final one.  Then, what *)
(* a Verifier executes was granted by the signers of that very Action.     *)
(***************************************************************************)
EXTENDS ApprovalCollection, AuthorizationRounds, FiniteSetTheorems,
        WellFoundedInduction, TLAPS

\* The signers of a threshold that count for it or may still do so are a
\* finite set, in two disjoint parts.
LEMMA CountingParts ==
  ASSUME NEW t \in Threshold, NEW x \in Decisions
  PROVE  /\ IsFiniteSet(Matching(t, x) \cup Open(t, x))
         /\ Cardinality(Matching(t, x)) \in Nat
         /\ Cardinality(Open(t, x)) \in Nat
         /\ Cardinality(Matching(t, x) \cup Open(t, x)) =
              Cardinality(Matching(t, x)) + Cardinality(Open(t, x))
<1>1. Matching(t, x) \subseteq Dids /\ Open(t, x) \subseteq Dids
  BY DEF Matching, Open, Threshold
<1>2. IsFiniteSet(Matching(t, x)) /\ IsFiniteSet(Open(t, x))
  BY <1>1, DidsFinite, FS_Subset
<1>3. Matching(t, x) \cap Open(t, x) = {}
  BY DEF Matching, Open, Threshold, Decision, Undecided
<1>4. Cardinality(Matching(t, x)) \in Nat /\ Cardinality(Open(t, x)) \in Nat
  BY <1>2, FS_CardinalityType
<1>5. IsFiniteSet(Matching(t, x) \cup Open(t, x))
  BY <1>2, FS_Union
<1>6. Cardinality(Matching(t, x) \cup Open(t, x)) =
        Cardinality(Matching(t, x)) + Cardinality(Open(t, x))
        - Cardinality(Matching(t, x) \cap Open(t, x))
  BY <1>2, FS_Union
<1>7. Cardinality(Matching(t, x) \cap Open(t, x)) = 0
  BY <1>3, FS_EmptySet
<1> QED
  BY <1>4, <1>5, <1>6, <1>7

\* Decisions only take signers away from those who may still count.
LEMMA ThresholdFinal ==
  ASSUME NEW t \in Threshold, NEW x \in Decisions, NEW y \in Decisions,
         Extends(x, y), ThresholdStatus(t, x) = "unreachable"
  PROVE  ThresholdStatus(t, y) = "unreachable"
<1>1. Matching(t, y) \cup Open(t, y) \subseteq Matching(t, x) \cup Open(t, x)
  BY DEF Matching, Open, Extends, Threshold, Decisions
<1> PICK mx \in Nat, ox \in Nat, my \in Nat, oy \in Nat, n \in Nat :
      /\ mx = Cardinality(Matching(t, x)) /\ ox = Cardinality(Open(t, x))
      /\ my = Cardinality(Matching(t, y)) /\ oy = Cardinality(Open(t, y))
      /\ n = t.threshold
  BY CountingParts DEF Threshold
<1>2. Cardinality(Matching(t, x) \cup Open(t, x)) = mx + ox
  BY CountingParts
<1>3. Cardinality(Matching(t, y) \cup Open(t, y)) = my + oy
  BY CountingParts
<1>4. my + oy <= mx + ox
  <2>1. IsFiniteSet(Matching(t, x) \cup Open(t, x))
    BY CountingParts
  <2> QED
    BY <1>1, <1>2, <1>3, <2>1, FS_Subset
<1>5. mx + ox < n
  BY DEF ThresholdStatus
<1>6. ~(my >= n) /\ ~(my + oy >= n)
  BY <1>4, <1>5
<1> QED
  BY <1>6 DEF ThresholdStatus

\* Threshold paths out of reach stay out of reach.
LEMMA PathsFinal ==
  ASSUME NEW Q \in Requirements, NEW x \in Decisions, NEW y \in Decisions,
         Extends(x, y), ~PathsReachable(Q, x)
  PROVE  ~PathsReachable(Q, y) /\ ~PathsSatisfied(Q, y)
<1>1. \A t \in Q.anyOf \cup Q.allOf : t \in Threshold
  BY DEF Requirements
<1>2. \A t \in Q.anyOf \cup Q.allOf :
        ThresholdStatus(t, x) = "unreachable" => ThresholdStatus(t, y) = "unreachable"
  BY <1>1, ThresholdFinal
<1>3. CASE Q.anyOf # {} /\ \A t \in Q.anyOf : ThresholdStatus(t, x) = "unreachable"
  <2>1. \A t \in Q.anyOf : ThresholdStatus(t, y) = "unreachable"
    BY <1>2, <1>3
  <2> QED
    BY <1>3, <2>1 DEF PathsReachable, PathsSatisfied
<1>4. CASE \E t \in Q.allOf : ThresholdStatus(t, x) = "unreachable"
  <2>1. \E t \in Q.allOf : ThresholdStatus(t, y) = "unreachable"
    BY <1>2, <1>4
  <2> QED
    BY <2>1 DEF PathsReachable, PathsSatisfied
<1> QED
  BY <1>3, <1>4 DEF PathsReachable

\* The verdict itself.
LEMMA VerdictFinal ==
  ASSUME NEW Q \in Requirements, NEW x \in Decisions, NEW y \in Decisions,
         Extends(x, y), Evaluate(Q, x) = "unreachable"
  PROVE  Evaluate(Q, y) = "unreachable"
<1>1. Q.rejecters \subseteq Dids /\ Q.approvers \subseteq Dids
  BY DEF Requirements
<1>2. CASE \E s \in Q.rejecters : x[s] = "reject"
  <2>1. \E s \in Q.rejecters : y[s] = "reject"
    BY <1>1, <1>2 DEF Extends, Undecided
  <2> QED
    BY <2>1 DEF Evaluate
<1>3. CASE ~\E s \in Q.rejecters : x[s] = "reject"
  <2>1. /\ ~\E s \in Q.approvers : x[s] = "approve"
        /\ ~PathsReachable(Q, x)
        /\ ~\E s \in Q.approvers : x[s] = Undecided
    BY <1>3 DEF Evaluate
  <2>2. /\ ~\E s \in Q.approvers : y[s] = "approve"
        /\ ~\E s \in Q.approvers : y[s] = Undecided
    BY <1>1, <2>1 DEF Extends
  <2>3. ~PathsReachable(Q, y) /\ ~PathsSatisfied(Q, y)
    BY <2>1, PathsFinal
  <2> QED
    BY <2>2, <2>3 DEF Evaluate
<1> QED
  BY <1>2, <1>3

\* Giving up is final: once evaluateApprovalRequirements says "unreachable", it
\* says so whatever the remaining signers decide.
THEOREM UnreachableStays == CollectSpec => UnreachableIsFinal
<1> DEFINE Typed == required \in Requirements /\ decided \in Decisions
<1>1. CollectInit => Typed
  BY CandidatesAssumption DEF CollectInit, NoDecisions, Decisions
<1>2. Typed /\ [CollectNext]_collectVars => Typed'
  BY DEF CollectNext, Collect, collectVars, Decisions
<1>3. Typed /\ Typed' /\ [CollectNext]_collectVars
        => (Evaluate(required, decided) = "unreachable" => Evaluate(required', decided') = "unreachable")
  <2> SUFFICES ASSUME Typed, Typed', [CollectNext]_collectVars, Evaluate(required, decided) = "unreachable"
               PROVE  Evaluate(required', decided') = "unreachable"
    OBVIOUS
  <2>1. required' = required /\ Extends(decided, decided')
    BY DEF CollectNext, Collect, collectVars, Decisions, Extends
  <2>2. Evaluate(required, decided') = "unreachable"
    BY <2>1, VerdictFinal
  <2> QED
    BY <2>1, <2>2
<1> QED
  BY <1>1, <1>2, <1>3, PTL DEF CollectSpec, UnreachableIsFinal

-----------------------------------------------------------------------------
\* A finite set has subsets of every smaller size.
LEMMA SubsetOfSize ==
  ASSUME NEW S, IsFiniteSet(S), NEW k \in Nat, k <= Cardinality(S)
  PROVE  \E T \in SUBSET S : Cardinality(T) = k
<1> DEFINE n == Cardinality(S)
<1>1. n \in Nat /\ ExistsBijection(1 .. n, S)
  BY FS_CardinalityType
<1>2. PICK f : f \in Bijection(1 .. n, S)
  BY <1>1 DEF ExistsBijection
<1> DEFINE T == {f[i] : i \in 1 .. k}
           g == [i \in 1 .. k |-> f[i]]
<1> HIDE DEF n
<1>3. 1 .. k \subseteq 1 .. n
  BY <1>1 DEF n
<1>4. /\ f \in [1 .. n -> S] /\ \A i, j \in 1 .. n : f[i] = f[j] => i = j
  BY <1>2 DEF Bijection, Injection, IsInjective
<1>5. T \in SUBSET S
  BY <1>3, <1>4
<1>6. g \in Bijection(1 .. k, T)
  BY <1>3, <1>4 DEF Bijection, Injection, IsInjective, Surjection
<1>7. IsFiniteSet(1 .. k) /\ Cardinality(1 .. k) = k
  BY FS_Interval
<1>8. Cardinality(T) = k
  BY <1>6, <1>7, FS_Bijection DEF ExistsBijection
<1> QED
  BY <1>5, <1>8

\* A threshold is met when enough of its signers decided as it asks.
LEMMA ThresholdExact ==
  ASSUME NEW t \in Threshold, NEW x \in Decisions
  PROVE  ThresholdMet(t, x) <=> ThresholdStatus(t, x) = "satisfied"
<1> DEFINE M == Matching(t, x)
<1>1. M \subseteq t.eligible /\ t.eligible \subseteq Dids /\ t.threshold \in Nat
  BY DEF Matching, Threshold
<1>2. IsFiniteSet(M)
  BY <1>1, DidsFinite, FS_Subset
<1>3. Cardinality(M) \in Nat
  BY <1>2, FS_CardinalityType
<1>4. ThresholdStatus(t, x) = "satisfied" <=> Cardinality(M) >= t.threshold
  BY DEF ThresholdStatus
<1>5. ASSUME ThresholdMet(t, x) PROVE Cardinality(M) >= t.threshold
  <2>1. PICK S \in SUBSET t.eligible : Cardinality(S) = t.threshold /\ \A s \in S : x[s] = t.decision
    BY <1>5 DEF ThresholdMet
  <2>2. S \in SUBSET M
    BY <2>1 DEF Matching
  <2>3. Cardinality(S) <= Cardinality(M)
    BY <1>2, <2>2, FS_Subset
  <2> QED
    BY <1>1, <1>3, <2>1, <2>3
<1>6. ASSUME Cardinality(M) >= t.threshold PROVE ThresholdMet(t, x)
  <2>1. PICK S \in SUBSET M : Cardinality(S) = t.threshold
    BY <1>1, <1>2, <1>3, <1>6, SubsetOfSize
  <2>2. S \in SUBSET t.eligible /\ \A s \in S : x[s] = t.decision
    BY <2>1 DEF Matching
  <2> QED
    BY <2>1, <2>2 DEF ThresholdMet
<1> QED
  BY <1>4, <1>5, <1>6

\* "satisfied" is what the reference calls met.
LEMMA SatisfiedIsMet ==
  ASSUME required \in Requirements, NEW x \in Decisions
  PROVE  Met(x) <=> Evaluate(required, x) = "satisfied"
<1>1. \A t \in required.anyOf \cup required.allOf : ThresholdMet(t, x) <=> ThresholdStatus(t, x) = "satisfied"
  BY ThresholdExact DEF Requirements
<1>2. PathsSatisfied(required, x) <=> /\ required.anyOf # {} => \E t \in required.anyOf : ThresholdMet(t, x)
                               /\ \A t \in required.allOf : ThresholdMet(t, x)
  BY <1>1 DEF PathsSatisfied
<1>3. Evaluate(required, x) = "satisfied" <=>
        /\ ~\E s \in required.rejecters : x[s] = "reject"
        /\ (\E s \in required.approvers : x[s] = "approve") \/ PathsSatisfied(required, x)
  BY DEF Evaluate
<1> QED
  BY <1>2, <1>3 DEF Met

\* When every undecided signer approves, each threshold in reach is met.
LEMMA AllApprove ==
  ASSUME NEW t \in Threshold, t.decision = "approve", NEW x \in Decisions, NEW y \in Decisions,
         \A s \in Dids : y[s] = IF x[s] = Undecided THEN "approve" ELSE x[s],
         ThresholdStatus(t, x) # "unreachable"
  PROVE  ThresholdMet(t, y)
<1>1. Matching(t, y) = Matching(t, x) \cup Open(t, x)
  BY DEF Matching, Open, Threshold
<1>2. Cardinality(Matching(t, y)) = Cardinality(Matching(t, x)) + Cardinality(Open(t, x))
  BY <1>1, CountingParts
<1>3. Cardinality(Matching(t, x)) \in Nat /\ Cardinality(Open(t, x)) \in Nat /\ t.threshold \in Nat
  BY CountingParts DEF Threshold
<1>4. \/ Cardinality(Matching(t, x)) >= t.threshold
      \/ Cardinality(Matching(t, x)) + Cardinality(Open(t, x)) >= t.threshold
  BY DEF ThresholdStatus
<1>5. Cardinality(Matching(t, y)) >= t.threshold
  BY <1>2, <1>3, <1>4
<1>6. ThresholdStatus(t, y) = "satisfied"
  BY <1>5 DEF ThresholdStatus
<1> QED
  BY <1>6, ThresholdExact

\* Of any requirements and any decisions the verdict says exactly what they
\* amount to.
LEMMA VerdictExact ==
  ASSUME required \in Requirements, decided \in Decisions
  PROVE  VerdictIsExact
<1>1. Evaluate(required, decided) = "satisfied" <=> Met(decided)
  BY SatisfiedIsMet
<1>2. ASSUME Evaluate(required, decided) = "unreachable", NEW e \in Futures PROVE ~Met(e)
  <2>1. e \in Decisions /\ Extends(decided, e)
    BY DEF Futures, Decisions
  <2>2. Evaluate(required, e) = "unreachable"
    BY <1>2, <2>1, VerdictFinal
  <2> QED
    BY <2>1, <2>2, SatisfiedIsMet
<1>3. ASSUME Evaluate(required, decided) = "pending", ApproveOnly(required) PROVE \E e \in Futures : Met(e)
  <2> DEFINE e == [s \in Dids |-> IF decided[s] = Undecided THEN "approve" ELSE decided[s]]
  <2>1. e \in [Dids -> Decision] /\ e \in Decisions /\ e \in Futures
    BY DEF Decisions, Decision, Undecided, Futures, Extends
  <2>2. \A s \in Dids : e[s] = IF decided[s] = Undecided THEN "approve" ELSE decided[s]
    OBVIOUS
  <2> HIDE DEF e
  <2>3. required.rejecters \subseteq Dids /\ required.approvers \subseteq Dids
    BY DEF Requirements
  <2>4. \A s \in required.rejecters : e[s] # "reject"
    BY <1>3, <2>2, <2>3 DEF Evaluate
  <2>5. PathsReachable(required, decided) \/ \E s \in required.approvers : decided[s] = Undecided
    BY <1>3 DEF Evaluate
  <2>6. \A t \in required.anyOf \cup required.allOf : ThresholdStatus(t, decided) # "unreachable" => ThresholdMet(t, e)
    BY <1>3, <2>1, <2>2, AllApprove DEF ApproveOnly, Requirements
  <2>7. Met(e)
    BY <2>2, <2>3, <2>4, <2>5, <2>6 DEF Met, PathsReachable
  <2> QED
    BY <2>1, <2>7
<1> QED
  BY <1>1, <1>2, <1>3 DEF VerdictIsExact

\* For every approval expression and any number of signers:
\* evaluateApprovalRequirements says "satisfied" exactly when the expression is
\* met, "unreachable" only when no future meets it, and "pending", where every
\* threshold asks for approvals, only when some future does.
THEOREM VerdictsAreExact == CollectSpec => []VerdictIsExact
<1> DEFINE Typed == required \in Requirements /\ decided \in Decisions
<1>1. CollectInit => Typed
  BY CandidatesAssumption DEF CollectInit, NoDecisions, Decisions
<1>2. Typed /\ [CollectNext]_collectVars => Typed'
  BY DEF CollectNext, Collect, collectVars, Decisions
<1>3. Typed => VerdictIsExact
  BY VerdictExact
<1> QED
  BY <1>1, <1>2, <1>3, PTL DEF CollectSpec

-----------------------------------------------------------------------------
(* Requirements.                                                           *)

\* A set of numbers has a least element.
LEMMA Least ==
  ASSUME NEW S \in SUBSET Nat, S # {}
  PROVE  \E x \in S : \A y \in S : x <= y
<1> DEFINE Below == {z \in Nat \X Nat : z[1] < z[2]}
<1>1. IsWellFoundedOn(Below, Nat)
  BY NatLessThanWellFounded, Zenon DEF OpToRel
<1>2. PICK x \in S : \A y \in S : ~(<<y, x>> \in Below)
  BY <1>1, WFMin, Zenon
<1>3. ASSUME NEW y \in S PROVE x <= y
  <2>1. <<y, x>> \in Nat \X Nat /\ ~(<<y, x>> \in Below)
    BY <1>2
  <2>2. ~(y < x)
    BY <2>1
  <2> QED
    BY <2>2
<1> QED
  BY <1>3

\* Of some expressions of a document there is a last one: what does not fail at
\* an expression whose later ones do not fail, never fails.
LEMMA Last ==
  ASSUME NEW n \in Nat, NEW S \in SUBSET (1 .. n), S # {}
  PROVE  \E x \in S : \A y \in S : y <= x
<1> DEFINE T == {n - x : x \in S}
<1>1. T \in SUBSET Nat /\ T # {}
  <2>1. \A x \in S : n - x \in Nat
    OBVIOUS
  <2> QED
    BY <2>1
<1>2. PICK t \in T : \A u \in T : t <= u
  BY <1>1, Least
<1>3. PICK x \in S : t = n - x
  OBVIOUS
<1>4. \A y \in S : n - x <= n - y
  BY <1>2, <1>3
<1> QED
  BY <1>4

\* What holds at 0 and is passed on up to n holds at n.
LEMMA UpTo ==
  ASSUME NEW n \in Nat, NEW S, 0 \in S, \A k \in 1 .. n : k - 1 \in S => k \in S
  PROVE  n \in S
<1> DEFINE Bad == (0 .. n) \ S
<1>1. SUFFICES ASSUME Bad # {} PROVE FALSE
  BY <1>1
<1>2. Bad \in SUBSET Nat
  OBVIOUS
<1>3. PICK k \in Bad : \A y \in Bad : k <= y
  BY <1>1, <1>2, Least
<1>4. k \in 1 .. n /\ k \notin S
  BY <1>3
<1>5. k - 1 \in S
  BY <1>3, <1>4
<1> QED
  BY <1>4, <1>5

\* A computation of a value at each expression of a document from the values
\* at later ones, and the values that it settles on.
Backwards(n, V, G) ==
  /\ G \in [[1 .. n -> V] \X (1 .. n) -> V]
  /\ \A g, h \in [1 .. n -> V] : \A i \in 1 .. n :
       (\A j \in i + 1 .. n : g[j] = h[j]) => G[<<g, i>>] = G[<<h, i>>]

Settled(n, V, G) == {f \in [1 .. n -> V] : \A i \in 1 .. n : f[i] = G[<<f, i>>]}

\* Such a computation ends.
LEMMA Recursion ==
  ASSUME NEW n \in Nat, NEW V, V # {}, NEW G, Backwards(n, V, G)
  PROVE  Settled(n, V, G) # {}
<1> USE DEF Backwards, Settled
<1> PICK v \in V : TRUE
  OBVIOUS
<1> DEFINE Good(k, f) == \A i \in 1 .. n : i > n - k => f[i] = G[<<f, i>>]
           Reached == {k \in 0 .. n : \E f \in [1 .. n -> V] : Good(k, f)}
<1>1. 0 \in Reached
  <2> DEFINE c == [i \in 1 .. n |-> v]
  <2>1. c \in [1 .. n -> V] /\ Good(0, c)
    OBVIOUS
  <2> HIDE DEF c
  <2>2. \E f \in [1 .. n -> V] : Good(0, f)
    BY <2>1
  <2> QED
    BY <2>2
<1>2. ASSUME NEW k \in 1 .. n, k - 1 \in Reached PROVE k \in Reached
  <2>1. PICK f \in [1 .. n -> V] : Good(k - 1, f)
    BY <1>2
  <2> DEFINE m == n + 1 - k
             h == [f EXCEPT ![m] = G[<<f, m>>]]
  <2>2. m \in 1 .. n /\ G[<<f, m>>] \in V
    OBVIOUS
  <2>3. h \in [1 .. n -> V] /\ h[m] = G[<<f, m>>] /\ \A j \in 1 .. n : j # m => h[j] = f[j]
    BY <2>2
  <2> HIDE DEF h
  <2>4. ASSUME NEW i \in 1 .. n, i > n - k PROVE h[i] = G[<<h, i>>]
    <3>1. i >= m
      BY <2>4
    <3>2. \A j \in i + 1 .. n : f[j] = h[j]
      BY <2>2, <2>3, <3>1
    <3>3. G[<<f, i>>] = G[<<h, i>>]
      BY <2>3, <3>2
    <3>4. CASE i = m
      BY <2>3, <3>3, <3>4
    <3>5. CASE i # m
      <4>1. i > n - (k - 1)
        BY <3>1, <3>5
      <4> QED
        BY <2>1, <2>3, <3>3, <3>5, <4>1
    <3> QED
      BY <3>4, <3>5
  <2>5. Good(k, h)
    BY <2>4
  <2> QED
    BY <2>3, <2>5
<1> HIDE DEF Reached
<1>3. n \in Reached
  BY <1>1, <1>2, UpTo
<1>4. PICK f \in [1 .. n -> V] : Good(n, f)
  BY <1>3 DEF Reached
<1>5. \A i \in 1 .. n : f[i] = G[<<f, i>>]
  BY <1>4
<1> QED
  BY <1>5

\* One expression of evaluateRequirement, computed from the values f at its
\* members, and one of Holds, from the set H of the expressions that hold.
UnmetAt(req, votes, policy, proposer, f, i) ==
  IF req[i].type = "threshold" THEN EvaluateThreshold(req[i], votes, policy, proposer)
  ELSE IF req[i].type = "allOf" THEN UNION {f[m] : m \in req[i].members}
  ELSE IF req[i].type # "anyOf" THEN {}
  ELSE IF req[i].members = {} THEN {Unsatisfiable}
  ELSE IF \E m \in req[i].members : f[m] = {} THEN {}
  ELSE f[i + 1]

HoldsAt(req, basic, H, i) ==
  \/ i \in basic
  \/ req[i].type = "allOf" /\ req[i].members \subseteq H
  \/ req[i].type = "anyOf" /\ req[i].members \cap H # {}

\* The members of an expression come later in its document.
LEMMA MembersLater ==
  ASSUME NEW req, IsRequirement(req), NEW i \in DOMAIN req, req[i].type \in Compositions
  PROVE  /\ Len(req) \in Nat /\ DOMAIN req = 1 .. Len(req) /\ 1 \in DOMAIN req
         /\ req[i].members \subseteq i + 1 .. Len(req)
         /\ req[i].members \subseteq DOMAIN req
         /\ req[i].members # {} => i + 1 \in req[i].members
<1>1. req \in Seq({req[j] : j \in DOMAIN req}) /\ req # <<>>
  BY DEF IsRequirement
<1>2. Len(req) \in Nat /\ DOMAIN req = 1 .. Len(req)
  BY <1>1
<1>3. req[i].members \subseteq i + 1 .. Len(req) /\ (req[i].members # {} => i + 1 \in req[i].members)
  BY DEF IsRequirement
<1> QED
  BY <1>2, <1>3

LEMMA Document ==
  ASSUME NEW req, IsRequirement(req)
  PROVE  Len(req) \in Nat \ {0} /\ DOMAIN req = 1 .. Len(req) /\ 1 \in DOMAIN req
<1>1. req \in Seq({req[j] : j \in DOMAIN req}) /\ req # <<>>
  BY DEF IsRequirement
<1> QED
  BY <1>1

\* evaluateRequirement obeys its own equation: the recursion ends.
LEMMA UnmetEquation ==
  ASSUME NEW req, IsRequirement(req), NEW votes, NEW policy, NEW proposer
  PROVE  \A i \in DOMAIN req :
           Unmet(req, votes, policy, proposer)[i] =
             UnmetAt(req, votes, policy, proposer, Unmet(req, votes, policy, proposer), i)
<1> DEFINE n == Len(req)
           U == {Unsatisfiable} \cup
                  UNION {EvaluateThreshold(req[i], votes, policy, proposer) : i \in 1 .. n}
           V == SUBSET U
           S(f, i) == UnmetAt(req, votes, policy, proposer, f, i)
           G == [x \in [1 .. n -> V] \X (1 .. n) |-> S(x[1], x[2])]
           P(f) == f = [i \in DOMAIN req |-> S(f, i)]
<1>1. n \in Nat /\ DOMAIN req = 1 .. n
  BY Document
<1>2. ASSUME NEW i \in 1 .. n, req[i].type \in Compositions
      PROVE  req[i].members \subseteq i + 1 .. n /\ (req[i].members # {} => i + 1 \in req[i].members)
  BY <1>1, <1>2, MembersLater
<1>3. ASSUME NEW f \in [1 .. n -> V], NEW i \in 1 .. n PROVE S(f, i) \in V
  <2>1. CASE req[i].type = "threshold"
    BY <2>1 DEF UnmetAt
  <2>2. CASE req[i].type = "allOf"
    <3>1. \A m \in req[i].members : f[m] \in V
      BY <1>1, <1>2, <2>2 DEF Compositions
    <3>2. S(f, i) = UNION {f[m] : m \in req[i].members}
      BY <2>2 DEF UnmetAt
    <3> QED
      BY <3>1, <3>2
  <2>3. CASE req[i].type = "anyOf" /\ req[i].members # {}
    <3>1. f[i + 1] \in V /\ {} \in V
      BY <1>1, <1>2, <2>3 DEF Compositions
    <3>2. S(f, i) = {} \/ S(f, i) = f[i + 1]
      BY <2>3 DEF UnmetAt
    <3> HIDE DEF S, V
    <3> QED
      BY <3>1, <3>2
  <2>4. CASE req[i].type = "anyOf" /\ req[i].members = {}
    BY <2>4 DEF UnmetAt
  <2>5. CASE req[i].type \notin {"threshold", "allOf", "anyOf"}
    BY <2>5 DEF UnmetAt
  <2> QED
    BY <2>1, <2>2, <2>3, <2>4, <2>5
<1>4. ASSUME NEW g \in [1 .. n -> V], NEW h \in [1 .. n -> V], NEW i \in 1 .. n,
             \A j \in i + 1 .. n : g[j] = h[j]
      PROVE  S(g, i) = S(h, i)
  <2>1. CASE req[i].type \in Compositions
    <3>1. \A m \in req[i].members : g[m] = h[m]
      BY <1>2, <1>4, <2>1
    <3>2. {g[m] : m \in req[i].members} = {h[m] : m \in req[i].members}
      BY <3>1
    <3>3. req[i].members # {} => g[i + 1] = h[i + 1]
      BY <1>2, <2>1, <3>1
    <3> QED
      BY <2>1, <3>1, <3>2, <3>3 DEF UnmetAt, Compositions
  <2>2. CASE req[i].type \notin Compositions
    BY <2>2 DEF UnmetAt, Compositions
  <2> QED
    BY <2>1, <2>2
<1> HIDE DEF n, V, S
<1>5. G \in [[1 .. n -> V] \X (1 .. n) -> V]
  BY <1>3
<1>6. \A f \in [1 .. n -> V], i \in 1 .. n : G[<<f, i>>] = S(f, i)
  OBVIOUS
<1> HIDE DEF G
<1>7. \A g, h \in [1 .. n -> V] : \A i \in 1 .. n :
        (\A j \in i + 1 .. n : g[j] = h[j]) => G[<<g, i>>] = G[<<h, i>>]
  <2> SUFFICES ASSUME NEW g \in [1 .. n -> V], NEW h \in [1 .. n -> V], NEW i \in 1 .. n,
                      \A j \in i + 1 .. n : g[j] = h[j]
               PROVE  G[<<g, i>>] = G[<<h, i>>]
    OBVIOUS
  <2>1. S(g, i) = S(h, i)
    BY <1>4
  <2>2. G[<<g, i>>] = S(g, i) /\ G[<<h, i>>] = S(h, i)
    BY <1>6
  <2> QED
    BY <2>1, <2>2
<1>8. {} \in V
  BY DEF V
<1> HIDE DEF U, P
<1>9. Backwards(n, V, G)
  BY <1>5, <1>7 DEF Backwards
<1>10. PICK f \in Settled(n, V, G) : TRUE
  BY <1>1, <1>8, <1>9, Recursion
<1>11. P(f)
  BY <1>1, <1>6, <1>10 DEF P, Settled
<1>12. P(CHOOSE g : P(g))
  BY <1>11
<1>13. Unmet(req, votes, policy, proposer) = CHOOSE g : P(g)
  BY DEF Unmet, UnmetAt, S, P
<1>14. P(Unmet(req, votes, policy, proposer))
  BY <1>12, <1>13
<1> QED
  BY <1>14 DEF S, P

\* So does the reference: there is a set of expressions that hold.
LEMMA HoldsEquation ==
  ASSUME NEW req, IsRequirement(req), NEW basic
  PROVE  \E H \in SUBSET DOMAIN req :
           /\ Holds(req, basic) <=> 1 \in H
           /\ \A i \in DOMAIN req : i \in H <=> HoldsAt(req, basic, H, i)
<1> DEFINE n == Len(req)
           V == {0, 1}
           HH(f) == {m \in 1 .. n : f[m] = 1}
           S(f, i) == IF HoldsAt(req, basic, HH(f), i) THEN 1 ELSE 0
           G == [x \in [1 .. n -> V] \X (1 .. n) |-> S(x[1], x[2])]
           P(f) == f = [i \in DOMAIN req |->
                          \/ i \in basic
                          \/ req[i].type = "allOf" /\ \A m \in req[i].members : f[m]
                          \/ req[i].type = "anyOf" /\ \E m \in req[i].members : f[m]]
<1>1. n \in Nat /\ DOMAIN req = 1 .. n /\ 1 \in DOMAIN req
  BY Document
<1>2. ASSUME NEW i \in 1 .. n, req[i].type \in Compositions
      PROVE  req[i].members \subseteq i + 1 .. n /\ req[i].members \subseteq 1 .. n
  BY <1>1, <1>2, MembersLater
<1>3. ASSUME NEW f \in [1 .. n -> V], NEW i \in 1 .. n PROVE S(f, i) \in V
  OBVIOUS
<1>4. ASSUME NEW g \in [1 .. n -> V], NEW h \in [1 .. n -> V], NEW i \in 1 .. n,
             \A j \in i + 1 .. n : g[j] = h[j]
      PROVE  S(g, i) = S(h, i)
  <2>1. CASE req[i].type \in Compositions
    <3>1. \A m \in req[i].members : m \in HH(g) <=> m \in HH(h)
      BY <1>2, <1>4, <2>1
    <3> HIDE DEF HH
    <3>2. HoldsAt(req, basic, HH(g), i) <=> HoldsAt(req, basic, HH(h), i)
      BY <3>1 DEF HoldsAt
    <3> QED
      BY <3>2
  <2>2. CASE req[i].type \notin Compositions
    BY <2>2 DEF HoldsAt, Compositions
  <2> QED
    BY <2>1, <2>2
<1> HIDE DEF n, V, S
<1>5. G \in [[1 .. n -> V] \X (1 .. n) -> V]
  BY <1>3
<1>6. \A f \in [1 .. n -> V], i \in 1 .. n : G[<<f, i>>] = S(f, i)
  OBVIOUS
<1> HIDE DEF G, P, HH
<1>7. ASSUME NEW g \in [1 .. n -> V], NEW h \in [1 .. n -> V], NEW i \in 1 .. n,
             \A j \in i + 1 .. n : g[j] = h[j]
      PROVE  G[<<g, i>>] = G[<<h, i>>]
  <2>1. S(g, i) = S(h, i)
    BY <1>4, <1>7
  <2> QED
    BY <1>6, <2>1
<1>8. Backwards(n, V, G) /\ V # {}
  BY <1>5, <1>7 DEF Backwards, V
<1>9. PICK f \in Settled(n, V, G) : TRUE
  BY <1>1, <1>8, Recursion
<1> DEFINE K == HH(f)
           k == [i \in DOMAIN req |-> i \in K]
<1>10. \A i \in 1 .. n : i \in K <=> HoldsAt(req, basic, K, i)
  <2>1. \A i \in 1 .. n : f[i] = S(f, i) /\ f[i] \in V
    BY <1>6, <1>9 DEF Settled
  <2>2. \A i \in 1 .. n : f[i] = 1 <=> HoldsAt(req, basic, K, i)
    BY <2>1 DEF S
  <2> QED
    BY <2>2 DEF HH
<1> HIDE DEF K
<1>11. ASSUME NEW i \in 1 .. n
       PROVE  HoldsAt(req, basic, K, i) <=>
                \/ i \in basic
                \/ req[i].type = "allOf" /\ \A m \in req[i].members : k[m]
                \/ req[i].type = "anyOf" /\ \E m \in req[i].members : k[m]
  <2>1. CASE req[i].type \in Compositions
    <3>1. \A m \in req[i].members : m \in DOMAIN req
      BY <1>1, <1>2, <2>1
    <3>2. \A m \in req[i].members : k[m] <=> m \in K
      BY <3>1
    <3> HIDE DEF k
    <3>3. /\ (\A m \in req[i].members : k[m]) <=> req[i].members \subseteq K
          /\ (\E m \in req[i].members : k[m]) <=> req[i].members \cap K # {}
      BY <3>2, Zenon
    <3> QED
      BY <3>3, Zenon DEF HoldsAt
  <2>2. CASE req[i].type \notin Compositions
    BY <2>2 DEF HoldsAt, Compositions
  <2> QED
    BY <2>1, <2>2
<1> DEFINE B(i) == \/ i \in basic
                   \/ req[i].type = "allOf" /\ \A m \in req[i].members : k[m]
                   \/ req[i].type = "anyOf" /\ \E m \in req[i].members : k[m]
<1>12. P(k)
  <2> HIDE DEF k
  <2>1. \A i \in DOMAIN req : i \in K <=> B(i)
    BY <1>1, <1>10, <1>11, Zenon
  <2>2. \A i \in DOMAIN req : B(i) \in BOOLEAN /\ (i \in K) \in BOOLEAN
    OBVIOUS
  <2>3. \A i \in DOMAIN req : (i \in K) = B(i)
    <3> HIDE DEF B
    <3> QED
      BY <2>1, <2>2
  <2>4. k = [i \in DOMAIN req |-> B(i)]
    BY <2>3, Zenon DEF k
  <2> QED
    BY <2>4 DEF P
<1> DEFINE c == CHOOSE g : P(g)
           H == {i \in DOMAIN req : c[i]}
<1>13. P(c)
  BY <1>12
<1>14. Holds(req, basic) = c[1]
  BY Zenon DEF Holds, P
<1> HIDE DEF c
<1>15. ASSUME NEW i \in DOMAIN req
       PROVE  i \in H <=>
                \/ i \in basic
                \/ req[i].type = "allOf" /\ \A m \in req[i].members : c[m]
                \/ req[i].type = "anyOf" /\ \E m \in req[i].members : c[m]
  BY <1>13, Zenon DEF P
<1>16. ASSUME NEW i \in DOMAIN req PROVE i \in H <=> HoldsAt(req, basic, H, i)
  <2>1. CASE req[i].type \in Compositions
    <3>1. \A m \in req[i].members : m \in DOMAIN req
      BY <1>1, <1>2, <2>1
    <3>2. \A m \in req[i].members : c[m] <=> m \in H
      BY <3>1, Zenon
    <3> HIDE DEF H
    <3>3. /\ (\A m \in req[i].members : c[m]) <=> req[i].members \subseteq H
          /\ (\E m \in req[i].members : c[m]) <=> req[i].members \cap H # {}
      BY <3>2, Zenon
    <3> QED
      BY <1>15, <3>3, Zenon DEF HoldsAt
  <2>2. CASE req[i].type \notin Compositions
    <3>1. i \in H <=> i \in basic
      BY <1>15, <2>2, Zenon DEF Compositions
    <3> QED
      BY <2>2, <3>1 DEF HoldsAt, Compositions
  <2> QED
    BY <2>1, <2>2
<1>17. Holds(req, basic) <=> 1 \in H
  BY <1>1, <1>14, Zenon
<1> HIDE DEF H
<1>18. H \in SUBSET DOMAIN req
  BY DEF H
<1> QED
  BY <1>16, <1>17, <1>18

\* What validateRequirement leaves of the expressions of a requirement.
LEMMA ValidExpression ==
  ASSUME NEW req, IsRequirement(req), NEW groups, ValidRequirement(req, groups),
         NEW i \in DOMAIN req
  PROVE  \/ req[i].type = "proposerOnly"
         \/ /\ req[i].type = "threshold"
            /\ req[i].threshold \in Nat \ {0} /\ req[i].signers \in Seq(Dids)
            /\ req[i].decision \in Decision /\ (~req[i].inline => req[i].signers = <<>>)
         \/ /\ req[i].type \in Compositions
            /\ req[i].members # {} /\ i + 1 \in req[i].members /\ i + 1 \in DOMAIN req
            /\ req[i].members \subseteq DOMAIN req /\ \A m \in req[i].members : m > i
<1>1. CASE req[i].type \in Compositions
  <2>1. req[i].members # {}
    BY <1>1 DEF ValidRequirement, Compositions
  <2>2. /\ req[i].members \subseteq i + 1 .. Len(req) /\ req[i].members \subseteq DOMAIN req
        /\ i + 1 \in req[i].members /\ DOMAIN req = 1 .. Len(req) /\ Len(req) \in Nat
    BY <1>1, <2>1, MembersLater
  <2>3. \A m \in req[i].members : m > i
    BY <2>2
  <2> QED
    BY <1>1, <2>1, <2>2, <2>3
<1>2. CASE req[i].type \notin Compositions /\ req[i].type # "proposerOnly"
  <2>1. req[i].type = "threshold" /\ ValidThreshold(req[i], groups)
    BY <1>2 DEF ValidRequirement
  <2>2. /\ req[i].threshold \in Int /\ req[i].signers \in Seq(Dids) /\ req[i].decision \in Decision
        /\ ~req[i].inline => req[i].signers = <<>>
    BY <2>1 DEF IsRequirement
  <2>3. req[i].threshold >= 1
    BY <2>1 DEF ValidThreshold
  <2> QED
    BY <2>1, <2>2, <2>3
<1> QED
  BY <1>1, <1>2

\* What holds at every expression of a requirement at whose later ones it
\* holds, holds at each.
LEMMA Everywhere ==
  ASSUME NEW req, IsRequirement(req), NEW Good \in SUBSET DOMAIN req,
         \A i \in DOMAIN req : (\A j \in DOMAIN req : j > i => j \in Good) => i \in Good
  PROVE  Good = DOMAIN req
<1> DEFINE Bad == DOMAIN req \ Good
<1>1. SUFFICES ASSUME Bad # {} PROVE FALSE
  OBVIOUS
<1>2. Len(req) \in Nat /\ DOMAIN req = 1 .. Len(req)
  BY Document
<1>3. PICK i \in Bad : \A j \in Bad : j <= i
  BY <1>1, <1>2, Last
<1>4. \A j \in DOMAIN req : j > i => j \in Good
  BY <1>2, <1>3
<1> QED
  BY <1>3, <1>4

\* What an allOf misses is what its members miss.
AllMissing(u, members) == UNION {u[m] : m \in members}

\* What evaluateRequirement tells for an expression, by its type.
LEMMA UnmetParts ==
  ASSUME NEW req, IsRequirement(req), NEW votes, NEW policy, NEW proposer, NEW i \in DOMAIN req,
         NEW u, u = Unmet(req, votes, policy, proposer)
  PROVE  /\ req[i].type = "threshold" => u[i] = EvaluateThreshold(req[i], votes, policy, proposer)
         /\ req[i].type = "allOf" => u[i] = AllMissing(u, req[i].members)
         /\ req[i].type \notin {"threshold", "allOf", "anyOf"} => u[i] = {}
         /\ req[i].type = "anyOf" /\ req[i].members # {} =>
              /\ (\E m \in req[i].members : u[m] = {}) => u[i] = {}
              /\ (\A m \in req[i].members : u[m] # {}) => u[i] = u[i + 1]
<1>1. u[i] = UnmetAt(req, votes, policy, proposer, u, i)
  BY UnmetEquation
<1> HIDE DEF Unmet
<1> QED
  BY <1>1 DEF UnmetAt, AllMissing

\* A policy's groups and its signers, as they are typed.
TypedGroups(policy) == \A g \in DOMAIN policy.groups : policy.groups[g] \subseteq Dids

\* The signers of a threshold, and those found, are finitely many.
LEMMA EligibleTyped ==
  ASSUME NEW policy, TypedGroups(policy), NEW e, e.signers \in Seq(Dids), NEW votes, NEW proposer
  PROVE  /\ EligibleSigners(e, policy) \in SUBSET Dids
         /\ IsFiniteSet(EligibleSigners(e, policy)) /\ IsFiniteSet(Found(e, votes, policy, proposer))
         /\ IsFiniteSet(EligibleSigners(e, policy) \ {proposer})
         /\ Cardinality(Found(e, votes, policy, proposer)) \in Nat
<1>1. EligibleSigners(e, policy) \in SUBSET Dids
  BY DEF EligibleSigners, Listed, TypedGroups
<1>2. /\ Found(e, votes, policy, proposer) \subseteq Dids
      /\ EligibleSigners(e, policy) \ {proposer} \subseteq Dids
  BY <1>1 DEF Found
<1>3. /\ IsFiniteSet(EligibleSigners(e, policy)) /\ IsFiniteSet(Found(e, votes, policy, proposer))
      /\ IsFiniteSet(EligibleSigners(e, policy) \ {proposer})
  BY <1>1, <1>2, DidsFinite, FS_Subset
<1> QED
  BY <1>1, <1>3, FS_CardinalityType

\* What is asked for are positive thresholds of known signers.
LEMMA UnmetTyped ==
  ASSUME NEW req, IsRequirement(req), NEW policy, TypedGroups(policy),
         ValidRequirement(req, policy.groups), NEW votes, NEW proposer
  PROVE  EvaluateRequirement(req, votes, policy, proposer)
           \subseteq {t \in Threshold : t.threshold >= 1}
<1> DEFINE T == {t \in Threshold : t.threshold >= 1}
           u == Unmet(req, votes, policy, proposer)
           Good == {i \in DOMAIN req : u[i] \subseteq T}
<1> HIDE DEF T, u
<1>1. ASSUME NEW i \in DOMAIN req, \A j \in DOMAIN req : j > i => j \in Good
      PROVE  u[i] \subseteq T
  <2>1. CASE req[i].type = "proposerOnly"
    BY <2>1, UnmetParts DEF u
  <2>2. CASE req[i].type = "threshold" /\ req[i].threshold \in Nat \ {0}
             /\ req[i].signers \in Seq(Dids) /\ req[i].decision \in Decision
    <3>1. EligibleSigners(req[i], policy) \in SUBSET Dids
      BY <2>2, EligibleTyped
    <3>2. [eligible |-> EligibleSigners(req[i], policy), threshold |-> req[i].threshold,
           decision |-> req[i].decision] \in T
      BY <2>2, <3>1 DEF T, Threshold
    <3>3. EvaluateThreshold(req[i], votes, policy, proposer) \subseteq T
      BY <3>2 DEF EvaluateThreshold
    <3> QED
      BY <2>2, <3>3, UnmetParts DEF u
  <2>3. CASE req[i].type \in Compositions /\ req[i].members # {} /\ i + 1 \in req[i].members
             /\ req[i].members \subseteq DOMAIN req /\ \A m \in req[i].members : m > i
    <3>1. \A m \in req[i].members : u[m] \subseteq T
      BY <1>1, <2>3
    <3>2. CASE req[i].type = "allOf"
      <4>1. u[i] = AllMissing(u, req[i].members)
        BY <3>2, UnmetParts DEF u
      <4> QED
        BY <3>1, <4>1 DEF AllMissing
    <3>3. CASE req[i].type = "anyOf"
      <4>1. u[i] = {} \/ u[i] = u[i + 1]
        BY <2>3, <3>3, UnmetParts DEF u
      <4> QED
        BY <2>3, <3>1, <4>1
    <3> QED
      BY <2>3, <3>2, <3>3 DEF Compositions
  <2> QED
    BY <2>1, <2>2, <2>3, ValidExpression
<1>2. Good = DOMAIN req
  <2>1. \A i \in DOMAIN req : (\A j \in DOMAIN req : j > i => j \in Good) => i \in Good
    BY <1>1
  <2> HIDE DEF Good
  <2>2. Good \in SUBSET DOMAIN req
    BY DEF Good
  <2> QED
    BY <2>1, <2>2, Everywhere
<1>3. u[1] \subseteq T
  BY <1>2, Document
<1> QED
  BY <1>3 DEF EvaluateRequirement, T, u

\* The thresholds of a requirement that are met.
MetThresholds(req, votes, policy, proposer) ==
  {i \in DOMAIN req : /\ req[i].type = "threshold"
                      /\ EvaluateThreshold(req[i], votes, policy, proposer) = {}}

\* A requirement of which nothing is missing holds by the thresholds that are met.
LEMMA NothingMissingHolds ==
  ASSUME NEW req, IsRequirement(req), NEW policy, ValidRequirement(req, policy.groups),
         NEW votes, NEW proposer, EvaluateRequirement(req, votes, policy, proposer) = {}
  PROVE  Holds(req, ProposerSuffices(req) \cup MetThresholds(req, votes, policy, proposer))
<1> DEFINE u == Unmet(req, votes, policy, proposer)
           basic == ProposerSuffices(req) \cup MetThresholds(req, votes, policy, proposer)
<1>1. PICK H \in SUBSET DOMAIN req :
        /\ Holds(req, basic) <=> 1 \in H
        /\ \A i \in DOMAIN req : i \in H <=> HoldsAt(req, basic, H, i)
  BY HoldsEquation
<1>0. u = Unmet(req, votes, policy, proposer)
  OBVIOUS
<1> DEFINE Good == {i \in DOMAIN req : u[i] = {} => i \in H}
<1> HIDE DEF u, basic
<1>2. ASSUME NEW i \in DOMAIN req, \A j \in DOMAIN req : j > i => j \in Good, u[i] = {}
      PROVE  HoldsAt(req, basic, H, i)
  <2>1. CASE req[i].type = "proposerOnly"
    BY <2>1 DEF basic, ProposerSuffices, HoldsAt
  <2>2. CASE req[i].type = "threshold"
    <3>1. EvaluateThreshold(req[i], votes, policy, proposer) = {}
      BY <1>2, <2>2, UnmetParts DEF u
    <3> QED
      BY <2>2, <3>1 DEF basic, MetThresholds, HoldsAt
  <2>3. CASE req[i].type \in Compositions /\ req[i].members # {} /\ i + 1 \in req[i].members
             /\ req[i].members \subseteq DOMAIN req /\ \A m \in req[i].members : m > i
    <3>1. \A m \in req[i].members : u[m] = {} => m \in H
      BY <1>2, <2>3
    <3>2. CASE req[i].type = "allOf"
      <4>1. u[i] = AllMissing(u, req[i].members)
        BY <1>0, <3>2, UnmetParts
      <4>2. \A m \in req[i].members : u[m] = {}
        BY <1>2, <4>1 DEF AllMissing
      <4> QED
        BY <3>1, <3>2, <4>2 DEF HoldsAt
    <3>3. CASE req[i].type = "anyOf"
      <4>1. (\A m \in req[i].members : u[m] # {}) => u[i] = u[i + 1]
        BY <2>3, <3>3, UnmetParts DEF u
      <4>2. \E m \in req[i].members : u[m] = {}
        BY <1>2, <2>3, <4>1
      <4> QED
        BY <3>1, <3>3, <4>2 DEF HoldsAt
    <3> QED
      BY <2>3, <3>2, <3>3 DEF Compositions
  <2> QED
    BY <2>1, <2>2, <2>3, ValidExpression
<1>3. ASSUME NEW i \in DOMAIN req, \A j \in DOMAIN req : j > i => j \in Good
      PROVE  i \in Good
  BY <1>1, <1>2, <1>3
<1>4. Good = DOMAIN req
  BY <1>3, Everywhere
<1>5. u[1] = {} /\ 1 \in DOMAIN req
  BY Document DEF EvaluateRequirement, u
<1>6. Holds(req, basic)
  BY <1>1, <1>4, <1>5
<1> QED
  BY <1>6 DEF basic

\* What holds still holds when more of its basic expressions do.
LEMMA HoldsMore ==
  ASSUME NEW req, IsRequirement(req), NEW basic, NEW more, basic \subseteq more, Holds(req, basic)
  PROVE  Holds(req, more)
<1>1. PICK H \in SUBSET DOMAIN req :
        /\ Holds(req, basic) <=> 1 \in H
        /\ \A i \in DOMAIN req : i \in H <=> HoldsAt(req, basic, H, i)
  BY HoldsEquation
<1>2. PICK K \in SUBSET DOMAIN req :
        /\ Holds(req, more) <=> 1 \in K
        /\ \A i \in DOMAIN req : i \in K <=> HoldsAt(req, more, K, i)
  BY HoldsEquation
<1> DEFINE Good == {i \in DOMAIN req : i \in H => i \in K}
<1>3. ASSUME NEW i \in DOMAIN req, \A j \in DOMAIN req : j > i => j \in Good
      PROVE  i \in Good
  <2>1. SUFFICES ASSUME i \in H PROVE i \in K
    OBVIOUS
  <2>2. HoldsAt(req, basic, H, i)
    BY <1>1, <2>1
  <2>3. CASE req[i].type \in Compositions
    <3>1. req[i].members \subseteq i + 1 .. Len(req) /\ req[i].members \subseteq DOMAIN req
          /\ DOMAIN req = 1 .. Len(req) /\ Len(req) \in Nat
      BY <2>3, MembersLater
    <3>2. \A m \in req[i].members : m \in H => m \in K
      BY <1>3, <3>1
    <3>3. HoldsAt(req, more, K, i)
      BY <2>2, <3>2 DEF HoldsAt
    <3> QED
      BY <1>2, <3>3
  <2>4. CASE req[i].type \notin Compositions
    <3>1. HoldsAt(req, more, K, i)
      BY <2>2, <2>4 DEF HoldsAt, Compositions
    <3> QED
      BY <1>2, <3>1
  <2> QED
    BY <2>3, <2>4
<1>4. Good = DOMAIN req
  BY <1>3, Everywhere
<1> QED
  BY <1>1, <1>2, <1>4, Document

\* Nothing is missing of a requirement that holds by basic expressions of which
\* nothing is.
LEMMA HoldingMissesNothing ==
  ASSUME NEW req, IsRequirement(req), NEW policy, NEW votes, NEW proposer, NEW basic,
         \A i \in basic \cap DOMAIN req : Unmet(req, votes, policy, proposer)[i] = {},
         Holds(req, basic)
  PROVE  EvaluateRequirement(req, votes, policy, proposer) = {}
<1> DEFINE u == Unmet(req, votes, policy, proposer)
<1>0. u = Unmet(req, votes, policy, proposer)
  OBVIOUS
<1>1. PICK H \in SUBSET DOMAIN req :
        /\ Holds(req, basic) <=> 1 \in H
        /\ \A i \in DOMAIN req : i \in H <=> HoldsAt(req, basic, H, i)
  BY HoldsEquation
<1> DEFINE Good == {i \in DOMAIN req : i \in H => u[i] = {}}
<1> HIDE DEF u
<1>2. ASSUME NEW i \in DOMAIN req, \A j \in DOMAIN req : j > i => j \in Good, i \in H
      PROVE  u[i] = {}
  <2>1. HoldsAt(req, basic, H, i)
    BY <1>1, <1>2
  <2>2. CASE i \in basic
    BY <1>0, <2>2
  <2>3. CASE req[i].type \in Compositions /\ i \notin basic
    <3>1. req[i].members \subseteq i + 1 .. Len(req) /\ req[i].members \subseteq DOMAIN req
          /\ DOMAIN req = 1 .. Len(req) /\ Len(req) \in Nat
      BY <2>3, MembersLater
    <3>2. \A m \in req[i].members : m \in H => u[m] = {}
      BY <1>2, <3>1
    <3>3. CASE req[i].type = "allOf"
      <4>1. u[i] = AllMissing(u, req[i].members)
        BY <1>0, <3>3, UnmetParts
      <4>2. req[i].members \subseteq H
        BY <2>1, <2>3, <3>3 DEF HoldsAt
      <4> QED
        BY <3>2, <4>1, <4>2 DEF AllMissing
    <3>4. CASE req[i].type = "anyOf"
      <4>1. PICK m \in req[i].members : m \in H
        BY <2>1, <2>3, <3>4 DEF HoldsAt
      <4>2. u[m] = {} /\ req[i].members # {}
        BY <3>2, <4>1
      <4> QED
        BY <1>0, <3>4, <4>2, UnmetParts
    <3> QED
      BY <2>3, <3>3, <3>4 DEF Compositions
  <2> QED
    BY <2>1, <2>2, <2>3 DEF HoldsAt, Compositions
<1>3. \A i \in DOMAIN req : (\A j \in DOMAIN req : j > i => j \in Good) => i \in Good
  BY <1>2
<1>4. Good = DOMAIN req
  BY <1>3, Everywhere
<1>5. u[1] = {}
  BY <1>1, <1>4, Document
<1> QED
  BY <1>0, <1>5 DEF EvaluateRequirement

\* A requirement of thresholds only misses something as long as no threshold is met.
LEMMA ThresholdsMissing ==
  ASSUME NEW req, IsRequirement(req), NEW policy, ValidRequirement(req, policy.groups),
         NEW votes, NEW proposer, NeedsOthers(req),
         MetThresholds(req, votes, policy, proposer) = {}
  PROVE  EvaluateRequirement(req, votes, policy, proposer) # {}
<1> DEFINE u == Unmet(req, votes, policy, proposer)
           Good == {i \in DOMAIN req : u[i] # {}}
<1>0. u = Unmet(req, votes, policy, proposer)
  OBVIOUS
<1> HIDE DEF u
<1>1. ASSUME NEW i \in DOMAIN req, \A j \in DOMAIN req : j > i => j \in Good
      PROVE  u[i] # {}
  <2>1. req[i].type # "proposerOnly"
    BY DEF NeedsOthers, ProposerSuffices
  <2>2. CASE req[i].type = "threshold"
    <3>1. EvaluateThreshold(req[i], votes, policy, proposer) # {}
      BY <2>2 DEF MetThresholds
    <3> QED
      BY <1>0, <2>2, <3>1, UnmetParts
  <2>3. CASE req[i].type \in Compositions /\ req[i].members # {} /\ i + 1 \in req[i].members
             /\ req[i].members \subseteq DOMAIN req /\ \A m \in req[i].members : m > i
    <3>1. \A m \in req[i].members : u[m] # {}
      BY <1>1, <2>3
    <3>2. CASE req[i].type = "allOf"
      <4>1. u[i] = AllMissing(u, req[i].members)
        BY <1>0, <3>2, UnmetParts
      <4>2. u[i + 1] # {} /\ u[i + 1] \subseteq u[i]
        BY <2>3, <3>1, <4>1 DEF AllMissing
      <4> QED
        BY <4>2
    <3>3. CASE req[i].type = "anyOf"
      <4>1. u[i] = u[i + 1]
        BY <1>0, <2>3, <3>1, <3>3, UnmetParts
      <4> QED
        BY <2>3, <3>1, <4>1
    <3> QED
      BY <2>3, <3>2, <3>3 DEF Compositions
  <2> QED
    BY <2>1, <2>2, <2>3, ValidExpression
<1>2. \A i \in DOMAIN req : (\A j \in DOMAIN req : j > i => j \in Good) => i \in Good
  BY <1>1
<1>3. Good = DOMAIN req
  <2> HIDE DEF Good
  <2>1. Good \in SUBSET DOMAIN req
    BY DEF Good
  <2> QED
    BY <1>2, <2>1, Everywhere
<1>4. u[1] # {}
  BY <1>3, Document
<1> QED
  BY <1>0, <1>4 DEF EvaluateRequirement

\* For each threshold of a requirement: met before, met with more votes; if it
\* was t that it missed, then it misses at most C.
Carried(req, votes, more, policy, proposer, t, C) ==
  \A i \in DOMAIN req : req[i].type = "threshold" =>
    /\ EvaluateThreshold(req[i], votes, policy, proposer) = {}
         => EvaluateThreshold(req[i], more, policy, proposer) = {}
    /\ EvaluateThreshold(req[i], votes, policy, proposer) = {t}
         => EvaluateThreshold(req[i], more, policy, proposer) \subseteq C

\* With more votes a requirement misses no more: what misses nothing still does
\* not, and what misses t at most, misses what has become of t at most.
LEMMA MissingStays ==
  ASSUME NEW req, IsRequirement(req), NEW policy, ValidRequirement(req, policy.groups),
         NEW votes, NEW more, NEW proposer, NEW t, NEW C,
         Carried(req, votes, more, policy, proposer, t, C),
         EvaluateRequirement(req, votes, policy, proposer) \subseteq {t}
  PROVE  EvaluateRequirement(req, more, policy, proposer) \subseteq C
<1> DEFINE u == Unmet(req, votes, policy, proposer)
           w == Unmet(req, more, policy, proposer)
           Ok(i) == (u[i] = {} => w[i] = {}) /\ (u[i] \subseteq {t} => w[i] \subseteq C)
           Good == {i \in DOMAIN req : Ok(i)}
<1>0. u = Unmet(req, votes, policy, proposer) /\ w = Unmet(req, more, policy, proposer)
  OBVIOUS
<1> HIDE DEF u, w
<1>1. ASSUME NEW i \in DOMAIN req, \A j \in DOMAIN req : j > i => j \in Good
      PROVE  Ok(i)
  <2>1. CASE req[i].type = "proposerOnly"
    BY <1>0, <2>1, UnmetParts
  <2>2. CASE req[i].type = "threshold"
    <3>1. /\ u[i] = EvaluateThreshold(req[i], votes, policy, proposer)
          /\ w[i] = EvaluateThreshold(req[i], more, policy, proposer)
      BY <1>0, <2>2, UnmetParts
    <3>2. u[i] = {} => w[i] = {}
      BY <2>2, <3>1 DEF Carried
    <3>3. u[i] = {t} => w[i] \subseteq C
      BY <2>2, <3>1 DEF Carried
    <3>4. u[i] \subseteq {t} => u[i] = {} \/ u[i] = {t}
      OBVIOUS
    <3> QED
      BY <3>2, <3>3, <3>4
  <2>3. CASE req[i].type \in Compositions /\ req[i].members # {} /\ i + 1 \in req[i].members
             /\ req[i].members \subseteq DOMAIN req /\ \A m \in req[i].members : m > i
    <3>1. \A m \in req[i].members : Ok(m)
      BY <1>1, <2>3
    <3>2. CASE req[i].type = "allOf"
      <4>a. u[i] = AllMissing(u, req[i].members)
        BY <1>0, <3>2, UnmetParts
      <4>b. w[i] = AllMissing(w, req[i].members)
        BY <1>0, <3>2, UnmetParts
      <4>1. u[i] = AllMissing(u, req[i].members) /\ w[i] = AllMissing(w, req[i].members)
        BY <4>a, <4>b
      <4>2. ASSUME u[i] = {} PROVE w[i] = {}
        <5>1. \A m \in req[i].members : u[m] = {}
          BY <4>1, <4>2 DEF AllMissing
        <5>2. \A m \in req[i].members : w[m] = {}
          BY <3>1, <5>1
        <5> QED
          BY <4>1, <5>2 DEF AllMissing
      <4>3. ASSUME u[i] \subseteq {t} PROVE w[i] \subseteq C
        <5>1. \A m \in req[i].members : u[m] \subseteq {t}
          BY <4>1, <4>3 DEF AllMissing
        <5>2. \A m \in req[i].members : w[m] \subseteq C
          BY <3>1, <5>1
        <5> QED
          BY <4>1, <5>2 DEF AllMissing
      <4> QED
        BY <4>2, <4>3
    <3>3. CASE req[i].type = "anyOf"
      <4>1. /\ (\E m \in req[i].members : u[m] = {}) => u[i] = {}
            /\ (\A m \in req[i].members : u[m] # {}) => u[i] = u[i + 1]
            /\ (\E m \in req[i].members : w[m] = {}) => w[i] = {}
            /\ (\A m \in req[i].members : w[m] # {}) => w[i] = w[i + 1]
        BY <1>0, <2>3, <3>3, UnmetParts
      <4>2. CASE \E m \in req[i].members : u[m] = {}
        <5>1. \E m \in req[i].members : w[m] = {}
          BY <3>1, <4>2
        <5> QED
          BY <4>1, <5>1
      <4>3. CASE \A m \in req[i].members : u[m] # {}
        <5>1. u[i] = u[i + 1] /\ (w[i] = {} \/ w[i] = w[i + 1]) /\ Ok(i + 1)
          BY <2>3, <3>1, <4>1, <4>3
        <5>2. u[i] # {}
          BY <2>3, <4>3, <5>1
        <5> QED
          BY <5>1, <5>2
      <4> QED
        BY <4>2, <4>3
    <3> QED
      BY <2>3, <3>2, <3>3 DEF Compositions
  <2> QED
    BY <2>1, <2>2, <2>3, ValidExpression
<1>2. \A i \in DOMAIN req : (\A j \in DOMAIN req : j > i => j \in Good) => i \in Good
  BY <1>1
<1>3. Good = DOMAIN req
  <2> HIDE DEF Good
  <2>1. Good \in SUBSET DOMAIN req
    BY DEF Good
  <2> QED
    BY <1>2, <2>1, Everywhere
<1>4. Ok(1)
  BY <1>3, Document
<1>5. u[1] \subseteq {t}
  BY <1>0 DEF EvaluateRequirement
<1> QED
  BY <1>0, <1>4, <1>5 DEF EvaluateRequirement

-----------------------------------------------------------------------------
(* Policies and the Verifier's decision.                                   *)

\* Every requirement that applies to a governed call, under a validated policy
\* that does not block it, is well formed.
LEMMA EffectiveValid ==
  ASSUME NEW policy, IsPolicy(policy), ValidatePolicyConfig(policy), NEW name, NEW fields,
         ~Blocked(name, fields, policy),
         NEW req \in EffectiveRequirements(name, fields, policy)
  PROVE  IsRequirement(req) /\ ValidRequirement(req, policy.groups) /\ TypedGroups(policy)
<1>1. CASE Matched(name, fields, policy) = {}
  BY <1>1 DEF EffectiveRequirements, IsPolicy, ValidatePolicyConfig, TypedGroups
<1>2. CASE Matched(name, fields, policy) # {}
  <2>1. PICK i \in Matched(name, fields, policy) : req = Entries(name, policy)[i].requirements
    BY <1>2 DEF EffectiveRequirements
  <2>2. i \in DOMAIN Entries(name, policy) /\ ~Entries(name, policy)[i].reject
    BY <2>1 DEF Matched, Blocked
  <2>3. name \in DOMAIN policy.policies /\ Entries(name, policy) = policy.policies[name]
    BY <2>2 DEF Entries
  <2>4. ValidEntry(policy.policies[name][i], policy.groups)
    BY <2>2, <2>3 DEF ValidatePolicyConfig
  <2> DEFINE entry == policy.policies[name][i]
  <2>5. req # <<>> /\ ValidRequirement(req, policy.groups)
    <3>1. entry.reject \in BOOLEAN /\ ~entry.reject /\ req = entry.requirements
      BY <2>1, <2>2, <2>3 DEF IsPolicy
    <3>2. /\ entry.reject # (entry.requirements # <<>>)
          /\ entry.requirements # <<>> => ValidRequirement(entry.requirements, policy.groups)
      BY <2>4 DEF ValidEntry
    <3> HIDE DEF entry
    <3>3. entry.reject = FALSE
      BY <3>1
    <3>4. entry.requirements # <<>>
      BY <3>2, <3>3
    <3> QED
      BY <3>1, <3>2, <3>4
  <2>6. IsRequirement(req)
    BY <2>1, <2>2, <2>3, <2>5 DEF IsPolicy
  <2> QED
    BY <2>5, <2>6 DEF IsPolicy, TypedGroups
<1> QED
  BY <1>1, <1>2

\* The first check that fails answers; without one the answer is "verified".
LEMMA FirstFailureIs ==
  ASSUME NEW checks, DOMAIN checks \in SUBSET Nat, \A i \in DOMAIN checks : checks[i][2] # "verified"
  PROVE  /\ FirstFailure(checks) = "verified" <=> \A i \in DOMAIN checks : checks[i][1]
         /\ FirstFailure(checks) # "verified" =>
              \E i \in DOMAIN checks : FirstFailure(checks) = checks[i][2]
<1> DEFINE failed == {i \in DOMAIN checks : ~checks[i][1]}
<1>1. CASE failed = {}
  <2>1. FirstFailure(checks) = "verified"
    BY <1>1, Zenon DEF FirstFailure
  <2>2. \A i \in DOMAIN checks : checks[i][1]
    BY <1>1, Zenon
  <2> QED
    BY <2>1, <2>2
<1>2. CASE failed # {}
  <2> DEFINE least == CHOOSE i \in failed : \A j \in failed : i <= j
  <2>1. FirstFailure(checks) = checks[least][2]
    BY <1>2, Zenon DEF FirstFailure
  <2>2. \E i \in failed : \A j \in failed : i <= j
    <3>1. failed \in SUBSET Nat
      BY Zenon
    <3> HIDE DEF failed
    <3> QED
      BY <1>2, <3>1, Least
  <2>3. least \in failed
    BY <2>2, Zenon
  <2> HIDE DEF least
  <2>4. least \in DOMAIN checks /\ ~checks[least][1]
    BY <2>3, Zenon
  <2>5. FirstFailure(checks) # "verified"
    BY <2>1, <2>4
  <2>6. ~\A i \in DOMAIN checks : checks[i][1]
    BY <2>4, Zenon
  <2> QED
    BY <2>1, <2>4, <2>5, <2>6, Zenon
<1> QED
  BY <1>1, <1>2

\* What a file that passed its checks has.
LEMMA CheckedFile ==
  ASSUME NEW c, FirstFailure(FileChecks(c)) = "verified"
  PROVE  /\ ValidatePolicyConfig(c.policy) /\ ValidateDefaultRequirement(c.policy)
         /\ c.plugin.contents = c.artifact
<1> DEFINE checks == FileChecks(c)
<1>1. DOMAIN checks = 1 .. 11
  BY DEF FileChecks
<1>2. \A i \in DOMAIN checks : checks[i][2] # "verified"
  BY <1>1 DEF FileChecks
<1>3. checks[5][1] <=> ValidatePolicyConfig(c.policy)
  BY DEF FileChecks
<1>4. checks[6][1] <=> (ValidatePolicyConfig(c.policy) => ValidateDefaultRequirement(c.policy))
  BY DEF FileChecks
<1>5. checks[11][1] <=> c.plugin.contents = c.artifact
  BY DEF FileChecks
<1> HIDE DEF checks
<1>6. \A i \in DOMAIN checks : checks[i][1]
  BY <1>1, <1>2, FirstFailureIs DEF checks
<1>7. checks[5][1] /\ checks[6][1] /\ checks[11][1]
  BY <1>1, <1>6
<1> QED
  BY <1>3, <1>4, <1>5, <1>7

\* The first of the handler's checks are the conditions that they name.
LEMMA FormExact ==
  ASSUME NEW pkg
  PROVE  /\ FirstFailure(FormChecks(pkg)) = "verified" <=>
              /\ ParseActionPackage(pkg)
              /\ ValidEnvelope(pkg, now)
              /\ (Known /\ "application" \notin pkg.defects)
         /\ FirstFailure(FormChecks(pkg)) # "verified" =>
              FirstFailure(FormChecks(pkg)) \in {"badRequest", "malformed", "rejected"}
<1> DEFINE checks == FormChecks(pkg)
<1>1. DOMAIN checks = 1 .. 3
  BY DEF FormChecks
<1>2. \A i \in DOMAIN checks : /\ checks[i][2] # "verified"
                                  /\ checks[i][2] \in {"badRequest", "malformed", "rejected"}
  BY <1>1 DEF FormChecks
<1>c1. checks[1][1] <=> ParseActionPackage(pkg)
  BY DEF FormChecks
<1>c2. checks[2][1] <=> ValidEnvelope(pkg, now)
  BY DEF FormChecks
<1>c3. checks[3][1] <=> (Known /\ "application" \notin pkg.defects)
  BY DEF FormChecks
<1> HIDE DEF checks
<1>3. /\ FirstFailure(checks) = "verified" <=> \A i \in DOMAIN checks : checks[i][1]
      /\ FirstFailure(checks) # "verified" => \E i \in DOMAIN checks : FirstFailure(checks) = checks[i][2]
  BY <1>1, <1>2, FirstFailureIs
<1>4. (\A i \in DOMAIN checks : checks[i][1]) <=>
        /\ checks[1][1]
        /\ checks[2][1]
        /\ checks[3][1]
  <2>1. \A i \in DOMAIN checks : i = 1 \/ i = 2 \/ i = 3
    BY <1>1
  <2>2. 1 .. 3 = DOMAIN checks
    BY <1>1
  <2> QED
    BY <2>1, <2>2
<1> QED
  BY <1>2, <1>3, <1>4, <1>c1, <1>c2, <1>c3 DEF checks


\* So are the rest of them, before the policy.
LEMMA HandlerExact ==
  ASSUME NEW pkg, NEW code,
         code = VerifyActionPackage(pkg, now, {k.did : k \in cfg.signerKeys}, MaxValidity)
  PROVE  /\ FirstFailure(HandlerChecks(pkg)) = "verified" <=>
              /\ UpstreamBindingMatches(pkg)
              /\ ~Expired(pkg, now)
              /\ "profile" \notin pkg.defects
              /\ ~ExceedsMaxValidity(pkg, now, MaxValidity)
              /\ code # "MALFORMED_APPROVAL_BUNDLE"
              /\ code # "EXPIRED_ACTION_ENVELOPE"
              /\ code = "verified"
              /\ PayloadStructure(pkg)
              /\ ProposerAllowed(Proposer, cfg.policy)
              /\ PayloadCode \in {"ok", "UNKNOWN_OPERATION"}
              /\ (~Governed /\ ~cfg.plugin.legacy => Operation \in cfg.plugin.surface)
              /\ (~Governed => cfg.passThrough)
         /\ FirstFailure(HandlerChecks(pkg)) # "verified" =>
              FirstFailure(HandlerChecks(pkg)) \in {"rejected", "expired", "notSupported", "malformed"}
<1> DEFINE checks == HandlerChecks(pkg)
<1>1. DOMAIN checks = 1 .. 12
  BY DEF HandlerChecks
<1>2. \A i \in DOMAIN checks : /\ checks[i][2] # "verified"
                                  /\ checks[i][2] \in {"rejected", "expired", "notSupported", "malformed"}
  BY <1>1 DEF HandlerChecks
<1>c1. checks[1][1] <=> UpstreamBindingMatches(pkg)
  BY DEF HandlerChecks
<1>c2. checks[2][1] <=> ~Expired(pkg, now)
  BY DEF HandlerChecks
<1>c3. checks[3][1] <=> "profile" \notin pkg.defects
  BY DEF HandlerChecks
<1>c4. checks[4][1] <=> ~ExceedsMaxValidity(pkg, now, MaxValidity)
  BY DEF HandlerChecks
<1>c5. checks[5][1] <=> code # "MALFORMED_APPROVAL_BUNDLE"
  BY DEF HandlerChecks
<1>c6. checks[6][1] <=> code # "EXPIRED_ACTION_ENVELOPE"
  BY DEF HandlerChecks
<1>c7. checks[7][1] <=> code = "verified"
  BY DEF HandlerChecks
<1>c8. checks[8][1] <=> PayloadStructure(pkg)
  BY DEF HandlerChecks
<1>c9. checks[9][1] <=> ProposerAllowed(Proposer, cfg.policy)
  BY DEF HandlerChecks
<1>c10. checks[10][1] <=> PayloadCode \in {"ok", "UNKNOWN_OPERATION"}
  BY DEF HandlerChecks
<1>c11. checks[11][1] <=> (~Governed /\ ~cfg.plugin.legacy => Operation \in cfg.plugin.surface)
  BY DEF HandlerChecks
<1>c12. checks[12][1] <=> (~Governed => cfg.passThrough)
  BY DEF HandlerChecks
<1> HIDE DEF checks
<1>3. /\ FirstFailure(checks) = "verified" <=> \A i \in DOMAIN checks : checks[i][1]
      /\ FirstFailure(checks) # "verified" => \E i \in DOMAIN checks : FirstFailure(checks) = checks[i][2]
  BY <1>1, <1>2, FirstFailureIs
<1>4. (\A i \in DOMAIN checks : checks[i][1]) <=>
        /\ checks[1][1]
        /\ checks[2][1]
        /\ checks[3][1]
        /\ checks[4][1]
        /\ checks[5][1]
        /\ checks[6][1]
        /\ checks[7][1]
        /\ checks[8][1]
        /\ checks[9][1]
        /\ checks[10][1]
        /\ checks[11][1]
        /\ checks[12][1]
  <2>1. \A i \in DOMAIN checks : i = 1 \/ i = 2 \/ i = 3 \/ i = 4 \/ i = 5 \/ i = 6 \/ i = 7 \/ i = 8 \/ i = 9 \/ i = 10 \/ i = 11 \/ i = 12
    BY <1>1
  <2>2. 1 .. 12 = DOMAIN checks
    BY <1>1
  <2> QED
    BY <2>1, <2>2
<1> QED
  BY <1>2, <1>3, <1>4, <1>c1, <1>c2, <1>c3, <1>c4, <1>c5, <1>c6, <1>c7, <1>c8, <1>c9, <1>c10, <1>c11, <1>c12 DEF checks


\* A package verifies when every condition of verifyActionPackage holds.
LEMMA PackageExact ==
  ASSUME NEW pkg, NEW at, NEW trusted, NEW max
  PROVE  FirstFailure(Checks(pkg, at, trusted, max)) = "verified" <=>
              /\ PackageForm(pkg)
              /\ BundleStructure(pkg)
              /\ ValidEnvelope(pkg, at)
              /\ ~Expired(pkg, at)
              /\ ~ExceedsMaxValidity(pkg, at, max)
              /\ "application" \notin pkg.defects
              /\ "profile" \notin pkg.defects
              /\ "payload" \notin pkg.defects
              /\ "actionId" \notin pkg.defects
              /\ "payloadHash" \notin pkg.defects
              /\ VerifyApprovalBundle(pkg, at, trusted)
              /\ ProposerSigned(pkg)
<1> DEFINE checks == Checks(pkg, at, trusted, max)
<1>1. DOMAIN checks = 1 .. 12
  BY DEF Checks
<1>2. \A i \in DOMAIN checks : checks[i][2] # "verified"
  BY <1>1 DEF Checks
<1>c1. checks[1][1] <=> PackageForm(pkg)
  BY DEF Checks
<1>c2. checks[2][1] <=> BundleStructure(pkg)
  BY DEF Checks
<1>c3. checks[3][1] <=> ValidEnvelope(pkg, at)
  BY DEF Checks
<1>c4. checks[4][1] <=> ~Expired(pkg, at)
  BY DEF Checks
<1>c5. checks[5][1] <=> ~ExceedsMaxValidity(pkg, at, max)
  BY DEF Checks
<1>c6. checks[6][1] <=> "application" \notin pkg.defects
  BY DEF Checks
<1>c7. checks[7][1] <=> "profile" \notin pkg.defects
  BY DEF Checks
<1>c8. checks[8][1] <=> "payload" \notin pkg.defects
  BY DEF Checks
<1>c9. checks[9][1] <=> "actionId" \notin pkg.defects
  BY DEF Checks
<1>c10. checks[10][1] <=> "payloadHash" \notin pkg.defects
  BY DEF Checks
<1>c11. checks[11][1] <=> VerifyApprovalBundle(pkg, at, trusted)
  BY DEF Checks
<1>c12. checks[12][1] <=> ProposerSigned(pkg)
  BY DEF Checks
<1> HIDE DEF checks
<1>3. /\ FirstFailure(checks) = "verified" <=> \A i \in DOMAIN checks : checks[i][1]
      /\ FirstFailure(checks) # "verified" => \E i \in DOMAIN checks : FirstFailure(checks) = checks[i][2]
  BY <1>1, <1>2, FirstFailureIs
<1>4. (\A i \in DOMAIN checks : checks[i][1]) <=>
        /\ checks[1][1]
        /\ checks[2][1]
        /\ checks[3][1]
        /\ checks[4][1]
        /\ checks[5][1]
        /\ checks[6][1]
        /\ checks[7][1]
        /\ checks[8][1]
        /\ checks[9][1]
        /\ checks[10][1]
        /\ checks[11][1]
        /\ checks[12][1]
  <2>1. \A i \in DOMAIN checks : i = 1 \/ i = 2 \/ i = 3 \/ i = 4 \/ i = 5 \/ i = 6 \/ i = 7 \/ i = 8 \/ i = 9 \/ i = 10 \/ i = 11 \/ i = 12
    BY <1>1
  <2>2. 1 .. 12 = DOMAIN checks
    BY <1>1
  <2> QED
    BY <2>1, <2>2
<1> QED
  BY <1>2, <1>3, <1>4, <1>c1, <1>c2, <1>c3, <1>c4, <1>c5, <1>c6, <1>c7, <1>c8, <1>c9, <1>c10, <1>c11, <1>c12 DEF checks


\* What the policy's verdict amounts to.
LEMMA PolicyParts ==
  ASSUME NEW name, NEW fields, NEW votes, NEW policy, NEW proposer,
         NEW v, v = EvaluatePolicy(name, fields, votes, policy, proposer),
         NEW conflict, conflict \in BOOLEAN,
         conflict <=> \E x, y \in votes : x[1] = y[1] /\ x[2] # y[2]
  PROVE  /\ v.status = "satisfied" <=>
              /\ ~conflict /\ ~Malformed(name, fields, policy) /\ ~Blocked(name, fields, policy)
              /\ MissingThresholds(name, fields, votes, policy, proposer) = {}
         /\ v.status = "additionalApprovalsRequired" =>
              /\ ~Malformed(name, fields, policy) /\ ~Blocked(name, fields, policy)
              /\ v.missing = MissingThresholds(name, fields, votes, policy, proposer)
              /\ v.missing # {}
         /\ ~conflict /\ ~Malformed(name, fields, policy) /\ ~Blocked(name, fields, policy) =>
              v.missing = MissingThresholds(name, fields, votes, policy, proposer)
         /\ v.status \in {"satisfied", "rejected", "malformed", "additionalApprovalsRequired"}
<1>1. CASE conflict
  BY <1>1 DEF EvaluatePolicy
<1>2. CASE ~conflict /\ Malformed(name, fields, policy)
  BY <1>2 DEF EvaluatePolicy
<1>3. CASE ~conflict /\ ~Malformed(name, fields, policy) /\ Blocked(name, fields, policy)
  BY <1>3 DEF EvaluatePolicy
<1>4. CASE ~conflict /\ ~Malformed(name, fields, policy) /\ ~Blocked(name, fields, policy)
  <2>1. v = [status |-> IF MissingThresholds(name, fields, votes, policy, proposer) = {}
                        THEN "satisfied" ELSE "additionalApprovalsRequired",
             missing |-> MissingThresholds(name, fields, votes, policy, proposer)]
    BY <1>4 DEF EvaluatePolicy
  <2> QED
    BY <1>4, <2>1
<1> QED
  BY <1>1, <1>2, <1>3, <1>4

\* What the Verifier's decision on a package amounts to.
LEMMA DecideParts ==
  ASSUME NEW pkg, NEW v, v = EvaluatePolicy(Operation, Fields, Votes(pkg), cfg.policy, Proposer)
  PROVE  /\ Governed =>
              (Decide(pkg).result = "executed" <=>
                 /\ FirstFailure(FormChecks(pkg)) = "verified"
                 /\ FirstFailure(HandlerChecks(pkg)) = "verified"
                 /\ v.status = "satisfied")
         /\ Decide(pkg).result = "additionalApprovalsRequired" =>
              /\ FirstFailure(FormChecks(pkg)) = "verified"
              /\ FirstFailure(HandlerChecks(pkg)) = "verified"
              /\ Governed
              /\ v.status = "additionalApprovalsRequired" /\ Decide(pkg).missing = v.missing
         /\ Decide(pkg).result \in Ends \cup {"additionalApprovalsRequired"}
<1> DEFINE form == FirstFailure(FormChecks(pkg))
           early == FirstFailure(HandlerChecks(pkg))
<1>1. /\ form # "verified" => form \in {"badRequest", "malformed", "rejected"}
      /\ early # "verified" => early \in {"rejected", "expired", "notSupported", "malformed"}
  BY FormExact, HandlerExact
<1>2. v.status \in {"satisfied", "rejected", "malformed", "additionalApprovalsRequired"}
  BY PolicyParts
<1> HIDE DEF form, early
<1>3. Decide(pkg) =
        IF form # "verified" THEN [result |-> form, missing |-> {}]
        ELSE IF early # "verified" THEN [result |-> early, missing |-> {}]
        ELSE IF ~Governed THEN [result |-> "executed", missing |-> {}]
        ELSE [result |-> IF v.status = "satisfied" THEN "executed" ELSE v.status,
              missing |-> v.missing]
  BY DEF Decide, form, early
<1> QED
  BY <1>1, <1>2, <1>3 DEF form, early, Ends

-----------------------------------------------------------------------------
(* The rounds of an Action, in a state of the inductive invariant.         *)

\* The configuration an Action is for has a validated policy.
LEMMA KnownConfig ==
  ASSUME RoundsInv, Known
  PROVE  cfg \in loaded /\ IsPolicy(cfg.policy) /\ ValidatePolicyConfig(cfg.policy)
<1>1. cfg \in loaded
  BY DEF Known, cfg
<1>2. cfg \in Files
  BY <1>1 DEF RoundsInv, TypeOK
<1>3. FirstFailure(FileChecks(cfg)) = "verified"
  BY <1>1 DEF RoundsInv, LoadedIsChecked
<1> QED
  BY <1>1, <1>2, <1>3, CheckedFile, DirectoriesAssumption

\* The thresholds that votes meet are granted by those who voted.
LEMMA MetIsGranted ==
  ASSUME RoundsInv, Known, NEW req, IsRequirement(req), TypedGroups(cfg.policy),
         ValidRequirement(req, cfg.policy.groups), NEW votes, NEW granted, votes \subseteq granted
  PROVE  MetThresholds(req, votes, cfg.policy, Proposer) \subseteq GrantedThresholds(req, granted)
<1> SUFFICES ASSUME NEW i \in MetThresholds(req, votes, cfg.policy, Proposer)
             PROVE  i \in GrantedThresholds(req, granted)
  OBVIOUS
<1> DEFINE e == req[i]
           F == Found(e, votes, cfg.policy, Proposer)
           Voters == EligibleSigners(e, cfg.policy) \ {Proposer}
<1>1. i \in DOMAIN req /\ e.type = "threshold" /\ EvaluateThreshold(e, votes, cfg.policy, Proposer) = {}
  BY DEF MetThresholds
<1>2. e.threshold \in Nat /\ e.signers \in Seq(Dids)
  BY <1>1, ValidExpression DEF Compositions
<1>3. Cardinality(F) >= e.threshold
  BY <1>1 DEF EvaluateThreshold
<1>4. IsFiniteSet(F) /\ Cardinality(F) \in Nat
  BY <1>2, EligibleTyped
<1>5. PICK S \in SUBSET F : Cardinality(S) = e.threshold
  <2> HIDE DEF F, e
  <2> QED
    BY <1>2, <1>3, <1>4, SubsetOfSize
<1>6. S \in SUBSET Voters /\ \A s \in S : <<s, e.decision>> \in granted
  BY <1>5 DEF Found
<1>7. S \in kSubset(e.threshold, Voters)
  BY <1>5, <1>6 DEF kSubset
<1> QED
  BY <1>1, <1>6, <1>7 DEF GrantedThresholds

\* A package that the Verifier executes, put together of Approvals that were
\* signed whenever and for whatever, was granted by the signers of its Action.
LEMMA ExecutedIsGranted ==
  ASSUME RoundsInv, NEW approvals, \A ap \in approvals : ap.payload \in pool,
         NEW bundleAct, NEW defects, Known, Governed,
         Decide(Package(approvals, bundleAct, defects)).result = "executed",
         NEW req \in EffectiveRequirements(Operation, Fields, cfg.policy)
  PROVE  Granted(req, Holding)
<1> DEFINE pkg == Package(approvals, bundleAct, defects)
           trusted == {k.did : k \in cfg.signerKeys}
           v == EvaluatePolicy(Operation, Fields, Votes(pkg), cfg.policy, Proposer)
           conflict == \E x, y \in Votes(pkg) : x[1] = y[1] /\ x[2] # y[2]
<1>0. pkg.act = round /\ pkg.approvals = approvals
  BY DEF Package
<1> HIDE DEF pkg
<1>1. FirstFailure(HandlerChecks(pkg)) = "verified" /\ v.status = "satisfied"
  BY DecideParts DEF pkg
<1>2. VerifyActionPackage(pkg, now, trusted, MaxValidity) = "verified"
  BY <1>1, HandlerExact
<1>3. VerifyApprovalBundle(pkg, now, trusted)
  BY <1>2, PackageExact DEF VerifyActionPackage
<1>4. Votes(pkg) \subseteq Holding
  <2> SUFFICES ASSUME NEW ap \in approvals
               PROVE  <<ap.payload.signer, ap.decision>> \in Holding
    BY <1>0 DEF Votes
  <2>1. ApprovalValid(ap, pkg, now, trusted)
    BY <1>0, <1>3 DEF VerifyApprovalBundle
  <2> DEFINE q == ap.payload
  <2>2. q \in pool /\ q.act = round /\ q.decision = ap.decision
    BY <1>0, <2>1 DEF ApprovalValid
  <2>3. q.expires = NoExpiry \/ now < q.expires
    BY <2>1 DEF ApprovalValid, ApprovalTimely
  <2> QED
    BY <2>2, <2>3 DEF Holding
<1>5. /\ ~Blocked(Operation, Fields, cfg.policy)
      /\ MissingThresholds(Operation, Fields, Votes(pkg), cfg.policy, Proposer) = {}
  <2> HIDE DEF v, conflict
  <2>1. conflict \in BOOLEAN /\ (conflict <=> \E x, y \in Votes(pkg) : x[1] = y[1] /\ x[2] # y[2])
    BY DEF conflict
  <2>2. v = EvaluatePolicy(Operation, Fields, Votes(pkg), cfg.policy, Proposer)
    BY DEF v
  <2> QED
    BY <1>1, <2>1, <2>2, PolicyParts
<1>6. EvaluateRequirement(req, Votes(pkg), cfg.policy, Proposer) = {}
  BY <1>5 DEF MissingThresholds
<1>7. IsRequirement(req) /\ ValidRequirement(req, cfg.policy.groups) /\ TypedGroups(cfg.policy)
  BY <1>5, KnownConfig, EffectiveValid
<1>8. Holds(req, ProposerSuffices(req) \cup MetThresholds(req, Votes(pkg), cfg.policy, Proposer))
  BY <1>6, <1>7, NothingMissingHolds
<1>9. MetThresholds(req, Votes(pkg), cfg.policy, Proposer) \subseteq GrantedThresholds(req, Holding)
  BY <1>4, <1>7, MetIsGranted
<1>10. Holds(req, ProposerSuffices(req) \cup GrantedThresholds(req, Holding))
  BY <1>7, <1>8, <1>9, HoldsMore
<1> QED
  BY <1>10 DEF Granted

\* Every bundle of AuthorizedBySigners is one of signed payloads.
LEMMA AuthorizedState == RoundsInv => AuthorizedBySigners
<1> SUFFICES ASSUME RoundsInv, NEW approvals \in Assembled, Known, Governed,
                    Decide(Package(approvals, round, {})).result = "executed",
                    NEW req \in EffectiveRequirements(Operation, Fields, cfg.policy)
             PROVE  Granted(req, Holding)
  BY DEF AuthorizedBySigners
<1>1. PICK s \in pool, dec \in {"propose", "approve"}, k \in {q.signer : q \in pool} :
        approvals = Others(s) \cup {Approval(s, round, dec, k)}
  BY DEF Assembled
<1>2. \A ap \in Others(s) : ap.payload \in pool
  BY DEF Others, Collected, Approval
<1>3. \A ap \in approvals : ap.payload \in pool
  BY <1>1, <1>2 DEF Approval
<1> QED
  BY <1>3, ExecutedIsGranted

\* No threshold is met by the Proposer's votes.
LEMMA ProposerMeetsNothing ==
  ASSUME NEW req, IsRequirement(req), NEW policy, TypedGroups(policy),
         ValidRequirement(req, policy.groups), NEW proposer, NEW votes,
         \A w \in votes : w[1] = proposer
  PROVE  MetThresholds(req, votes, policy, proposer) = {}
<1> SUFFICES ASSUME NEW i \in DOMAIN req, req[i].type = "threshold"
             PROVE  EvaluateThreshold(req[i], votes, policy, proposer) # {}
  BY DEF MetThresholds
<1>1. req[i].threshold \in Nat \ {0}
  BY ValidExpression DEF Compositions
<1>2. Found(req[i], votes, policy, proposer) = {}
  BY DEF Found
<1>3. Cardinality(Found(req[i], votes, policy, proposer)) = 0
  BY <1>2, FS_EmptySet
<1>4. ~(Cardinality(Found(req[i], votes, policy, proposer)) >= req[i].threshold)
  BY <1>1, <1>3
<1> QED
  BY <1>4 DEF EvaluateThreshold

\* The Proposer's decisions never do where a requirement asks for others.
LEMMA ProposerAloneState == RoundsInv => ProposerAloneIsNotEnough
<1> SUFFICES ASSUME RoundsInv, Known, Governed,
                    NEW req \in EffectiveRequirements(Operation, Fields, cfg.policy), NeedsOthers(req),
                    NEW dec \in SUBSET Decision
             PROVE  EvaluatePolicy(Operation, Fields, {<<Proposer, x>> : x \in dec},
                                   cfg.policy, Proposer).status # "satisfied"
  BY DEF ProposerAloneIsNotEnough
<1> DEFINE votes == {<<Proposer, x>> : x \in dec}
           v == EvaluatePolicy(Operation, Fields, votes, cfg.policy, Proposer)
           conflict == \E x, y \in votes : x[1] = y[1] /\ x[2] # y[2]
<1>1. \A w \in votes : w[1] = Proposer
  OBVIOUS
<1> HIDE DEF votes
<1>2. SUFFICES ASSUME v.status = "satisfied" PROVE FALSE
  BY DEF votes
<1>3. /\ ~Blocked(Operation, Fields, cfg.policy)
      /\ MissingThresholds(Operation, Fields, votes, cfg.policy, Proposer) = {}
  <2> HIDE DEF v, conflict
  <2>1. conflict \in BOOLEAN /\ (conflict <=> \E x, y \in votes : x[1] = y[1] /\ x[2] # y[2])
    BY DEF conflict
  <2>2. v = EvaluatePolicy(Operation, Fields, votes, cfg.policy, Proposer)
    BY DEF v
  <2> QED
    BY <1>2, <2>1, <2>2, PolicyParts
<1>4. IsRequirement(req) /\ ValidRequirement(req, cfg.policy.groups) /\ TypedGroups(cfg.policy)
  BY <1>3, KnownConfig, EffectiveValid
<1>5. MetThresholds(req, votes, cfg.policy, Proposer) = {}
  BY <1>1, <1>4, ProposerMeetsNothing
<1>6. EvaluateRequirement(req, votes, cfg.policy, Proposer) # {}
  BY <1>4, <1>5, ThresholdsMissing
<1>7. EvaluateRequirement(req, votes, cfg.policy, Proposer) = {}
  BY <1>3 DEF MissingThresholds
<1> QED
  BY <1>6, <1>7

\* What is missing with the votes of a collected package, when one threshold is
\* all that was asked for at first: at most that threshold, and nothing once
\* its signers have decided as it asks.
LEMMA MissingOfCollected ==
  ASSUME RoundsInv, Known, ~Malformed(Operation, Fields, cfg.policy), ~Blocked(Operation, Fields, cfg.policy),
         NEW t, AskedAtFirst = {t}, NEW votes, <<Proposer, "propose">> \in votes
  PROVE  /\ MissingThresholds(Operation, Fields, votes, cfg.policy, Proposer) \subseteq {t}
         /\ (\A e : e.signers \in Seq(Dids)
               /\ EvaluateThreshold(e, {<<Proposer, "propose">>}, cfg.policy, Proposer) = {t}
               => EvaluateThreshold(e, votes, cfg.policy, Proposer) = {})
              => MissingThresholds(Operation, Fields, votes, cfg.policy, Proposer) = {}
<1> DEFINE first == {<<Proposer, "propose">>}
           v == EvaluatePolicy(Operation, Fields, first, cfg.policy, Proposer)
<1>1. MissingThresholds(Operation, Fields, first, cfg.policy, Proposer) = {t}
  <2> DEFINE conflict == \E x, y \in first : x[1] = y[1] /\ x[2] # y[2]
  <2>1. ~conflict
    OBVIOUS
  <2> HIDE DEF first, v, conflict
  <2>2. conflict \in BOOLEAN /\ (conflict <=> \E x, y \in first : x[1] = y[1] /\ x[2] # y[2])
    BY DEF conflict
  <2>3. v = EvaluatePolicy(Operation, Fields, first, cfg.policy, Proposer)
    BY DEF v
  <2>4. v.missing = MissingThresholds(Operation, Fields, first, cfg.policy, Proposer)
    BY <2>1, <2>2, <2>3, PolicyParts
  <2> QED
    BY <2>4 DEF AskedAtFirst, v, first
<1> DEFINE Granting == \A e : e.signers \in Seq(Dids) /\ EvaluateThreshold(e, first, cfg.policy, Proposer) = {t}
                         => EvaluateThreshold(e, votes, cfg.policy, Proposer) = {}
<1>2. ASSUME NEW req \in EffectiveRequirements(Operation, Fields, cfg.policy), NEW C,
             \/ C = {t}
             \/ C = {} /\ Granting
      PROVE  EvaluateRequirement(req, votes, cfg.policy, Proposer) \subseteq C
  <2>1. IsRequirement(req) /\ ValidRequirement(req, cfg.policy.groups) /\ TypedGroups(cfg.policy)
    BY KnownConfig, EffectiveValid
  <2>2. EvaluateRequirement(req, first, cfg.policy, Proposer) \subseteq {t}
    BY <1>1 DEF MissingThresholds
  <2>3. ASSUME NEW i \in DOMAIN req, req[i].type = "threshold"
        PROVE  /\ EvaluateThreshold(req[i], first, cfg.policy, Proposer) # {}
               /\ EvaluateThreshold(req[i], first, cfg.policy, Proposer) = {t}
                    => EvaluateThreshold(req[i], votes, cfg.policy, Proposer) \subseteq C
    <3>1. EvaluateThreshold(req[i], first, cfg.policy, Proposer) # {}
      <4>1. \A w \in first : w[1] = Proposer
        OBVIOUS
      <4>2. MetThresholds(req, first, cfg.policy, Proposer) = {}
        BY <2>1, <4>1, ProposerMeetsNothing
      <4> QED
        BY <2>3, <4>2 DEF MetThresholds
    <3>2. req[i].signers \in Seq(Dids)
      BY <2>1, <2>3, ValidExpression DEF Compositions
    <3>3. ASSUME EvaluateThreshold(req[i], first, cfg.policy, Proposer) = {t}
          PROVE  EvaluateThreshold(req[i], votes, cfg.policy, Proposer) \subseteq C
      <4>1. CASE C = {t}
        BY <3>3, <4>1 DEF EvaluateThreshold
      <4>2. CASE C = {} /\ Granting
        <5>1. EvaluateThreshold(req[i], votes, cfg.policy, Proposer) = {}
          BY <3>2, <3>3, <4>2
        <5> QED
          BY <5>1
      <4> QED
        BY <1>2, <4>1, <4>2
    <3> QED
      BY <3>1, <3>3
  <2> HIDE DEF first
  <2>4. Carried(req, first, votes, cfg.policy, Proposer, t, C)
    BY <2>3 DEF Carried
  <2> QED
    BY <2>1, <2>2, <2>4, MissingStays
<1> HIDE DEF Granting
<1>3. \A req \in EffectiveRequirements(Operation, Fields, cfg.policy) :
        EvaluateRequirement(req, votes, cfg.policy, Proposer) \subseteq {t}
  BY <1>2
<1>4. ASSUME Granting, NEW req \in EffectiveRequirements(Operation, Fields, cfg.policy)
      PROVE  EvaluateRequirement(req, votes, cfg.policy, Proposer) = {}
  <2>1. EvaluateRequirement(req, votes, cfg.policy, Proposer) \subseteq {}
    BY <1>2, <1>4
  <2> QED
    BY <2>1
<1> QED
  BY <1>3, <1>4 DEF MissingThresholds, Granting

\* The votes of the package that Coordination completes are the decisions it
\* has counted.
LEMMA CollectedVotes ==
  ASSUME RoundsInv, NEW votes, votes = Votes(Package(Collected, round, {}))
  PROVE  /\ <<Proposer, "propose">> \in votes /\ d[Proposer] = "propose"
         /\ \A x, y \in votes : x[1] = y[1] => x[2] = y[2]
         /\ \A s \in Dids : d[s] # Undecided => <<s, d[s]>> \in votes
<1>1. votes = {<<q.signer, q.decision>> : q \in {q \in pool : q.act = round}}
  <2>1. votes = {<<ap.payload.signer, ap.decision>> : ap \in Collected}
    BY DEF Votes, Package
  <2>2. \A q : Approval(q, q.act, q.decision, q.signer).payload = q
               /\ Approval(q, q.act, q.decision, q.signer).decision = q.decision
    BY DEF Approval
  <2> QED
    BY <2>1, <2>2 DEF Collected
<1>2. \A q \in pool : q.act = round => d[q.signer] = q.decision /\ <<q.signer, q.decision>> \in votes
  BY <1>1 DEF RoundsInv, DecisionsAreSigned
<1> DEFINE own == Signed(Proposer, round, "propose", window, NoExpiry)
<1>3. own \in pool /\ own.act = round /\ own.signer = Proposer /\ own.decision = "propose"
  BY DEF RoundsInv, DecisionsAreSigned, Signed
<1> HIDE DEF own
<1>4. <<Proposer, "propose">> \in votes /\ d[Proposer] = "propose"
  BY <1>2, <1>3
<1>5. \A x \in votes : d[x[1]] = x[2]
  BY <1>1, <1>2
<1>6. ASSUME NEW s \in Dids, d[s] # Undecided PROVE <<s, d[s]>> \in votes
  <2>1. PICK q \in pool : q.act = round /\ q.signer = s
    BY <1>6 DEF RoundsInv, DecisionsAreSigned
  <2> QED
    BY <1>2, <2>1
<1> QED
  BY <1>4, <1>5, <1>6

\* What Coordination was asked for and has collected meets the threshold of the
\* Verifier that it comes from.
LEMMA CollectedMeets ==
  ASSUME RoundsInv, NEW votes, votes = Votes(Package(Collected, round, {})),
         NEW t \in Threshold, t.decision = "approve", ThresholdStatus(t, d) = "satisfied",
         NEW policy, TypedGroups(policy), NEW e, e.signers \in Seq(Dids), NEW first,
         EvaluateThreshold(e, first, policy, Proposer) = {t}
  PROVE  EvaluateThreshold(e, votes, policy, Proposer) = {}
<1>1. t.eligible = EligibleSigners(e, policy) /\ t.threshold = e.threshold /\ t.decision = e.decision
  BY DEF EvaluateThreshold
<1>2. Matching(t, d) \subseteq Found(e, votes, policy, Proposer)
  <2> SUFFICES ASSUME NEW s \in Matching(t, d) PROVE s \in Found(e, votes, policy, Proposer)
    OBVIOUS
  <2>1. s \in t.eligible /\ d[s] = "approve" /\ s \in Dids
    BY DEF Matching, Threshold
  <2>2. <<s, "approve">> \in votes /\ s # Proposer
    BY <2>1, CollectedVotes DEF Undecided
  <2> QED
    BY <1>1, <2>1, <2>2 DEF Found
<1>3. /\ IsFiniteSet(Found(e, votes, policy, Proposer))
      /\ Cardinality(Found(e, votes, policy, Proposer)) \in Nat
  BY EligibleTyped
<1>4. /\ Cardinality(Matching(t, d)) <= Cardinality(Found(e, votes, policy, Proposer))
      /\ Cardinality(Matching(t, d)) \in Nat
  BY <1>2, <1>3, FS_Subset, FS_CardinalityType
<1>5. Cardinality(Matching(t, d)) >= t.threshold /\ t.threshold \in Nat
  BY DEF ThresholdStatus, Threshold
<1>6. Cardinality(Found(e, votes, policy, Proposer)) >= e.threshold
  BY <1>1, <1>3, <1>4, <1>5
<1> QED
  BY <1>6 DEF EvaluateThreshold

\* The checks before the policy pass for the completed package.
LEMMA CompletedIsWellFormed ==
  ASSUME RoundsInv, Validity <= MaxValidity, round > 1, now < window + Validity,
         NEW pkg, pkg = Package(Collected, round, {}),
         VerifyApprovalBundle(pkg, now, {k.did : k \in cfg.signerKeys})
  PROVE  FirstFailure(FormChecks(pkg)) = "verified" /\ FirstFailure(HandlerChecks(pkg)) = "verified"
<1> DEFINE trusted == {k.did : k \in cfg.signerKeys}
           code == VerifyActionPackage(pkg, now, trusted, MaxValidity)
           own == Signed(Proposer, round, "propose", window, NoExpiry)
           ap == Approval(own, own.act, own.decision, own.signer)
<1>1. /\ pkg.defects = {} /\ pkg.created = window /\ pkg.expires = window + Validity
      /\ pkg.approvals = Collected /\ pkg.proposer = Proposer
  BY DEF Package
<1>2. /\ window \in Nat /\ now \in Nat /\ window <= now
      /\ Validity \in Nat \ {0} /\ MaxValidity \in Nat
  BY RoundsAssumption DEF RoundsInv, TypeOK
<1>3. ap \in Collected /\ ap.decision = "propose" /\ ap.payload.signer = Proposer
  <2>1. own \in pool /\ own.act = round /\ own.signer = Proposer /\ own.decision = "propose"
    BY DEF RoundsInv, DecisionsAreSigned, Signed
  <2> HIDE DEF own
  <2> QED
    BY <2>1 DEF Collected, Approval
<1> HIDE DEF ap, own
<1>4. ValidEnvelope(pkg, now) /\ ~Expired(pkg, now) /\ ~ExceedsMaxValidity(pkg, now, MaxValidity)
  <2>1. /\ window < window + Validity /\ ~(window + Validity <= now)
        /\ ~(window + Validity - now > MaxValidity)
    BY <1>2
  <2> QED
    BY <1>1, <1>2, <2>1 DEF ValidEnvelope, EnvelopeForm, Expired, ExceedsMaxValidity
<1>5. BundleStructure(pkg) /\ ProposerSigned(pkg)
  BY <1>1, <1>3 DEF BundleStructure, ProposerSigned
<1>6. code = "verified"
  <2>1. FirstFailure(Checks(pkg, now, trusted, MaxValidity)) = "verified"
    BY <1>1, <1>4, <1>5, PackageExact DEF PackageForm, ValidEnvelope
  <2> QED
    BY <2>1 DEF VerifyActionPackage
<1>7. /\ Known /\ Governed /\ ProposerAllowed(Proposer, cfg.policy)
      /\ PayloadCode \in {"ok", "UNKNOWN_OPERATION"}
  BY DEF RoundsInv, ReplacedForDecisions
<1>8. FirstFailure(FormChecks(pkg)) = "verified"
  BY <1>1, <1>4, <1>5, <1>7, FormExact DEF ParseActionPackage, PackageForm, ValidEnvelope
<1> HIDE DEF code
<1>9. FirstFailure(HandlerChecks(pkg)) = "verified"
  BY <1>1, <1>4, <1>6, <1>7, HandlerExact DEF UpstreamBindingMatches, PayloadStructure, code
<1> QED
  BY <1>8, <1>9

\* A completed package is executed, when one threshold of approvals is all that
\* was asked for.
LEMMA ReadyState == RoundsInv /\ Validity <= MaxValidity => ReadyIsEnough
<1> DEFINE pkg == Package(Collected, round, {})
           votes == Votes(pkg)
           v == EvaluatePolicy(Operation, Fields, votes, cfg.policy, Proposer)
           conflict == \E x, y \in votes : x[1] = y[1] /\ x[2] # y[2]
<1> SUFFICES ASSUME RoundsInv, Validity <= MaxValidity, phase = "submit", round > 1, OneAsked,
                    \A t \in AskedAtFirst : t.decision = "approve", now < window + Validity,
                    VerifyApprovalBundle(pkg, now, {k.did : k \in cfg.signerKeys})
             PROVE  Decide(pkg).result = "executed"
  BY DEF ReadyIsEnough
<1>1. FirstFailure(FormChecks(pkg)) = "verified" /\ FirstFailure(HandlerChecks(pkg)) = "verified"
  BY CompletedIsWellFormed
<1>2. PICK t : AskedAtFirst = {t} /\ t.decision = "approve"
  BY DEF OneAsked
<1>3. /\ Known /\ Governed /\ ~Malformed(Operation, Fields, cfg.policy)
      /\ ~Blocked(Operation, Fields, cfg.policy)
      /\ R = BuildAuthorizationRequirements({t}) /\ R.anyOf = {t} /\ Evaluate(R, d) = "satisfied"
  BY <1>2 DEF RoundsInv, ReplacedForDecisions, OneAsked
<1>4. t \in Threshold
  BY <1>3 DEF RoundsInv, TypeOK
<1>5. ThresholdStatus(t, d) = "satisfied"
  BY <1>3 DEF Evaluate, PathsSatisfied, BuildAuthorizationRequirements
<1>6. TypedGroups(cfg.policy)
  BY <1>3, KnownConfig DEF IsPolicy, TypedGroups
<1> HIDE DEF pkg, votes, v, conflict
<1>7. <<Proposer, "propose">> \in votes /\ ~conflict
  BY CollectedVotes DEF conflict, votes, pkg
<1>8. \A e : e.signers \in Seq(Dids)
         /\ EvaluateThreshold(e, {<<Proposer, "propose">>}, cfg.policy, Proposer) = {t}
         => EvaluateThreshold(e, votes, cfg.policy, Proposer) = {}
  BY <1>2, <1>4, <1>5, <1>6, CollectedMeets DEF votes, pkg
<1>9. MissingThresholds(Operation, Fields, votes, cfg.policy, Proposer) = {}
  BY <1>2, <1>3, <1>7, <1>8, MissingOfCollected
<1>10. v.status = "satisfied"
  <2>1. conflict \in BOOLEAN /\ (conflict <=> \E x, y \in votes : x[1] = y[1] /\ x[2] # y[2])
    BY DEF conflict
  <2>2. v = EvaluatePolicy(Operation, Fields, votes, cfg.policy, Proposer)
    BY DEF v
  <2> QED
    BY <1>3, <1>7, <1>9, <2>1, <2>2, PolicyParts
<1> QED
  BY <1>1, <1>3, <1>10, DecideParts DEF v, votes

-----------------------------------------------------------------------------
(* The inductive invariant.                                                *)

\* The loader counts no more signers than can decide, in a list without one
\* twice.
LEMMA NoMoreThanCanDecide ==
  ASSUME NEW policy, TypedGroups(policy), NEW did,
         NEW e, e.signers \in Seq(Dids), ~e.inline => e.signers = <<>>, Distinct(e.signers)
  PROVE  /\ OthersEligible(e, policy, did) \in Nat
         /\ OthersEligible(e, policy, did) <= Cardinality(EligibleSigners(e, policy) \ {did})
<1> DEFINE S == EligibleSigners(e, policy) \ {did}
           K == {k \in DOMAIN e.signers : e.signers[k] # did}
           f == [k \in K |-> e.signers[k]]
<1>1. IsFiniteSet(S) /\ Cardinality(S) \in Nat
  BY EligibleTyped, FS_CardinalityType
<1>2. CASE ~e.inline
  BY <1>1, <1>2 DEF OthersEligible
<1>3. CASE e.inline /\ e.signers = <<>>
  <2>1. Cardinality(K) = 0
    BY <1>3, FS_EmptySet
  <2> QED
    BY <1>1, <1>3, <2>1 DEF OthersEligible
<1>4. CASE e.inline /\ e.signers # <<>>
  <2>1. S = Listed(e) \ {did}
    BY <1>4 DEF EligibleSigners
  <2>2. f \in Injection(K, S)
    BY <2>1 DEF Injection, IsInjective, Distinct, Listed
  <2>3. Cardinality(K) \in Nat /\ Cardinality(K) <= Cardinality(S)
    BY <1>1, <2>2, FS_Injection, FS_CardinalityType
  <2> QED
    BY <1>4, <2>3 DEF OthersEligible
<1> QED
  BY <1>2, <1>3, <1>4

\* A validated default requirement of approvals is met when everyone but the
\* Proposer approves.
LEMMA DefaultIsUsable ==
  ASSUME NEW policy, IsPolicy(policy), ValidatePolicyConfig(policy),
         ValidateDefaultRequirement(policy), AsksForApprovals(policy.default),
         NEW did \in Proposers(policy)
  PROVE  EvaluateRequirement(policy.default, {<<s, "approve">> : s \in Dids \ {did}}, policy, did) = {}
<1> DEFINE req == policy.default
           votes == {<<s, "approve">> : s \in Dids \ {did}}
           basic == ProposerSuffices(req) \cup SatisfiableThresholds(req, policy, did)
<1>1. IsRequirement(req) /\ ValidRequirement(req, policy.groups) /\ TypedGroups(policy)
  BY DEF IsPolicy, ValidatePolicyConfig, TypedGroups
<1>2. Holds(req, basic)
  BY DEF ValidateDefaultRequirement, Satisfiable
<1>3. \A s \in Dids : s # did => <<s, "approve">> \in votes
  OBVIOUS
<1>4. \A i \in DOMAIN req : req[i].type = "threshold"
                           => req[i].decision = "approve" /\ Distinct(req[i].signers)
  BY DEF AsksForApprovals
<1> HIDE DEF votes, req
<1>5. ASSUME NEW i \in ProposerSuffices(req) PROVE Unmet(req, votes, policy, did)[i] = {}
  <2>1. i \in DOMAIN req /\ req[i].type = "proposerOnly"
    BY DEF ProposerSuffices
  <2> QED
    BY <1>1, <2>1, UnmetParts
<1>6. ASSUME NEW i \in SatisfiableThresholds(req, policy, did)
      PROVE  Unmet(req, votes, policy, did)[i] = {}
  <2>1. i \in DOMAIN req /\ req[i].type = "threshold" /\ OthersEligible(req[i], policy, did) >= req[i].threshold
    BY DEF SatisfiableThresholds
  <2>2. /\ req[i].signers \in Seq(Dids) /\ req[i].decision = "approve"
        /\ Distinct(req[i].signers) /\ (~req[i].inline => req[i].signers = <<>>)
        /\ req[i].threshold \in Nat
    BY <1>1, <1>4, <2>1, ValidExpression DEF Compositions
  <2>3. EligibleSigners(req[i], policy) \in SUBSET Dids
    BY <1>1, <2>2, EligibleTyped
  <2>4. Found(req[i], votes, policy, did) = EligibleSigners(req[i], policy) \ {did}
    BY <1>3, <2>2, <2>3 DEF Found
  <2>5. /\ OthersEligible(req[i], policy, did) \in Nat
        /\ OthersEligible(req[i], policy, did) <= Cardinality(Found(req[i], votes, policy, did))
    BY <1>1, <2>2, <2>4, NoMoreThanCanDecide
  <2>6. Cardinality(Found(req[i], votes, policy, did)) \in Nat
    BY <1>1, <2>2, EligibleTyped
  <2>7. EvaluateThreshold(req[i], votes, policy, did) = {}
    BY <2>1, <2>2, <2>5, <2>6 DEF EvaluateThreshold
  <2> QED
    BY <1>1, <2>1, <2>7, UnmetParts
<1>7. EvaluateRequirement(req, votes, policy, did) = {}
  BY <1>1, <1>2, <1>5, <1>6, HoldingMissesNothing
<1> QED
  BY <1>7 DEF votes, req

\* What the rounds read of a start that is over.
LEMMA Frame ==
  ASSUME UNCHANGED <<loaded, args>>
  PROVE  /\ Known' <=> Known
         /\ cfg' = cfg
         /\ PayloadCode' = PayloadCode
         /\ Fields' = Fields
         /\ Governed' <=> Governed
         /\ AskedAtFirst' = AskedAtFirst
         /\ OneAsked' <=> OneAsked
<1>1. (Known' <=> Known) /\ cfg' = cfg
  BY DEF Known, cfg
<1>2. PayloadCode' = PayloadCode
  BY <1>1 DEF PayloadCode
<1>3. Fields' = Fields
  BY DEF Fields
<1>4. Governed' <=> Governed
  BY <1>1, <1>2 DEF Governed
<1>5. AskedAtFirst' = AskedAtFirst
  BY <1>1, <1>3 DEF AskedAtFirst
<1>6. OneAsked' <=> OneAsked
  BY <1>5 DEF OneAsked
<1> QED
  BY <1>1, <1>2, <1>3, <1>4, <1>5, <1>6

LEMMA RoundsInit == Init => RoundsInv
<1> SUFFICES ASSUME Init PROVE RoundsInv
  OBVIOUS
<1> USE DEF Init, StartInit
<1>1. queue \in Seq(Files) /\ loaded = {} /\ loaded \subseteq Files
  BY DirectoriesAssumption
<1>2. /\ R.anyOf = {} /\ R.allOf = {}
  BY DEF NoRequirements, BuildAuthorizationRequirements
<1>3. d \in Decisions /\ \A s \in Dids : d[s] = IF s = Proposer THEN "propose" ELSE Undecided
  BY RoundsAssumption DEF NoDecisions, Decisions, Decision, Undecided
<1> DEFINE own == Signed(Proposer, 1, "propose", 1, NoExpiry)
<1>4. own.signer = Proposer /\ own.act = 1 /\ own.decision = "propose" /\ pool = {own}
  BY DEF Signed
<1>5. DecisionsAreSigned
  <2> HIDE DEF own
  <2>1. own \in pool /\ \A q \in pool : q = own
    BY <1>4
  <2> QED
    BY <1>3, <1>4, <2>1, RoundsAssumption DEF DecisionsAreSigned, own
<1>6. TypeOK
  <2> HIDE DEF own
  <2> QED
    BY <1>1, <1>2, <1>3, <1>4, RoundsAssumption DEF TypeOK, Decision
<1> QED
  BY <1>1, <1>5, <1>6 DEF RoundsInv, LoadedIsChecked, LoadedIsUsable, ReplacedForDecisions

\* The start, which is over before an Action is replaced.
LEMMA RoundsStart == RoundsInv /\ Start => RoundsInv'
<1> SUFFICES ASSUME RoundsInv, Start PROVE RoundsInv'
  OBVIOUS
<1>1. UNCHANGED callVars /\ startup = "loading"
  BY DEF Start, LoadFile, Started
<1>2. round = 1
  BY <1>1 DEF RoundsInv, TypeOK, ReplacedForDecisions
<1>3. DecisionsAreSigned' /\ ReplacedForDecisions'
  BY <1>1, <1>2 DEF RoundsInv, DecisionsAreSigned, ReplacedForDecisions, callVars
<1>4. CASE UNCHANGED <<queue, loaded>>
  <2>1. TypeOK'
    BY <1>1, <1>4 DEF RoundsInv, TypeOK, callVars
  <2>2. LoadedIsChecked' /\ LoadedIsUsable'
    BY <1>4 DEF RoundsInv, LoadedIsChecked, LoadedIsUsable
  <2> QED
    BY <1>3, <2>1, <2>2 DEF RoundsInv
<1>5. ASSUME NEW c \in Files, queue # <<>>, c = Head(queue), FirstFailure(FileChecks(c)) = "verified",
             ~\E other \in loaded : other.app = c.app,
             loaded' = loaded \cup {c}, queue' = Tail(queue)
      PROVE  RoundsInv'
  <2>1. TypeOK'
    <3>1. queue' \in Seq(Files) /\ loaded' \subseteq Files
      BY <1>5 DEF RoundsInv, TypeOK
    <3> QED
      BY <1>1, <3>1 DEF RoundsInv, TypeOK, callVars
  <2>2. LoadedIsChecked'
    BY <1>5 DEF RoundsInv, LoadedIsChecked
  <2>3. LoadedIsUsable'
    <3>1. IsPolicy(c.policy) /\ ValidatePolicyConfig(c.policy) /\ ValidateDefaultRequirement(c.policy)
      BY <1>5, CheckedFile, DirectoriesAssumption
    <3>2. AsksForApprovals(c.policy.default) =>
            \A did \in Proposers(c.policy) :
              EvaluateRequirement(c.policy.default,
                {<<s, "approve">> : s \in Dids \ {did}}, c.policy, did) = {}
      BY <3>1, DefaultIsUsable
    <3> QED
      BY <1>5, <3>2 DEF RoundsInv, LoadedIsUsable
  <2> QED
    BY <1>3, <2>1, <2>2, <2>3 DEF RoundsInv
<1>6. CASE \E r \in Responses, confirmed \in BOOLEAN : LoadFile(r, confirmed)
  <2>1. UNCHANGED <<queue, loaded>> \/
          /\ queue # <<>> /\ FirstFailure(FileChecks(Head(queue))) = "verified"
          /\ ~\E other \in loaded : other.app = Head(queue).app
          /\ loaded' = loaded \cup {Head(queue)} /\ queue' = Tail(queue)
    BY <1>6 DEF LoadFile, Failed
  <2>2. queue # <<>> => Head(queue) \in Files
    BY DEF RoundsInv, TypeOK
  <2> QED
    BY <1>4, <1>5, <2>1, <2>2
<1>7. CASE Started
  BY <1>4, <1>7 DEF Started
<1> QED
  BY <1>6, <1>7 DEF Start

\* A replaced Action: the Verifier had nothing against the call but that
\* decisions were missing.
LEMMA RoundsReplace ==
  ASSUME RoundsInv, startup = "up", phase = "submit", NEW defects,
         NEW answer, answer = Decide(Package(Collected, round, defects)),
         answer.result = "additionalApprovalsRequired",
         round < MaxRounds, Replace(answer.missing), UNCHANGED <<startVars, args, now>>
  PROVE  RoundsInv'
<1> DEFINE pkg == Package(Collected, round, defects)
           votes == Votes(pkg)
           v == EvaluatePolicy(Operation, Fields, votes, cfg.policy, Proposer)
           conflict == \E x, y \in votes : x[1] = y[1] /\ x[2] # y[2]
           T == {t \in Threshold : t.threshold >= 1}
<1>0. votes = Votes(Package(Collected, round, {}))
  BY DEF Votes, Package
<1> HIDE DEF pkg, votes, v, conflict
<1>1. /\ FirstFailure(FormChecks(pkg)) = "verified" /\ FirstFailure(HandlerChecks(pkg)) = "verified"
      /\ Governed /\ v.status = "additionalApprovalsRequired" /\ answer.missing = v.missing
  BY DecideParts DEF pkg, v, votes
<1>2. /\ Known /\ ProposerAllowed(Proposer, cfg.policy)
      /\ PayloadCode \in {"ok", "UNKNOWN_OPERATION"}
  BY <1>1, FormExact, HandlerExact
<1>3. /\ ~Malformed(Operation, Fields, cfg.policy) /\ ~Blocked(Operation, Fields, cfg.policy)
      /\ answer.missing = MissingThresholds(Operation, Fields, votes, cfg.policy, Proposer)
      /\ answer.missing # {}
  <2>1. conflict \in BOOLEAN /\ (conflict <=> \E x, y \in votes : x[1] = y[1] /\ x[2] # y[2])
    BY DEF conflict
  <2>2. v = EvaluatePolicy(Operation, Fields, votes, cfg.policy, Proposer)
    BY DEF v
  <2> QED
    BY <1>1, <2>1, <2>2, PolicyParts
<1>4. answer.missing \subseteq T
  <2>1. ASSUME NEW req \in EffectiveRequirements(Operation, Fields, cfg.policy)
        PROVE  EvaluateRequirement(req, votes, cfg.policy, Proposer) \subseteq T
    <3>1. IsRequirement(req) /\ ValidRequirement(req, cfg.policy.groups) /\ TypedGroups(cfg.policy)
      BY <1>2, <1>3, KnownConfig, EffectiveValid
    <3> QED
      BY <3>1, UnmetTyped
  <2> HIDE DEF T
  <2> QED
    BY <1>3, <2>1 DEF MissingThresholds
<1>5. OneAsked => answer.missing = AskedAtFirst
  <2> SUFFICES ASSUME NEW t \in AskedAtFirst, AskedAtFirst = {t} PROVE answer.missing = {t}
    BY DEF OneAsked
  <2>1. <<Proposer, "propose">> \in votes
    BY <1>0, CollectedVotes
  <2>2. answer.missing \subseteq {t}
    BY <1>2, <1>3, <2>1, MissingOfCollected
  <2> QED
    BY <1>3, <2>2
<1>6. /\ round' = round + 1 /\ window' = now /\ now' = now /\ phase' = "collecting"
      /\ R' = BuildAuthorizationRequirements(answer.missing)
      /\ R'.anyOf = answer.missing /\ R'.allOf = {}
      /\ d' = [NoDecisions EXCEPT ![Proposer] = "propose"]
      /\ pool' = pool \cup {Signed(Proposer, round + 1, "propose", now, NoExpiry)}
      /\ UNCHANGED startVars /\ args' = args
  BY DEF Replace, BuildAuthorizationRequirements
<1>7. d' \in Decisions /\ \A s \in Dids : d'[s] = IF s = Proposer THEN "propose" ELSE Undecided
  BY <1>6, RoundsAssumption DEF NoDecisions, Decisions, Decision, Undecided
<1> DEFINE own == Signed(Proposer, round + 1, "propose", now, NoExpiry)
<1>8. own.signer = Proposer /\ own.act = round + 1 /\ own.decision = "propose" /\ own \in pool'
  BY <1>6 DEF Signed
<1> HIDE DEF own
<1>9. TypeOK'
  <2>1. queue' \in Seq(Files) /\ loaded' \subseteq Files
    BY <1>6 DEF RoundsInv, TypeOK, startVars
  <2>2. R'.anyOf \subseteq Threshold /\ \A t \in R'.anyOf : t.threshold >= 1
    BY <1>4, <1>6
  <2>3. round' \in 1 .. MaxRounds /\ now' \in 1 .. MaxTime /\ window' \in 1 .. now'
    BY <1>6, RoundsAssumption DEF RoundsInv, TypeOK
  <2>4. \A s \in pool' : s.signer \in Dids /\ s.act \in 1 .. round' /\ s.decision \in Decision
    <3>1. \A s \in pool : s.signer \in Dids /\ s.act \in 1 .. round + 1 /\ s.decision \in Decision
      BY RoundsAssumption DEF RoundsInv, TypeOK
    <3>2. own.signer \in Dids /\ own.act \in 1 .. round + 1 /\ own.decision \in Decision
      BY <1>8, RoundsAssumption DEF RoundsInv, TypeOK, Decision
    <3> QED
      BY <1>6, <3>1, <3>2 DEF own
  <2> QED
    BY <1>6, <1>7, <2>1, <2>2, <2>3, <2>4 DEF TypeOK
<1>10. DecisionsAreSigned'
  <2>1. \A q \in pool' : q.act = round + 1 => q = own
    <3>1. \A q \in pool : q.act # round + 1
      BY RoundsAssumption DEF RoundsInv, TypeOK
    <3> QED
      BY <1>6, <3>1 DEF own
  <2>2. \A s \in Dids : d'[s] # Undecided => s = Proposer
    BY <1>7
  <2>3. d'[Proposer] = "propose"
    BY <1>7, RoundsAssumption
  <2> QED
    BY <1>6, <1>8, <2>1, <2>2, <2>3 DEF DecisionsAreSigned, own
<1>11. ReplacedForDecisions'
  <2>1. /\ startup' = "up" /\ Known' /\ Governed' /\ cfg' = cfg
        /\ PayloadCode' = PayloadCode /\ Fields' = Fields
        /\ AskedAtFirst' = AskedAtFirst /\ (OneAsked' <=> OneAsked)
    BY <1>1, <1>2, <1>6, Frame DEF startVars
  <2> QED
    BY <1>2, <1>3, <1>5, <1>6, <2>1 DEF ReplacedForDecisions
<1>12. LoadedIsChecked' /\ LoadedIsUsable'
  BY <1>6 DEF RoundsInv, LoadedIsChecked, LoadedIsUsable, startVars
<1> QED
  BY <1>9, <1>10, <1>11, <1>12 DEF RoundsInv

\* Any other answer ends the Action.
LEMMA RoundsSubmit ==
  ASSUME RoundsInv, NEW defects, Submit(defects)
  PROVE  RoundsInv'
<1> DEFINE answer == Decide(Package(Collected, round, defects))
<1>0. answer = Decide(Package(Collected, round, defects))
  OBVIOUS
<1> HIDE DEF answer
<1>1. /\ startup = "up" /\ phase = "submit" /\ UNCHANGED <<startVars, args, now>>
      /\ IF answer.result = "additionalApprovalsRequired"
         THEN round < MaxRounds /\ Replace(answer.missing)
         ELSE phase' = answer.result /\ UNCHANGED <<round, window, R, d, pool>>
  BY DEF Submit, answer
<1>2. CASE answer.result = "additionalApprovalsRequired"
  BY <1>0, <1>1, <1>2, RoundsReplace
<1>3. CASE answer.result # "additionalApprovalsRequired"
  <2>1. phase' = answer.result /\ UNCHANGED <<round, window, R, d, pool, startVars, args, now>>
    BY <1>1, <1>3
  <2>2. phase' \in Ends
    BY <1>0, <1>3, <2>1, DecideParts
  <2>3. TypeOK'
    BY <2>1, <2>2 DEF RoundsInv, TypeOK, startVars
  <2>4. DecisionsAreSigned'
    BY <2>1 DEF RoundsInv, DecisionsAreSigned
  <2>5. ReplacedForDecisions'
    <3>1. /\ Known' <=> Known
          /\ Governed' <=> Governed
          /\ cfg' = cfg /\ PayloadCode' = PayloadCode /\ Fields' = Fields
          /\ AskedAtFirst' = AskedAtFirst /\ (OneAsked' <=> OneAsked)
      BY <2>1, Frame DEF startVars
    <3>2. phase' # "submit"
      BY <2>2 DEF Ends
    <3> QED
      BY <2>1, <3>1, <3>2 DEF RoundsInv, ReplacedForDecisions, startVars
  <2>6. LoadedIsChecked' /\ LoadedIsUsable'
    BY <2>1 DEF RoundsInv, LoadedIsChecked, LoadedIsUsable, startVars
  <2> QED
    BY <2>3, <2>4, <2>5, <2>6 DEF RoundsInv
<1> QED
  BY <1>2, <1>3

\* A decision of a signer.
LEMMA RoundsSign ==
  ASSUME RoundsInv, NEW s \in Dids, NEW dec \in {"approve", "reject"}, NEW until,
         Sign(s, dec, until)
  PROVE  RoundsInv'
<1> DEFINE new == BuildApproval(s, dec, until)
<1>1. /\ s # Proposer /\ d[s] = Undecided
      /\ d' = [d EXCEPT ![s] = dec] /\ pool' = pool \cup {new}
      /\ UNCHANGED <<startVars, args, round, window, R, now>>
      /\ \/ phase' = "submit" /\ Evaluate(R, d') = "satisfied"
         \/ phase' \in {"closed", phase}
      /\ phase = "collecting"
  BY DEF Sign
<1>2. new.signer = s /\ new.act = round /\ new.decision = dec
  BY DEF BuildApproval, Signed
<1> HIDE DEF new
<1>3. d' \in Decisions /\ d'[s] = dec /\ \A x \in Dids : x # s => d'[x] = d[x]
  BY <1>1 DEF RoundsInv, TypeOK, Decisions, Decision
<1>4. TypeOK'
  <2>1. \A q \in pool' : q.signer \in Dids /\ q.act \in 1 .. round' /\ q.decision \in Decision
    <3>1. new.signer \in Dids /\ new.act \in 1 .. round /\ new.decision \in Decision
      BY <1>2, RoundsAssumption DEF RoundsInv, TypeOK, Decision
    <3> QED
      BY <1>1, <3>1 DEF RoundsInv, TypeOK
  <2> QED
    BY <1>1, <1>3, <2>1 DEF RoundsInv, TypeOK, startVars, Ends
<1>5. DecisionsAreSigned'
  <2>1. \A q \in pool : q.act = round => q.signer # s
    <3> SUFFICES ASSUME NEW q \in pool, q.act = round, q.signer = s PROVE FALSE
      OBVIOUS
    <3>1. d[s] = q.decision /\ q.decision \in Decision
      BY DEF RoundsInv, TypeOK, DecisionsAreSigned
    <3> QED
      BY <1>1, <3>1 DEF Decision, Undecided
  <2>2. \A q \in pool' : q.act = round => d'[q.signer] = q.decision
    BY <1>1, <1>2, <1>3, <2>1 DEF RoundsInv, TypeOK, DecisionsAreSigned
  <2>3. \A x \in Dids : d'[x] # Undecided => \E q \in pool' : q.act = round /\ q.signer = x
    BY <1>1, <1>2, <1>3 DEF RoundsInv, DecisionsAreSigned
  <2>4. Signed(Proposer, round, "propose", window, NoExpiry) \in pool'
    BY <1>1 DEF RoundsInv, DecisionsAreSigned
  <2> QED
    BY <1>1, <2>2, <2>3, <2>4 DEF DecisionsAreSigned
<1>6. ReplacedForDecisions'
  <2>1. /\ Known' <=> Known
        /\ Governed' <=> Governed
        /\ cfg' = cfg /\ PayloadCode' = PayloadCode /\ Fields' = Fields
        /\ AskedAtFirst' = AskedAtFirst /\ (OneAsked' <=> OneAsked)
    BY <1>1, Frame DEF startVars
  <2>2. phase' = "submit" => Evaluate(R', d') = "satisfied"
    BY <1>1
  <2> QED
    BY <1>1, <2>1, <2>2 DEF RoundsInv, ReplacedForDecisions, startVars
<1>7. LoadedIsChecked' /\ LoadedIsUsable'
  BY <1>1 DEF RoundsInv, LoadedIsChecked, LoadedIsUsable, startVars
<1> QED
  BY <1>4, <1>5, <1>6, <1>7 DEF RoundsInv

\* Time passes, or nothing does.
LEMMA RoundsTick ==
  ASSUME RoundsInv, \/ Tick
                    \/ UNCHANGED vars
  PROVE  RoundsInv'
<1>1. /\ UNCHANGED <<startVars, args, round, window, R, d, pool, phase>>
      /\ now' \in 1 .. MaxTime /\ now' >= now
  BY RoundsAssumption DEF RoundsInv, TypeOK, Tick, vars, callVars
<1>2. TypeOK'
  <2>1. window' \in 1 .. now'
    BY <1>1, RoundsAssumption DEF RoundsInv, TypeOK
  <2> QED
    BY <1>1, <2>1 DEF RoundsInv, TypeOK, startVars
<1>3. DecisionsAreSigned'
  BY <1>1 DEF RoundsInv, DecisionsAreSigned
<1>4. ReplacedForDecisions'
  <2>1. /\ Known' <=> Known
        /\ Governed' <=> Governed
        /\ cfg' = cfg /\ PayloadCode' = PayloadCode /\ Fields' = Fields
        /\ AskedAtFirst' = AskedAtFirst /\ (OneAsked' <=> OneAsked)
    BY <1>1, Frame DEF startVars
  <2> QED
    BY <1>1, <2>1 DEF RoundsInv, ReplacedForDecisions, startVars
<1>5. LoadedIsChecked' /\ LoadedIsUsable'
  BY <1>1 DEF RoundsInv, LoadedIsChecked, LoadedIsUsable, startVars
<1> QED
  BY <1>2, <1>3, <1>4, <1>5 DEF RoundsInv

LEMMA RoundsNext == RoundsInv /\ [Next]_vars => RoundsInv'
<1> SUFFICES ASSUME RoundsInv, [Next]_vars PROVE RoundsInv'
  OBVIOUS
<1>1. CASE Start
  BY <1>1, RoundsStart
<1>2. CASE \E defects \in {{}} \cup {{x} : x \in Defects} : Submit(defects)
  BY <1>2, RoundsSubmit
<1>3. CASE \E s \in Dids, dec \in {"approve", "reject"}, until \in Until : Sign(s, dec, until)
  BY <1>3, RoundsSign
<1>4. CASE Tick \/ UNCHANGED vars
  BY <1>4, RoundsTick
<1> QED
  BY <1>1, <1>2, <1>3, <1>4 DEF Next

-----------------------------------------------------------------------------
(* Theorems.                                                               *)

\* Whatever the files, policies, calls and answers: what is loaded passed every
\* check and can be used by each proposer it admits, Coordination counts what
\* was signed for the current Action, and an Action is replaced only where
\* nothing but decisions is missing (loadDeploymentConfigs,
\* validateDefaultRequirement, buildCoordinationReplacement).
THEOREM RoundsInvariant == Spec => []RoundsInv
BY RoundsInit, RoundsNext, PTL DEF Spec

\* A Verifier executes a governed Action only when signers' own decisions on
\* that Action, not on a retired one, grant each requirement that applies
\* (verifyApprovalBundle, evaluatePolicy).
THEOREM OnlyGrantedActions == Spec => []AuthorizedBySigners
BY RoundsInvariant, AuthorizedState, PTL

\* A validated policy does not let a Proposer through alone where a requirement
\* that applies asks for others (validatePolicyConfig, evaluateThreshold).
THEOREM ProposerNeedsOthers == Spec => []ProposerAloneIsNotEnough
BY RoundsInvariant, ProposerAloneState, PTL

\* Coordination's "satisfied" is enough for the Verifier, where the approvals of
\* one threshold are all that it asked for and the envelope's lifetime is within
\* the Verifier's limit (buildAuthorizationRequirements, evaluatePolicy).
THEOREM CompletedIsExecuted ==
  ASSUME Validity <= MaxValidity
  PROVE  Spec => []ReadyIsEnough
<1>1. RoundsInv => ReadyIsEnough
  BY ReadyState
<1> QED
  BY <1>1, RoundsInvariant, PTL

\* Evidence for some items of a set is evidence for all of them.
LEMMA MoreEvidence ==
  ASSUME NEW items, NEW more, items \subseteq more, NEW publisher, PrimaryEvidence(items, publisher)
  PROVE  PrimaryEvidence(more, publisher)
BY DEF PrimaryEvidence

\* Nobody is spared the warning about a plugin without evidence for the very
\* contents that were loaded (computeArtifactDid, fetchArtifactTrust,
\* checkAttestation).
THEOREM EvidenceOrWarning == Spec => []WarnedUnlessEvidence
<1>1. Init => WarnedUnlessEvidence
  BY DEF Init, StartInit, WarnedUnlessEvidence
<1>2. WarnedUnlessEvidence /\ [Next]_vars => WarnedUnlessEvidence'
  <2> SUFFICES ASSUME WarnedUnlessEvidence, [Next]_vars PROVE WarnedUnlessEvidence'
    OBVIOUS
  <2>1. CASE told' = told
    BY <2>1 DEF WarnedUnlessEvidence
  <2>2. ASSUME NEW r \in Responses, NEW confirmed, LoadFile(r, confirmed), told' # told
        PROVE  WarnedUnlessEvidence'
    <3> DEFINE c == Head(queue)
               report == <<c.plugin, PromptPluginUse(TrustReport(c, r))>>
    <3>1. FirstFailure(FileChecks(c)) = "verified" /\ told' = told \cup {report}
      BY <2>2 DEF LoadFile, Failed
    <3>2. c.plugin.contents = c.artifact
      BY <3>1, CheckedFile
    <3>3. ASSUME report[2] = "evidence"
          PROVE  PrimaryEvidence(Evidence[c.plugin.contents], c.plugin.publisher)
      <4>1. TrustReport(c, r) = "primary"
        BY <3>3 DEF PromptPluginUse
      <4>2. FetchArtifactTrust(c.artifact, r) /\ PrimaryEvidence(r.items, c.plugin.publisher)
        BY <4>1 DEF TrustReport
      <4>3. r.items \subseteq Evidence[c.artifact]
        BY <4>2, ResponsesAssumption DEF FetchArtifactTrust, ParseResponse
      <4> QED
        BY <3>2, <4>2, <4>3, MoreEvidence
    <3>4. report[1] = c.plugin
      OBVIOUS
    <3> HIDE DEF report
    <3> QED
      BY <3>1, <3>3, <3>4 DEF WarnedUnlessEvidence
  <2> QED
    BY <2>1, <2>2 DEF Next, Start, Started, Submit, Sign, Tick, Failed, startVars, vars
<1> QED
  BY <1>1, <1>2, PTL DEF Spec

\* Bundles of any Approvals at all whose signatures someone made.
Bundles == SUBSET {[payload |-> q, act |-> act, decision |-> dec, key |-> key] :
                     q \in pool, act \in Nat, dec \in Decision, key \in Dids}

\* The same of a package put together of any number of them, and ill-formed.
AnyBundleIsGranted ==
  \A approvals \in Bundles, bundleAct \in Nat, defects \in SUBSET Defects :
    /\ Known /\ Governed
    /\ Decide(Package(approvals, bundleAct, defects)).result = "executed"
    => \A req \in EffectiveRequirements(Operation, Fields, cfg.policy) : Granted(req, Holding)

\* No choice among the signed payloads, relabelled or not, is executed without
\* the grant of the Action's signers: AuthorizedBySigners without its bound on
\* what is exchanged in a bundle.
THEOREM OnlyGrantedBundles == Spec => []AnyBundleIsGranted
<1>1. RoundsInv => AnyBundleIsGranted
  <2> SUFFICES ASSUME RoundsInv, NEW approvals \in Bundles, NEW bundleAct, NEW defects,
                      Known, Governed,
                      Decide(Package(approvals, bundleAct, defects)).result = "executed",
                      NEW req \in EffectiveRequirements(Operation, Fields, cfg.policy)
               PROVE  Granted(req, Holding)
    BY DEF AnyBundleIsGranted
  <2>1. \A ap \in approvals : ap.payload \in pool
    BY DEF Bundles
  <2> QED
    BY <2>1, ExecutedIsGranted
<1> QED
  BY <1>1, RoundsInvariant, PTL

\* An Action turns "executed" only when it is known and either ungoverned, and
\* allowed to pass through, or granted by its signers in that very state.
GrantedWhenExecuted ==
  [][phase # "executed" /\ phase' = "executed" =>
       /\ Known
       /\ IF Governed
          THEN \A req \in EffectiveRequirements(Operation, Fields, cfg.policy) : Granted(req, Holding)
          ELSE cfg.passThrough]_vars

\* The step to "executed" is one of a granted Action (createAdapterApiServer's
\* action handler).
THEOREM ExecutionIsGranted == Spec => GrantedWhenExecuted
<1>1. ASSUME RoundsInv, Next, phase # "executed", phase' = "executed"
      PROVE  /\ Known
             /\ IF Governed
                THEN \A req \in EffectiveRequirements(Operation, Fields, cfg.policy) : Granted(req, Holding)
                ELSE cfg.passThrough
  <2>1. ASSUME NEW defects, Submit(defects)
        PROVE  /\ Known
               /\ IF Governed
                  THEN \A req \in EffectiveRequirements(Operation, Fields, cfg.policy) : Granted(req, Holding)
                  ELSE cfg.passThrough
    <3> DEFINE pkg == Package(Collected, round, defects)
    <3>1. Decide(pkg).result = "executed"
      BY <1>1, <2>1 DEF Submit, Replace
    <3>2. /\ FirstFailure(FormChecks(pkg)) = "verified"
          /\ FirstFailure(HandlerChecks(pkg)) = "verified"
      BY <3>1, FormExact, HandlerExact DEF Decide
    <3>3. Known
      BY <3>2, FormExact
    <3>4. ~Governed => cfg.passThrough
      BY <3>2, HandlerExact
    <3>5. \A ap \in Collected : ap.payload \in pool
      BY DEF Collected, Approval
    <3>6. ASSUME Governed, NEW req \in EffectiveRequirements(Operation, Fields, cfg.policy)
          PROVE  Granted(req, Holding)
      BY <1>1, <3>1, <3>3, <3>5, <3>6, ExecutedIsGranted
    <3> QED
      BY <3>3, <3>4, <3>6
  <2>2. \E defects : Submit(defects)
    <3>1. ~Tick /\ ~Start
      BY <1>1 DEF Tick, Start, callVars
    <3>2. ASSUME NEW s, NEW dec, NEW until, Sign(s, dec, until) PROVE FALSE
      BY <1>1, <3>2 DEF Sign
    <3> QED
      BY <1>1, <3>1, <3>2 DEF Next
  <2> QED
    BY <2>1, <2>2
<1>2. RoundsInv /\ [Next]_vars =>
        [phase # "executed" /\ phase' = "executed" =>
           /\ Known
           /\ IF Governed
              THEN \A req \in EffectiveRequirements(Operation, Fields, cfg.policy) : Granted(req, Holding)
              ELSE cfg.passThrough]_vars
  BY <1>1
<1> QED
  BY <1>2, RoundsInvariant, PTL DEF Spec, GrantedWhenExecuted

-----------------------------------------------------------------------------
(* Schemas: what a payload is checked against, and what was published.     *)

\* A level that says which members of an object it allows, or allows no object.
Bounded(level) ==
  \/ Has(level, "properties") \/ Has(level, "type") \/ Has(level, "additionalProperties")
  \/ Has(level, "types") /\ "object" \notin level.types

\* The schemas of the values in a value of a level
Members(level) ==
  {level.properties[name] : name \in Named(level)}
  \cup {level[k] : k \in {"items"} \cap DOMAIN level}

\* A schema without conditions, negations and exclusive alternatives, in which
\* the document, every named member and every element has a bounded level.
PlainSchema(s) ==
  /\ \A i \in DOMAIN s : ~Has(s[i], "if") /\ ~Has(s[i], "not") /\ ~Has(s[i], "oneOf")
  /\ Bounded(s[1])
  /\ \A i \in DOMAIN s : \A k \in Members(s[i]) : Bounded(s[k])

\* The subschemas of a level come later in the schema.
LEMMA SchemaDocument ==
  ASSUME NEW s, IsSchema(s)
  PROVE  /\ Len(s) \in Nat \ {0} /\ DOMAIN s = 1 .. Len(s) /\ 1 \in DOMAIN s
         /\ \A i \in DOMAIN s : Subschemas(s[i]) \subseteq i + 1 .. Len(s)
<1>1. s \in Seq({s[j] : j \in DOMAIN s}) /\ s # <<>>
  BY DEF IsSchema
<1> QED
  BY <1>1 DEF IsSchema

\* The subschemas that a level applies.
LEMMA Applied ==
  ASSUME NEW level
  PROVE  /\ \A name \in Named(level) : level.properties[name] \in Subschemas(level)
         /\ Has(level, "items") => level.items \in Subschemas(level)
         /\ Has(level, "allOf") => level.allOf \subseteq Subschemas(level)
         /\ Has(level, "anyOf") => level.anyOf \subseteq Subschemas(level)
         /\ Has(level, "oneOf") => level.oneOf \subseteq Subschemas(level)
         /\ Has(level, "not") => level.not \in Subschemas(level)
         /\ Has(level, "if") => level.if \in Subschemas(level)
         /\ Has(level, "then") => level.then \in Subschemas(level)
         /\ Has(level, "additionalProperties") /\ level.additionalProperties # Closed
              => level.additionalProperties \in Subschemas(level)
<1>1. \A name \in Named(level) : level.properties[name] \in Subschemas(level)
  BY DEF Subschemas
<1>2. \A k \in {"allOf", "anyOf", "oneOf"} : Has(level, k) => level[k] \subseteq Subschemas(level)
  BY DEF Subschemas, Has
<1>3. \A k \in {"items", "if", "then", "not"} : Has(level, k) => level[k] \in Subschemas(level)
  BY DEF Subschemas, Has
<1>4. Has(level, "additionalProperties") /\ level.additionalProperties # Closed
        => level.additionalProperties \in Subschemas(level)
  BY DEF Subschemas, Has
<1> QED
  BY <1>1, <1>2, <1>3, <1>4

\* A level's verdict is a matter of its subschemas' verdicts.
LEMMA AcceptsSame ==
  ASSUME NEW level, NEW f, NEW g, NEW v, NEW j, Accepts(level, f, v, j),
         \A k \in Subschemas(level) : f[k] = g[k]
  PROVE  Accepts(level, g, v, j)
<1> USE Applied
<1>1. v[j][1] = "object" =>
       /\ Has(level, "required") => level.required \subseteq DOMAIN v[j][2]
       /\ \A n \in DOMAIN v[j][2] :
            IF n \in Named(level) THEN v[j][2][n] \in g[level.properties[n]]
            ELSE Has(level, "additionalProperties") =>
                   /\ level.additionalProperties # Closed
                   /\ v[j][2][n] \in g[level.additionalProperties]
  BY DEF Accepts
<1>2. /\ Has(level, "items") /\ v[j][1] = "array" => v[j][2] \subseteq g[level.items]
      /\ Has(level, "allOf") => \A k \in level.allOf : j \in g[k]
      /\ Has(level, "anyOf") => \E k \in level.anyOf : j \in g[k]
  BY DEF Accepts
<1>5. ASSUME Has(level, "oneOf")
      PROVE  \E k \in level.oneOf : {k} = {m \in level.oneOf : j \in g[m]}
  <2>1. PICK k \in level.oneOf : {k} = {m \in level.oneOf : j \in f[m]}
    BY <1>5 DEF Accepts
  <2>2. {m \in level.oneOf : j \in f[m]} = {m \in level.oneOf : j \in g[m]}
    BY <1>5
  <2> QED
    BY <2>1, <2>2
<1>3. Has(level, "not") => j \notin g[level.not]
  BY DEF Accepts
<1>4. Has(level, "if") /\ Has(level, "then") /\ j \in g[level.if] => j \in g[level.then]
  BY DEF Accepts
<1> QED
  BY <1>1, <1>2, <1>3, <1>4, <1>5 DEF Accepts

\* The JSON Schema validator's verdict obeys its own equation.
LEMMA ValidEquation ==
  ASSUME NEW s, IsSchema(s), NEW v
  PROVE  /\ DOMAIN Valid(s, v) = DOMAIN s
         /\ \A i \in DOMAIN s :
              Valid(s, v)[i] = {j \in DOMAIN v : Accepts(s[i], Valid(s, v), v, j)}
<1> DEFINE n == Len(s)
           V == SUBSET DOMAIN v
           S(f, i) == {j \in DOMAIN v : Accepts(s[i], f, v, j)}
           G == [x \in [1 .. n -> V] \X (1 .. n) |-> S(x[1], x[2])]
           P(f) == f = [i \in DOMAIN s |-> {j \in DOMAIN v : Accepts(s[i], f, v, j)}]
<1>1. /\ n \in Nat /\ DOMAIN s = 1 .. n
      /\ \A i \in 1 .. n : Subschemas(s[i]) \subseteq i + 1 .. n
  BY SchemaDocument
<1>2. ASSUME NEW f \in [1 .. n -> V], NEW i \in 1 .. n PROVE S(f, i) \in V
  OBVIOUS
<1>3. ASSUME NEW g \in [1 .. n -> V], NEW h \in [1 .. n -> V], NEW i \in 1 .. n,
             \A j \in i + 1 .. n : g[j] = h[j]
      PROVE  S(g, i) = S(h, i)
  <2>1. \A k \in Subschemas(s[i]) : g[k] = h[k]
    BY <1>1, <1>3
  <2>2. ASSUME NEW j \in DOMAIN v PROVE Accepts(s[i], g, v, j) <=> Accepts(s[i], h, v, j)
    <3>1. \A k \in Subschemas(s[i]) : h[k] = g[k]
      BY <2>1
    <3> QED
      BY <2>1, <3>1, AcceptsSame
  <2> QED
    BY <2>2
<1> HIDE DEF n, V, S
<1>4. G \in [[1 .. n -> V] \X (1 .. n) -> V]
  BY <1>2
<1>5. \A f \in [1 .. n -> V], i \in 1 .. n : G[<<f, i>>] = S(f, i)
  OBVIOUS
<1> HIDE DEF G, P
<1>6. ASSUME NEW g \in [1 .. n -> V], NEW h \in [1 .. n -> V], NEW i \in 1 .. n,
             \A j \in i + 1 .. n : g[j] = h[j]
      PROVE  G[<<g, i>>] = G[<<h, i>>]
  <2>1. S(g, i) = S(h, i)
    BY <1>3, <1>6
  <2> QED
    BY <1>5, <2>1
<1>7. Backwards(n, V, G) /\ V # {}
  BY <1>4, <1>6 DEF Backwards, V
<1>8. PICK f \in Settled(n, V, G) : TRUE
  BY <1>1, <1>7, Recursion
<1>9. P(f)
  <2>1. f \in [1 .. n -> V] /\ \A i \in 1 .. n : f[i] = S(f, i)
    BY <1>5, <1>8 DEF Settled
  <2>2. f = [i \in DOMAIN s |-> f[i]]
    BY <1>1, <2>1
  <2>3. \A i \in DOMAIN s : f[i] = {j \in DOMAIN v : Accepts(s[i], f, v, j)}
    BY <1>1, <2>1 DEF S
  <2> QED
    BY <2>2, <2>3, Zenon DEF P
<1> DEFINE c == CHOOSE g : P(g)
<1>10. P(c)
  BY <1>9
<1>11. Valid(s, v) = c
  BY Zenon DEF Valid, P
<1> HIDE DEF c
<1>12. P(Valid(s, v))
  BY <1>10, <1>11
<1> QED
  BY <1>12, Zenon DEF P

\* The reference's equation.
PermittedAt(level, f, v, j) ==
  /\ v[j][1] = "object" =>
       \A n \in DOMAIN v[j][2] :
         \/ Has(level, "additionalProperties") /\ level.additionalProperties # Closed
         \/ n \in Named(level) /\ v[j][2][n] \in f[level.properties[n]]
  /\ v[j][1] = "array" /\ Has(level, "items") => v[j][2] \subseteq f[level.items]

LEMMA PermittedEquation ==
  ASSUME NEW s, IsSchema(s), NEW v
  PROVE  \E f : /\ Permitted(s, v) <=> 1 \in f[1]
                /\ \A i \in DOMAIN s : f[i] = {j \in DOMAIN v : PermittedAt(s[i], f, v, j)}
<1> DEFINE n == Len(s)
           V == SUBSET DOMAIN v
           S(f, i) == {j \in DOMAIN v : PermittedAt(s[i], f, v, j)}
           G == [x \in [1 .. n -> V] \X (1 .. n) |-> S(x[1], x[2])]
           P(f) == f = [i \in DOMAIN s |->
                     {j \in DOMAIN v :
                        /\ v[j][1] = "object" =>
                             \A m \in DOMAIN v[j][2] :
                               \/ /\ Has(s[i], "additionalProperties")
                                  /\ s[i].additionalProperties # Closed
                               \/ m \in Named(s[i]) /\ v[j][2][m] \in f[s[i].properties[m]]
                        /\ v[j][1] = "array" /\ Has(s[i], "items") =>
                             v[j][2] \subseteq f[s[i].items]}]
<1>1. /\ n \in Nat /\ DOMAIN s = 1 .. n
      /\ \A i \in 1 .. n : Subschemas(s[i]) \subseteq i + 1 .. n
  BY SchemaDocument
<1>2. ASSUME NEW f \in [1 .. n -> V], NEW i \in 1 .. n PROVE S(f, i) \in V
  OBVIOUS
<1>3. ASSUME NEW g \in [1 .. n -> V], NEW h \in [1 .. n -> V], NEW i \in 1 .. n,
             \A j \in i + 1 .. n : g[j] = h[j]
      PROVE  S(g, i) = S(h, i)
  <2>1. /\ \A m \in Named(s[i]) : g[s[i].properties[m]] = h[s[i].properties[m]]
        /\ Has(s[i], "items") => g[s[i].items] = h[s[i].items]
    BY <1>1, <1>3, Applied
  <2>2. ASSUME NEW j \in DOMAIN v
        PROVE  PermittedAt(s[i], g, v, j) <=> PermittedAt(s[i], h, v, j)
    BY <2>1 DEF PermittedAt
  <2> QED
    BY <2>2
<1> HIDE DEF n, V, S
<1>4. G \in [[1 .. n -> V] \X (1 .. n) -> V]
  BY <1>2
<1>5. \A f \in [1 .. n -> V], i \in 1 .. n : G[<<f, i>>] = S(f, i)
  OBVIOUS
<1> HIDE DEF G, P
<1>6. ASSUME NEW g \in [1 .. n -> V], NEW h \in [1 .. n -> V], NEW i \in 1 .. n,
             \A j \in i + 1 .. n : g[j] = h[j]
      PROVE  G[<<g, i>>] = G[<<h, i>>]
  <2>1. S(g, i) = S(h, i)
    BY <1>3, <1>6
  <2> QED
    BY <1>5, <2>1
<1>7. Backwards(n, V, G) /\ V # {}
  BY <1>4, <1>6 DEF Backwards, V
<1>8. PICK f \in Settled(n, V, G) : TRUE
  BY <1>1, <1>7, Recursion
<1>9. P(f)
  <2>1. f \in [1 .. n -> V] /\ \A i \in 1 .. n : f[i] = S(f, i)
    BY <1>5, <1>8 DEF Settled
  <2>2. f = [i \in DOMAIN s |-> f[i]]
    BY <1>1, <2>1
  <2>3. \A i \in DOMAIN s : f[i] = {j \in DOMAIN v : PermittedAt(s[i], f, v, j)}
    BY <1>1, <2>1 DEF S
  <2> QED
    BY <2>2, <2>3, Zenon DEF P, PermittedAt
<1> DEFINE c == CHOOSE g : P(g)
<1>10. P(c)
  BY <1>9
<1>11. Permitted(s, v) <=> 1 \in c[1]
  BY Zenon DEF Permitted, P
<1> HIDE DEF c
<1>12. \A i \in DOMAIN s : c[i] = {j \in DOMAIN v : PermittedAt(s[i], c, v, j)}
  BY <1>10, Zenon DEF P, PermittedAt
<1> QED
  BY <1>11, <1>12

\* applyFailClosedDefaults only closes levels.
LEMMA ClosedLevel ==
  ASSUME NEW s, IsSchema(s), NEW i \in DOMAIN s, NEW level, level = FailClosed(s)[i]
  PROVE  /\ DOMAIN s[i] \subseteq DOMAIN level
         /\ \A k \in DOMAIN s[i] : level[k] = s[i][k]
         /\ DOMAIN level \subseteq DOMAIN s[i] \cup {"additionalProperties"}
         /\ DeclaresObject(s[i]) => Has(level, "additionalProperties")
         /\ Has(level, "additionalProperties") /\ ~Has(s[i], "additionalProperties")
              => level.additionalProperties = Closed
<1> DEFINE closed == [k \in DOMAIN s[i] \cup {"additionalProperties"} |->
                        IF k \in DOMAIN s[i] THEN s[i][k] ELSE Closed]
<1>1. level = IF DeclaresObject(s[i]) /\ ~Has(s[i], "additionalProperties")
              THEN closed ELSE s[i]
  BY DEF FailClosed
<1>2. CASE DeclaresObject(s[i]) /\ ~Has(s[i], "additionalProperties")
  <2>1. level = closed
    BY <1>1, <1>2
  <2>2. DOMAIN level = DOMAIN s[i] \cup {"additionalProperties"}
    BY <2>1
  <2>3. \A k \in DOMAIN s[i] : level[k] = s[i][k]
    BY <2>1
  <2>4. level["additionalProperties"] = Closed
    BY <1>2, <2>1 DEF Has
  <2> QED
    BY <1>2, <2>2, <2>3, <2>4 DEF Has
<1>3. CASE ~(DeclaresObject(s[i]) /\ ~Has(s[i], "additionalProperties"))
  <2>1. level = s[i]
    BY <1>1, <1>3
  <2> QED
    BY <1>3, <2>1
<1> QED
  BY <1>2, <1>3

\* The keywords of a closed level, as they were published.
LEMMA ClosedKeywords ==
  ASSUME NEW s, IsSchema(s), NEW i \in DOMAIN s, NEW level, level = FailClosed(s)[i]
  PROVE  /\ Named(level) = Named(s[i])
         /\ \A name \in Named(s[i]) : level.properties[name] = s[i].properties[name]
         /\ \A k \in {"type", "types", "maximum", "required", "items", "allOf", "anyOf", "oneOf",
                   "not", "if", "then"} :
              Has(level, k) <=> Has(s[i], k)
         /\ Has(s[i], "type") => level.type = s[i].type
         /\ Has(s[i], "types") => level.types = s[i].types
         /\ Has(s[i], "maximum") => level.maximum = s[i].maximum
         /\ Has(s[i], "required") => level.required = s[i].required
         /\ Has(s[i], "items") => level.items = s[i].items
         /\ Has(s[i], "allOf") => level.allOf = s[i].allOf
         /\ Has(s[i], "anyOf") => level.anyOf = s[i].anyOf
         /\ Has(s[i], "oneOf") => level.oneOf = s[i].oneOf
         /\ Has(s[i], "not") => level.not = s[i].not
         /\ Has(s[i], "if") => level.if = s[i].if
         /\ Has(s[i], "then") => level.then = s[i].then
         /\ Has(s[i], "additionalProperties") =>
              /\ Has(level, "additionalProperties")
              /\ level.additionalProperties = s[i].additionalProperties
<1> HIDE DEF FailClosed
<1>1. /\ DOMAIN s[i] \subseteq DOMAIN level
      /\ \A k \in DOMAIN s[i] : level[k] = s[i][k]
      /\ DOMAIN level \subseteq DOMAIN s[i] \cup {"additionalProperties"}
  BY ClosedLevel
<1>2. "properties" \in DOMAIN level <=> "properties" \in DOMAIN s[i]
  BY <1>1
<1>3. Named(level) = Named(s[i])
  BY <1>1, <1>2 DEF Named, Has
<1>4. \A name \in Named(s[i]) : level.properties[name] = s[i].properties[name]
  BY <1>1 DEF Named, Has
<1> QED
  BY <1>1, <1>3, <1>4 DEF Has

\* Closing levels keeps a schema a schema.
LEMMA ClosedSchema ==
  ASSUME NEW s, IsSchema(s)
  PROVE  /\ IsSchema(FailClosed(s)) /\ DOMAIN FailClosed(s) = DOMAIN s
         /\ \A i \in DOMAIN s : Subschemas(FailClosed(s)[i]) = Subschemas(s[i])
<1> DEFINE t == FailClosed(s)
<1>1. DOMAIN t = DOMAIN s /\ DOMAIN s = 1 .. Len(s) /\ Len(s) \in Nat \ {0}
  BY SchemaDocument DEF FailClosed
<1>2. t \in Seq({t[j] : j \in DOMAIN t}) /\ t # <<>> /\ Len(t) = Len(s)
  <2>1. t = [j \in 1 .. Len(s) |-> t[j]]
    BY <1>1 DEF FailClosed
  <2> HIDE DEF t
  <2>2. \A j \in 1 .. Len(s) : t[j] \in {t[k] : k \in DOMAIN t}
    BY <1>1
  <2> QED
    BY <1>1, <2>1, <2>2
<1>3. ASSUME NEW i \in DOMAIN s PROVE Subschemas(t[i]) = Subschemas(s[i])
  <2> DEFINE level == t[i]
  <2>0. level = FailClosed(s)[i]
    OBVIOUS
  <2> HIDE DEF level
  <2>1. {level.properties[m] : m \in Named(level)} = {s[i].properties[m] : m \in Named(s[i])}
    BY <2>0, ClosedKeywords
  <2>2. UNION {level[k] : k \in {"allOf", "anyOf", "oneOf"} \cap DOMAIN level} =
          UNION {s[i][k] : k \in {"allOf", "anyOf", "oneOf"} \cap DOMAIN s[i]}
    <3>1. {level[k] : k \in {"allOf", "anyOf", "oneOf"} \cap DOMAIN level} =
            {s[i][k] : k \in {"allOf", "anyOf", "oneOf"} \cap DOMAIN s[i]}
      BY <2>0, ClosedLevel
    <3> QED
      BY <3>1
  <2>3. {level[k] : k \in {"items", "if", "then", "not"} \cap DOMAIN level} =
          {s[i][k] : k \in {"items", "if", "then", "not"} \cap DOMAIN s[i]}
    BY <2>0, ClosedLevel
  <2>4. {level[k] : k \in {"additionalProperties"} \cap DOMAIN level} \ {Closed} =
          {s[i][k] : k \in {"additionalProperties"} \cap DOMAIN s[i]} \ {Closed}
    BY <2>0, ClosedLevel DEF Has
  <2>5. Subschemas(level) = Subschemas(s[i])
    BY <2>1, <2>2, <2>3, <2>4 DEF Subschemas
  <2> QED
    BY <2>5 DEF level
<1> HIDE DEF t
<1>4. \A i \in DOMAIN s : Subschemas(s[i]) \subseteq i + 1 .. Len(s)
  BY SchemaDocument
<1>5. IsSchema(t)
  BY <1>1, <1>2, <1>3, <1>4 DEF IsSchema
<1> QED
  BY <1>1, <1>3, <1>5 DEF t

\* Without conditions, negations and exclusive alternatives, a closed level of which the subschemas
\* accept no more than the published ones does not either.
LEMMA ClosedAcceptsLess ==
  ASSUME NEW s, IsSchema(s), NEW i \in DOMAIN s,
         ~Has(s[i], "if"), ~Has(s[i], "not"), ~Has(s[i], "oneOf"),
         NEW level, level = FailClosed(s)[i], NEW f, NEW g,
         \A k \in Subschemas(s[i]) : f[k] \subseteq g[k],
         NEW v, NEW j, Accepts(level, f, v, j)
  PROVE  Accepts(s[i], g, v, j)
<1>1. /\ Named(level) = Named(s[i])
      /\ \A name \in Named(s[i]) : level.properties[name] = s[i].properties[name]
      /\ \A k \in {"type", "types", "maximum", "required", "items", "allOf", "anyOf"} :
           Has(level, k) <=> Has(s[i], k)
      /\ Has(s[i], "type") => level.type = s[i].type
      /\ Has(s[i], "types") => level.types = s[i].types
      /\ Has(s[i], "maximum") => level.maximum = s[i].maximum
      /\ Has(s[i], "required") => level.required = s[i].required
      /\ Has(s[i], "items") => level.items = s[i].items
      /\ Has(s[i], "allOf") => level.allOf = s[i].allOf
      /\ Has(s[i], "anyOf") => level.anyOf = s[i].anyOf
      /\ Has(s[i], "additionalProperties") =>
           /\ Has(level, "additionalProperties")
           /\ level.additionalProperties = s[i].additionalProperties
  BY ClosedKeywords
<1>2. /\ \A name \in Named(s[i]) : f[s[i].properties[name]] \subseteq g[s[i].properties[name]]
      /\ Has(s[i], "items") => f[s[i].items] \subseteq g[s[i].items]
      /\ Has(s[i], "allOf") => \A k \in s[i].allOf : f[k] \subseteq g[k]
      /\ Has(s[i], "anyOf") => \A k \in s[i].anyOf : f[k] \subseteq g[k]
      /\ Has(s[i], "additionalProperties") /\ s[i].additionalProperties # Closed
           => f[s[i].additionalProperties] \subseteq g[s[i].additionalProperties]
  BY Applied
<1>3. /\ Has(s[i], "type") => JsonType(v[j]) = s[i].type
      /\ Has(s[i], "types") => JsonType(v[j]) \in s[i].types
      /\ Has(s[i], "maximum") /\ v[j][1] = "number" => v[j][2] <= s[i].maximum
  BY <1>1 DEF Accepts
<1>4. ASSUME v[j][1] = "object"
      PROVE  /\ Has(s[i], "required") => s[i].required \subseteq DOMAIN v[j][2]
             /\ \A n \in DOMAIN v[j][2] :
                  IF n \in Named(s[i]) THEN v[j][2][n] \in g[s[i].properties[n]]
                  ELSE Has(s[i], "additionalProperties") =>
                         /\ s[i].additionalProperties # Closed
                         /\ v[j][2][n] \in g[s[i].additionalProperties]
  <2>1. Has(s[i], "required") => s[i].required \subseteq DOMAIN v[j][2]
    BY <1>1, <1>4 DEF Accepts
  <2>2. ASSUME NEW n \in DOMAIN v[j][2], n \in Named(s[i])
        PROVE  v[j][2][n] \in g[s[i].properties[n]]
    BY <1>1, <1>2, <1>4, <2>2 DEF Accepts
  <2>3. ASSUME NEW n \in DOMAIN v[j][2], n \notin Named(s[i]), Has(s[i], "additionalProperties")
        PROVE  /\ s[i].additionalProperties # Closed
               /\ v[j][2][n] \in g[s[i].additionalProperties]
    BY <1>1, <1>2, <1>4, <2>3 DEF Accepts
  <2> QED
    BY <2>1, <2>2, <2>3
<1>5. /\ Has(s[i], "items") /\ v[j][1] = "array" => v[j][2] \subseteq g[s[i].items]
      /\ Has(s[i], "allOf") => \A k \in s[i].allOf : j \in g[k]
      /\ Has(s[i], "anyOf") => \E k \in s[i].anyOf : j \in g[k]
  BY <1>1, <1>2 DEF Accepts
<1> QED
  BY <1>3, <1>4, <1>5 DEF Accepts

\* A bounded level, once closed, accepts only the objects that the reference
\* permits, if the subschemas of its members do.
LEMMA ClosedPermits ==
  ASSUME NEW s, IsSchema(s), NEW i \in DOMAIN s, Bounded(s[i]),
         NEW level, level = FailClosed(s)[i], NEW f, NEW g,
         \A k \in Members(s[i]) : f[k] \subseteq g[k],
         NEW v, NEW j, Accepts(level, f, v, j)
  PROVE  PermittedAt(s[i], g, v, j)
<1>0. Has(s[i], "items") /\ v[j][1] = "array" => v[j][2] \subseteq g[s[i].items]
  <2>1. Has(s[i], "items") => Has(level, "items") /\ level.items = s[i].items
    BY ClosedKeywords
  <2>2. Has(s[i], "items") => f[s[i].items] \subseteq g[s[i].items]
    BY DEF Members, Has
  <2> QED
    BY <2>1, <2>2 DEF Accepts
<1>1. SUFFICES ASSUME v[j][1] = "object", NEW n \in DOMAIN v[j][2],
                      ~(Has(s[i], "additionalProperties") /\ s[i].additionalProperties # Closed)
               PROVE  n \in Named(s[i]) /\ v[j][2][n] \in g[s[i].properties[n]]
  BY <1>0 DEF PermittedAt
<1>2. /\ Named(level) = Named(s[i])
      /\ \A name \in Named(s[i]) : level.properties[name] = s[i].properties[name]
      /\ Has(level, "type") <=> Has(s[i], "type")
      /\ Has(level, "types") <=> Has(s[i], "types")
      /\ Has(s[i], "type") => level.type = s[i].type
      /\ Has(s[i], "types") => level.types = s[i].types
      /\ Has(s[i], "additionalProperties") =>
           /\ Has(level, "additionalProperties")
           /\ level.additionalProperties = s[i].additionalProperties
  BY ClosedKeywords
<1>3. JsonType(v[j]) = "object"
  BY <1>1 DEF JsonType
<1>4. DeclaresObject(s[i]) \/ Has(s[i], "additionalProperties")
  BY <1>2, <1>3 DEF Bounded, DeclaresObject, Accepts
<1>5. Has(level, "additionalProperties") /\ level.additionalProperties = Closed
  BY <1>1, <1>2, <1>4, ClosedLevel
<1>6. n \in Named(level) /\ v[j][2][n] \in f[level.properties[n]]
  BY <1>1, <1>5 DEF Accepts
<1>7. s[i].properties[n] \in Members(s[i])
  BY <1>2, <1>6 DEF Members
<1> QED
  BY <1>2, <1>6, <1>7

\* What a closed plain schema accepts is valid for the schema as it was
\* published, and has no member that it does not know.
LEMMA ClosedIsPublished ==
  ASSUME NEW s, IsSchema(s), PlainSchema(s), NEW v, Validates(FailClosed(s), v)
  PROVE  Validates(s, v) /\ Permitted(s, v)
<1> DEFINE t == FailClosed(s)
           f == Valid(t, v)
           g == Valid(s, v)
<1>1. /\ DOMAIN s = 1 .. Len(s) /\ Len(s) \in Nat \ {0} /\ 1 \in DOMAIN s
      /\ \A i \in DOMAIN s : Subschemas(s[i]) \subseteq i + 1 .. Len(s)
  BY SchemaDocument
<1>2. IsSchema(t) /\ DOMAIN t = DOMAIN s
  BY ClosedSchema
<1> HIDE DEF t
<1>3. \A i \in DOMAIN s : f[i] = {j \in DOMAIN v : Accepts(t[i], f, v, j)}
  BY <1>2, ValidEquation
<1>4. \A i \in DOMAIN s : g[i] = {j \in DOMAIN v : Accepts(s[i], g, v, j)}
  BY ValidEquation
<1>5. PICK h : /\ Permitted(s, v) <=> 1 \in h[1]
               /\ \A i \in DOMAIN s : h[i] = {j \in DOMAIN v : PermittedAt(s[i], h, v, j)}
  BY PermittedEquation
<1>6. 1 \in f[1]
  BY DEF Validates, t
<1> HIDE DEF f, g
<1> DEFINE Good == {i \in DOMAIN s : f[i] \subseteq g[i] /\ (Bounded(s[i]) => f[i] \subseteq h[i])}
           Bad == DOMAIN s \ Good
<1>7. ASSUME NEW i \in DOMAIN s, \A k \in DOMAIN s : k > i => k \in Good
      PROVE  i \in Good
  <2>1. \A k \in Subschemas(s[i]) : k \in DOMAIN s /\ k \in Good
    BY <1>1, <1>7
  <2>2. ~Has(s[i], "if") /\ ~Has(s[i], "not") /\ ~Has(s[i], "oneOf")
    BY DEF PlainSchema
  <2>3. t[i] = FailClosed(s)[i]
    BY DEF t
  <2>4. \A k \in Subschemas(s[i]) : f[k] \subseteq g[k]
    BY <2>1
  <2>5. \A k \in Members(s[i]) : f[k] \subseteq h[k]
    <3>1. \A k \in Members(s[i]) : k \in Good
      BY <2>1, Applied DEF Members, Has
    <3>2. \A k \in Members(s[i]) : Bounded(s[k])
      BY DEF PlainSchema
    <3> QED
      BY <3>1, <3>2
  <2>6. ASSUME NEW j \in f[i] PROVE j \in g[i]
    <3>1. j \in DOMAIN v /\ Accepts(t[i], f, v, j)
      BY <1>3
    <3>2. Accepts(s[i], g, v, j)
      BY <2>2, <2>3, <2>4, <3>1, ClosedAcceptsLess
    <3> QED
      BY <1>4, <3>1, <3>2
  <2>7. ASSUME Bounded(s[i]), NEW j \in f[i] PROVE j \in h[i]
    <3>1. j \in DOMAIN v /\ Accepts(t[i], f, v, j)
      BY <1>3
    <3>2. PermittedAt(s[i], h, v, j)
      BY <2>3, <2>5, <2>7, <3>1, ClosedPermits
    <3> QED
      BY <1>5, <3>1, <3>2
  <2> QED
    BY <2>6, <2>7
<1>8. \A i \in DOMAIN s : (\A k \in DOMAIN s : k > i => k \in Good) => i \in Good
  BY <1>7
<1> HIDE DEF Good
<1>9. Bad = {}
  <2>1. SUFFICES ASSUME Bad # {} PROVE FALSE
    OBVIOUS
  <2>2. PICK i \in Bad : \A k \in Bad : k <= i
    BY <1>1, <2>1, Last
  <2>3. \A k \in DOMAIN s : k > i => k \in Good
    BY <1>1, <2>2
  <2> QED
    BY <1>8, <2>2, <2>3
<1>10. 1 \in Good
  BY <1>1, <1>9
<1>11. Bounded(s[1])
  BY DEF PlainSchema
<1>12. 1 \in g[1] /\ 1 \in h[1]
  BY <1>6, <1>10, <1>11 DEF Good
<1> QED
  BY <1>5, <1>12 DEF Validates, g

\* The schemas of the operations that the Plugins of a deployment publish.
PlainPlugins ==
  \A c \in Files : \A name \in DOMAIN c.plugin.operations :
    PlainSchema(c.plugin.operations[name])

\* What is executed was checked by the Plugin of a configuration that stays.
ExecutedIsChecked ==
  phase = "executed" =>
    /\ startup = "up" /\ Known
    /\ PayloadCode \in {"ok", "UNKNOWN_OPERATION"}

LEMMA CheckedInit == Init => ExecutedIsChecked
BY DEF Init, ExecutedIsChecked

LEMMA CheckedNext == RoundsInv /\ ExecutedIsChecked /\ [Next]_vars => ExecutedIsChecked'
<1> SUFFICES ASSUME RoundsInv, ExecutedIsChecked, [Next]_vars, phase' = "executed"
             PROVE  startup' = "up" /\ Known' /\ PayloadCode' \in {"ok", "UNKNOWN_OPERATION"}
  BY DEF ExecutedIsChecked
<1>1. ASSUME phase = "executed", UNCHANGED <<startVars, args>>
      PROVE  startup' = "up" /\ Known' /\ PayloadCode' \in {"ok", "UNKNOWN_OPERATION"}
  <2>1. UNCHANGED <<loaded, args>> /\ startup' = startup
    BY <1>1 DEF startVars
  <2>2. (Known' <=> Known) /\ PayloadCode' = PayloadCode
    BY <2>1, Frame
  <2> QED
    BY <1>1, <2>1, <2>2 DEF ExecutedIsChecked
<1>2. CASE Start
  <2>1. phase' = phase /\ startup = "loading"
    BY <1>2 DEF Start, LoadFile, Started, callVars
  <2> QED
    BY <2>1 DEF ExecutedIsChecked
<1>3. ASSUME NEW defects, Submit(defects)
      PROVE  startup' = "up" /\ Known' /\ PayloadCode' \in {"ok", "UNKNOWN_OPERATION"}
  <2> DEFINE pkg == Package(Collected, round, defects)
  <2>1. Decide(pkg).result = "executed"
    BY <1>3 DEF Submit, Replace
  <2>2. /\ FirstFailure(FormChecks(pkg)) = "verified"
        /\ FirstFailure(HandlerChecks(pkg)) = "verified"
    BY <2>1, FormExact, HandlerExact DEF Decide
  <2>3. Known /\ PayloadCode \in {"ok", "UNKNOWN_OPERATION"}
    BY <2>2, FormExact, HandlerExact
  <2>4. startup = "up" /\ UNCHANGED <<startVars, args>>
    BY <1>3 DEF Submit
  <2>5. UNCHANGED <<loaded, args>> /\ startup' = startup
    BY <2>4 DEF startVars
  <2>6. (Known' <=> Known) /\ PayloadCode' = PayloadCode
    BY <2>5, Frame
  <2> QED
    BY <2>3, <2>4, <2>5, <2>6
<1>4. CASE \E s \in Dids, dec \in {"approve", "reject"}, until \in Until : Sign(s, dec, until)
  <2>1. phase' # "executed"
    BY <1>4 DEF Sign
  <2> QED
    BY <2>1
<1>5. CASE Tick \/ UNCHANGED vars
  <2>1. phase' = phase /\ UNCHANGED <<startVars, args>>
    BY <1>5 DEF Tick, vars, callVars
  <2> QED
    BY <1>1, <2>1
<1> QED
  BY <1>2, <1>3, <1>4, <1>5 DEF Next

\* What was checked is what the Plugin published, where its schemas are plain.
LEMMA CheckedIsPublished ==
  RoundsInv /\ ExecutedIsChecked /\ PlainPlugins => ArgumentsAsPublished
<1> DEFINE schema == cfg.plugin.operations[Operation]
<1>1. SUFFICES ASSUME RoundsInv, ExecutedIsChecked, PlainPlugins,
                      phase = "executed", Operation \in DOMAIN cfg.plugin.operations
               PROVE  Validates(schema, args) /\ Permitted(schema, args)
  BY DEF ArgumentsAsPublished
<1>2. Known /\ PayloadCode \in {"ok", "UNKNOWN_OPERATION"}
  BY <1>1 DEF ExecutedIsChecked
<1>3. cfg \in Files
  BY <1>1, <1>2, KnownConfig DEF RoundsInv, TypeOK
<1>4. IsSchema(schema) /\ PlainSchema(schema)
  BY <1>1, <1>3, DirectoriesAssumption DEF PlainPlugins
<1>5. Validates(FailClosed(schema), args)
  BY <1>1, <1>2 DEF PayloadCode, ValidatePayloadAgainstPlugin, Compiled
<1> QED
  BY <1>4, <1>5, ClosedIsPublished

\* What is executed for an operation of a Plugin is valid for the schema that
\* the Plugin published and has no member that it does not know, at any depth,
\* where the schemas have no if, not and oneOf and give every named member and
\* every element a type or its properties (applyFailClosedDefaults,
\* validatePayloadAgainstPlugin).
THEOREM PublishedArguments ==
  ASSUME PlainPlugins
  PROVE  Spec => []ArgumentsAsPublished
<1>1. RoundsInv /\ ExecutedIsChecked => ArgumentsAsPublished
  BY CheckedIsPublished
<1> QED
  BY <1>1, CheckedInit, CheckedNext, RoundsInvariant, PTL DEF Spec
=============================================================================
