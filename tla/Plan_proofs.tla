----------------------------- MODULE Plan_proofs -----------------------------
(***************************************************************************)
(* Lemmas about a plan and its mapping: the resources are a sequence, in   *)
(* which every resource of the plan that has a type has its rank, and what *)
(* is made of them is a sequence of what is made of each.                  *)
(***************************************************************************)
EXTENDS Plan, TLAPS, SequenceTheorems, FiniteSetTheorems

-----------------------------------------------------------------------------
(* Sequences.                                                              *)

\* A sequence is one of its own values.
LEMMA SequenceOfItself == ASSUME NEW S, NEW s \in Seq(S) PROVE IsSequence(s)
<1>1. s \in [1 .. Len(s) -> ToSet(s)]
  <2>1. \A i \in DOMAIN s : s[i] \in ToSet(s)
    BY DEF ToSet
  <2> QED
    BY <2>1
<1> DEFINE T == ToSet(s)
<1> HIDE DEF T
<1>2. s \in Seq(T)
  BY <1>1, SeqDef DEF T
<1> QED
  BY <1>2 DEF T, IsSequence

\* A function on 1..n is a sequence.
LEMMA FunctionIsSequence ==
    ASSUME NEW n \in Nat, NEW f, DOMAIN f = 1 .. n, f = [i \in DOMAIN f |-> f[i]] PROVE IsSequence(f)
<1> DEFINE T == ToSet(f)
<1>1. \A i \in 1 .. n : f[i] \in T
  BY DEF ToSet
<1> HIDE DEF T
<1>2. f \in [1 .. n -> T]
  BY <1>1
<1>3. f \in Seq(T)
  BY <1>2, SeqDef
<1> QED
  BY <1>3 DEF T, IsSequence

\* The empty sequence.
LEMMA EmptyIsSequence == IsSequence(<< >>) /\ ToSet(<< >>) = {}
<1>1. << >> \in Seq({})
  OBVIOUS
<1>2. IsSequence(<< >>)
  BY <1>1, SequenceOfItself
<1> QED
  BY <1>2 DEF ToSet

\* The places of a sequence.
LEMMA SequenceDomain ==
    ASSUME NEW s, IsSequence(s)
    PROVE  /\ Len(s) \in Nat /\ DOMAIN s = 1 .. Len(s)
           /\ s = [i \in DOMAIN s |-> s[i]]
<1>1. s \in Seq(ToSet(s))
  BY DEF IsSequence
<1> QED
  BY <1>1

\* What has the domain of a sequence is a sequence.
LEMMA SameDomain ==
    ASSUME NEW s, IsSequence(s), NEW f, DOMAIN f = DOMAIN s, f = [i \in DOMAIN f |-> f[i]] PROVE IsSequence(f)
  BY SequenceDomain, FunctionIsSequence

\* A concatenation is a sequence of the values of both.
LEMMA ConcatIsSequence ==
    ASSUME NEW s, NEW t, IsSequence(s), IsSequence(t)
    PROVE  IsSequence(s \o t) /\ ToSet(s \o t) = ToSet(s) \cup ToSet(t)
<1> DEFINE S == ToSet(s) \cup ToSet(t)
<1>1. s \in Seq(ToSet(s)) /\ t \in Seq(ToSet(t))
  BY DEF IsSequence
<1>2. s \in Seq(S) /\ t \in Seq(S)
  BY <1>1
<1> HIDE DEF S
<1>3. s \o t \in Seq(S)
  BY <1>2
<1>4. \A i \in DOMAIN (s \o t) : (s \o t)[i] \in S
  BY <1>3
<1>5. IsSequence(s \o t)
  BY <1>3, SequenceOfItself
<1>6. /\ DOMAIN s = 1 .. Len(s) /\ DOMAIN t = 1 .. Len(t) /\ DOMAIN (s \o t) = 1 .. Len(s) + Len(t)
      /\ Len(s) \in Nat /\ Len(t) \in Nat
      /\ \A i \in 1 .. Len(s) : (s \o t)[i] = s[i]
      /\ \A i \in 1 .. Len(t) : (s \o t)[Len(s) + i] = t[i]
  BY <1>2
<1>7. ASSUME NEW i \in DOMAIN s PROVE s[i] \in ToSet(s \o t)
  BY <1>6, <1>7 DEF ToSet
<1>8. ASSUME NEW i \in DOMAIN t PROVE t[i] \in ToSet(s \o t)
  <2>1. Len(s) + i \in DOMAIN (s \o t) /\ (s \o t)[Len(s) + i] = t[i]
    BY <1>6, <1>8
  <2> QED
    BY <2>1 DEF ToSet
<1> QED
  BY <1>4, <1>5, <1>7, <1>8 DEF ToSet, S

\* The minimal counterexample, in place of an induction.
LEMMA LeastIndex ==
    ASSUME NEW S \in SUBSET Nat, S # {}
    PROVE  \E i \in S : \A j \in S : i <= j
<1> DEFINE R == {ss \in Nat \X Nat : ss[1] < ss[2]}
<1>1. IsWellFoundedOn(R, Nat)
  BY NatLessThanWellFounded DEF OpToRel
<1>2. \A i, j \in Nat : j < i => <<j, i>> \in R
  OBVIOUS
<1> HIDE DEF R
<1>3. PICK i \in S : \A j \in S : <<j, i>> \notin R
  BY <1>1, WFMin
<1>4. ASSUME NEW j \in S PROVE i <= j
  <2>1. i \in Nat /\ j \in Nat
    OBVIOUS
  <2>2. ~(j < i)
    BY <1>2, <1>3, <2>1
  <2> QED
    BY <2>1, <2>2
<1> QED
  BY <1>4

\* g concatenates the first k sequences of ss, one after the other.
Flattens(g, ss, k) ==
    /\ g = [i \in 1 .. k |-> g[i]]
    /\ \A i \in 1 .. k : g[i] = IF i = 1 THEN ss[i] ELSE g[i - 1] \o ss[i]

\* The function that FlattenSeq defines by recursion exists.
LEMMA FlattenExists ==
    ASSUME NEW n \in Nat, NEW ss PROVE \E g : Flattens(g, ss, n)
<1> DEFINE Bad == {k \in 0 .. n : ~ \E g : Flattens(g, ss, k)}
<1> SUFFICES ASSUME Bad # {} PROVE FALSE
  OBVIOUS
<1>1. PICK k \in Bad : \A j \in Bad : k <= j
  <2>1. Bad \in SUBSET Nat
    OBVIOUS
  <2> HIDE DEF Bad
  <2> QED
    BY <2>1, LeastIndex
<1>2. k \in 0 .. n /\ ~ \E g : Flattens(g, ss, k)
  OBVIOUS
<1>3. k # 0
  <2>1. Flattens([i \in 1 .. 0 |-> 0], ss, 0)
    BY DEF Flattens
  <2> QED
    BY <1>2, <2>1
<1>4. k - 1 \in 0 .. n
  BY <1>2, <1>3
<1>5. k - 1 \notin Bad
  <2> HIDE DEF Bad
  <2> QED
    BY <1>1, <1>2
<1>6. PICK g : Flattens(g, ss, k - 1)
  BY <1>4, <1>5
<1> HIDE DEF Bad
<1> DEFINE h == [i \in 1 .. k |-> IF i <= k - 1 THEN g[i]
                                  ELSE IF i = 1 THEN ss[i] ELSE g[i - 1] \o ss[i]]
<1>7. ASSUME NEW i \in 1 .. k PROVE h[i] = IF i = 1 THEN ss[i] ELSE h[i - 1] \o ss[i]
  <2>1. k \in Nat /\ i \in Nat
    BY <1>2
  <2>2. h[i] = IF i <= k - 1 THEN g[i] ELSE IF i = 1 THEN ss[i] ELSE g[i - 1] \o ss[i]
    OBVIOUS
  <2>3. CASE i <= k - 1
    <3>1. i \in 1 .. k - 1
      BY <2>1, <2>3
    <3>2. g[i] = IF i = 1 THEN ss[i] ELSE g[i - 1] \o ss[i]
      BY <1>6, <3>1 DEF Flattens
    <3>3. i # 1 => h[i - 1] = g[i - 1]
      BY <2>1, <2>3
    <3> HIDE DEF h
    <3> QED
      BY <2>2, <2>3, <3>2, <3>3
  <2>4. CASE ~(i <= k - 1)
    <3>1. i # 1 => h[i - 1] = g[i - 1]
      BY <2>1
    <3> HIDE DEF h
    <3> QED
      BY <2>2, <2>4, <3>1
  <2> QED
    BY <2>3, <2>4
<1>8. h = [i \in 1 .. k |-> h[i]]
  OBVIOUS
<1> HIDE DEF h
<1>9. Flattens(h, ss, k)
  BY <1>7, <1>8 DEF Flattens
<1> QED
  BY <1>2, <1>9

\* What FlattenSeq computes, step by step.
LEMMA FlattenIs ==
    ASSUME NEW ss, NEW n \in Nat, Len(ss) = n, n # 0
    PROVE  \E g : Flattens(g, ss, n) /\ FlattenSeq(ss) = g[n]
<1> DEFINE P(g) == g = [i \in 1 .. n |-> IF i = 1 THEN ss[i] ELSE g[i - 1] \o ss[i]]
<1>1. \E g : P(g)
  <2>1. PICK g : Flattens(g, ss, n)
    BY FlattenExists
  <2>2. P(g)
    BY <2>1 DEF Flattens
  <2> HIDE DEF P
  <2> QED
    BY <2>2
<1>2. FlattenSeq(ss) = (CHOOSE g : P(g))[n]
  BY DEF FlattenSeq
<1> HIDE DEF P
<1>3. PICK g : P(g) /\ FlattenSeq(ss) = g[n]
  BY <1>1, <1>2
<1>4. Flattens(g, ss, n)
  BY <1>3 DEF P, Flattens
<1> QED
  BY <1>3, <1>4

\* The concatenation of sequences of elements of S is one.
LEMMA FlattenType ==
    ASSUME NEW S, NEW ss \in Seq(Seq(S)) PROVE FlattenSeq(ss) \in Seq(S)
<1> DEFINE n == Len(ss)
<1>0. n \in Nat /\ \A i \in 1 .. n : ss[i] \in Seq(S)
  OBVIOUS
<1> HIDE DEF n
<1> SUFFICES ASSUME n # 0 PROVE FlattenSeq(ss) \in Seq(S)
  <2> SUFFICES ASSUME n = 0 PROVE FlattenSeq(ss) \in Seq(S)
    OBVIOUS
  <2>1. ss = << >>
    BY DEF n
  <2> QED
    BY <2>1 DEF FlattenSeq
<1>1. PICK g : Flattens(g, ss, n) /\ FlattenSeq(ss) = g[n]
  BY <1>0, FlattenIs DEF n
<1> DEFINE Bad == {k \in 1 .. n : g[k] \notin Seq(S)}
<1>2. Bad = {}
  <2> SUFFICES ASSUME Bad # {} PROVE FALSE
    OBVIOUS
  <2>1. PICK k \in Bad : \A j \in Bad : k <= j
    <3>1. Bad \in SUBSET Nat
      BY <1>0
    <3> HIDE DEF Bad
    <3> QED
      BY <3>1, LeastIndex
  <2>2. k \in 1 .. n /\ g[k] \notin Seq(S)
    OBVIOUS
  <2>3. g[k] = IF k = 1 THEN ss[k] ELSE g[k - 1] \o ss[k]
    BY <1>1, <2>2 DEF Flattens
  <2>4. k # 1
    BY <1>0, <2>2, <2>3
  <2>5. k - 1 \in 1 .. n /\ k - 1 \notin Bad
    <3>1. k - 1 \in 1 .. n
      BY <1>0, <2>2, <2>4
    <3> HIDE DEF Bad
    <3> QED
      BY <2>1, <2>2, <3>1
  <2>6. g[k - 1] \in Seq(S)
    BY <2>5
  <2> HIDE DEF Bad
  <2> QED
    BY <1>0, <2>2, <2>3, <2>4, <2>6
<1> QED
  BY <1>0, <1>1, <1>2

-----------------------------------------------------------------------------
(* The resources of a plan.                                                *)

LowerIn(S, R, r) == {q \in S : R[q] < R[r]}

\* Of a finite set whose elements have distinct ranks, each place holds one element, and each
\* element has a place.
LEMMA Places ==
    ASSUME NEW S, IsFiniteSet(S), NEW R, \A r \in S : R[r] \in Nat,
           \A q, r \in S : R[q] = R[r] => q = r
    PROVE  /\ \A r \in S : Cardinality(LowerIn(S, R, r)) + 1 \in 1 .. Cardinality(S)
           /\ \A q, r \in S : Cardinality(LowerIn(S, R, q)) = Cardinality(LowerIn(S, R, r)) => q = r
           /\ \A k \in 1 .. Cardinality(S) : \E r \in S : Cardinality(LowerIn(S, R, r)) = k - 1
<1> DEFINE Before(r) == LowerIn(S, R, r)
           N == Cardinality(S)
<1>1. N \in Nat
  BY FS_CardinalityType
<1>2. ASSUME NEW r \in S PROVE IsFiniteSet(Before(r)) /\ Cardinality(Before(r)) \in 0 .. N - 1
  <2> DEFINE T == Before(r)
  <2>1. T \in SUBSET S /\ r \in S \ T
    BY DEF LowerIn
  <2> HIDE DEF T
  <2>2. IsFiniteSet(T) /\ Cardinality(T) <= N /\ (N = Cardinality(T) => S = T)
    BY <2>1, FS_Subset
  <2>3. Cardinality(T) \in Nat
    BY <2>2, FS_CardinalityType
  <2>4. Cardinality(T) # N
    BY <2>1, <2>2
  <2> HIDE DEF N
  <2>5. Cardinality(T) \in 0 .. N - 1
    BY <1>1, <2>2, <2>3, <2>4 DEF N
  <2> QED
    BY <2>2, <2>5 DEF T
<1>3. ASSUME NEW q \in S, NEW r \in S, R[q] < R[r] PROVE Cardinality(Before(q)) < Cardinality(Before(r))
  <2> DEFINE Q == Before(q)
             T == Before(r)
  <2>1. Q \in SUBSET T /\ q \in T \ Q
    BY <1>3 DEF LowerIn
  <2>2. IsFiniteSet(T) /\ Cardinality(T) \in 0 .. N - 1 /\ Cardinality(Q) \in 0 .. N - 1
    BY <1>2
  <2> HIDE DEF Q, T
  <2>3. Cardinality(Q) <= Cardinality(T) /\ (Cardinality(T) = Cardinality(Q) => T = Q)
    BY <2>1, <2>2, FS_Subset
  <2>4. Cardinality(Q) # Cardinality(T)
    BY <2>1, <2>3
  <2>5. Cardinality(Q) \in Nat /\ Cardinality(T) \in Nat
    BY <2>2
  <2>6. Cardinality(Q) < Cardinality(T)
    BY <2>3, <2>4, <2>5
  <2> QED
    BY <2>6 DEF Q, T
<1> HIDE DEF Before
<1>4. ASSUME NEW q \in S, NEW r \in S, Cardinality(Before(q)) = Cardinality(Before(r)) PROVE q = r
  <2>1. Cardinality(Before(q)) \in Nat
    BY <1>1, <1>2
  <2>2. ~(R[q] < R[r]) /\ ~(R[r] < R[q])
    BY <1>3, <1>4, <2>1
  <2>3. R[q] = R[r]
    BY <2>2
  <2> QED
    BY <2>3
<1> DEFINE pos == [r \in S |-> Cardinality(Before(r)) + 1]
<1>5. \A r \in S : Cardinality(Before(r)) + 1 \in 1 .. N
  BY <1>1, <1>2
<1>6. pos \in Injection(S, 1 .. N)
  <2>1. pos \in [S -> 1 .. N]
    BY <1>5
  <2>2. ASSUME NEW q \in S, NEW r \in S, pos[q] = pos[r] PROVE q = r
    <3>1. Cardinality(Before(q)) \in Int /\ Cardinality(Before(r)) \in Int
      BY <1>1, <1>2
    <3>2. Cardinality(Before(q)) = Cardinality(Before(r))
      BY <2>2, <3>1
    <3> QED
      BY <1>4, <3>2
  <2> HIDE DEF pos
  <2> QED
    BY <2>1, <2>2 DEF Injection, IsInjective
<1>7. IsFiniteSet(1 .. N) /\ Cardinality(1 .. N) = N
  BY <1>1, FS_Interval
<1> HIDE DEF pos
<1>8. pos \in Surjection(S, 1 .. N)
  BY <1>6, <1>7, FS_Injection
<1>9. ASSUME NEW k \in 1 .. N PROVE \E r \in S : Cardinality(Before(r)) = k - 1
  <2>1. PICK r \in S : pos[r] = k
    BY <1>8 DEF Surjection
  <2>2. pos[r] = Cardinality(Before(r)) + 1 /\ Cardinality(Before(r)) \in Int
    BY <1>1, <1>2 DEF pos
  <2> QED
    BY <1>1, <2>1, <2>2
<1> QED
  BY <1>4, <1>5, <1>9 DEF Before

Typed(plan) == {r \in ToSet(plan.values) : TypeOf(r.address) # ""}

\* What comes before an address.
Earlier(plan, a) == {q \in Typed(plan) : Rank[q.address] < Rank[a]}

\* Each resource of the plan that has a type is in the sequence once, at its place in the order of
\* the addresses.
LEMMA CollectedPlaces ==
    ASSUME NEW plan, IsPlan(plan)
    PROVE  /\ IsSequence(Collected(plan))
           /\ ToSet(Collected(plan)) = Typed(plan)
           /\ \A i, j \in DOMAIN Collected(plan) :
                Collected(plan)[i].address = Collected(plan)[j].address => i = j
           /\ IsFiniteSet(Typed(plan))
           /\ DOMAIN Collected(plan) = 1 .. Cardinality(Typed(plan))
           /\ \A k \in DOMAIN Collected(plan) :
                /\ Collected(plan)[k] \in Typed(plan)
                /\ Cardinality(Earlier(plan, Collected(plan)[k].address)) = k - 1
           /\ \A q, r \in Typed(plan) :
                Cardinality(Earlier(plan, q.address)) = Cardinality(Earlier(plan, r.address)) => q = r
<1> DEFINE S == Typed(plan)
           R == [r \in S |-> Rank[r.address]]
           Before(r) == Earlier(plan, r.address)
           N == Cardinality(S)
           out == Collected(plan)
<1>1. IsFiniteSet(S)
  <2>1. IsFiniteSet(ToSet(plan.values))
    <3>1. /\ Len(plan.values) \in Nat /\ DOMAIN plan.values = 1 .. Len(plan.values)
      BY SequenceDomain DEF IsPlan
    <3> DEFINE n == Len(plan.values)
               f == [i \in 1 .. n |-> plan.values[i]]
               T == ToSet(plan.values)
    <3>2. IsFiniteSet(1 .. n)
      <4> HIDE DEF n
      <4>1. n \in Int /\ 1 \in Int
        BY <3>1 DEF n
      <4> QED
        BY <4>1, FS_Interval
    <3>3. f \in Surjection(1 .. n, T)
      BY <3>1 DEF Surjection, ToSet
    <3> HIDE DEF f, T
    <3>4. IsFiniteSet(T)
      BY <3>2, <3>3, FS_Surjection
    <3> QED
      BY <3>4 DEF T
  <2>2. S \in SUBSET ToSet(plan.values)
    BY DEF Typed
  <2> QED
    BY <2>1, <2>2, FS_Subset
<1>2. ASSUME NEW q \in S, NEW r \in S
      PROVE  /\ Rank[q.address] \in Nat
             /\ q.address = r.address => q = r
             /\ Rank[q.address] = Rank[r.address] => q = r
  BY PlanAssumption DEF IsPlan, Typed
<1>3. /\ \A r \in S : R[r] \in Nat
      /\ \A q, r \in S : R[q] = R[r] => q = r
      /\ \A r \in S : {q \in S : R[q] < R[r]} = Before(r)
  BY <1>2 DEF Earlier
<1>4. out = [k \in 1 .. N |-> CHOOSE r \in S : Cardinality(Before(r)) = k - 1]
  BY DEF Collected, Typed, Earlier
<1> HIDE DEF S, R
<1>5. /\ \A r \in S : Cardinality(Before(r)) + 1 \in 1 .. N
      /\ \A q, r \in S : Cardinality(Before(q)) = Cardinality(Before(r)) => q = r
      /\ \A k \in 1 .. N : \E r \in S : Cardinality(Before(r)) = k - 1
  <2> DEFINE B(r) == LowerIn(S, R, r)
  <2>1. /\ \A r \in S : Cardinality(B(r)) + 1 \in 1 .. N
        /\ \A q, r \in S : Cardinality(B(q)) = Cardinality(B(r)) => q = r
        /\ \A k \in 1 .. N : \E r \in S : Cardinality(B(r)) = k - 1
    BY <1>1, <1>3, Places
  <2>2. \A r \in S : B(r) = Before(r)
    BY <1>3 DEF LowerIn
  <2> HIDE DEF B, Before
  <2> QED
    BY <2>1, <2>2
<1>6. N \in Nat
  BY <1>1, FS_CardinalityType
<1> HIDE DEF Before, out, N
<1>7. DOMAIN out = 1 .. N /\ out = [k \in DOMAIN out |-> out[k]]
  BY <1>4
<1>8. IsSequence(out)
  BY <1>6, <1>7, FunctionIsSequence
<1>9. ASSUME NEW k \in 1 .. N PROVE out[k] \in S /\ Cardinality(Before(out[k])) = k - 1
  BY <1>4, <1>5
<1>10. ASSUME NEW r \in S PROVE \E k \in 1 .. N : out[k] = r
  <2> DEFINE k == Cardinality(Before(r)) + 1
  <2>1. k \in 1 .. N
    BY <1>5
  <2>2. out[k] \in S /\ Cardinality(Before(out[k])) = k - 1
    BY <1>9, <2>1
  <2>3. Cardinality(Before(r)) \in Int
    <3>1. IsFiniteSet(Before(r))
      <4>1. Before(r) \in SUBSET S
        BY DEF Before, Earlier, S
      <4> QED
        BY <1>1, <4>1, FS_Subset
    <3> QED
      BY <3>1, FS_CardinalityType
  <2>4. k - 1 = Cardinality(Before(r))
    BY <2>3
  <2> HIDE DEF k
  <2>5. out[k] = r
    BY <1>5, <2>2, <2>4
  <2> QED
    BY <2>1, <2>5
<1>11. ToSet(out) = S
  BY <1>7, <1>9, <1>10 DEF ToSet
<1>12. ASSUME NEW i \in DOMAIN out, NEW j \in DOMAIN out, out[i].address = out[j].address PROVE i = j
  <2>1. i \in 1 .. N /\ j \in 1 .. N
    BY <1>7
  <2>2. out[i] = out[j]
    BY <1>2, <1>9, <1>12, <2>1
  <2>3. i - 1 = j - 1
    BY <1>9, <2>1, <2>2
  <2> QED
    BY <1>6, <2>1, <2>3
<1> QED
  BY <1>1, <1>5, <1>7, <1>8, <1>9, <1>11, <1>12 DEF out, S, N, Before

\* Each resource of the plan that has a type is in the sequence once, in the order of the
\* addresses.
LEMMA CollectedIs ==
    ASSUME NEW plan, IsPlan(plan)
    PROVE  /\ IsSequence(Collected(plan))
           /\ ToSet(Collected(plan)) = Typed(plan)
           /\ \A i, j \in DOMAIN Collected(plan) :
                Collected(plan)[i].address = Collected(plan)[j].address => i = j
  BY CollectedPlaces

\* The planned resources: those of the plan, with what their configuration refers to.
LEMMA PlannedIs ==
    ASSUME NEW plan, IsPlan(plan)
    PROVE  /\ IsSequence(ParsePlan(plan))
           /\ DOMAIN ParsePlan(plan) = DOMAIN Collected(plan)
           /\ \A i \in DOMAIN ParsePlan(plan) :
                /\ Collected(plan)[i] \in Typed(plan)
                /\ ParsePlan(plan)[i] =
                     [address |-> Collected(plan)[i].address, args |-> Collected(plan)[i].args,
                      blocks |-> Collected(plan)[i].blocks,
                      references |-> References(Collected(plan), plan.configuration, Collected(plan)[i].address),
                      origin |-> Origin(plan.sources, plan.configuration, Collected(plan)[i].address)]
<1> DEFINE c == Collected(plan)
           p == ParsePlan(plan)
<1>1. IsSequence(c) /\ \A i \in DOMAIN c : c[i] \in Typed(plan)
  BY CollectedIs DEF ToSet
<1>2. /\ DOMAIN p = DOMAIN c
      /\ p = [i \in DOMAIN p |-> p[i]]
      /\ \A i \in DOMAIN p : p[i] =
            [address |-> c[i].address, args |-> c[i].args, blocks |-> c[i].blocks,
             references |-> References(c, plan.configuration, c[i].address),
             origin |-> Origin(plan.sources, plan.configuration, c[i].address)]
  BY DEF ParsePlan
<1> HIDE DEF c, p
<1>3. IsSequence(p)
  BY <1>1, <1>2, SequenceDomain, FunctionIsSequence
<1> QED
  BY <1>1, <1>2, <1>3 DEF c, p

\* Each resource of the plan has its planned resource, and only one.
LEMMA PlannedOnce ==
    ASSUME NEW plan, IsPlan(plan)
    PROVE  /\ \A q, r \in ToSet(ParsePlan(plan)) : q.address = r.address => q = r
           /\ \A r \in ToSet(ParsePlan(plan)) : \A f \in DOMAIN r.blocks : IsSequence(r.blocks[f])
<1> DEFINE c == Collected(plan)
           p == ParsePlan(plan)
<1>1. /\ DOMAIN p = DOMAIN c
      /\ \A i \in DOMAIN p : /\ c[i] \in Typed(plan)
                             /\ p[i].address = c[i].address /\ p[i].blocks = c[i].blocks
  BY PlannedIs
<1>2. \A i, j \in DOMAIN c : c[i].address = c[j].address => i = j
  BY CollectedIs
<1>3. \A r \in Typed(plan) : \A f \in DOMAIN r.blocks : IsSequence(r.blocks[f])
  BY DEF IsPlan, Typed
<1> HIDE DEF c, p
<1>4. \A q, r \in ToSet(p) : q.address = r.address => q = r
  BY <1>1, <1>2 DEF ToSet
<1>5. \A r \in ToSet(p) : \A f \in DOMAIN r.blocks : IsSequence(r.blocks[f])
  BY <1>1, <1>3 DEF ToSet
<1> QED
  BY <1>4, <1>5 DEF p

-----------------------------------------------------------------------------
(* The projection.                                                         *)

\* c holds what the first k steps of a transform make of v.
Chains(c, v, t, k) ==
    /\ c = [i \in 0 .. k |-> c[i]]
    /\ \A i \in 0 .. k :
        c[i] = IF i = 0 THEN [value |-> v, derived |-> FALSE] ELSE After(c[i - 1], t[i])

\* The function that ApplyTransform defines by recursion exists.
LEMMA ChainExists ==
    ASSUME NEW n \in Nat, NEW v, NEW t PROVE \E c : Chains(c, v, t, n)
<1> DEFINE Bad == {k \in 0 .. n : ~ \E c : Chains(c, v, t, k)}
<1> SUFFICES ASSUME Bad # {} PROVE FALSE
  OBVIOUS
<1>1. PICK k \in Bad : \A j \in Bad : k <= j
  <2>1. Bad \in SUBSET Nat
    OBVIOUS
  <2> HIDE DEF Bad
  <2> QED
    BY <2>1, LeastIndex
<1>2. k \in 0 .. n /\ ~ \E c : Chains(c, v, t, k)
  OBVIOUS
<1>3. k # 0
  <2>1. Chains([i \in 0 .. 0 |-> [value |-> v, derived |-> FALSE]], v, t, 0)
    BY DEF Chains
  <2> QED
    BY <1>2, <2>1
<1>4. k - 1 \in 0 .. n
  BY <1>2, <1>3
<1>5. k - 1 \notin Bad
  <2> HIDE DEF Bad
  <2> QED
    BY <1>1, <1>2
<1>6. PICK c : Chains(c, v, t, k - 1)
  BY <1>4, <1>5
<1> HIDE DEF Bad
<1> DEFINE h == [i \in 0 .. k |-> IF i <= k - 1 THEN c[i] ELSE After(c[i - 1], t[i])]
<1>7. ASSUME NEW i \in 0 .. k
      PROVE  h[i] = IF i = 0 THEN [value |-> v, derived |-> FALSE] ELSE After(h[i - 1], t[i])
  <2>1. k \in Nat /\ i \in Nat
    BY <1>2
  <2>2. h[i] = IF i <= k - 1 THEN c[i] ELSE After(c[i - 1], t[i])
    OBVIOUS
  <2>3. i # 0 => h[i - 1] = c[i - 1]
    BY <2>1
  <2> HIDE DEF h
  <2>4. CASE i <= k - 1
    <3>1. i \in 0 .. k - 1
      BY <2>1, <2>4
    <3>2. c[i] = IF i = 0 THEN [value |-> v, derived |-> FALSE] ELSE After(c[i - 1], t[i])
      BY <1>6, <3>1 DEF Chains
    <3> QED
      BY <2>2, <2>3, <2>4, <3>2
  <2>5. CASE ~(i <= k - 1)
    <3>1. i # 0
      BY <1>3, <2>1, <2>5
    <3> QED
      BY <2>2, <2>3, <2>5, <3>1
  <2> QED
    BY <2>4, <2>5
<1>8. h = [i \in 0 .. k |-> h[i]]
  OBVIOUS
<1> HIDE DEF h
<1>9. Chains(h, v, t, k)
  BY <1>7, <1>8 DEF Chains
<1> QED
  BY <1>2, <1>9

\* A step that derives nothing leaves the value as it is.
LEMMA StepKeeps ==
    ASSUME NEW v, NEW step, ~StepDerives(v, step) PROVE Step(v, step) = v
<1>1. step.op \in {"default_null", "to_bool"}
  BY DEF StepDerives
<1>2. CASE step.op = "default_null"
  <2>1. Step(v, step) = IF v = Null THEN Text(step.arg) ELSE v
    BY <1>2, ReadingsAssumption DEF Step, PlainOps
  <2> QED
    BY <1>2, <2>1 DEF StepDerives
<1>3. CASE step.op = "to_bool"
  <2>1. Val("bool", v.of).kind = "bool"
    BY DEF Val
  <2>2. Step(v, step) =
            IF v.kind = "string" /\ v.of[1] \in {"true", "false"} THEN Val("bool", v.of) ELSE v
    BY <1>3, ReadingsAssumption DEF Step, PlainOps
  <2>3. ~(v.kind = "string" /\ Step(v, step).kind = "bool")
    BY <1>3 DEF StepDerives
  <2> QED
    BY <2>1, <2>2, <2>3
<1> QED
  BY <1>1, <1>2, <1>3

\* A transform is its steps, one after the other.
LEMMA TransformIs ==
    ASSUME NEW v, NEW t, Len(t) \in Nat
    PROVE  \E c : Chains(c, v, t, Len(t)) /\ ApplyTransform(v, t) = c[Len(t)]
<1> DEFINE n == Len(t)
           P(c) == c = [i \in 0 .. n |-> IF i = 0 THEN [value |-> v, derived |-> FALSE]
                                         ELSE After(c[i - 1], t[i])]
<1>1. \E c : P(c)
  <2>1. PICK c : Chains(c, v, t, n)
    BY ChainExists
  <2>2. P(c)
    BY <2>1 DEF Chains
  <2> HIDE DEF P
  <2> QED
    BY <2>2
<1>2. ApplyTransform(v, t) = (CHOOSE c : P(c))[n]
  BY DEF ApplyTransform
<1> HIDE DEF P
<1>3. PICK c : P(c) /\ ApplyTransform(v, t) = c[n]
  BY <1>1, <1>2
<1>4. Chains(c, v, t, n)
  BY <1>3 DEF P, Chains
<1> QED
  BY <1>3, <1>4

\* So does a transform.
LEMMA TransformKeeps ==
    ASSUME NEW v, NEW t, Len(t) \in Nat, ~ApplyTransform(v, t).derived
    PROVE  ApplyTransform(v, t).value = v
<1> DEFINE n == Len(t)
<1>1. PICK c : Chains(c, v, t, n) /\ ApplyTransform(v, t) = c[n]
  BY TransformIs
<1>2. \A i \in 0 .. n : c[i] = IF i = 0 THEN [value |-> v, derived |-> FALSE]
                              ELSE After(c[i - 1], t[i])
  BY <1>1 DEF Chains
<1> HIDE DEF n
<1> DEFINE Bad == {k \in 0 .. n : ~c[k].derived /\ c[k].value # v}
<1>3. Bad = {}
  <2> SUFFICES ASSUME Bad # {} PROVE FALSE
    OBVIOUS
  <2>1. PICK k \in Bad : \A j \in Bad : k <= j
    <3>1. Bad \in SUBSET Nat
      OBVIOUS
    <3> HIDE DEF Bad
    <3> QED
      BY <3>1, LeastIndex
  <2>2. k \in 0 .. n /\ ~c[k].derived /\ c[k].value # v
    OBVIOUS
  <2>3. k # 0
    <3>1. k = 0 => c[k].value = v
      BY <1>2, <2>2
    <3> QED
      BY <2>2, <3>1
  <2>4. k - 1 \in 0 .. n /\ k - 1 \notin Bad
    <3>1. n \in Nat
      BY DEF n
    <3>2. k - 1 \in 0 .. n
      BY <2>2, <2>3, <3>1
    <3> HIDE DEF Bad
    <3> QED
      BY <2>1, <2>2, <3>2
  <2> DEFINE acc == c[k - 1]
  <2>5. c[k] = After(acc, t[k])
    BY <1>2, <2>2, <2>3
  <2>6. acc.derived \/ acc.value = v
    BY <2>4
  <2> HIDE DEF Bad, acc
  <2>7. ~acc.derived /\ ~StepDerives(acc.value, t[k]) /\ c[k].value = Step(acc.value, t[k])
    <3>1. /\ c[k].value = Step(acc.value, t[k])
          /\ c[k].derived = (acc.derived \/ StepDerives(acc.value, t[k]))
      BY <2>5 DEF After
    <3> QED
      BY <2>2, <3>1, Zenon
  <2>8. c[k].value = acc.value
    BY <2>7, StepKeeps
  <2> QED
    BY <2>2, <2>6, <2>7, <2>8
<1>4. n \in 0 .. n
  BY DEF n
<1> QED
  BY <1>1, <1>3, <1>4 DEF n

\* What is read is read at one of the paths.
LEMMA CoalesceReads ==
    ASSUME NEW doc, NEW alts, IsSequence(alts), LookupCoalesce(doc, alts) # Null
    PROVE  \E i \in DOMAIN alts : PathExists(doc, alts[i]) /\ LookupCoalesce(doc, alts) = doc[alts[i].from][alts[i].field]
<1> DEFINE read == {i \in DOMAIN alts : Lookup(doc, alts[i]) # Null}
           first == CHOOSE i \in read : \A j \in read : i <= j
<1>1. LookupCoalesce(doc, alts) = IF read = {} THEN Null ELSE Lookup(doc, alts[first])
  BY DEF LookupCoalesce
<1>2. read # {}
  BY <1>1
<1>3. first \in read
  <2>1. DOMAIN alts = 1 .. Len(alts) /\ Len(alts) \in Nat
    BY SequenceDomain
  <2>2. read \in SUBSET Nat
    BY <2>1
  <2> HIDE DEF read
  <2> QED
    BY <1>2, <2>2, LeastIndex
<1>4. first \in DOMAIN alts /\ Lookup(doc, alts[first]) # Null
  BY <1>3
<1> HIDE DEF first, read
<1> QED
  BY <1>1, <1>2, <1>4 DEF Lookup

\* What is projected was observed, and what is not derived is as it was read.
LEMMA ProjectedIsObserved ==
    ASSUME NEW doc, NEW alts, IsSequence(alts), NEW t,
           ProjectOne(doc, alts, t).value # Null
    PROVE  /\ ProjectOne(doc, alts, t).observed
           /\ t = << >> \/ Len(t) \in Nat =>
                ProjectOne(doc, alts, t).derived \/ ProjectOne(doc, alts, t).value = LookupCoalesce(doc, alts)
<1> DEFINE v == LookupCoalesce(doc, alts)
           present == SourcePresent(doc, alts)
           out == ApplyTransform(v, t)
           one == ProjectOne(doc, alts, t)
<1>1. v # Null => present
  BY CoalesceReads DEF SourcePresent
<1>2. one = IF t = << >> THEN [value |-> v, observed |-> present, derived |-> FALSE]
            ELSE IF v = Null /\ ~present THEN [value |-> Null, observed |-> FALSE, derived |-> FALSE]
            ELSE [value |-> out.value, observed |-> present, derived |-> out.value # Null /\ out.derived]
  BY DEF ProjectOne
<1>3. Len(t) \in Nat => out.derived \/ out.value = v
  BY TransformKeeps
<1> HIDE DEF v, present, out, one
<1>4. one.value # Null
  BY DEF one
<1>5. CASE t = << >>
  BY <1>1, <1>2, <1>4, <1>5 DEF one, v
<1>6. CASE t # << >> /\ ~(v = Null /\ ~present)
  <2>1. /\ one.value = out.value /\ one.observed = present
        /\ one.derived = (out.value # Null /\ out.derived)
    BY <1>2, <1>6
  <2>2. present
    BY <1>1, <1>6
  <2> QED
    BY <1>3, <1>4, <1>6, <2>1, <2>2 DEF one, v
<1>7. CASE t # << >> /\ v = Null /\ ~present
  BY <1>2, <1>4, <1>7
<1> QED
  BY <1>5, <1>6, <1>7

\* The projection of a document is one ProjectOne for each attribute.
TransformOf(transforms, a) == IF a \in DOMAIN transforms THEN transforms[a] ELSE <<>>

\* Each attribute of a projection, and its attestation, is read by ProjectOne.
LEMMA ProjectionIs ==
    ASSUME NEW doc, NEW map, NEW transforms, NEW origin, NEW ref, NEW out,
           out = ProjectAttested(doc, map, transforms, [origin |-> origin, ref |-> ref])
    PROVE  /\ out = [attrs |-> out.attrs, prov |-> out.prov]
           /\ DOMAIN out.prov = DOMAIN map /\ DOMAIN out.attrs \subseteq DOMAIN map
           /\ \A a \in DOMAIN map :
                LET one == ProjectOne(doc, map[a], TransformOf(transforms, a)) IN
                /\ out.prov[a] = Attestation(origin, ref, one.observed, one.derived)
                /\ a \in DOMAIN out.attrs => one.value # Null /\ out.attrs[a] = one.value
<1> DEFINE one(a) == ProjectOne(doc, map[a], TransformOf(transforms, a))
           all == [a \in DOMAIN map |-> one(a)]
<1>1. out = [attrs |-> [a \in {a \in DOMAIN all : all[a].value # Null} |-> all[a].value],
             prov  |-> [a \in DOMAIN all |-> Attestation(origin, ref, all[a].observed, all[a].derived)]]
  BY Zenon DEF ProjectAttested, TransformOf
<1>2. DOMAIN all = DOMAIN map /\ \A a \in DOMAIN map : all[a] = one(a)
  OBVIOUS
<1> HIDE DEF all, one
<1>3. /\ out.attrs = [a \in {a \in DOMAIN all : all[a].value # Null} |-> all[a].value]
      /\ out.prov = [a \in DOMAIN all |-> Attestation(origin, ref, all[a].observed, all[a].derived)]
      /\ out = [attrs |-> out.attrs, prov |-> out.prov]
  BY <1>1
<1>4. /\ DOMAIN out.prov = DOMAIN map /\ DOMAIN out.attrs \subseteq DOMAIN map
      /\ \A a \in DOMAIN map :
            /\ out.prov[a] = Attestation(origin, ref, one(a).observed, one(a).derived)
            /\ a \in DOMAIN out.attrs => one(a).value # Null /\ out.attrs[a] = one(a).value
  BY <1>2, <1>3
<1> QED
  BY <1>3, <1>4 DEF one

\* What is projected has an attestation, which says that it was observed.
Seen(p) == \A a \in DOMAIN p.attrs : a \in DOMAIN p.prov /\ p.prov[a].observed

\* What is projected of an item was observed.
LEMMA ProjectionIsSeen ==
    ASSUME NEW doc, NEW map, \A a \in DOMAIN map : IsSequence(map[a]),
           NEW transforms, NEW origin, NEW ref, NEW out,
           out = ProjectAttested(doc, map, transforms, [origin |-> origin, ref |-> ref])
    PROVE  Seen(out)
<1> SUFFICES ASSUME NEW a \in DOMAIN out.attrs PROVE a \in DOMAIN out.prov /\ out.prov[a].observed
  BY DEF Seen
<1> DEFINE one == ProjectOne(doc, map[a], TransformOf(transforms, a))
<1>1. /\ a \in DOMAIN map /\ DOMAIN out.prov = DOMAIN map
      /\ out.prov[a] = Attestation(origin, ref, one.observed, one.derived)
      /\ one.value # Null
  BY ProjectionIs
<1>2. one.observed
  BY <1>1, ProjectedIsObserved
<1> HIDE DEF one
<1>3. out.prov[a].observed = one.observed
  BY <1>1 DEF Attestation
<1> QED
  BY <1>1, <1>2, <1>3

\* A constant of the descriptor is attested as one, and leaves the rest as it is.
LEMMA ConstIs ==
    ASSUME NEW p, NEW const, NEW out, out = WithConst(p, const)
    PROVE  /\ Seen(p) => \A a \in DOMAIN out.attrs :
                a \in DOMAIN out.prov /\ (out.prov[a].observed \/ out.prov[a].source = "descriptor:const")
           /\ \A a : a \notin DOMAIN const =>
                /\ a \in DOMAIN p.prov => out.prov[a] = p.prov[a]
                /\ a \in DOMAIN out.attrs => a \in DOMAIN p.attrs /\ out.attrs[a] = p.attrs[a]
<1>1. /\ out.attrs = [a \in DOMAIN p.attrs \cup DOMAIN const |->
                         IF a \in DOMAIN const THEN const[a] ELSE p.attrs[a]]
      /\ out.prov = [a \in DOMAIN p.prov \cup DOMAIN const |->
                        IF a \in DOMAIN const THEN Attestation("derived", "descriptor:const", FALSE, TRUE)
                        ELSE p.prov[a]]
  BY DEF WithConst
<1>2. \A a \in DOMAIN const : a \in DOMAIN out.prov /\ out.prov[a].source = "descriptor:const"
  BY <1>1 DEF Attestation
<1>3. \A a : a \notin DOMAIN const =>
        /\ a \in DOMAIN p.prov => a \in DOMAIN out.prov /\ out.prov[a] = p.prov[a]
        /\ a \in DOMAIN out.attrs => a \in DOMAIN p.attrs /\ out.attrs[a] = p.attrs[a]
  BY <1>1
<1>4. ASSUME Seen(p), NEW a \in DOMAIN out.attrs
      PROVE  a \in DOMAIN out.prov /\ (out.prov[a].observed \/ out.prov[a].source = "descriptor:const")
  <2>1. CASE a \in DOMAIN const
    BY <1>2, <2>1
  <2>2. CASE a \notin DOMAIN const
    BY <1>3, <1>4, <2>2 DEF Seen
  <2> QED
    BY <2>1, <2>2
<1> QED
  BY <1>3, <1>4

-----------------------------------------------------------------------------
(* The mapping.                                                            *)

\* The items of a resource are a sequence.
LEMMA ItemsAreASequence ==
    ASSUME NEW spec, NEW res, \A f \in DOMAIN res.blocks : IsSequence(res.blocks[f])
    PROVE  IsSequence(ItemsOf(spec, res))
<1> DEFINE values == WithReferences(spec, res)
           block == res.blocks[spec.items]
           out == ItemsOf(spec, res)
<1>1. CASE spec.items = ""
  <2>1. out = <<[item |-> values, parent |-> Nothing]>>
    BY <1>1 DEF ItemsOf
  <2> DEFINE x == [item |-> values, parent |-> Nothing]
  <2> HIDE DEF x, out
  <2>2. out \in Seq({x})
    BY <2>1 DEF x
  <2> QED
    BY <2>2, SequenceOfItself DEF out
<1>2. CASE spec.items # "" /\ spec.items \in DOMAIN res.blocks
  <2>1. /\ DOMAIN out = DOMAIN block
        /\ out = [i \in DOMAIN out |-> out[i]]
    BY <1>2 DEF ItemsOf
  <2>2. IsSequence(block)
    BY <1>2
  <2> HIDE DEF out, block
  <2> QED
    BY <2>1, <2>2, SequenceDomain, FunctionIsSequence DEF out
<1>3. CASE spec.items # "" /\ spec.items \notin DOMAIN res.blocks
  <2>1. out = << >>
    BY <1>3 DEF ItemsOf
  <2> QED
    BY <2>1, EmptyIsSequence
<1> QED
  BY <1>1, <1>2, <1>3

\* m is made of an item of a resource by a specification of its type.
MadeOf(provider, m, spec, res) ==
    /\ spec.tf = TypeOf(res.address)
    /\ \E i \in DOMAIN ItemsOf(spec, res) : m = Make(provider, spec, res, ItemsOf(spec, res)[i])

\* What is made is a sequence of what is made of each resource.
LEMMA MadeIs ==
    ASSUME NEW provider, NEW specs, IsSequence(specs), NEW resources, IsSequence(resources),
           \A res \in ToSet(resources) : \A f \in DOMAIN res.blocks : IsSequence(res.blocks[f])
    PROVE  /\ IsSequence(AllMade(provider, specs, resources))
           /\ \A m \in ToSet(AllMade(provider, specs, resources)) :
                \E res \in ToSet(resources), spec \in ToSet(specs) : MadeOf(provider, m, spec, res)
<1> DEFINE MakeAll(res, spec, items) == [i \in DOMAIN items |-> Make(provider, spec, res, items[i])]
           MakeOf(res, spec) ==
                IF spec.tf = TypeOf(res.address) THEN MakeAll(res, spec, ItemsOf(spec, res)) ELSE << >>
           Each(res) == [k \in DOMAIN specs |-> MakeOf(res, specs[k])]
           All == [i \in DOMAIN resources |-> FlattenSeq(Each(resources[i]))]
           S == UNION {UNION {ToSet(MakeOf(res, spec)) : spec \in ToSet(specs)} : res \in ToSet(resources)}
<1>1. AllMade(provider, specs, resources) = FlattenSeq(All)
  BY DEF AllMade
<1>2. ASSUME NEW res \in ToSet(resources), NEW spec \in ToSet(specs)
      PROVE  /\ IsSequence(MakeOf(res, spec))
             /\ \A m \in ToSet(MakeOf(res, spec)) : MadeOf(provider, m, spec, res)
  <2> DEFINE items == ItemsOf(spec, res)
             out == MakeOf(res, spec)
  <2>1. CASE spec.tf = TypeOf(res.address)
    <3>1. IsSequence(items)
      BY ItemsAreASequence
    <3>2. /\ DOMAIN out = DOMAIN items
          /\ out = [i \in DOMAIN out |-> out[i]]
          /\ \A i \in DOMAIN out : out[i] = Make(provider, spec, res, items[i])
      BY <2>1
    <3> HIDE DEF out
    <3>3. IsSequence(out)
      BY <3>1, <3>2, SequenceDomain, FunctionIsSequence
    <3>4. \A m \in ToSet(out) : MadeOf(provider, m, spec, res)
      BY <2>1, <3>2 DEF MadeOf, ToSet
    <3> QED
      BY <3>3, <3>4 DEF out
  <2>2. CASE spec.tf # TypeOf(res.address)
    <3>1. out = << >>
      BY <2>2
    <3> HIDE DEF out
    <3>2. IsSequence(out) /\ ToSet(out) = {}
      BY <3>1, EmptyIsSequence
    <3> QED
      BY <3>2 DEF out
  <2> QED
    BY <2>1, <2>2
<1> HIDE DEF MakeOf
<1>3. ASSUME NEW res \in ToSet(resources), NEW spec \in ToSet(specs)
      PROVE  MakeOf(res, spec) \in Seq(S)
  <2>1. ToSet(MakeOf(res, spec)) \subseteq S
    OBVIOUS
  <2>2. MakeOf(res, spec) \in Seq(ToSet(MakeOf(res, spec)))
    BY <1>2 DEF IsSequence
  <2> HIDE DEF S
  <2> QED
    BY <2>1, <2>2
<1>4. ASSUME NEW m \in S
      PROVE  \E res \in ToSet(resources), spec \in ToSet(specs) : MadeOf(provider, m, spec, res)
  <2>1. PICK res \in ToSet(resources), spec \in ToSet(specs) : m \in ToSet(MakeOf(res, spec))
    OBVIOUS
  <2> QED
    BY <1>2, <2>1
<1> HIDE DEF S
<1>5. ASSUME NEW res \in ToSet(resources) PROVE FlattenSeq(Each(res)) \in Seq(S)
  <2>1. Len(specs) \in Nat /\ DOMAIN specs = 1 .. Len(specs)
    BY SequenceDomain
  <2>2. \A k \in DOMAIN specs : specs[k] \in ToSet(specs)
    BY DEF ToSet
  <2>3. Each(res) \in [1 .. Len(specs) -> Seq(S)]
    BY <1>3, <2>1, <2>2
  <2> HIDE DEF Each
  <2>4. Each(res) \in Seq(Seq(S))
    <3> DEFINE n == Len(specs)
    <3> HIDE DEF n
    <3>1. n \in Nat /\ Each(res) \in [1 .. n -> Seq(S)]
      BY <2>1, <2>3 DEF n
    <3> QED
      BY <3>1, SeqDef
  <2> QED
    BY <2>4, FlattenType
<1> HIDE DEF Each
<1>6. FlattenSeq(All) \in Seq(S)
  <2>1. Len(resources) \in Nat /\ DOMAIN resources = 1 .. Len(resources)
    BY SequenceDomain
  <2>2. \A i \in DOMAIN resources : resources[i] \in ToSet(resources)
    BY DEF ToSet
  <2>3. All \in [1 .. Len(resources) -> Seq(S)]
    BY <1>5, <2>1, <2>2
  <2> HIDE DEF All
  <2>4. All \in Seq(Seq(S))
    <3> DEFINE n == Len(resources)
    <3> HIDE DEF n
    <3>1. n \in Nat /\ All \in [1 .. n -> Seq(S)]
      BY <2>1, <2>3 DEF n
    <3> QED
      BY <3>1, SeqDef
  <2> QED
    BY <2>4, FlattenType
<1> HIDE DEF All
<1>7. AllMade(provider, specs, resources) \in Seq(S)
  BY <1>1, <1>6
<1>8. \A m \in ToSet(AllMade(provider, specs, resources)) : m \in S
  BY <1>7 DEF ToSet
<1> QED
  BY <1>4, <1>7, <1>8, SequenceOfItself

\* The resources of the inventory are those that are made, in their order, resolved.
LEMMA AppliedIs ==
    ASSUME NEW provider, NEW specs, NEW resources, IsSequence(AllMade(provider, specs, resources))
    PROVE  LET made == AllMade(provider, specs, resources)
               out == Apply(provider, specs, resources).resources
           IN  /\ IsSequence(out) /\ DOMAIN out = DOMAIN made
               /\ \A i \in DOMAIN out : out[i] = ResoudreVersLIdentite(made[i], IdParAdresse(made))
<1> DEFINE made == AllMade(provider, specs, resources)
           out == Apply(provider, specs, resources).resources
<1>1. /\ DOMAIN out = DOMAIN made
      /\ out = [i \in DOMAIN out |-> out[i]]
      /\ \A i \in DOMAIN out : out[i] = ResoudreVersLIdentite(made[i], IdParAdresse(made))
  BY DEF Apply
<1> HIDE DEF out, made
<1>2. IsSequence(out)
  BY <1>1, SequenceDomain, FunctionIsSequence DEF made
<1> QED
  BY <1>1, <1>2 DEF out, made

-----------------------------------------------------------------------------
(* The attestations of what is made.                                       *)

\* A specification whose paths and transforms are lists, of a type that is not a source.
IsSpec(spec) ==
    /\ spec.tf # "configuration"
    /\ \A a \in DOMAIN spec.map : /\ IsSequence(spec.map[a])
                                 /\ \A path \in ToSet(spec.map[a]) : path.from \in {"item", "parent"}
    /\ \A a \in DOMAIN spec.transforms : IsSequence(spec.transforms[a])

\* The only path of an attribute is an argument of the resource, which the plan knows.
Names(spec, a, f) == Len(spec.map[a]) = 1 /\ spec.map[a][1].field = f
Knows(spec, res, a, f) ==
    /\ a \in DOMAIN spec.map /\ f \in DOMAIN res.args
    /\ Names(spec, a, f)
    /\ spec.items = "" \/ spec.map[a][1].from = "parent"

\* A reference fills an argument that the plan does not know, and no other.
LEMMA KnownIsKept ==
    ASSUME NEW spec, NEW res, NEW f \in DOMAIN res.args
    PROVE  /\ WithReferences(spec, res)[f] = res.args[f]
           /\ f \in DOMAIN WithReferences(spec, res)
           /\ \A a \in Injected(spec, res) : ~Names(spec, a, f)
<1> DEFINE filled == UNION {Argument(spec.map[a]) : a \in Injected(spec, res)}
           Address(g) == IF Len(res.references[g]) = 1 THEN Text(res.references[g][1])
                         ELSE ListOf(res.references[g])
<1>1. \A a \in Injected(spec, res) : f \notin Argument(spec.map[a])
  <2> SUFFICES ASSUME NEW a \in Injected(spec, res), f \in Argument(spec.map[a]) PROVE FALSE
    OBVIOUS
  <2>1. PICK g \in Argument(spec.map[a]) : g \notin Keys(res)
    BY DEF Injected
  <2>2. g = f /\ RootField(f) = f
    BY <2>1 DEF Argument
  <2> QED
    BY <2>1, <2>2 DEF Keys
<1>2. \A a \in Injected(spec, res) : ~Names(spec, a, f)
  <2> SUFFICES ASSUME NEW a \in Injected(spec, res), Names(spec, a, f) PROVE FALSE
    OBVIOUS
  <2>1. PICK g \in Argument(spec.map[a]) : TRUE
    BY DEF Injected
  <2>2. g = f
    BY <2>1 DEF Argument, Names
  <2> QED
    BY <1>1, <2>1, <2>2
<1>3. f \notin filled
  BY <1>1
<1>4. WithReferences(spec, res) =
        [g \in filled \cup DOMAIN res.args |-> IF g \in filled THEN Address(g) ELSE res.args[g]]
  BY Zenon DEF WithReferences
<1> HIDE DEF filled, Address
<1> QED
  BY <1>2, <1>3, <1>4

\* An attribute with one path reads an argument of the resource.
Reads(spec, a, f) ==
    /\ a \in DOMAIN spec.map /\ Names(spec, a, f)
    /\ spec.items = "" \/ spec.map[a][1].from = "parent"

\* There is one path.
LEMMA OnePath ==
    ASSUME NEW spec, IsSpec(spec), NEW a, NEW f, Reads(spec, a, f)
    PROVE  IsSequence(spec.map[a]) /\ DOMAIN spec.map[a] = {1} /\ spec.map[a][1].from \in {"item", "parent"}
<1> DEFINE alts == spec.map[a]
<1>1. IsSequence(alts) /\ \A p \in ToSet(alts) : p.from \in {"item", "parent"}
  BY DEF IsSpec, Reads
<1>2. DOMAIN alts = {1}
  <2>1. Len(alts) = 1
    BY DEF Reads, Names
  <2> HIDE DEF alts
  <2>2. DOMAIN alts = 1 .. Len(alts)
    BY <1>1, SequenceDomain
  <2> QED
    BY <2>1, <2>2
<1> QED
  BY <1>1, <1>2 DEF ToSet

\* The value that a path leads to.
Leads(doc, path, value) == doc[path.from][path.field] = value

\* What such a path leads to is the argument, with what the references filled.
LEMMA PathLeads ==
    ASSUME NEW spec, IsSpec(spec), NEW res, NEW i \in DOMAIN ItemsOf(spec, res),
           NEW a, NEW f, Reads(spec, a, f), PathExists(ItemsOf(spec, res)[i], spec.map[a][1])
    PROVE  Leads(ItemsOf(spec, res)[i], spec.map[a][1], WithReferences(spec, res)[f])
<1> DEFINE doc == ItemsOf(spec, res)[i]
           alts == spec.map[a]
           path == alts[1]
           values == WithReferences(spec, res)
<1>1. PathExists(doc, path)
  OBVIOUS
<1>2. path.from \in {"item", "parent"}
  BY OnePath
<1>3. spec.items = "" \/ path.from = "parent"
  BY DEF Reads
<1>4. Names(spec, a, f)
  BY DEF Reads
<1>5. CASE spec.items = ""
  <2>1. ItemsOf(spec, res) = <<[item |-> values, parent |-> Nothing]>>
    BY <1>5 DEF ItemsOf
  <2>2. doc = [item |-> values, parent |-> Nothing]
    <3> DEFINE x == [item |-> values, parent |-> Nothing]
    <3> HIDE DEF x
    <3>1. ItemsOf(spec, res) = <<x>>
      BY <2>1 DEF x
    <3>2. i = 1
      BY <3>1
    <3> QED
      BY <3>1, <3>2 DEF x
  <2> HIDE DEF doc, values, path, alts
  <2>3. path.from # "parent"
    <3>1. doc.parent = Nothing
      BY <2>2
    <3>2. DOMAIN Nothing = {}
      BY DEF Nothing
    <3> QED
      BY <1>1, <3>1, <3>2 DEF PathExists
  <2>4. doc[path.from] = values
    <3>1. path.from = "item"
      BY <1>2, <2>3
    <3>2. doc["item"] = doc.item
      OBVIOUS
    <3> QED
      BY <2>2, <3>1
  <2>5. path.field = f
    BY <1>4 DEF path, alts, Names
  <2>6. doc[path.from][path.field] = values[f]
    BY <2>4, <2>5
  <2> QED
    BY <2>6 DEF Leads, doc, values, path, alts
<1>6. CASE spec.items # "" /\ path.from = "parent"
  <2>1. doc.parent = values
    <3>1. CASE spec.items \in DOMAIN res.blocks
      <4> DEFINE block == res.blocks[spec.items]
      <4>1. ItemsOf(spec, res) = [k \in DOMAIN block |-> [item |-> block[k], parent |-> values]]
        BY <1>6, <3>1 DEF ItemsOf
      <4> HIDE DEF values, block
      <4> QED
        BY <4>1
    <3>2. CASE spec.items \notin DOMAIN res.blocks
      <4>1. ItemsOf(spec, res) = << >>
        BY <1>6, <3>2 DEF ItemsOf
      <4>2. DOMAIN ItemsOf(spec, res) = {}
        BY <4>1
      <4> QED
        BY <4>2
    <3> QED
      BY <3>1, <3>2
  <2>2. path.from = "parent" /\ path.field = f
    BY <1>6, <1>4 DEF path, alts, Names
  <2> HIDE DEF doc, values, path, alts
  <2>3. doc[path.from] = values
    BY <2>1, <2>2
  <2>4. doc[path.from][path.field] = values[f]
    BY <2>2, <2>3
  <2> QED
    BY <2>4 DEF Leads, doc, values, path, alts
<1> QED
  BY <1>3, <1>5, <1>6

\* What an attribute is read of, when its only path names an argument that the plan knows.
LEMMA KnownIsRead ==
    ASSUME NEW spec, IsSpec(spec), NEW res, NEW i \in DOMAIN ItemsOf(spec, res),
           NEW a, NEW f, Knows(spec, res, a, f),
           LookupCoalesce(ItemsOf(spec, res)[i], spec.map[a]) # Null
    PROVE  LookupCoalesce(ItemsOf(spec, res)[i], spec.map[a]) = res.args[f]
<1> DEFINE doc == ItemsOf(spec, res)[i]
           alts == spec.map[a]
<1>1. Reads(spec, a, f)
  BY DEF Knows, Reads
<1>2. IsSequence(alts) /\ DOMAIN alts = {1}
  BY <1>1, OnePath
<1>3. PathExists(doc, alts[1]) /\ LookupCoalesce(doc, alts) = doc[alts[1].from][alts[1].field]
  <2> HIDE DEF doc, alts
  <2>1. \E k \in DOMAIN alts : PathExists(doc, alts[k]) /\ LookupCoalesce(doc, alts) = doc[alts[k].from][alts[k].field]
    BY <1>2, CoalesceReads DEF doc, alts
  <2> QED
    BY <1>2, <2>1
<1>4. Leads(doc, alts[1], WithReferences(spec, res)[f])
  BY <1>1, <1>3, PathLeads
<1>5. WithReferences(spec, res)[f] = res.args[f]
  BY KnownIsKept DEF Knows
<1> HIDE DEF doc, alts
<1> QED
  BY <1>3, <1>4, <1>5 DEF Leads, doc, alts

\* What is there was observed, or is a literal of the descriptor.
Literals == {"descriptor:const", "descriptor:souverainete"}
Attested(r) ==
    \A a \in DOMAIN r.attrs : a \in DOMAIN r.prov /\ (r.prov[a].observed \/ r.prov[a].source \in Literals)

\* What is made of a resource never says that a reference gave an argument which the plan knows.
Truthful(m, res) ==
    \A a, f : a \notin DOMAIN m.spec.const /\ Knows(m.spec, res, a, f) =>
        /\ m.resource.prov[a].source # "configuration"
        /\ a \in DOMAIN m.resource.attrs /\ ~m.resource.prov[a].derived =>
                m.resource.attrs[a] = res.args[f]

\* The attestations of what is made of an item.
LEMMA MadeIsAttested ==
    ASSUME NEW provider, NEW spec, IsSpec(spec), NEW res, NEW m, MadeOf(provider, m, spec, res)
    PROVE  Attested(m.resource) /\ Truthful(m, res)
<1>1. PICK i \in DOMAIN ItemsOf(spec, res) : m = Make(provider, spec, res, ItemsOf(spec, res)[i])
  BY DEF MadeOf
<1> DEFINE doc == ItemsOf(spec, res)[i]
           read == ProjectAttested(doc, spec.map, spec.transforms, [origin |-> "terraform", ref |-> spec.tf])
           filled == AttestReferences(read, spec, res)
           out == WithConst(filled, spec.const)
           Mark == Attestation("terraform", "configuration", TRUE, TRUE)
<1>2. m.resource.attrs = out.attrs /\ m.resource.prov = out.prov /\ m.spec = spec
  BY <1>1 DEF Make
<1>3. Seen(read)
  BY ProjectionIsSeen DEF IsSpec
<1>4. /\ read = [attrs |-> read.attrs, prov |-> read.prov]
      /\ DOMAIN read.prov = DOMAIN spec.map /\ DOMAIN read.attrs \subseteq DOMAIN spec.map
  BY ProjectionIs
<1>5. /\ filled.attrs = read.attrs
      /\ DOMAIN filled.prov = DOMAIN read.prov
      /\ \A a \in DOMAIN read.prov :
            filled.prov[a] = IF a \in Injected(spec, res) THEN Mark ELSE read.prov[a]
  <2> HIDE DEF read, Mark
  <2> QED
    BY <1>4 DEF AttestReferences, Mark
<1>6. Mark.observed
  BY DEF Attestation
<1>7. Seen(filled)
  <2> HIDE DEF read, filled, Mark
  <2> QED
    BY <1>3, <1>5, <1>6 DEF Seen
<1>8. \A a \in DOMAIN out.attrs :
        a \in DOMAIN out.prov /\ (out.prov[a].observed \/ out.prov[a].source = "descriptor:const")
  BY <1>7, ConstIs
<1>9. ASSUME NEW a, NEW f, a \notin DOMAIN spec.const, Knows(spec, res, a, f)
      PROVE  /\ out.prov[a].source # "configuration"
             /\ a \in DOMAIN out.attrs /\ ~out.prov[a].derived => out.attrs[a] = res.args[f]
  <2> DEFINE t == TransformOf(spec.transforms, a)
             one == ProjectOne(doc, spec.map[a], t)
  <2>1. a \in DOMAIN spec.map /\ a \notin Injected(spec, res)
    BY <1>9, KnownIsKept DEF Knows
  <2>2. /\ read.prov[a] = Attestation("terraform", spec.tf, one.observed, one.derived)
        /\ a \in DOMAIN read.attrs => one.value # Null /\ read.attrs[a] = one.value
    BY <2>1, ProjectionIs
  <2>3. out.prov[a] = Attestation("terraform", spec.tf, one.observed, one.derived)
    <3>1. a \in DOMAIN filled.prov /\ filled.prov[a] = read.prov[a]
      BY <1>4, <1>5, <2>1
    <3>2. out.prov[a] = filled.prov[a]
      BY <1>9, <3>1, ConstIs
    <3> QED
      BY <2>2, <3>1, <3>2
  <2>4. out.prov[a].source = spec.tf /\ out.prov[a].derived = one.derived
    BY <2>3 DEF Attestation
  <2>5. ASSUME a \in DOMAIN out.attrs, ~out.prov[a].derived PROVE out.attrs[a] = res.args[f]
    <3>1. a \in DOMAIN filled.attrs /\ out.attrs[a] = filled.attrs[a]
      BY <1>9, <2>5, ConstIs
    <3>2. one.value # Null /\ out.attrs[a] = one.value
      BY <1>5, <2>2, <3>1
    <3>3. t = << >> \/ Len(t) \in Nat
      BY SequenceDomain DEF TransformOf, IsSpec
    <3>4. IsSequence(spec.map[a])
      BY <2>1 DEF IsSpec
    <3>5. ~one.derived
      BY <2>4, <2>5
    <3>6. one.value = LookupCoalesce(doc, spec.map[a])
      <4> HIDE DEF t
      <4> QED
        BY <3>2, <3>3, <3>4, <3>5, ProjectedIsObserved
    <3>7. LookupCoalesce(doc, spec.map[a]) # Null
      BY <3>2, <3>6
    <3>8. LookupCoalesce(doc, spec.map[a]) = res.args[f]
      BY <1>9, <3>7, KnownIsRead
    <3> QED
      BY <3>2, <3>6, <3>8
  <2> QED
    BY <2>4, <2>5 DEF IsSpec
<1> HIDE DEF out
<1>10. Attested(m.resource)
  BY <1>2, <1>8 DEF Attested, Literals
<1>11. Truthful(m, res)
  BY <1>2, <1>9 DEF Truthful
<1> QED
  BY <1>10, <1>11
-----------------------------------------------------------------------------
(* The origin in the code.                                                 *)

\* The headers of a declaration in some directories.
HeadsOf(tree, dirs, decl) ==
    {h \in UNION {{d} \X DOMAIN tree[d] : d \in dirs \cap DOMAIN tree} : tree[h[1]][h[2]].decl = decl}

\* A header is given when it is the only one of its declaration.
LEMMA HeadersIs ==
    ASSUME NEW tree, NEW dirs, NEW decl, NEW header \in Headers(tree, dirs, decl)
    PROVE  \E h \in HeadsOf(tree, dirs, decl) :
                HeadsOf(tree, dirs, decl) = {h} /\ header = tree[h[1]][h[2]]
<1> DEFINE seen == UNION {{<<d, i>> : i \in {i \in DOMAIN tree[d] : tree[d][i].decl = decl}} :
                            d \in dirs \cap DOMAIN tree}
           heads == HeadsOf(tree, dirs, decl)
<1>1. seen = heads
  <2>1. ASSUME NEW h \in seen PROVE h \in heads
    <3>1. PICK d \in dirs \cap DOMAIN tree : h \in {<<d, i>> : i \in {i \in DOMAIN tree[d] : tree[d][i].decl = decl}}
      OBVIOUS
    <3>2. PICK i \in DOMAIN tree[d] : tree[d][i].decl = decl /\ h = <<d, i>>
      BY <3>1
    <3>3. h \in {d} \X DOMAIN tree[d] /\ h[1] = d /\ h[2] = i
      BY <3>2
    <3> QED
      BY <3>2, <3>3 DEF HeadsOf
  <2>2. ASSUME NEW h \in heads PROVE h \in seen
    <3>1. PICK d \in dirs \cap DOMAIN tree : h \in {d} \X DOMAIN tree[d]
      BY DEF HeadsOf
    <3>2. h[1] = d /\ h[2] \in DOMAIN tree[d] /\ h = <<h[1], h[2]>>
      BY <3>1
    <3>3. tree[d][h[2]].decl = decl
      BY <3>2 DEF HeadsOf
    <3> QED
      BY <3>2, <3>3
  <2> HIDE DEF seen, heads
  <2> QED
    BY <2>1, <2>2
<1>2. Headers(tree, dirs, decl) = {tree[at[1]][at[2]] : at \in {at \in seen : seen = {at}}}
  BY Zenon DEF Headers
<1> HIDE DEF seen
<1>3. PICK at \in {at \in seen : seen = {at}} : header = tree[at[1]][at[2]]
  BY <1>2
<1> QED
  BY <1>1, <1>3

\* A module whose address is cut leads to no directory.
LEMMA CutLeadsNowhere ==
    ASSUME NEW cfg, NEW address \in DOMAIN Parts, ModuleDirs(cfg, ModuleOf(address)) # {}
    PROVE  ModuleOf(address) = Parts[address].mods
<1> DEFINE mods == Parts[address].mods
           cuts == {i \in DOMAIN mods : mods[i].key \in Dotted}
           cut == CHOOSE i \in cuts : \A j \in cuts : i <= j
           out == ModuleOf(address)
<1>1. out = IF cuts = {} THEN mods
            ELSE [i \in 1 .. cut |-> IF i = cut THEN [call |-> mods[i].call, key |-> CutKey] ELSE mods[i]]
  BY Zenon DEF ModuleOf
<1> SUFFICES ASSUME cuts # {} PROVE FALSE
  BY <1>1
<1>2. cut \in cuts
  <2>1. cuts \in SUBSET Nat
    BY PlanAssumption, SequenceDomain
  <2> HIDE DEF cuts
  <2> QED
    BY <2>1, LeastIndex
<1>3. cut \in Nat \ {0}
  <2>1. cut \in DOMAIN mods
    BY <1>2
  <2>2. IsSequence(mods)
    BY PlanAssumption
  <2> HIDE DEF cut, mods
  <2>3. Len(mods) \in Nat /\ DOMAIN mods = 1 .. Len(mods)
    BY <2>2, SequenceDomain
  <2> QED
    BY <2>1, <2>3
<1> HIDE DEF cut, cuts, mods, out
<1>4. DOMAIN out = 1 .. cut /\ out[cut].key = CutKey
  BY <1>1, <1>3
<1>5. cut \in DOMAIN out /\ out # << >>
  BY <1>3, <1>4
<1>6. out[cut].key # NoKey
  BY <1>4 DEF CutKey, NoKey
<1>7. ModuleDirs(cfg, out) = {}
  BY <1>5, <1>6 DEF ModuleDirs
<1> QED
  BY <1>7 DEF out

Located(source) == source.file # ""

\* The place is that of the only header of the declaration among some.
IsOnlyHeader(heads, tree, decl, place) ==
    \E h \in heads : heads = {h} /\ tree[h[1]][h[2]] = [decl |-> decl, file |-> place.file, line |-> place.line]

\* An origin that names a file is the place of the only header of the declaration, in the
\* directory of its module.
LEMMA OriginIs ==
    ASSUME NEW plan, IsPlan(plan), NEW address \in DOMAIN Parts,
           NEW o, o = Origin(plan.sources, plan.configuration, address), Located(o),
           NEW decl, decl = Parts[address].decl,
           NEW heads, heads = HeadsOf(plan.sources, ModuleDirs(plan.configuration, Parts[address].mods), decl)
    PROVE  IsOnlyHeader(heads, plan.sources, decl, o)
<1> DEFINE module == ModuleOf(address)
           dirs == ModuleDirs(plan.configuration, module)
           headers == Headers(plan.sources, dirs, decl)
           choice == CHOOSE h \in headers : TRUE
<1>1. o = IF headers = {} THEN [NoSource EXCEPT !.module = module]
          ELSE [file |-> choice.file, line |-> choice.line, module |-> module]
  BY Zenon DEF Origin
<1>2. headers # {}
  <2> HIDE DEF headers, module
  <2>1. [NoSource EXCEPT !.module = module].file = ""
    BY DEF NoSource
  <2> QED
    BY <1>1, <2>1 DEF Located
<1>3. choice \in headers
  BY <1>2
<1> HIDE DEF choice
<1>4. PICK header \in headers : o = [file |-> header.file, line |-> header.line, module |-> module]
  <2> HIDE DEF headers, module
  <2> QED
    BY <1>1, <1>2, <1>3
<1>5. PICK h \in HeadsOf(plan.sources, dirs, decl) :
            HeadsOf(plan.sources, dirs, decl) = {h} /\ header = plan.sources[h[1]][h[2]]
  <2>1. header \in Headers(plan.sources, dirs, decl)
    BY <1>4
  <2> HIDE DEF dirs, headers
  <2> QED
    BY <2>1, HeadersIs
<1>6. /\ h[1] \in dirs /\ h[1] \in DOMAIN plan.sources /\ h[2] \in DOMAIN plan.sources[h[1]]
      /\ plan.sources[h[1]][h[2]].decl = decl
  <2> HIDE DEF dirs
  <2>1. PICK d \in dirs \cap DOMAIN plan.sources : h \in {d} \X DOMAIN plan.sources[d]
    BY DEF HeadsOf
  <2>2. h[1] = d /\ h[2] \in DOMAIN plan.sources[d]
    BY <2>1
  <2> QED
    BY <2>2 DEF HeadsOf
<1>7. module = Parts[address].mods
  BY <1>6, CutLeadsNowhere
<1>8. header = [decl |-> decl, file |-> header.file, line |-> header.line]
  <2>1. header \in ToSet(plan.sources[h[1]])
    BY <1>5, <1>6 DEF ToSet
  <2>2. header = [decl |-> header.decl, file |-> header.file, line |-> header.line]
    BY <1>6, <2>1 DEF IsPlan
  <2> QED
    BY <1>5, <1>6, <2>2
<1>9. heads = HeadsOf(plan.sources, dirs, decl)
  BY <1>7
<1>10. o.file = header.file /\ o.line = header.line
  BY <1>4
<1> HIDE DEF dirs
<1> QED
  BY <1>5, <1>8, <1>9, <1>10 DEF IsOnlyHeader
-----------------------------------------------------------------------------
(* The references.                                                         *)

\* Addresses in their order are those addresses.
LEMMA InOrderIs ==
    ASSUME NEW A, IsFiniteSet(A), A \subseteq DOMAIN Rank
    PROVE  IsSequence(InOrder(A)) /\ ToSet(InOrder(A)) = A
<1> DEFINE N == Cardinality(A)
           Lower(a) == {b \in A : Rank[b] < Rank[a]}
           Nth(k) == CHOOSE a \in A : Cardinality(Lower(a)) = k - 1
           out == InOrder(A)
<1>1. N \in Nat
  BY FS_CardinalityType
<1>2. /\ \A a \in A : Cardinality(Lower(a)) + 1 \in 1 .. N
      /\ \A a, b \in A : Cardinality(Lower(a)) = Cardinality(Lower(b)) => a = b
      /\ \A k \in 1 .. N : \E a \in A : Cardinality(Lower(a)) = k - 1
  <2>1. \A a \in A : Rank[a] \in Nat
    BY PlanAssumption
  <2>2. \A a, b \in A : Rank[a] = Rank[b] => a = b
    BY PlanAssumption
  <2>3. \A a : LowerIn(A, Rank, a) = Lower(a)
    BY DEF LowerIn
  <2> HIDE DEF N, Lower
  <2> QED
    BY <2>1, <2>2, <2>3, Places DEF N
<1>3. /\ DOMAIN out = 1 .. N /\ out = [k \in DOMAIN out |-> out[k]]
      /\ \A k \in 1 .. N : out[k] = Nth(k)
  <2>1. out = [k \in 1 .. N |-> Nth(k)]
    BY Zenon DEF InOrder
  <2> HIDE DEF N, Nth, out
  <2> QED
    BY <2>1
<1> HIDE DEF N, Lower, out
<1>4. \A k \in 1 .. N : Nth(k) \in A /\ Cardinality(Lower(Nth(k))) = k - 1
  BY <1>2
<1> HIDE DEF Nth
<1>5. IsSequence(out)
  BY <1>1, <1>3, FunctionIsSequence
<1>6. ToSet(out) \subseteq A
  BY <1>3, <1>4 DEF ToSet
<1>7. ASSUME NEW a \in A PROVE a \in ToSet(out)
  <2>1. PICK k \in 1 .. N : k = Cardinality(Lower(a)) + 1
    BY <1>2
  <2>2. Cardinality(Lower(a)) \in Nat
    <3>1. Lower(a) \subseteq A
      BY DEF Lower
    <3> QED
      BY <3>1, FS_Subset, FS_CardinalityType
  <2>3. Nth(k) = a
    BY <1>2, <1>4, <2>1, <2>2
  <2> QED
    BY <1>3, <2>1, <2>3 DEF ToSet
<1> QED
  BY <1>5, <1>6, <1>7 DEF out

\* What a reference designates is in the plan.
LEMMA ResoudreIsPlanned ==
    ASSUME NEW resources, NEW cfg, NEW cibles, NEW scope
    PROVE  Resoudre(resources, cfg, cibles, scope) \subseteq {resources[i].address : i \in DOMAIN resources}
<1> DEFINE Caller(d) == SubSeq(scope, 1, Len(scope) - d)
           One(d, t) == Cardinality(Instances(resources, Caller(d), t)) = 1
           asked[d \in 0 .. ProfondeurMax] ==
                IF d = 0 THEN cibles
                ELSE UNION {Passed(cfg, Caller(d - 1), t) : t \in {t \in asked[d - 1] : ~One(d - 1, t)}}
           found == UNION {UNION {Instances(resources, Caller(d), t) : t \in {t \in asked[d] : One(d, t)}} :
                              d \in 0 .. ProfondeurMax}
<1>1. Resoudre(resources, cfg, cibles, scope) = {resources[i].address : i \in found}
  BY Zenon DEF Resoudre
<1> HIDE DEF asked
<1>2. \A caller, t : Instances(resources, caller, t) \subseteq DOMAIN resources
  BY DEF Instances
<1> QED
  BY <1>1, <1>2

\* What a reference of a plan designates is a finite set of addresses.
LEMMA DesignatedIsFinite ==
    ASSUME NEW plan, IsPlan(plan), NEW cibles, NEW scope
    PROVE  LET found == Resoudre(Collected(plan), plan.configuration, cibles, scope)
           IN  IsFiniteSet(found) /\ found \subseteq DOMAIN Rank
<1> DEFINE c == Collected(plan)
           all == {c[i].address : i \in DOMAIN c}
           found == Resoudre(c, plan.configuration, cibles, scope)
<1>1. IsSequence(c) /\ \A i \in DOMAIN c : c[i] \in Typed(plan)
  BY CollectedIs DEF ToSet
<1>2. all \subseteq DOMAIN Rank
  <2>1. \A r \in Typed(plan) : r.address \in DOMAIN Rank
    BY DEF Typed, IsPlan
  <2> HIDE DEF c
  <2> QED
    BY <1>1, <2>1
<1>3. IsFiniteSet(all)
  <2> HIDE DEF c
  <2>1. Len(c) \in Nat /\ DOMAIN c = 1 .. Len(c)
    BY <1>1, SequenceDomain
  <2>2. IsFiniteSet(DOMAIN c)
    BY <2>1, FS_Interval
  <2> DEFINE address == [i \in DOMAIN c |-> c[i].address]
  <2>3. address \in Surjection(DOMAIN c, all)
    BY DEF Surjection
  <2> HIDE DEF address, all
  <2> QED
    BY <2>2, <2>3, FS_Surjection
<1>4. found \subseteq all
  BY ResoudreIsPlanned
<1> HIDE DEF c, all
<1>5. IsFiniteSet(found) /\ found \subseteq DOMAIN Rank
  BY <1>2, <1>3, <1>4, FS_Subset
<1> QED
  BY <1>5 DEF c, found

\* What the configuration refers to in a declaration, per argument.
Declared(cfg, address) ==
    IF ConfigAddress(address)[1] \in DOMAIN cfg /\ ConfigAddress(address)[2] \in DOMAIN cfg[ConfigAddress(address)[1]].refs
    THEN cfg[ConfigAddress(address)[1]].refs[ConfigAddress(address)[2]] ELSE [arg \in {} |-> {}]

\* The references of a planned resource are, per argument, what it designates.
LEMMA ReferencesDesignate ==
    ASSUME NEW plan, IsPlan(plan), NEW res \in ToSet(ParsePlan(plan))
    PROVE  LET declared == Declared(plan.configuration, res.address)
               Found(arg) == Resoudre(Collected(plan), plan.configuration, declared[arg],
                                      ConfigAddress(res.address)[1])
           IN  /\ DOMAIN res.references = {arg \in DOMAIN declared : Found(arg) # {}}
               /\ \A arg \in DOMAIN res.references :
                    IsSequence(res.references[arg]) /\ ToSet(res.references[arg]) = Found(arg)
<1> DEFINE c == Collected(plan)
           cfg == plan.configuration
           address == res.address
           scope == ConfigAddress(address)[1]
           declared == IF scope \in DOMAIN cfg /\ Parts[address].decl \in DOMAIN cfg[scope].refs
                       THEN cfg[scope].refs[Parts[address].decl] ELSE [arg \in {} |-> {}]
           Named(arg) == Resoudre(c, cfg, declared[arg], scope)
<1>1. res.references = References(c, cfg, address)
  <2>1. PICK k \in DOMAIN ParsePlan(plan) : res = ParsePlan(plan)[k]
    BY DEF ToSet
  <2>2. res.references = References(c, cfg, c[k].address) /\ address = c[k].address
    BY <2>1, PlannedIs
  <2> HIDE DEF c, cfg, address
  <2> QED
    BY <2>2
<1> HIDE DEF c
<1>2. References(c, cfg, address) = [arg \in {arg \in DOMAIN declared : Named(arg) # {}} |-> InOrder(Named(arg))]
  BY Zenon DEF References
<1>3. declared = Declared(cfg, address)
  BY DEF Declared, ConfigAddress
<1> HIDE DEF declared
<1>4. \A arg : IsSequence(InOrder(Named(arg))) /\ ToSet(InOrder(Named(arg))) = Named(arg)
  <2> TAKE arg
  <2>1. IsFiniteSet(Named(arg)) /\ Named(arg) \subseteq DOMAIN Rank
    BY DesignatedIsFinite DEF c
  <2> HIDE DEF Named
  <2> QED
    BY <2>1, InOrderIs
<1> HIDE DEF Named, cfg, address
<1>5. /\ DOMAIN res.references = {arg \in DOMAIN declared : Named(arg) # {}}
      /\ \A arg \in DOMAIN res.references :
            IsSequence(res.references[arg]) /\ ToSet(res.references[arg]) = Named(arg)
  BY <1>1, <1>2, <1>4
<1> QED
  BY <1>3, <1>5 DEF Named, cfg, address, c

\* The references of a planned resource are lists of addresses of the plan.
LEMMA ReferencesAre ==
    ASSUME NEW plan, IsPlan(plan), NEW res \in ToSet(ParsePlan(plan)), NEW f \in DOMAIN res.references
    PROVE  IsSequence(res.references[f]) /\ ToSet(res.references[f]) \subseteq DOMAIN Rank
<1> DEFINE found == Resoudre(Collected(plan), plan.configuration, Declared(plan.configuration, res.address)[f],
                             ConfigAddress(res.address)[1])
<1>1. IsSequence(res.references[f]) /\ ToSet(res.references[f]) = found
  BY ReferencesDesignate
<1>2. found \subseteq DOMAIN Rank
  BY DesignatedIsFinite
<1> QED
  BY <1>1, <1>2

-----------------------------------------------------------------------------
(* What a reference fills.                                                 *)

\* v names what is in a list.
IsNaming(v, refs) ==
    v.kind \in {"string", "list"} /\ IsSequence(v.of) /\ ToSet(v.of) = ToSet(refs) /\ ~IsEmpty(v)

KeepingOps == {"list", "default", "default_null"}

\* Steps that keep what is not empty keep names.
LEMMA StepNames ==
    ASSUME NEW v, NEW refs, IsNaming(v, refs), NEW step, step.op \in KeepingOps
    PROVE  IsNaming(Step(v, step), refs)
<1>1. CASE step.op = "list"
  <2>1. Step(v, step) = IF v.kind = "list" THEN v ELSE ListOf(IF IsEmpty(v) THEN <<>> ELSE v.of)
    BY <1>1, ReadingsAssumption DEF Step, PlainOps
  <2>2. Step(v, step) = IF v.kind = "list" THEN v ELSE ListOf(v.of)
    BY <2>1 DEF IsNaming
  <2>3. IsNaming(ListOf(v.of), refs)
    BY DEF IsNaming, ListOf, Val, IsEmpty, EmptyText, Text
  <2> QED
    BY <2>2, <2>3
<1>2. CASE step.op = "default"
  <2>1. Step(v, step) = IF IsEmpty(v) THEN Text(step.arg) ELSE v
    BY <1>2, ReadingsAssumption DEF Step, PlainOps
  <2> QED
    BY <2>1 DEF IsNaming
<1>3. CASE step.op = "default_null"
  <2>1. Step(v, step) = IF v = Null THEN Text(step.arg) ELSE v
    BY <1>3, ReadingsAssumption DEF Step, PlainOps
  <2>2. v # Null
    BY DEF IsNaming, Null, Val
  <2> QED
    BY <2>1, <2>2
<1> QED
  BY <1>1, <1>2, <1>3 DEF KeepingOps

\* So do transforms of such steps.
LEMMA TransformNames ==
    ASSUME NEW v, NEW refs, IsNaming(v, refs), NEW t, Len(t) \in Nat,
           \A k \in 1 .. Len(t) : t[k].op \in KeepingOps
    PROVE  IsNaming(ApplyTransform(v, t).value, refs)
<1> DEFINE n == Len(t)
<1>1. PICK c : Chains(c, v, t, n) /\ ApplyTransform(v, t) = c[n]
  BY TransformIs
<1>2. \A i \in 0 .. n : c[i] = IF i = 0 THEN [value |-> v, derived |-> FALSE]
                              ELSE After(c[i - 1], t[i])
  BY <1>1 DEF Chains
<1>3. n \in Nat /\ \A k \in 1 .. n : t[k].op \in KeepingOps
  OBVIOUS
<1> HIDE DEF n
<1> DEFINE Bad == {k \in 0 .. n : ~IsNaming(c[k].value, refs)}
<1>4. Bad = {}
  <2> SUFFICES ASSUME Bad # {} PROVE FALSE
    OBVIOUS
  <2>1. PICK k \in Bad : \A j \in Bad : k <= j
    <3>1. Bad \in SUBSET Nat
      BY <1>3
    <3> HIDE DEF Bad
    <3> QED
      BY <3>1, LeastIndex
  <2>2. k \in 0 .. n /\ ~IsNaming(c[k].value, refs)
    OBVIOUS
  <2>3. k # 0
    <3>1. k = 0 => c[k].value = v
      BY <1>2, <2>2
    <3> QED
      BY <2>2, <3>1
  <2>4. k - 1 \in 0 .. n /\ k - 1 \notin Bad
    <3>1. k - 1 \in 0 .. n
      BY <1>3, <2>2, <2>3
    <3> HIDE DEF Bad
    <3> QED
      BY <2>1, <2>2, <3>1
  <2> DEFINE acc == c[k - 1]
  <2>5. c[k] = After(acc, t[k])
    BY <1>2, <2>2, <2>3
  <2>6. IsNaming(acc.value, refs)
    BY <2>4
  <2>7. t[k].op \in KeepingOps
    BY <1>3, <2>2, <2>3
  <2> HIDE DEF Bad, acc
  <2>8. c[k].value = Step(acc.value, t[k])
    BY <2>5 DEF After
  <2> QED
    BY <2>2, <2>6, <2>7, <2>8, StepNames
<1>5. n \in 0 .. n
  BY <1>3
<1>6. IsNaming(c[n].value, refs)
  BY <1>4, <1>5
<1> QED
  BY <1>1, <1>6 DEF n

\* Two texts are two values.
LEMMA TextDiffers == ASSUME NEW x, NEW y, x # y PROVE Text(x) # Text(y)
<1>1. Text(x).of = <<x>> /\ Text(y).of = <<y>>
  BY DEF Text, Val
<1>2. <<x>>[1] = x /\ <<y>>[1] = y
  OBVIOUS
<1> QED
  BY <1>1, <1>2

\* One element is a sequence.
LEMMA OneIsSequence == ASSUME NEW x PROVE IsSequence(<<x>>) /\ ToSet(<<x>>) = {x}
<1>1. <<x>> \in Seq({x})
  OBVIOUS
<1>2. ToSet(<<x>>) = {x}
  BY DEF ToSet
<1> QED
  BY <1>1, <1>2, SequenceOfItself

\* It is a text that is not empty.
IsWritten(x) == x # ""

\* Such a text names itself.
LEMMA TextIsNaming == ASSUME NEW x, IsWritten(x) PROVE IsNaming(Text(x), <<x>>)
<1>1. Text(x) # EmptyText
  BY TextDiffers DEF EmptyText, IsWritten
<1>2. Text(x).kind = "string" /\ Text(x).of = <<x>>
  BY DEF Text, Val
<1>3. ~IsEmpty(Text(x))
  BY <1>1, <1>2 DEF IsEmpty
<1>4. IsSequence(<<x>>)
  BY OneIsSequence
<1> QED
  BY <1>2, <1>3, <1>4 DEF IsNaming

\* A list names what it holds.
LEMMA ListIsNaming == ASSUME NEW refs, IsSequence(refs) PROVE IsNaming(ListOf(refs), refs)
<1>1. ListOf(refs).kind = "list" /\ ListOf(refs).of = refs
  BY DEF ListOf, Val
<1>2. EmptyText.kind = "string"
  BY DEF EmptyText, Text, Val
<1>3. ~IsEmpty(ListOf(refs))
  BY <1>1, <1>2 DEF IsEmpty
<1> QED
  BY <1>1, <1>3 DEF IsNaming

\* A list of one is that one.
LEMMA OneIsItself ==
    ASSUME NEW refs, IsSequence(refs), Len(refs) = 1
    PROVE  ToSet(refs) = {refs[1]} /\ ToSet(<<refs[1]>>) = {refs[1]}
<1>1. DOMAIN refs = {1}
  BY SequenceDomain
<1> QED
  BY <1>1 DEF ToSet

AreWritten(refs) == IsSequence(refs) /\ "" \notin ToSet(refs)

\* What is injected in an argument names its references.
LEMMA ArgumentNames ==
    ASSUME NEW spec, NEW res, NEW a \in Injected(spec, res), NEW f, Names(spec, a, f),
           NEW refs, refs = res.references[f], AreWritten(refs)
    PROVE  IsNaming(WithReferences(spec, res)[f], refs)
<1> DEFINE filled == UNION {Argument(spec.map[b]) : b \in Injected(spec, res)}
           Address(g) == IF Len(res.references[g]) = 1 THEN Text(res.references[g][1])
                         ELSE ListOf(res.references[g])
<1>1. f \in filled
  <2>1. PICK g \in Argument(spec.map[a]) : TRUE
    BY DEF Injected
  <2>2. f \in Argument(spec.map[a])
    BY <2>1 DEF Argument, Names
  <2> QED
    BY <2>2
<1>2. WithReferences(spec, res) =
        [g \in filled \cup DOMAIN res.args |-> IF g \in filled THEN Address(g) ELSE res.args[g]]
  BY Zenon DEF WithReferences
<1>3. WithReferences(spec, res)[f] = Address(f)
  <2> HIDE DEF filled, Address
  <2> QED
    BY <1>1, <1>2
<1>4. Address(f) = IF Len(refs) = 1 THEN Text(refs[1]) ELSE ListOf(refs)
  OBVIOUS
<1> HIDE DEF Address
<1>5. CASE Len(refs) = 1
  <2> DEFINE x == refs[1]
  <2>1. ToSet(refs) = {x} /\ ToSet(<<x>>) = {x}
    BY <1>5, OneIsItself DEF AreWritten
  <2>2. IsWritten(x)
    BY <2>1 DEF AreWritten, IsWritten
  <2> HIDE DEF x
  <2>3. IsNaming(Text(x), <<x>>)
    BY <2>2, TextIsNaming
  <2>4. IsNaming(Text(x), refs)
    BY <2>1, <2>3 DEF IsNaming
  <2> QED
    BY <1>3, <1>4, <1>5, <2>4 DEF x
<1>6. CASE Len(refs) # 1
  <2>1. IsNaming(ListOf(refs), refs)
    BY ListIsNaming DEF AreWritten
  <2> QED
    BY <1>3, <1>4, <1>6, <2>1
<1> QED
  BY <1>5, <1>6

\* One path is read as it is.
LEMMA OneLookup ==
    ASSUME NEW doc, NEW alts, DOMAIN alts = {1}
    PROVE  LookupCoalesce(doc, alts) = Lookup(doc, alts[1])
<1> DEFINE read == {i \in DOMAIN alts : Lookup(doc, alts[i]) # Null}
           first == CHOOSE i \in read : \A j \in read : i <= j
<1>1. LookupCoalesce(doc, alts) = IF read = {} THEN Null ELSE Lookup(doc, alts[first])
  BY DEF LookupCoalesce
<1>2. CASE Lookup(doc, alts[1]) = Null
  <2>1. read = {}
    BY <1>2
  <2> HIDE DEF read, first
  <2> QED
    BY <1>1, <1>2, <2>1
<1>3. CASE Lookup(doc, alts[1]) # Null
  <2>1. read = {1}
    BY <1>3
  <2> HIDE DEF read
  <2>2. first = 1
    <3>1. 1 \in read /\ \A j \in read : 1 <= j
      BY <2>1
    <3>2. first \in read
      BY <3>1
    <3> QED
      BY <2>1, <3>2
  <2> HIDE DEF first
  <2> QED
    BY <1>1, <2>1, <2>2
<1> QED
  BY <1>2, <1>3

IsKeeping(t) == t = << >> \/ (Len(t) \in Nat /\ \A k \in 1 .. Len(t) : t[k].op \in KeepingOps)

\* An attribute that an argument fills, and that nothing converts, names the references of the
\* argument.
LEMMA HoleIsRead ==
    ASSUME NEW spec, IsSpec(spec), NEW res, NEW i \in DOMAIN ItemsOf(spec, res),
           NEW a \in Injected(spec, res), NEW f, Reads(spec, a, f),
           NEW refs, refs = res.references[f], AreWritten(refs),
           NEW t, IsKeeping(t), ProjectOne(ItemsOf(spec, res)[i], spec.map[a], t).value # Null
    PROVE  IsNaming(ProjectOne(ItemsOf(spec, res)[i], spec.map[a], t).value, refs)
<1> DEFINE doc == ItemsOf(spec, res)[i]
           alts == spec.map[a]
           v == LookupCoalesce(doc, alts)
           present == SourcePresent(doc, alts)
           out == ApplyTransform(v, t)
           one == ProjectOne(doc, alts, t)
<1>1. IsSequence(alts) /\ DOMAIN alts = {1}
  BY OnePath
<1>2. one = IF t = << >> THEN [value |-> v, observed |-> present, derived |-> FALSE]
            ELSE IF v = Null /\ ~present THEN [value |-> Null, observed |-> FALSE, derived |-> FALSE]
            ELSE [value |-> out.value, observed |-> present, derived |-> out.value # Null /\ out.derived]
  BY DEF ProjectOne
<1>3. one.observed
  BY <1>1, ProjectedIsObserved
<1>4. present
  <2> HIDE DEF v, present, out, one
  <2> QED
    BY <1>2, <1>3
<1>5. PathExists(doc, alts[1])
  <2> HIDE DEF doc, alts
  <2> QED
    BY <1>1, <1>4 DEF SourcePresent
<1>6. Lookup(doc, alts[1]) = WithReferences(spec, res)[f]
  <2> DEFINE values == WithReferences(spec, res)
  <2>1. Lookup(doc, alts[1]) = doc[alts[1].from][alts[1].field]
    <3> HIDE DEF doc, alts
    <3> QED
      BY <1>5 DEF Lookup
  <2>2. Leads(doc, alts[1], values[f])
    <3>1. i \in DOMAIN ItemsOf(spec, res)
      OBVIOUS
    <3> QED
      BY <1>5, <3>1, PathLeads
  <2> HIDE DEF doc, alts, values
  <2>3. Lookup(doc, alts[1]) = values[f]
    BY <2>1, <2>2 DEF Leads
  <2> QED
    BY <2>3 DEF values
<1>7. IsNaming(Lookup(doc, alts[1]), refs)
  <2>1. IsNaming(WithReferences(spec, res)[f], refs)
    BY ArgumentNames DEF Reads
  <2> HIDE DEF doc, alts
  <2> QED
    BY <1>6, <2>1
<1> HIDE DEF doc, alts
<1>8. v = Lookup(doc, alts[1])
  BY <1>1, OneLookup
<1>9. IsNaming(v, refs)
  <2> HIDE DEF v
  <2> QED
    BY <1>7, <1>8
<1> HIDE DEF v, one, present, out
<1>10. IsNaming(one.value, refs)
  <2>1. CASE t = << >>
    <3>1. one.value = v
      BY <1>2, <2>1
    <3> QED
      BY <1>9, <3>1
  <2>2. CASE t # << >>
    <3>1. IsNaming(out.value, refs)
      <4>1. Len(t) \in Nat /\ \A k \in 1 .. Len(t) : t[k].op \in KeepingOps
        BY <2>2 DEF IsKeeping
      <4> QED
        BY <1>9, <4>1, TransformNames DEF out
    <3>2. one.value = out.value
      BY <1>2, <1>4, <2>2
    <3> QED
      BY <3>1, <3>2
  <2> QED
    BY <2>1, <2>2
<1> QED
  BY <1>10 DEF one, doc, alts

\* An attribute that a reference fills, and that nothing sets nor converts.
FillsHole(spec, a) ==
    /\ spec.items = "" \/ spec.map[a][1].from = "parent"
    /\ a \notin DOMAIN spec.const
    /\ IsKeeping(TransformOf(spec.transforms, a))

\* An attribute that is injected has one argument, which the references fill.
LEMMA InjectedIsReferred ==
    ASSUME NEW spec, NEW res, NEW a \in Injected(spec, res)
    PROVE  a \in DOMAIN spec.map /\ Len(spec.map[a]) = 1 /\ spec.map[a][1].field \in DOMAIN res.references
<1>1. a \in DOMAIN spec.map
  BY DEF Injected
<1>2. PICK f \in Argument(spec.map[a]) : f \in DOMAIN res.references
  BY DEF Injected
<1>3. Len(spec.map[a]) = 1 /\ f = spec.map[a][1].field
  BY <1>2 DEF Argument
<1> QED
  BY <1>1, <1>2, <1>3

\* What is made of it names the references of its argument.
LEMMA MadeNames ==
    ASSUME NEW plan, IsPlan(plan), NEW res \in ToSet(ParsePlan(plan)), NEW provider,
           NEW spec, IsSpec(spec), NEW m, MadeOf(provider, m, spec, res),
           NEW a \in Injected(spec, res), FillsHole(spec, a), a \in DOMAIN m.resource.attrs
    PROVE  IsNaming(m.resource.attrs[a], res.references[spec.map[a][1].field])
<1>1. PICK i \in DOMAIN ItemsOf(spec, res) : m = Make(provider, spec, res, ItemsOf(spec, res)[i])
  BY DEF MadeOf
<1> DEFINE doc == ItemsOf(spec, res)[i]
           read == ProjectAttested(doc, spec.map, spec.transforms, [origin |-> "terraform", ref |-> spec.tf])
           filled == AttestReferences(read, spec, res)
           out == WithConst(filled, spec.const)
           t == TransformOf(spec.transforms, a)
           one == ProjectOne(doc, spec.map[a], t)
           f == spec.map[a][1].field
           refs == res.references[f]
<1>2. m.resource.attrs = out.attrs
  BY <1>1 DEF Make
<1>3. read = [attrs |-> read.attrs, prov |-> read.prov]
  BY ProjectionIs
<1>4. filled.attrs = read.attrs
  <2> HIDE DEF read
  <2> QED
    BY <1>3 DEF AttestReferences
<1>5. a \in DOMAIN spec.map /\ Len(spec.map[a]) = 1 /\ f \in DOMAIN res.references
  BY InjectedIsReferred
<1>6. a \in DOMAIN filled.attrs /\ out.attrs[a] = filled.attrs[a]
  <2>1. out = WithConst(filled, spec.const) /\ a \notin DOMAIN spec.const /\ a \in DOMAIN out.attrs
    BY <1>2 DEF FillsHole
  <2> HIDE DEF filled, out
  <2> QED
    BY <2>1, ConstIs
<1>7. a \in DOMAIN read.attrs => one.value # Null /\ read.attrs[a] = one.value
  BY <1>5, ProjectionIs
<1>8. one.value # Null /\ m.resource.attrs[a] = one.value
  BY <1>2, <1>4, <1>6, <1>7
<1>9. AreWritten(refs)
  <2> HIDE DEF f
  <2>1. IsSequence(refs) /\ ToSet(refs) \subseteq DOMAIN Rank
    BY <1>5, ReferencesAre
  <2> HIDE DEF refs
  <2> QED
    BY <2>1, PlanAssumption, AddressAssumption DEF AreWritten
<1>10. Reads(spec, a, f) /\ IsKeeping(t)
  BY <1>5 DEF Reads, Names, FillsHole
<1>11. IsNaming(one.value, refs)
  <2> HIDE DEF f, t, refs
  <2> QED
    BY <1>8, <1>9, <1>10, HoleIsRead DEF refs
<1> HIDE DEF one
<1> QED
  BY <1>8, <1>11

-----------------------------------------------------------------------------
(* The second pass.                                                        *)

\* The identity that the second pass gives to a text.
IdOf(ids, t) == IF t \in DOMAIN ids THEN ids[t] ELSE t
IdentitiesOf(ids, names) == {IdOf(ids, t) : t \in names}

\* It gives the identities of what an attribute names, and keeps the identity of the resource
\* unless a reference fills it.
LEMMA ResolvedNames ==
    ASSUME NEW provider, NEW spec, NEW res, NEW m, MadeOf(provider, m, spec, res), NEW ids
    PROVE  /\ m.spec.id \notin m.injected => ResoudreVersLIdentite(m, ids).id = m.resource.id
           /\ DOMAIN ResoudreVersLIdentite(m, ids).attrs = DOMAIN m.resource.attrs
           /\ \A a \in m.injected \cap DOMAIN m.resource.attrs : \A refs :
                IsNaming(m.resource.attrs[a], refs) =>
                    ToSet(ResoudreVersLIdentite(m, ids).attrs[a].of) = IdentitiesOf(ids, ToSet(refs))
<1>1. PICK i \in DOMAIN ItemsOf(spec, res) : m = Make(provider, spec, res, ItemsOf(spec, res)[i])
  BY DEF MadeOf
<1> DEFINE r == m.resource
           Id(t) == IF t \in DOMAIN ids THEN ids[t] ELSE t
           Of(v) == IF v.kind \in {"string", "list"}
                    THEN Val(v.kind, [j \in DOMAIN v.of |-> Id(v.of[j])]) ELSE v
           id == IF m.spec.id \in m.injected THEN Id(r.id) ELSE r.id
           attrs == [a \in DOMAIN r.attrs |-> IF a \in m.injected THEN Of(r.attrs[a]) ELSE r.attrs[a]]
           out == ResoudreVersLIdentite(m, ids)
<1>2. r = [provider |-> r.provider, type |-> r.type, id |-> r.id, name |-> r.name,
           region |-> r.region, attrs |-> r.attrs, prov |-> r.prov, source |-> r.source]
  BY <1>1 DEF Make
<1>3. out = [r EXCEPT !.id = id, !.name = IF r.name = r.id THEN id ELSE r.name, !.attrs = attrs]
  BY Zenon DEF ResoudreVersLIdentite
<1>4. out.id = id /\ out.attrs = attrs
  <2> HIDE DEF r, id, attrs, out
  <2> QED
    BY <1>2, <1>3
<1>5. ASSUME NEW a \in m.injected \cap DOMAIN r.attrs, NEW refs, IsNaming(r.attrs[a], refs)
      PROVE  ToSet(out.attrs[a].of) = IdentitiesOf(ids, ToSet(refs))
  <2> DEFINE v == r.attrs[a]
             s == v.of
             mapped == [j \in DOMAIN s |-> IdOf(ids, s[j])]
  <2>1. out.attrs[a] = Of(v)
    <3> HIDE DEF r, Of, out
    <3> QED
      BY <1>4, <1>5
  <2>2. Of(v) = Val(v.kind, mapped)
    <3> HIDE DEF r
    <3> QED
      BY <1>5 DEF IsNaming, IdOf
  <2>3. out.attrs[a].of = mapped
    <3> HIDE DEF v, mapped, Of, out
    <3> QED
      BY <2>1, <2>2 DEF Val
  <2>4. ToSet(s) = ToSet(refs)
    BY <1>5 DEF IsNaming
  <2> HIDE DEF s, out
  <2>5. ToSet(mapped) = IdentitiesOf(ids, ToSet(s))
    BY DEF ToSet, IdentitiesOf
  <2> QED
    BY <2>3, <2>4, <2>5
<1>6. DOMAIN attrs = DOMAIN r.attrs
  OBVIOUS
<1> QED
  BY <1>4, <1>5, <1>6

\* A set of places that is not empty has a last one.
LEMMA LastIndex ==
    ASSUME NEW n \in Nat, NEW S \in SUBSET (1 .. n), S # {}
    PROVE  \E i \in S : \A j \in S : j <= i
<1> DEFINE T == {n - j : j \in S}
<1>1. T \in SUBSET Nat /\ T # {}
  <2>1. \A j \in S : n - j \in Nat
    OBVIOUS
  <2> QED
    BY <2>1
<1>2. PICK k \in T : \A l \in T : k <= l
  <2> HIDE DEF T
  <2> QED
    BY <1>1, LeastIndex
<1>3. PICK i \in S : k = n - i
  OBVIOUS
<1>4. ASSUME NEW j \in S PROVE j <= i
  <2>1. n - j \in T
    OBVIOUS
  <2>2. n - i <= n - j
    BY <1>2, <1>3, <2>1
  <2> QED
    BY <2>2
<1> QED
  BY <1>4

\* The identity of an address is the one of what was made last of it; an address of which
\* nothing is made keeps its text.
LEMMA IdentityOfAddress ==
    ASSUME NEW made, IsSequence(made), NEW address
    PROVE  LET mine == {j \in DOMAIN made : made[j].address = address} IN
           /\ mine = {} => IdOf(IdParAdresse(made), address) = address
           /\ mine # {} => \E j \in mine : IdOf(IdParAdresse(made), address) = made[j].resource.id
<1> DEFINE mine == {j \in DOMAIN made : made[j].address = address}
           last == CHOOSE i \in mine : \A j \in mine : j <= i
           ids == IdParAdresse(made)
<1>1. address \in DOMAIN ids <=> mine # {}
  <2>1. DOMAIN ids = {made[j].address : j \in DOMAIN made}
    BY DEF IdParAdresse
  <2> HIDE DEF ids
  <2> QED
    BY <2>1
<1>2. mine # {} => ids[address] = made[last].resource.id
  BY DEF IdParAdresse
<1>3. mine # {} => last \in mine
  <2> SUFFICES ASSUME mine # {} PROVE \E i \in mine : \A j \in mine : j <= i
    <3> HIDE DEF mine
    <3> QED
      OBVIOUS
  <2>1. Len(made) \in Nat /\ mine \subseteq 1 .. Len(made)
    BY SequenceDomain
  <2> HIDE DEF mine
  <2> QED
    BY <2>1, LastIndex
<1> HIDE DEF mine, last, ids
<1>4. IdOf(ids, address) = IF mine # {} THEN made[last].resource.id ELSE address
  BY <1>1, <1>2 DEF IdOf
<1> QED
  BY <1>3, <1>4 DEF mine, ids

-----------------------------------------------------------------------------
(* What a reference reaches.                                               *)

\* The module that calls another, and the one that is d calls above.
CallerOf(s) == SubSeq(s, 1, Len(s) - 1)
Above(scope, d) == SubSeq(scope, 1, Len(scope) - d)

\* One call above the one that is d above is the one that is d + 1 above.
LEMMA AboveIs ==
    ASSUME NEW scope, IsSequence(scope), NEW d \in Nat
    PROVE  /\ Above(scope, 0) = scope
           /\ Above(scope, d) # << >> <=> d < Len(scope)
           /\ d < Len(scope) => CallerOf(Above(scope, d)) = Above(scope, d + 1)
<1> DEFINE S == ToSet(scope)
           n == Len(scope)
<1>1. scope \in Seq(S)
  BY DEF IsSequence
<1> HIDE DEF S
<1>2. n \in Nat /\ DOMAIN scope = 1 .. n /\ \A i \in 1 .. n : scope[i] \in S
  BY <1>1
<1>3. Above(scope, 0) = scope
  BY <1>1, SubSeqFull DEF Above
<1> HIDE DEF n
<1>4. ASSUME NEW k \in Nat
      PROVE  LET up == Above(scope, k) IN
             /\ up \in Seq(S) /\ Len(up) = (IF k < n THEN n - k ELSE 0)
             /\ k < n => \A i \in 1 .. n - k : up[i] = scope[i]
             /\ ~(k < n) => up = << >>
  <2> DEFINE m == n - k
             up == Above(scope, k)
  <2>1. m \in Int /\ \A i \in 1 .. m : scope[i] \in S
    BY <1>2
  <2>2. up = SubSeq(scope, 1, m)
    BY DEF Above, n
  <2>3. m < 1 <=> ~(k < n)
    BY <1>2
  <2> HIDE DEF m, up
  <2>4. /\ up \in Seq(S) /\ Len(up) = (IF 1 <= m THEN m - 1 + 1 ELSE 0)
        /\ \A i \in 1 .. m - 1 + 1 : up[i] = scope[1 + i - 1]
    BY <2>1, <2>2, SubSeqProperties
  <2>5. m < 1 => up = << >>
    BY <2>1, <2>2, SubSeqEmpty
  <2>6. m - 1 + 1 = m /\ \A i \in 1 .. m : 1 + i - 1 = i
    BY <2>1
  <2>7. /\ up \in Seq(S) /\ Len(up) = (IF k < n THEN m ELSE 0)
        /\ k < n => \A i \in 1 .. m : up[i] = scope[i]
        /\ ~(k < n) => up = << >>
    BY <2>1, <2>3, <2>4, <2>5, <2>6
  <2> QED
    BY <2>7 DEF m, up
<1>5. Above(scope, d) # << >> <=> d < n
  <2>1. d < n => Len(Above(scope, d)) # 0
    BY <1>2, <1>4
  <2>2. Len(<< >>) = 0
    OBVIOUS
  <2> QED
    BY <1>4, <2>1, <2>2
<1>6. ASSUME d < n PROVE CallerOf(Above(scope, d)) = Above(scope, d + 1)
  <2> DEFINE up == Above(scope, d)
             m == n - d
             out == CallerOf(up)
             next == Above(scope, d + 1)
  <2>1. /\ m \in Nat \ {0} /\ up \in Seq(S) /\ Len(up) = m
        /\ \A i \in 1 .. m : up[i] = scope[i]
    BY <1>2, <1>4, <1>6
  <2>2. next \in Seq(S) /\ Len(next) = m - 1 /\ \A i \in 1 .. m - 1 : next[i] = scope[i]
    <3>1. d + 1 \in Nat /\ (d + 1 < n => n - (d + 1) = m - 1) /\ (~(d + 1 < n) => m - 1 = 0)
      BY <1>2, <1>6
    <3> HIDE DEF next, m
    <3>2. d + 1 < n => Len(next) = n - (d + 1) /\ \A i \in 1 .. n - (d + 1) : next[i] = scope[i]
      BY <1>4, <3>1 DEF next
    <3>3. ~(d + 1 < n) => Len(next) = 0
      BY <1>4, <3>1 DEF next
    <3>4. next \in Seq(S)
      BY <1>4, <3>1 DEF next
    <3> QED
      BY <3>1, <3>2, <3>3, <3>4
  <2>3. out \in Seq(S) /\ Len(out) = m - 1 /\ \A i \in 1 .. m - 1 : out[i] = scope[i]
    <3> HIDE DEF up, m
    <3>1. out = SubSeq(up, 1, m - 1)
      BY <2>1 DEF CallerOf
    <3>2. m - 1 \in Nat /\ \A i \in 1 .. m - 1 : up[i] \in S /\ up[i] = scope[i]
      BY <2>1
    <3> HIDE DEF out
    <3>3. /\ out \in Seq(S) /\ Len(out) = (IF 1 <= m - 1 THEN m - 1 - 1 + 1 ELSE 0)
          /\ \A i \in 1 .. m - 1 - 1 + 1 : out[i] = up[1 + i - 1]
      BY <3>1, <3>2, SubSeqProperties
    <3>4. m - 1 - 1 + 1 = m - 1 /\ \A i \in 1 .. m - 1 : 1 + i - 1 = i
      BY <3>2
    <3> QED
      BY <3>2, <3>3, <3>4
  <2> HIDE DEF out, next, m
  <2>4. out = next
    BY <2>1, <2>2, <2>3
  <2> QED
    BY <2>4 DEF out, next
<1> QED
  BY <1>3, <1>5, <1>6 DEF n

\* What the callers passed for the variables of A, asked in the module d calls above the scope.
Followed(resources, cfg, scope, d, A) ==
    UNION {Passed(cfg, Above(scope, d), t) :
            t \in {t \in A : ~(Cardinality(Instances(resources, Above(scope, d), t)) = 1)}}

\* What is asked, module after module, up to a depth.
Asks(asked, resources, cfg, cibles, scope, n) ==
    /\ asked = [d \in 0 .. n |-> asked[d]]
    /\ \A d \in 0 .. n :
        asked[d] = IF d = 0 THEN cibles ELSE Followed(resources, cfg, scope, d - 1, asked[d - 1])

\* The function that Resoudre defines by recursion exists.
LEMMA AsksExist ==
    ASSUME NEW n \in Nat, NEW resources, NEW cfg, NEW cibles, NEW scope
    PROVE  \E asked : Asks(asked, resources, cfg, cibles, scope, n)
<1> DEFINE Answers(d, A) == Followed(resources, cfg, scope, d, A)
           Chain(a, k) == /\ a = [d \in 0 .. k |-> a[d]]
                          /\ \A d \in 0 .. k : a[d] = IF d = 0 THEN cibles ELSE Answers(d - 1, a[d - 1])
           Bad == {k \in 0 .. n : ~ \E a : Chain(a, k)}
<1>1. \A a, k : Chain(a, k) <=> Asks(a, resources, cfg, cibles, scope, k)
  BY DEF Asks
<1> HIDE DEF Answers
<1> SUFFICES ASSUME Bad # {} PROVE FALSE
  <2>1. n \in 0 .. n
    OBVIOUS
  <2>2. Bad = {} => \E a : Chain(a, n)
    BY <2>1
  <2> HIDE DEF Chain, Bad
  <2> QED
    BY <1>1, <2>2
<1>2. PICK k \in Bad : \A j \in Bad : k <= j
  <2>1. Bad \in SUBSET Nat
    OBVIOUS
  <2> HIDE DEF Bad
  <2> QED
    BY <2>1, LeastIndex
<1>3. k \in 0 .. n /\ ~ \E a : Chain(a, k)
  OBVIOUS
<1>4. k # 0
  <2>1. Chain([d \in 0 .. 0 |-> cibles], 0)
    OBVIOUS
  <2> HIDE DEF Chain
  <2> QED
    BY <1>3, <2>1
<1>5. k - 1 \in 0 .. n
  BY <1>3, <1>4
<1>6. k - 1 \notin Bad
  <2> HIDE DEF Bad
  <2> QED
    BY <1>2, <1>3
<1>7. PICK a : Chain(a, k - 1)
  BY <1>5, <1>6
<1> HIDE DEF Bad
<1> DEFINE h == [d \in 0 .. k |-> IF d <= k - 1 THEN a[d] ELSE Answers(d - 1, a[d - 1])]
<1>8. ASSUME NEW d \in 0 .. k
      PROVE  h[d] = IF d = 0 THEN cibles ELSE Answers(d - 1, h[d - 1])
  <2>1. k \in Nat /\ d \in Nat
    BY <1>3
  <2>2. h[d] = IF d <= k - 1 THEN a[d] ELSE Answers(d - 1, a[d - 1])
    OBVIOUS
  <2>3. d # 0 => h[d - 1] = a[d - 1]
    BY <2>1
  <2> HIDE DEF h
  <2>4. CASE d <= k - 1
    <3>1. d \in 0 .. k - 1
      BY <2>1, <2>4
    <3>2. a[d] = IF d = 0 THEN cibles ELSE Answers(d - 1, a[d - 1])
      BY <1>7, <3>1
    <3> QED
      BY <2>2, <2>3, <2>4, <3>2
  <2>5. CASE ~(d <= k - 1)
    <3>1. d # 0
      BY <1>4, <2>1, <2>5
    <3> QED
      BY <2>2, <2>3, <2>5, <3>1
  <2> QED
    BY <2>4, <2>5
<1>9. h = [d \in 0 .. k |-> h[d]]
  OBVIOUS
<1> HIDE DEF h
<1>10. Chain(h, k)
  BY <1>8, <1>9
<1> HIDE DEF Chain
<1> QED
  BY <1>3, <1>10

\* A reference designates what a traversal that is asked, up to the depth, has as its only
\* instance.
Designated(resources, asked, scope, x) ==
    \E d \in 0 .. ProfondeurMax : \E t \in asked[d] : \E i \in Instances(resources, Above(scope, d), t) :
        /\ Cardinality(Instances(resources, Above(scope, d), t)) = 1
        /\ x = resources[i].address

\* What a reference resolves to is what such sets of traversals designate.
LEMMA ResoudreIs ==
    ASSUME NEW resources, NEW cfg, NEW cibles, NEW scope
    PROVE  \E asked : /\ Asks(asked, resources, cfg, cibles, scope, ProfondeurMax)
                      /\ \A x : x \in Resoudre(resources, cfg, cibles, scope)
                                <=> Designated(resources, asked, scope, x)
<1> DEFINE Caller(d) == SubSeq(scope, 1, Len(scope) - d)
           One(d, t) == Cardinality(Instances(resources, Caller(d), t)) = 1
           P(a) == a = [d \in 0 .. ProfondeurMax |->
                        IF d = 0 THEN cibles
                        ELSE UNION {Passed(cfg, Caller(d - 1), t) : t \in {t \in a[d - 1] : ~One(d - 1, t)}}]
           asked == CHOOSE a : P(a)
           found == UNION {UNION {Instances(resources, Caller(d), t) : t \in {t \in asked[d] : One(d, t)}} :
                              d \in 0 .. ProfondeurMax}
<1>1. Resoudre(resources, cfg, cibles, scope) = {resources[i].address : i \in found}
  BY Zenon DEF Resoudre
<1>2. \A a : P(a) <=> Asks(a, resources, cfg, cibles, scope, ProfondeurMax)
  <2> TAKE a
  <2> DEFINE A(d) == UNION {Passed(cfg, Caller(d - 1), t) : t \in {t \in a[d - 1] : ~One(d - 1, t)}}
  <2>1. \A d : A(d) = Followed(resources, cfg, scope, d - 1, a[d - 1])
    BY Zenon DEF Followed, Above
  <2>2. P(a) <=> a = [d \in 0 .. ProfondeurMax |-> IF d = 0 THEN cibles ELSE A(d)]
    OBVIOUS
  <2> HIDE DEF P, A
  <2> QED
    BY <2>1, <2>2 DEF Asks
<1>3. P(asked)
  <2>1. \E a : P(a)
    <3> HIDE DEF P
    <3> QED
      BY <1>2, AsksExist DEF ProfondeurMax
  <2> HIDE DEF P
  <2> QED
    BY <2>1
<1>4. \A x : x \in {resources[i].address : i \in found} <=> Designated(resources, asked, scope, x)
  <2>1. \A d : Caller(d) = Above(scope, d)
    BY DEF Above
  <2>2. \A i : i \in found <=> \E d \in 0 .. ProfondeurMax : \E t \in asked[d] :
            One(d, t) /\ i \in Instances(resources, Caller(d), t)
    <3> HIDE DEF asked, One, Caller
    <3> QED
      OBVIOUS
  <2> HIDE DEF asked, Caller, found
  <2> QED
    BY <2>1, <2>2 DEF Designated
<1> HIDE DEF P, asked, found
<1> QED
  BY <1>1, <1>2, <1>3, <1>4

\* What callers pass, each in its module; the sets that are closed under it; and what every
\* closed set holds that holds the traversals of an argument.
PassedIn(cfg) ==
    UNION {UNION {{<<CallerOf(s), t>> : t \in cfg[s].args[v]} : v \in DOMAIN cfg[s].args} : s \in DOMAIN cfg}
ClosedIn(cfg, N) ==
    \A s \in DOMAIN cfg : \A v \in DOMAIN cfg[s].args :
        <<s, [root |-> "var", target |-> v]>> \in N /\ s # << >> =>
            \A t \in cfg[s].args[v] : <<CallerOf(s), t>> \in N
StartOf(scope, cibles) == {<<scope, t>> : t \in cibles}
ReachedFrom(cfg, start) ==
    {n \in start \cup PassedIn(cfg) :
        \A N \in SUBSET PassedIn(cfg) : ClosedIn(cfg, start \cup N) => n \in start \cup N}

\* What is passed for a variable is passed by the caller of its module.
LEMMA PassedIs ==
    ASSUME NEW cfg, NEW scope, NEW u, NEW t \in Passed(cfg, scope, u)
    PROVE  /\ u.root = "var" /\ scope # << >> /\ scope \in DOMAIN cfg
           /\ u.target \in DOMAIN cfg[scope].args /\ t \in cfg[scope].args[u.target]
           /\ <<CallerOf(scope), t>> \in PassedIn(cfg)
<1>1. u.root = "var" /\ scope # << >> /\ scope \in DOMAIN cfg
  BY DEF Passed
<1>2. t \in At(cfg[scope].args, u.target)
  BY <1>1 DEF Passed
<1>3. u.target \in DOMAIN cfg[scope].args /\ t \in cfg[scope].args[u.target]
  BY <1>2 DEF At
<1>4. <<CallerOf(scope), t>> \in PassedIn(cfg)
  BY <1>1, <1>3 DEF PassedIn
<1> QED
  BY <1>1, <1>3, <1>4

\* What is asked is reached.
LEMMA AskedIsReached ==
    ASSUME NEW cfg, IsConfiguration(cfg), NEW resources, NEW scope, IsSequence(scope),
           NEW cibles, \A t \in cibles : IsTraversal(t), NEW n \in Nat, NEW asked,
           Asks(asked, resources, cfg, cibles, scope, n)
    PROVE  \A d \in 0 .. n : \A t \in asked[d] :
                /\ IsTraversal(t)
                /\ <<Above(scope, d), t>> \in ReachedFrom(cfg, StartOf(scope, cibles))
<1> DEFINE start == StartOf(scope, cibles)
           R == ReachedFrom(cfg, start)
           Good(d) == \A t \in asked[d] : IsTraversal(t) /\ <<Above(scope, d), t>> \in R
           Bad == {d \in 0 .. n : ~Good(d)}
<1>1. \A d \in 0 .. n :
        asked[d] = IF d = 0 THEN cibles ELSE Followed(resources, cfg, scope, d - 1, asked[d - 1])
  BY DEF Asks
<1> HIDE DEF start, R
<1> SUFFICES ASSUME Bad # {} PROVE FALSE
  <2>1. Bad = {} => \A d \in 0 .. n : Good(d)
    OBVIOUS
  <2> HIDE DEF Bad
  <2> QED
    BY <2>1 DEF R, start
<1>2. PICK d \in Bad : \A j \in Bad : d <= j
  <2>1. Bad \in SUBSET Nat
    OBVIOUS
  <2> HIDE DEF Bad
  <2> QED
    BY <2>1, LeastIndex
<1>3. d \in 0 .. n /\ ~Good(d)
  OBVIOUS
<1>4. d # 0
  <2> SUFFICES ASSUME d = 0 PROVE FALSE
    OBVIOUS
  <2>1. asked[d] = cibles /\ Above(scope, d) = scope
    BY <1>1, <1>3, AboveIs
  <2>2. ASSUME NEW t \in cibles PROVE <<scope, t>> \in R
    <3>1. <<scope, t>> \in start
      BY DEF start, StartOf
    <3> QED
      BY <3>1 DEF R, ReachedFrom
  <2> QED
    BY <1>3, <2>1, <2>2
<1> DEFINE e == d - 1
<1>5. e \in 0 .. n /\ e \in Nat /\ d = e + 1
  BY <1>3, <1>4
<1>6. Good(e)
  <2>1. e \notin Bad
    <3> HIDE DEF Bad
    <3> QED
      BY <1>2, <1>3, <1>5
  <2> QED
    BY <1>5, <2>1
<1>7. asked[d] = Followed(resources, cfg, scope, e, asked[e])
  BY <1>1, <1>3, <1>4
<1> HIDE DEF Bad, e
<1>8. PICK t \in asked[d] : ~(IsTraversal(t) /\ <<Above(scope, d), t>> \in R)
  BY <1>3
<1> DEFINE s == Above(scope, e)
<1>9. PICK u \in asked[e] : t \in Passed(cfg, s, u)
  BY <1>7, <1>8 DEF Followed
<1>10. IsTraversal(u) /\ <<s, u>> \in R
  BY <1>6, <1>9
<1> DEFINE v == u.target
<1>11. /\ u.root = "var" /\ s # << >> /\ s \in DOMAIN cfg
       /\ v \in DOMAIN cfg[s].args /\ t \in cfg[s].args[v]
       /\ <<CallerOf(s), t>> \in PassedIn(cfg)
  BY <1>9, PassedIs
<1>12. IsTraversal(t)
  BY <1>11 DEF IsConfiguration
<1>13. CallerOf(s) = Above(scope, d)
  <2>1. e < Len(scope)
    BY <1>5, <1>11, AboveIs
  <2> QED
    BY <1>5, <2>1, AboveIs
<1>14. u = [root |-> "var", target |-> v]
  BY <1>10, <1>11 DEF IsTraversal
<1> HIDE DEF s, v
<1>15. ASSUME NEW N \in SUBSET PassedIn(cfg), ClosedIn(cfg, start \cup N)
       PROVE  <<CallerOf(s), t>> \in start \cup N
  <2>1. <<s, u>> \in start \cup N
    BY <1>10, <1>15 DEF R, ReachedFrom
  <2> QED
    BY <1>11, <1>14, <1>15, <2>1 DEF ClosedIn
<1>16. <<CallerOf(s), t>> \in R
  BY <1>11, <1>15 DEF R, ReachedFrom
<1> QED
  BY <1>8, <1>12, <1>13, <1>16

\* What is reached is asked, when the modules are not called deeper than the depth.
LEMMA ReachedIsAsked ==
    ASSUME NEW cfg, NEW resources, NEW scope, IsSequence(scope), NEW cibles,
           NEW n \in Nat, Len(scope) <= n, NEW asked, Asks(asked, resources, cfg, cibles, scope, n),
           NEW s, NEW t, <<s, t>> \in ReachedFrom(cfg, StartOf(scope, cibles))
    PROVE  \E d \in 0 .. n : t \in asked[d] /\ s = Above(scope, d)
<1> DEFINE start == StartOf(scope, cibles)
           Asked(c) == \E d \in 0 .. n : \E q \in asked[d] : c = <<Above(scope, d), q>>
           N == {c \in PassedIn(cfg) : Asked(c)}
<1>1. \A d \in 0 .. n :
        asked[d] = IF d = 0 THEN cibles ELSE Followed(resources, cfg, scope, d - 1, asked[d - 1])
  BY DEF Asks
<1>2. Len(scope) \in Nat
  BY SequenceDomain
<1>3. ASSUME NEW c \in start PROVE Asked(c)
  <2>1. PICK q \in cibles : c = <<scope, q>>
    BY <1>3 DEF StartOf
  <2>2. 0 \in 0 .. n /\ asked[0] = cibles /\ Above(scope, 0) = scope
    BY <1>1, AboveIs
  <2> QED
    BY <2>1, <2>2
<1>4. ASSUME NEW m \in DOMAIN cfg, NEW v \in DOMAIN cfg[m].args, m # << >>,
             Asked(<<m, [root |-> "var", target |-> v]>>), NEW q \in cfg[m].args[v]
      PROVE  <<CallerOf(m), q>> \in N
  <2> DEFINE u == [root |-> "var", target |-> v]
  <2>1. u.root = "var" /\ u.target = v
    OBVIOUS
  <2> HIDE DEF u
  <2>2. PICK d \in 0 .. n : u \in asked[d] /\ m = Above(scope, d)
    BY <1>4 DEF u
  <2>3. d \in Nat /\ d < Len(scope)
    BY <1>4, <2>2, AboveIs
  <2>4. CallerOf(m) = Above(scope, d + 1) /\ d + 1 \in 0 .. n /\ d + 1 # 0 /\ d + 1 - 1 = d
    BY <1>2, <2>2, <2>3, AboveIs
  <2>5. q \in Passed(cfg, m, u)
    BY <1>4, <2>1 DEF Passed, At
  <2>6. Instances(resources, m, u) = {}
    BY <2>1 DEF Instances
  <2>7. ~(Cardinality(Instances(resources, m, u)) = 1)
    BY <2>6, FS_EmptySet
  <2>8. asked[d + 1] = Followed(resources, cfg, scope, d, asked[d])
    BY <1>1, <2>4
  <2>9. q \in asked[d + 1]
    BY <2>2, <2>5, <2>7, <2>8 DEF Followed
  <2>10. <<CallerOf(m), q>> \in PassedIn(cfg)
    BY <2>5, PassedIs
  <2> QED
    BY <2>4, <2>9, <2>10
<1> HIDE DEF Asked, start
<1>5. \A c \in start \cup N : Asked(c)
  BY <1>3
<1>6. ClosedIn(cfg, start \cup N)
  <2> HIDE DEF N
  <2> QED
    BY <1>4, <1>5 DEF ClosedIn
<1>7. <<s, t>> \in start \cup N
  BY <1>6 DEF ReachedFrom, start
<1>8. Asked(<<s, t>>)
  BY <1>5, <1>7
<1> QED
  BY <1>8 DEF Asked

\* The declaration of an address, as what refers to it.
DeclarationOf(address) ==
    <<ConfigAddress(address)[1], [root |-> "resource", target |-> ConfigAddress(address)[2]]>>

\* The addresses of the declarations that are reached and that have one instance.
IsSole(resources, i) ==
    \A j \in DOMAIN resources :
        ConfigAddress(resources[j].address) = ConfigAddress(resources[i].address) => j = i
SoleAmong(resources, reached) ==
    {resources[i].address :
        i \in {i \in DOMAIN resources : DeclarationOf(resources[i].address) \in reached /\ IsSole(resources, i)}}

\* What a traversal has as its only instance.
LEMMA OnlyInstance ==
    ASSUME NEW resources, IsSequence(resources), NEW scope, NEW t, IsTraversal(t), NEW i
    PROVE  (i \in Instances(resources, scope, t) /\ Cardinality(Instances(resources, scope, t)) = 1)
              <=> /\ i \in DOMAIN resources /\ <<scope, t>> = DeclarationOf(resources[i].address)
                  /\ IsSole(resources, i)
<1> DEFINE all == Instances(resources, scope, t)
           Is(j) == t.root = "resource" /\ ConfigAddress(resources[j].address) = <<scope, t.target>>
<1>1. all = {j \in DOMAIN resources : Is(j)}
  BY DEF Instances
<1>2. IsFiniteSet(all)
  <2>1. Len(resources) \in Nat /\ DOMAIN resources = 1 .. Len(resources)
    BY SequenceDomain
  <2>2. IsFiniteSet(DOMAIN resources)
    BY <2>1, FS_Interval
  <2> HIDE DEF Is
  <2>3. all \subseteq DOMAIN resources
    BY <1>1
  <2> HIDE DEF all
  <2> QED
    BY <2>2, <2>3, FS_Subset
<1>3. \A j : Is(j) <=> <<scope, t>> = DeclarationOf(resources[j].address)
  <2> TAKE j
  <2> DEFINE a == resources[j].address
             m == Calls(Parts[a].mods)
             decl == Parts[a].decl
  <2>1. ConfigAddress(a) = <<m, decl>>
    BY DEF ConfigAddress
  <2>2. DeclarationOf(a) = <<m, [root |-> "resource", target |-> decl]>>
    BY <2>1 DEF DeclarationOf
  <2> HIDE DEF m, decl, a
  <2>3. <<m, decl>> = <<scope, t.target>> <=> m = scope /\ decl = t.target
    OBVIOUS
  <2>4. t = [root |-> "resource", target |-> decl] <=> t.root = "resource" /\ t.target = decl
    BY DEF IsTraversal
  <2>5. Is(j) <=> t.root = "resource" /\ ConfigAddress(a) = <<scope, t.target>>
    BY DEF a
  <2> HIDE DEF Is
  <2> QED
    BY <2>1, <2>2, <2>3, <2>4, <2>5 DEF a
<1>4. ASSUME NEW j, Is(j)
      PROVE  \A l : Is(l) <=> ConfigAddress(resources[l].address) = ConfigAddress(resources[j].address)
  BY <1>4
<1> HIDE DEF Is, all
<1>5. Cardinality(all) = 1 <=> \E x : all = {x}
  BY <1>2, FS_Singleton
<1>6. i \in all /\ (\E x : all = {x}) <=> i \in DOMAIN resources /\ Is(i) /\ \A j \in DOMAIN resources : Is(j) => j = i
  BY <1>1
<1>7. Is(i) => (IsSole(resources, i) <=> \A j \in DOMAIN resources : Is(j) => j = i)
  BY <1>4 DEF IsSole
<1> QED
  BY <1>3, <1>5, <1>6, <1>7 DEF all

\* A reference designates declarations that are reached and have one instance, and all of them
\* when its module is not called deeper than the depth.
LEMMA ResoudreIsExact ==
    ASSUME NEW cfg, IsConfiguration(cfg), NEW resources, IsSequence(resources),
           NEW scope, IsSequence(scope), NEW cibles, \A t \in cibles : IsTraversal(t)
    PROVE  LET found == Resoudre(resources, cfg, cibles, scope)
               sole == SoleAmong(resources, ReachedFrom(cfg, StartOf(scope, cibles)))
           IN  found \subseteq sole /\ (Len(scope) <= ProfondeurMax => sole \subseteq found)
<1> DEFINE found == Resoudre(resources, cfg, cibles, scope)
           R == ReachedFrom(cfg, StartOf(scope, cibles))
<1>1. PICK asked : /\ Asks(asked, resources, cfg, cibles, scope, ProfondeurMax)
                   /\ \A x : x \in found <=> Designated(resources, asked, scope, x)
  BY ResoudreIs
<1>2. ProfondeurMax \in Nat
  BY DEF ProfondeurMax
<1>3. \A d \in 0 .. ProfondeurMax : \A t \in asked[d] : IsTraversal(t) /\ <<Above(scope, d), t>> \in R
  BY <1>1, <1>2, AskedIsReached
<1>4. Len(scope) <= ProfondeurMax =>
        \A s, t : <<s, t>> \in R => \E d \in 0 .. ProfondeurMax : t \in asked[d] /\ s = Above(scope, d)
  BY <1>1, <1>2, ReachedIsAsked
<1> HIDE DEF R, found
<1>5. ASSUME NEW x \in found PROVE x \in SoleAmong(resources, R)
  <2>1. PICK d \in 0 .. ProfondeurMax : \E t \in asked[d] : \E i \in Instances(resources, Above(scope, d), t) :
            /\ Cardinality(Instances(resources, Above(scope, d), t)) = 1
            /\ x = resources[i].address
    BY <1>1, <1>5 DEF Designated
  <2> PICK t \in asked[d] : \E i \in Instances(resources, Above(scope, d), t) :
            /\ Cardinality(Instances(resources, Above(scope, d), t)) = 1
            /\ x = resources[i].address
    BY <2>1
  <2> PICK i \in Instances(resources, Above(scope, d), t) :
            /\ Cardinality(Instances(resources, Above(scope, d), t)) = 1
            /\ x = resources[i].address
    OBVIOUS
  <2>2. IsTraversal(t) /\ <<Above(scope, d), t>> \in R
    BY <1>3
  <2>3. /\ i \in DOMAIN resources /\ <<Above(scope, d), t>> = DeclarationOf(resources[i].address)
        /\ IsSole(resources, i)
    BY <2>2, OnlyInstance
  <2> QED
    BY <2>2, <2>3 DEF SoleAmong
<1>6. ASSUME Len(scope) <= ProfondeurMax, NEW x \in SoleAmong(resources, R) PROVE x \in found
  <2>1. PICK i \in DOMAIN resources : /\ DeclarationOf(resources[i].address) \in R /\ IsSole(resources, i)
                                      /\ x = resources[i].address
    BY <1>6 DEF SoleAmong
  <2> DEFINE s == ConfigAddress(resources[i].address)[1]
             decl == ConfigAddress(resources[i].address)[2]
             t == [root |-> "resource", target |-> decl]
  <2>2. DeclarationOf(resources[i].address) = <<s, t>> /\ IsTraversal(t)
    <3>1. DeclarationOf(resources[i].address) = <<s, t>>
      BY DEF DeclarationOf
    <3> HIDE DEF decl
    <3>2. IsTraversal(t)
      BY DEF IsTraversal
    <3> QED
      BY <3>1, <3>2
  <2> HIDE DEF s, t
  <2>3. PICK d \in 0 .. ProfondeurMax : t \in asked[d] /\ s = Above(scope, d)
    BY <1>4, <1>6, <2>1, <2>2
  <2>4. i \in Instances(resources, s, t) /\ Cardinality(Instances(resources, s, t)) = 1
    BY <2>1, <2>2, OnlyInstance
  <2>5. Designated(resources, asked, scope, x)
    BY <2>1, <2>3, <2>4 DEF Designated
  <2> QED
    BY <1>1, <2>5
<1> QED
  BY <1>5, <1>6 DEF R, found

\* The addresses of the declarations that are reached and that have one instance, among the
\* planned resources.
SoleIn(planned, reached) ==
    {b.address : b \in {b \in Range(planned) :
        /\ <<ConfigAddress(b.address)[1],
             [root |-> "resource", target |-> ConfigAddress(b.address)[2]]>> \in reached
        /\ \A c \in Range(planned) : ConfigAddress(c.address) = ConfigAddress(b.address) => c = b}}

\* They are those of the collected resources.
LEMMA SoleIsAmong ==
    ASSUME NEW plan, IsPlan(plan), NEW R
    PROVE  SoleIn(ParsePlan(plan), R) = SoleAmong(Collected(plan), R)
<1> DEFINE c == Collected(plan)
           p == ParsePlan(plan)
           Meant(a) == DeclarationOf(a) \in R
           Same(a, b) == ConfigAddress(a) = ConfigAddress(b)
<1>1. DOMAIN p = DOMAIN c /\ \A i \in DOMAIN p : p[i].address = c[i].address
  BY PlannedIs
<1>2. \A i, j \in DOMAIN c : c[i].address = c[j].address => i = j
  BY CollectedIs
<1>3. SoleIn(p, R) = {b.address : b \in {b \in Range(p) :
                        Meant(b.address) /\ \A d \in Range(p) : Same(d.address, b.address) => d = b}}
  BY Zenon DEF SoleIn, DeclarationOf
<1>4. SoleAmong(c, R) = {c[i].address : i \in {i \in DOMAIN c :
                        Meant(c[i].address) /\ \A j \in DOMAIN c : Same(c[j].address, c[i].address) => j = i}}
  BY Zenon DEF SoleAmong, IsSole
<1> HIDE DEF c, p, Meant, Same
<1>5. \A i, j \in DOMAIN c : p[i] = p[j] => i = j
  BY <1>1, <1>2
<1>6. Range(p) = {p[i] : i \in DOMAIN c}
  BY <1>1 DEF Range
<1> QED
  <2>1. ASSUME NEW i \in DOMAIN c
        PROVE  (\A d \in Range(p) : Same(d.address, p[i].address) => d = p[i])
                 <=> \A j \in DOMAIN c : Same(c[j].address, c[i].address) => j = i
    BY <1>1, <1>5, <1>6
  <2>2. SoleIn(p, R) \subseteq SoleAmong(c, R)
    BY <1>1, <1>3, <1>4, <1>6, <2>1
  <2>3. SoleAmong(c, R) \subseteq SoleIn(p, R)
    BY <1>1, <1>3, <1>4, <1>6, <2>1
  <2> QED
    BY <2>2, <2>3 DEF c, p

\* The scope of an address.
LEMMA ScopeIsSequence ==
    ASSUME NEW a \in DOMAIN Parts PROVE IsSequence(ConfigAddress(a)[1])
<1> DEFINE mods == Parts[a].mods
           calls == [i \in DOMAIN mods |-> mods[i].call]
<1>1. IsSequence(mods)
  BY PlanAssumption
<1>2. ConfigAddress(a)[1] = calls
  BY DEF ConfigAddress, Calls
<1> HIDE DEF mods
<1>3. DOMAIN calls = DOMAIN mods /\ calls = [i \in DOMAIN calls |-> calls[i]]
  OBVIOUS
<1> HIDE DEF calls
<1>4. IsSequence(calls)
  BY <1>1, <1>3, SameDomain
<1> QED
  BY <1>2, <1>4

\* What an argument of a planned resource is given.
GivenTo(res, arg) == IF arg \in DOMAIN res.references THEN ToSet(res.references[arg]) ELSE {}

\* An argument is given addresses of declarations that it reaches and that have one instance, and
\* all of them when its module is not called deeper than the depth.
LEMMA ReferencesReach ==
    ASSUME NEW plan, IsPlan(plan), NEW res \in ToSet(ParsePlan(plan)),
           NEW arg \in DOMAIN Declared(plan.configuration, res.address)
    PROVE  LET scope == ConfigAddress(res.address)[1]
               cibles == Declared(plan.configuration, res.address)[arg]
               sole == SoleIn(ParsePlan(plan), ReachedFrom(plan.configuration, StartOf(scope, cibles)))
           IN  GivenTo(res, arg) \subseteq sole /\ (Len(scope) <= ProfondeurMax => sole \subseteq GivenTo(res, arg))
<1> DEFINE c == Collected(plan)
           cfg == plan.configuration
           address == res.address
           scope == ConfigAddress(address)[1]
           cibles == Declared(cfg, address)[arg]
           found == Resoudre(c, cfg, cibles, scope)
           R == ReachedFrom(cfg, StartOf(scope, cibles))
<1>1. address \in DOMAIN Parts
  <2>1. PICK k \in DOMAIN ParsePlan(plan) : res = ParsePlan(plan)[k]
    BY DEF ToSet
  <2>2. c[k] \in Typed(plan) /\ res.address = c[k].address
    <3>1. c[k] \in Typed(plan)
      BY PlannedIs
    <3>2. ParsePlan(plan)[k] =
            [address |-> c[k].address, args |-> c[k].args, blocks |-> c[k].blocks,
             references |-> References(c, cfg, c[k].address), origin |-> Origin(plan.sources, cfg, c[k].address)]
      BY PlannedIs
    <3> HIDE DEF c, cfg
    <3> QED
      BY <2>1, <3>1, <3>2
  <2> HIDE DEF c
  <2>3. c[k] \in ToSet(plan.values)
    BY <2>2 DEF Typed
  <2> QED
    BY <2>2, <2>3, PlanAssumption DEF IsPlan
<1>2. IsSequence(scope)
  BY <1>1, ScopeIsSequence
<1>3. IsSequence(c)
  BY CollectedIs
<1>4. IsConfiguration(cfg)
  BY DEF IsPlan
<1>5. \A t \in cibles : IsTraversal(t)
  <2> DEFINE decl == ConfigAddress(address)[2]
  <2> HIDE DEF cfg, address
  <2>1. arg \in DOMAIN Declared(cfg, address)
    BY DEF cfg, address
  <2>2. scope \in DOMAIN cfg /\ decl \in DOMAIN cfg[scope].refs /\ Declared(cfg, address) = cfg[scope].refs[decl]
    BY <2>1 DEF Declared
  <2> HIDE DEF scope, decl
  <2> QED
    BY <1>4, <2>1, <2>2 DEF IsConfiguration
<1>6. GivenTo(res, arg) = found
  <2>1. /\ DOMAIN res.references =
             {x \in DOMAIN Declared(cfg, address) : Resoudre(c, cfg, Declared(cfg, address)[x], scope) # {}}
        /\ \A x \in DOMAIN res.references : ToSet(res.references[x]) = Resoudre(c, cfg, Declared(cfg, address)[x], scope)
    BY ReferencesDesignate
  <2>2. arg \in DOMAIN Declared(cfg, address)
    OBVIOUS
  <2> HIDE DEF c, cfg, address, scope
  <2>3. CASE arg \in DOMAIN res.references
    BY <2>1, <2>3 DEF GivenTo
  <2>4. CASE arg \notin DOMAIN res.references
    BY <2>1, <2>2, <2>4 DEF GivenTo
  <2> QED
    BY <2>3, <2>4
<1>7. SoleIn(ParsePlan(plan), R) = SoleAmong(c, R)
  BY SoleIsAmong
<1> HIDE DEF c, cfg, address, scope, cibles
<1>8. found \subseteq SoleAmong(c, R) /\ (Len(scope) <= ProfondeurMax => SoleAmong(c, R) \subseteq found)
  BY <1>2, <1>3, <1>4, <1>5, ResoudreIsExact
<1> HIDE DEF found, R
<1> QED
  BY <1>6, <1>7, <1>8 DEF cfg, address, scope, cibles, R

-----------------------------------------------------------------------------
(* The reduction of a plan.                                                *)

\* What is left of the arguments or of the blocks of a resource, of its references, of a resource
\* and of a scope of the configuration.
KeptIn(f, M) == [k \in {k \in DOMAIN f : RootField(k) \in M} |-> f[k]]
KeptNames(f, M) == [k \in DOMAIN f \cap M |-> f[k]]
ReducedResource(r, M) == [address |-> r.address, args |-> KeptIn(r.args, M), blocks |-> KeptIn(r.blocks, M)]
ReducedScope(specs, c) ==
    [refs |-> [d \in DOMAIN c.refs |-> KeptNames(c.refs[d], MappedFields(specs, d.type))],
     calls |-> c.calls, args |-> c.args]
MappedOf(specs, address) == MappedFields(specs, TypeOf(address))

\* A reduced plan, part by part.
LEMMA ReducedIs ==
    ASSUME NEW specs, NEW plan, IsPlan(plan)
    PROVE  LET red == Trim(specs, plan) IN
           /\ red = [readable |-> plan.readable, values |-> red.values,
                     configuration |-> red.configuration, sources |-> plan.sources]
           /\ DOMAIN red.values = DOMAIN plan.values /\ red.values = [i \in DOMAIN red.values |-> red.values[i]]
           /\ \A i \in DOMAIN plan.values :
                red.values[i] = ReducedResource(plan.values[i], MappedOf(specs, plan.values[i].address))
           /\ DOMAIN red.configuration = DOMAIN plan.configuration
           /\ \A s \in DOMAIN plan.configuration : red.configuration[s] = ReducedScope(specs, plan.configuration[s])
<1> DEFINE v == plan.values
           c == plan.configuration
           Keep(f, type) == Restrict(f, {k \in DOMAIN f : RootField(k) \in MappedFields(specs, type)})
           Res(r) == [r EXCEPT !.args = Keep(@, TypeOf(r.address)), !.blocks = Keep(@, TypeOf(r.address))]
           Scope(q) ==
                [q EXCEPT !.refs = [d \in DOMAIN @ |-> Restrict(@[d], DOMAIN @[d] \cap MappedFields(specs, d.type))]]
           red == Trim(specs, plan)
<1>1. /\ plan = [readable |-> plan.readable, values |-> v, configuration |-> c, sources |-> plan.sources]
      /\ \A i \in DOMAIN v : v[i] = [address |-> v[i].address, args |-> v[i].args, blocks |-> v[i].blocks]
      /\ \A s \in DOMAIN c : c[s] = [refs |-> c[s].refs, calls |-> c[s].calls, args |-> c[s].args]
  BY DEF IsPlan, IsConfiguration, ToSet
<1>2. red = [plan EXCEPT !.values = [i \in DOMAIN v |-> Res(v[i])], !.configuration = [s \in DOMAIN c |-> Scope(c[s])]]
  BY Zenon DEF Trim
<1>3. \A i \in DOMAIN v : Res(v[i]) = ReducedResource(v[i], MappedOf(specs, v[i].address))
  <2> TAKE i \in DOMAIN v
  <2> DEFINE r == v[i]
  <2>1. r = [address |-> r.address, args |-> r.args, blocks |-> r.blocks]
    BY <1>1
  <2>2. \A f : Keep(f, TypeOf(r.address)) = KeptIn(f, MappedOf(specs, r.address))
    BY DEF KeptIn, MappedOf, Restrict
  <2>3. Res(r) = [r EXCEPT !.args = Keep(r.args, TypeOf(r.address)), !.blocks = Keep(r.blocks, TypeOf(r.address))]
    OBVIOUS
  <2> HIDE DEF r, Keep, Res
  <2> QED
    BY <2>1, <2>2, <2>3 DEF ReducedResource, r
<1>4. \A s \in DOMAIN c : Scope(c[s]) = ReducedScope(specs, c[s])
  <2> TAKE s \in DOMAIN c
  <2> DEFINE q == c[s]
             kept == [d \in DOMAIN q.refs |-> Restrict(q.refs[d], DOMAIN q.refs[d] \cap MappedFields(specs, d.type))]
  <2>1. q = [refs |-> q.refs, calls |-> q.calls, args |-> q.args]
    BY <1>1
  <2>2. Scope(q) = [q EXCEPT !.refs = kept]
    OBVIOUS
  <2>3. kept = [d \in DOMAIN q.refs |-> KeptNames(q.refs[d], MappedFields(specs, d.type))]
    BY DEF KeptNames, Restrict
  <2> HIDE DEF q, kept, Scope
  <2> QED
    BY <2>1, <2>2, <2>3 DEF ReducedScope, q
<1> HIDE DEF Res, Scope
<1>5. red = [readable |-> plan.readable, values |-> [i \in DOMAIN v |-> Res(v[i])],
             configuration |-> [s \in DOMAIN c |-> Scope(c[s])], sources |-> plan.sources]
  BY <1>1, <1>2
<1> HIDE DEF red, v, c
<1> QED
  BY <1>3, <1>4, <1>5 DEF red, v, c

\* A resource is left its address, and keys that it had; of what the mapping reads, all of them.
LEMMA ReducedKeys ==
    ASSUME NEW r, NEW M, \A f \in DOMAIN r.blocks : RootField(f) = f
    PROVE  /\ ReducedResource(r, M).address = r.address
           /\ Keys(ReducedResource(r, M)) = Keys(r) \cap M
<1> DEFINE q == ReducedResource(r, M)
<1>1. q.address = r.address /\ q.args = KeptIn(r.args, M) /\ q.blocks = KeptIn(r.blocks, M)
  BY DEF ReducedResource
<1> HIDE DEF q
<1>2. /\ DOMAIN q.args = {k \in DOMAIN r.args : RootField(k) \in M}
      /\ DOMAIN q.blocks = {k \in DOMAIN r.blocks : RootField(k) \in M}
  BY <1>1 DEF KeptIn
<1>3. {RootField(f) : f \in DOMAIN q.args} = {RootField(f) : f \in DOMAIN r.args} \cap M
  BY <1>2
<1>4. DOMAIN q.blocks = DOMAIN r.blocks \cap M
  BY <1>2
<1> QED
  BY <1>1, <1>3, <1>4 DEF Keys, q

\* A reduced plan is a plan.
LEMMA ReducedIsPlan ==
    ASSUME NEW specs, NEW plan, IsPlan(plan) PROVE IsPlan(Trim(specs, plan))
<1> DEFINE red == Trim(specs, plan)
           M(a) == MappedOf(specs, a)
           Red(r) == ReducedResource(r, M(r.address))
<1>1. /\ red = [readable |-> plan.readable, values |-> red.values,
                configuration |-> red.configuration, sources |-> plan.sources]
      /\ DOMAIN red.values = DOMAIN plan.values /\ red.values = [i \in DOMAIN red.values |-> red.values[i]]
      /\ \A i \in DOMAIN plan.values : red.values[i] = Red(plan.values[i])
      /\ DOMAIN red.configuration = DOMAIN plan.configuration
      /\ \A s \in DOMAIN plan.configuration : red.configuration[s] = ReducedScope(specs, plan.configuration[s])
  BY ReducedIs
<1> HIDE DEF red, M
<1>2. /\ red.readable = plan.readable /\ red.sources = plan.sources
      /\ red = [readable |-> red.readable, values |-> red.values,
                configuration |-> red.configuration, sources |-> red.sources]
  BY <1>1
<1>3. IsConfiguration(red.configuration)
  <2> SUFFICES ASSUME NEW s \in DOMAIN plan.configuration
               PROVE  LET c == red.configuration[s] IN
                      /\ c = [refs |-> c.refs, calls |-> c.calls, args |-> c.args]
                      /\ \A v \in DOMAIN c.args : \A t \in c.args[v] : IsTraversal(t)
                      /\ \A d \in DOMAIN c.refs :
                            /\ "" \notin DOMAIN c.refs[d]
                            /\ \A arg \in DOMAIN c.refs[d] : \A t \in c.refs[d][arg] : IsTraversal(t)
    BY <1>1 DEF IsConfiguration
  <2> DEFINE c == plan.configuration[s]
             kept(d) == KeptNames(c.refs[d], MappedFields(specs, d.type))
  <2>1. /\ \A v \in DOMAIN c.args : \A t \in c.args[v] : IsTraversal(t)
        /\ \A d \in DOMAIN c.refs :
             /\ "" \notin DOMAIN c.refs[d]
             /\ \A arg \in DOMAIN c.refs[d] : \A t \in c.refs[d][arg] : IsTraversal(t)
    BY DEF IsPlan, IsConfiguration
  <2>2. red.configuration[s] = [refs |-> [d \in DOMAIN c.refs |-> kept(d)], calls |-> c.calls, args |-> c.args]
    <3>1. red.configuration[s] = ReducedScope(specs, c)
      BY <1>1
    <3> HIDE DEF c
    <3> QED
      BY <3>1 DEF ReducedScope
  <2> HIDE DEF c
  <2>3. ASSUME NEW d PROVE DOMAIN kept(d) \subseteq DOMAIN c.refs[d] /\ \A arg \in DOMAIN kept(d) : kept(d)[arg] = c.refs[d][arg]
    <3> DEFINE f == c.refs[d]
    <3> HIDE DEF f
    <3>1. \A M1 : DOMAIN KeptNames(f, M1) \subseteq DOMAIN f /\ \A arg \in DOMAIN KeptNames(f, M1) : KeptNames(f, M1)[arg] = f[arg]
      BY DEF KeptNames
    <3> QED
      BY <3>1 DEF f
  <2> HIDE DEF kept
  <2> DEFINE after == red.configuration[s]
             refs == [d \in DOMAIN c.refs |-> kept(d)]
  <2>4. after = [refs |-> refs, calls |-> c.calls, args |-> c.args]
    BY <2>2
  <2>5. \A d \in DOMAIN refs :
             /\ "" \notin DOMAIN refs[d]
             /\ \A arg \in DOMAIN refs[d] : \A t \in refs[d][arg] : IsTraversal(t)
    BY <2>1, <2>3
  <2> HIDE DEF after, refs
  <2>6. after.refs = refs /\ after.args = c.args /\ after = [refs |-> after.refs, calls |-> after.calls, args |-> after.args]
    BY <2>4
  <2> QED
    BY <2>1, <2>5, <2>6 DEF after
<1>4. IsSequence(red.values)
  <2>1. IsSequence(plan.values)
    BY DEF IsPlan
  <2> DEFINE v == plan.values
             w == red.values
  <2>2. DOMAIN w = DOMAIN v /\ w = [i \in DOMAIN w |-> w[i]] /\ IsSequence(v)
    BY <1>1, <2>1
  <2> HIDE DEF v, w
  <2>3. IsSequence(w)
    BY <2>2, SameDomain
  <2> QED
    BY <2>3 DEF w
<1>5. ASSUME NEW r \in ToSet(plan.values)
      PROVE  /\ Red(r) = [address |-> Red(r).address, args |-> Red(r).args, blocks |-> Red(r).blocks]
             /\ Red(r).address = r.address
             /\ Red(r).address \in DOMAIN Rank
             /\ "" \notin Keys(Red(r))
             /\ \A f \in DOMAIN Red(r).blocks : RootField(f) = f /\ IsSequence(Red(r).blocks[f])
             /\ \A f \in DOMAIN Red(r).blocks : \A item \in ToSet(Red(r).blocks[f]) :
                   item = [k \in DOMAIN item |-> item[k]]
  <2>1. /\ r.address \in DOMAIN Rank /\ "" \notin Keys(r)
        /\ \A f \in DOMAIN r.blocks : RootField(f) = f /\ IsSequence(r.blocks[f])
        /\ \A f \in DOMAIN r.blocks : \A item \in ToSet(r.blocks[f]) :
              item = [k \in DOMAIN item |-> item[k]]
    BY DEF IsPlan
  <2> DEFINE q == ReducedResource(r, M(r.address))
  <2>2. q.address = r.address /\ Keys(q) = Keys(r) \cap M(r.address)
    BY <2>1, ReducedKeys
  <2>3. q = [address |-> q.address, args |-> q.args, blocks |-> q.blocks] /\ q.blocks = KeptIn(r.blocks, M(r.address))
    BY DEF ReducedResource
  <2> HIDE DEF q
  <2>4. \A f \in DOMAIN q.blocks : f \in DOMAIN r.blocks /\ q.blocks[f] = r.blocks[f]
    BY <2>3 DEF KeptIn
  <2>5. /\ \A f \in DOMAIN q.blocks : RootField(f) = f /\ IsSequence(q.blocks[f])
        /\ \A f \in DOMAIN q.blocks : \A item \in ToSet(q.blocks[f]) :
              item = [k \in DOMAIN item |-> item[k]]
    BY <2>1, <2>4
  <2> QED
    BY <2>1, <2>2, <2>3, <2>5 DEF q
<1>6. \A q, r \in ToSet(plan.values) : q.address = r.address => q = r
  BY DEF IsPlan
<1> HIDE DEF Red
<1>7. ToSet(red.values) = {Red(r) : r \in ToSet(plan.values)}
  BY <1>1 DEF ToSet
<1>8. ASSUME NEW x \in ToSet(red.values), NEW y \in ToSet(red.values), x.address = y.address PROVE x = y
  <2>1. PICK q \in ToSet(plan.values) : x = Red(q)
    BY <1>7
  <2>2. PICK r \in ToSet(plan.values) : y = Red(r)
    BY <1>7
  <2>3. q.address = r.address
    BY <1>5, <1>8, <2>1, <2>2
  <2> QED
    BY <1>6, <2>1, <2>2, <2>3
<1>9. \A d \in DOMAIN plan.sources : \A h \in ToSet(plan.sources[d]) :
        h = [decl |-> h.decl, file |-> h.file, line |-> h.line]
  BY DEF IsPlan
<1>10. \A r \in ToSet(red.values) :
        /\ r = [address |-> r.address, args |-> r.args, blocks |-> r.blocks]
        /\ r.address \in DOMAIN Rank
        /\ "" \notin Keys(r)
        /\ \A f \in DOMAIN r.blocks : RootField(f) = f /\ IsSequence(r.blocks[f])
        /\ \A f \in DOMAIN r.blocks : \A item \in ToSet(r.blocks[f]) :
              item = [k \in DOMAIN item |-> item[k]]
  BY <1>5, <1>7
<1>11. IsPlan(red)
  BY <1>2, <1>3, <1>4, <1>8, <1>9, <1>10 DEF IsPlan
<1> QED
  BY <1>11 DEF red

\* The resources that are collected are reduced in their place.
LEMMA ReducedCollected ==
    ASSUME NEW specs, NEW plan, IsPlan(plan)
    PROVE  /\ DOMAIN Collected(Trim(specs, plan)) = DOMAIN Collected(plan)
           /\ \A k \in DOMAIN Collected(plan) :
                Collected(Trim(specs, plan))[k] =
                    ReducedResource(Collected(plan)[k], MappedOf(specs, Collected(plan)[k].address))
<1> DEFINE red == Trim(specs, plan)
           Red(r) == ReducedResource(r, MappedOf(specs, r.address))
           S == Typed(plan)
           T == Typed(red)
           c == Collected(plan)
           q == Collected(red)
<1>1. IsPlan(red)
  BY ReducedIsPlan
<1>2. \A r : Red(r).address = r.address
  BY DEF ReducedResource
<1>3. T = {Red(r) : r \in S}
  <2>1. ToSet(red.values) = {Red(r) : r \in ToSet(plan.values)}
    <3>1. /\ DOMAIN red.values = DOMAIN plan.values /\ red.values = [i \in DOMAIN red.values |-> red.values[i]]
          /\ \A i \in DOMAIN plan.values : red.values[i] = Red(plan.values[i])
      BY ReducedIs
    <3> HIDE DEF red, Red
    <3> QED
      BY <3>1 DEF ToSet
  <2> HIDE DEF red, Red
  <2> QED
    BY <1>2, <2>1 DEF Typed
<1>4. \A x, y \in S : x.address = y.address => x = y
  BY DEF Typed, IsPlan
<1>5. IsFiniteSet(S) /\ DOMAIN c = 1 .. Cardinality(S)
  BY CollectedPlaces
<1>6. \A k \in DOMAIN c : c[k] \in S /\ Cardinality(Earlier(plan, c[k].address)) = k - 1
  BY CollectedPlaces
<1>7. DOMAIN q = 1 .. Cardinality(T)
  BY <1>1, CollectedPlaces
<1>8. \A k \in DOMAIN q : q[k] \in T /\ Cardinality(Earlier(red, q[k].address)) = k - 1
  BY <1>1, CollectedPlaces
<1>9. \A x, y \in T : Cardinality(Earlier(red, x.address)) = Cardinality(Earlier(red, y.address)) => x = y
  BY <1>1, CollectedPlaces
<1> HIDE DEF red, Red, c, q
<1>10. ASSUME NEW A \in SUBSET S PROVE Cardinality({Red(r) : r \in A}) = Cardinality(A)
  <2> DEFINE B == {Red(r) : r \in A}
             f == [r \in A |-> Red(r)]
  <2>1. f \in Bijection(A, B)
    <3>1. \A x, y \in A : f[x] = f[y] => x = y
      BY <1>2, <1>4
    <3> QED
      BY <3>1 DEF Bijection, Injection, Surjection, IsInjective
  <2> HIDE DEF f, B
  <2>2. ExistsBijection(A, B)
    BY <2>1 DEF ExistsBijection
  <2>3. IsFiniteSet(A)
    BY <1>5, FS_Subset
  <2> QED
    BY <2>2, <2>3, FS_Bijection DEF B
<1>11. Cardinality(T) = Cardinality(S)
  BY <1>3, <1>10
<1>12. ASSUME NEW a PROVE Cardinality(Earlier(red, a)) = Cardinality(Earlier(plan, a))
  <2> DEFINE A == Earlier(plan, a)
  <2>1. A \in SUBSET S
    BY DEF Earlier
  <2>2. Earlier(red, a) = {Red(r) : r \in A}
    <3> HIDE DEF S, T
    <3> QED
      BY <1>2, <1>3 DEF Earlier, S, T
  <2> HIDE DEF A, S
  <2>3. Cardinality({Red(r) : r \in A}) = Cardinality(A)
    BY <1>10, <2>1
  <2> QED
    BY <2>2, <2>3 DEF A
<1> HIDE DEF S, T
<1>13. ASSUME NEW k \in DOMAIN c PROVE q[k] = Red(c[k])
  <2>1. k \in DOMAIN q
    BY <1>5, <1>7, <1>11
  <2>2. q[k] \in T /\ Cardinality(Earlier(red, q[k].address)) = k - 1
    BY <1>8, <2>1
  <2>3. c[k] \in S /\ Cardinality(Earlier(plan, c[k].address)) = k - 1
    BY <1>6
  <2>4. Red(c[k]) \in T /\ Red(c[k]).address = c[k].address
    BY <1>2, <1>3, <2>3
  <2>5. Cardinality(Earlier(red, Red(c[k]).address)) = k - 1
    BY <1>12, <2>3, <2>4
  <2> QED
    BY <1>9, <2>2, <2>4, <2>5
<1> QED
  BY <1>5, <1>7, <1>11, <1>13 DEF red, Red, c, q

\* The traversals that are asked are determined, depth after depth.
LEMMA AsksOnce ==
    ASSUME NEW resources, NEW cfg, NEW cibles, NEW scope, NEW n \in Nat,
           NEW a, Asks(a, resources, cfg, cibles, scope, n), NEW b, Asks(b, resources, cfg, cibles, scope, n)
    PROVE  a = b
<1> DEFINE Bad == {d \in 0 .. n : a[d] # b[d]}
<1>1. /\ a = [d \in 0 .. n |-> a[d]]
      /\ b = [d \in 0 .. n |-> b[d]]
      /\ \A d \in 0 .. n :
            /\ a[d] = IF d = 0 THEN cibles ELSE Followed(resources, cfg, scope, d - 1, a[d - 1])
            /\ b[d] = IF d = 0 THEN cibles ELSE Followed(resources, cfg, scope, d - 1, b[d - 1])
  BY DEF Asks
<1>2. Bad = {}
  <2> SUFFICES ASSUME Bad # {} PROVE FALSE
    OBVIOUS
  <2>1. Bad \in SUBSET Nat
    OBVIOUS
  <2>2. PICK d \in Bad : \A e \in Bad : d <= e
    BY <2>1, LeastIndex
  <2>3. d \in 0 .. n /\ a[d] # b[d]
    OBVIOUS
  <2>4. d # 0
    BY <1>1, <2>3
  <2>5. d - 1 \in 0 .. n /\ d - 1 \notin Bad
    BY <2>2, <2>3, <2>4
  <2>6. a[d - 1] = b[d - 1]
    BY <2>5
  <2> QED
    BY <1>1, <2>3, <2>4, <2>6
<1>3. \A d \in 0 .. n : a[d] = b[d]
  BY <1>2
<1> QED
  BY <1>1, <1>3

\* What a reference designates depends on the addresses and on what the callers pass.
LEMMA ResoudreSame ==
    ASSUME NEW r1, NEW r2, DOMAIN r1 = DOMAIN r2, \A i \in DOMAIN r1 : r1[i].address = r2[i].address,
           NEW cfg1, NEW cfg2, \A s, t : Passed(cfg1, s, t) = Passed(cfg2, s, t), NEW cibles, NEW scope
    PROVE  Resoudre(r1, cfg1, cibles, scope) = Resoudre(r2, cfg2, cibles, scope)
<1>1. ProfondeurMax \in Nat
  BY DEF ProfondeurMax
<1>2. PICK a : /\ Asks(a, r1, cfg1, cibles, scope, ProfondeurMax)
               /\ \A x : x \in Resoudre(r1, cfg1, cibles, scope) <=> Designated(r1, a, scope, x)
  BY ResoudreIs
<1>3. PICK b : /\ Asks(b, r2, cfg2, cibles, scope, ProfondeurMax)
               /\ \A x : x \in Resoudre(r2, cfg2, cibles, scope) <=> Designated(r2, b, scope, x)
  BY ResoudreIs
<1>4. \A s, t : Instances(r1, s, t) = Instances(r2, s, t) /\ Instances(r1, s, t) \subseteq DOMAIN r1
  BY DEF Instances
<1>5. \A d, A : Followed(r1, cfg1, scope, d, A) = Followed(r2, cfg2, scope, d, A)
  <2> TAKE d, A
  <2> DEFINE open == {t \in A : ~(Cardinality(Instances(r1, Above(scope, d), t)) = 1)}
  <2>1. open = {t \in A : ~(Cardinality(Instances(r2, Above(scope, d), t)) = 1)}
    BY <1>4
  <2>2. /\ Followed(r1, cfg1, scope, d, A) = UNION {Passed(cfg1, Above(scope, d), t) : t \in open}
        /\ Followed(r2, cfg2, scope, d, A) = UNION {Passed(cfg2, Above(scope, d), t) : t \in open}
    BY <2>1 DEF Followed
  <2> HIDE DEF open
  <2> QED
    BY <2>2
<1>6. Asks(a, r2, cfg2, cibles, scope, ProfondeurMax)
  BY <1>2, <1>5 DEF Asks
<1>7. a = b
  BY <1>1, <1>3, <1>6, AsksOnce
<1>8. \A x : Designated(r1, a, scope, x) <=> Designated(r2, a, scope, x)
  BY <1>4 DEF Designated
<1>9. \A x : x \in Resoudre(r1, cfg1, cibles, scope) <=> x \in Resoudre(r2, cfg2, cibles, scope)
  BY <1>2, <1>3, <1>7, <1>8
<1> QED
  BY <1>9

\* The references of an address, with what the configuration declares.
LEMMA ReferencesIs ==
    ASSUME NEW resources, NEW cfg, NEW address
    PROVE  LET declared == Declared(cfg, address)
               Named(arg) == Resoudre(resources, cfg, declared[arg], ConfigAddress(address)[1])
           IN  References(resources, cfg, address)
                 = [arg \in {arg \in DOMAIN declared : Named(arg) # {}} |-> InOrder(Named(arg))]
<1> DEFINE scope == ConfigAddress(address)[1]
           declared == IF scope \in DOMAIN cfg /\ Parts[address].decl \in DOMAIN cfg[scope].refs
                       THEN cfg[scope].refs[Parts[address].decl] ELSE [arg \in {} |-> {}]
           Found(arg) == Resoudre(resources, cfg, declared[arg], scope)
<1>1. References(resources, cfg, address) = [arg \in {arg \in DOMAIN declared : Found(arg) # {}} |-> InOrder(Found(arg))]
  BY Zenon DEF References
<1>2. declared = Declared(cfg, address)
  BY DEF Declared, ConfigAddress
<1> HIDE DEF declared, scope
<1> QED
  BY <1>1, <1>2 DEF scope

\* The parts of a reduced configuration.
LEMMA ReducedConfiguration ==
    ASSUME NEW specs, NEW plan, IsPlan(plan), NEW cfg, cfg = plan.configuration,
           NEW red, red = Trim(specs, plan).configuration
    PROVE  /\ DOMAIN red = DOMAIN cfg
           /\ \A s \in DOMAIN cfg : red[s].calls = cfg[s].calls /\ red[s].args = cfg[s].args
           /\ \A s, t : Passed(red, s, t) = Passed(cfg, s, t)
           /\ \A a : Declared(red, a) = KeptNames(Declared(cfg, a), MappedOf(specs, a))
           /\ \A mods : ModuleDirs(red, mods) = ModuleDirs(cfg, mods)
<1>1. DOMAIN red = DOMAIN cfg /\ \A s \in DOMAIN cfg : red[s] = ReducedScope(specs, cfg[s])
  <2> DEFINE q == Trim(specs, plan)
             c == plan.configuration
  <2>1. /\ q = [readable |-> plan.readable, values |-> q.values, configuration |-> q.configuration, sources |-> plan.sources]
        /\ DOMAIN q.values = DOMAIN plan.values /\ q.values = [i \in DOMAIN q.values |-> q.values[i]]
        /\ \A i \in DOMAIN plan.values :
             q.values[i] = ReducedResource(plan.values[i], MappedOf(specs, plan.values[i].address))
        /\ DOMAIN q.configuration = DOMAIN c
        /\ \A s \in DOMAIN c : q.configuration[s] = ReducedScope(specs, c[s])
    BY ReducedIs
  <2> HIDE DEF q, c
  <2>2. red = q.configuration /\ cfg = c
    BY DEF q, c
  <2> QED
    BY <2>1, <2>2
<1>2. ASSUME NEW s \in DOMAIN cfg
      PROVE  /\ red[s].calls = cfg[s].calls /\ red[s].args = cfg[s].args
             /\ DOMAIN red[s].refs = DOMAIN cfg[s].refs
             /\ \A d \in DOMAIN cfg[s].refs : red[s].refs[d] = KeptNames(cfg[s].refs[d], MappedFields(specs, d.type))
  <2> DEFINE c == cfg[s]
             kept == [d \in DOMAIN c.refs |-> KeptNames(c.refs[d], MappedFields(specs, d.type))]
  <2>1. red[s] = [refs |-> kept, calls |-> c.calls, args |-> c.args]
    BY <1>1 DEF ReducedScope
  <2>2. DOMAIN kept = DOMAIN c.refs /\ \A d \in DOMAIN c.refs : kept[d] = KeptNames(c.refs[d], MappedFields(specs, d.type))
    OBVIOUS
  <2> HIDE DEF kept
  <2> QED
    BY <2>1, <2>2
<1>3. \A s, t : Passed(red, s, t) = Passed(cfg, s, t)
  BY <1>1, <1>2 DEF Passed
<1>4. ASSUME NEW a PROVE Declared(red, a) = KeptNames(Declared(cfg, a), MappedOf(specs, a))
  <2> DEFINE s == ConfigAddress(a)[1]
             d == ConfigAddress(a)[2]
             M == MappedOf(specs, a)
             none == [arg \in {} |-> {}]
  <2>1. M = MappedFields(specs, d.type)
    BY DEF MappedOf, TypeOf, ConfigAddress
  <2>2. /\ Declared(red, a) = IF s \in DOMAIN red /\ d \in DOMAIN red[s].refs THEN red[s].refs[d] ELSE none
        /\ Declared(cfg, a) = IF s \in DOMAIN cfg /\ d \in DOMAIN cfg[s].refs THEN cfg[s].refs[d] ELSE none
    BY DEF Declared
  <2>3. KeptNames(none, M) = none
    BY DEF KeptNames
  <2> HIDE DEF s, d, M, none
  <2>4. CASE s \in DOMAIN cfg /\ d \in DOMAIN cfg[s].refs
    BY <1>1, <1>2, <2>1, <2>2, <2>4 DEF M
  <2>5. CASE ~(s \in DOMAIN cfg /\ d \in DOMAIN cfg[s].refs)
    BY <1>1, <1>2, <2>2, <2>3, <2>5 DEF M
  <2> QED
    BY <2>4, <2>5
<1>5. ASSUME NEW mods PROVE ModuleDirs(red, mods) = ModuleDirs(cfg, mods)
  <2> DEFINE Scope(i) == Calls(SubSeq(mods, 1, i - 1))
             LocalOf(c, i) == IF Scope(i) \in DOMAIN c THEN At(c[Scope(i)].calls, mods[i].call) ELSE {}
             Dirs(c) == IF mods = << >> THEN {"."}
                        ELSE IF \A i \in DOMAIN mods : mods[i].key = NoKey /\ LocalOf(c, i) # {}
                        THEN LocalOf(c, Len(mods)) ELSE {}
  <2>1. ModuleDirs(red, mods) = Dirs(red) /\ ModuleDirs(cfg, mods) = Dirs(cfg)
    BY Zenon DEF ModuleDirs
  <2>2. \A i : LocalOf(red, i) = LocalOf(cfg, i)
    <3> HIDE DEF Scope
    <3> QED
      BY <1>1, <1>2
  <2> HIDE DEF LocalOf
  <2> QED
    BY <2>1, <2>2
<1> QED
  BY <1>1, <1>2, <1>3, <1>4, <1>5

\* What is left of a planned resource: its address, its origin, and of its keys and its references
\* what the mapping reads.
ReducedPlanned(res, M) ==
    [address |-> res.address, args |-> KeptIn(res.args, M), blocks |-> KeptIn(res.blocks, M),
     references |-> KeptNames(res.references, M), origin |-> res.origin]

\* The references of an address in a reduced plan.
LEMMA ReducedReferences ==
    ASSUME NEW specs, NEW plan, IsPlan(plan), NEW a
    PROVE  LET red == Trim(specs, plan)
           IN  References(Collected(red), red.configuration, a)
                 = KeptNames(References(Collected(plan), plan.configuration, a), MappedOf(specs, a))
<1> DEFINE red == Trim(specs, plan)
           c == Collected(plan)
           q == Collected(red)
           cfg == plan.configuration
           rcfg == red.configuration
           M == MappedOf(specs, a)
           scope == ConfigAddress(a)[1]
           D == Declared(cfg, a)
           E == Declared(rcfg, a)
           Named(arg) == Resoudre(c, cfg, D[arg], scope)
           Kept(arg) == Resoudre(q, rcfg, E[arg], scope)
<1>1. /\ DOMAIN q = DOMAIN c
      /\ \A k \in DOMAIN c : q[k] = ReducedResource(c[k], MappedOf(specs, c[k].address))
  BY ReducedCollected
<1>2. \A s, t : Passed(rcfg, s, t) = Passed(cfg, s, t)
  BY ReducedConfiguration
<1>3. E = KeptNames(D, M)
  BY ReducedConfiguration
<1>4. /\ References(c, cfg, a) = [arg \in {arg \in DOMAIN D : Named(arg) # {}} |-> InOrder(Named(arg))]
      /\ References(q, rcfg, a) = [arg \in {arg \in DOMAIN E : Kept(arg) # {}} |-> InOrder(Kept(arg))]
  BY ReferencesIs
<1> HIDE DEF red, c, q, cfg, rcfg, M, scope, D, E
<1>5. \A k \in DOMAIN q : q[k].address = c[k].address
  BY <1>1 DEF ReducedResource
<1>6. \A cibles : Resoudre(q, rcfg, cibles, scope) = Resoudre(c, cfg, cibles, scope)
  BY <1>1, <1>2, <1>5, ResoudreSame
<1>7. DOMAIN E = DOMAIN D \cap M /\ \A arg \in DOMAIN E : E[arg] = D[arg]
  BY <1>3 DEF KeptNames
<1>8. \A arg \in DOMAIN E : Kept(arg) = Named(arg)
  BY <1>6, <1>7
<1> HIDE DEF Kept, Named
<1>9. {arg \in DOMAIN E : Kept(arg) # {}} = {arg \in DOMAIN D : Named(arg) # {}} \cap M
  BY <1>7, <1>8
<1>10. References(q, rcfg, a) = KeptNames(References(c, cfg, a), M)
  <2> DEFINE S == {arg \in DOMAIN D : Named(arg) # {}}
             f == References(c, cfg, a)
             g == References(q, rcfg, a)
  <2>1. DOMAIN f = S /\ \A arg \in S : f[arg] = InOrder(Named(arg))
    BY <1>4
  <2>2. g = [arg \in S \cap M |-> InOrder(Kept(arg))]
    BY <1>4, <1>9
  <2>3. \A arg \in S \cap M : Kept(arg) = Named(arg)
    BY <1>7, <1>8
  <2> HIDE DEF S, f, g
  <2>4. g = [arg \in DOMAIN f \cap M |-> f[arg]]
    BY <2>1, <2>2, <2>3
  <2> QED
    BY <2>4 DEF KeptNames, f, g
<1> QED
  BY <1>10 DEF red, c, q, cfg, rcfg, M

\* The planned resources of a reduced plan are the planned resources, reduced.
LEMMA ReducedPlannedIs ==
    ASSUME NEW specs, NEW plan, IsPlan(plan)
    PROVE  /\ DOMAIN ParsePlan(Trim(specs, plan)) = DOMAIN ParsePlan(plan)
           /\ \A i \in DOMAIN ParsePlan(plan) :
                ParsePlan(Trim(specs, plan))[i] =
                    ReducedPlanned(ParsePlan(plan)[i], MappedOf(specs, ParsePlan(plan)[i].address))
<1> DEFINE red == Trim(specs, plan)
           c == Collected(plan)
           q == Collected(red)
           p == ParsePlan(plan)
           w == ParsePlan(red)
           Refs(a) == References(c, plan.configuration, a)
           Place(a) == Origin(plan.sources, plan.configuration, a)
<1>1. IsPlan(red)
  BY ReducedIsPlan
<1>2. /\ DOMAIN q = DOMAIN c
      /\ \A k \in DOMAIN c : q[k] = ReducedResource(c[k], MappedOf(specs, c[k].address))
  BY ReducedCollected
<1>3. /\ DOMAIN p = DOMAIN c
      /\ \A i \in DOMAIN p : p[i] = [address |-> c[i].address, args |-> c[i].args, blocks |-> c[i].blocks,
                                     references |-> Refs(c[i].address), origin |-> Place(c[i].address)]
  BY PlannedIs
<1>4. /\ DOMAIN w = DOMAIN q
      /\ \A i \in DOMAIN w : w[i] = [address |-> q[i].address, args |-> q[i].args, blocks |-> q[i].blocks,
                                     references |-> References(q, red.configuration, q[i].address),
                                     origin |-> Origin(red.sources, red.configuration, q[i].address)]
  BY <1>1, PlannedIs
<1>5. \A a : References(q, red.configuration, a) = KeptNames(Refs(a), MappedOf(specs, a))
  BY ReducedReferences
<1>6. red.sources = plan.sources
  <2>1. red = [readable |-> plan.readable, values |-> red.values,
               configuration |-> red.configuration, sources |-> plan.sources]
    BY ReducedIs
  <2> HIDE DEF red
  <2> QED
    BY <2>1
<1>7. \A mods : ModuleDirs(red.configuration, mods) = ModuleDirs(plan.configuration, mods)
  BY ReducedConfiguration
<1> HIDE DEF red
<1>8. ASSUME NEW a PROVE Origin(red.sources, red.configuration, a) = Place(a)
  <2> DEFINE module == ModuleOf(a)
             HeadersIn(sources, cfg) == Headers(sources, ModuleDirs(cfg, module), Parts[a].decl)
             From(headers) ==
                IF headers = {} THEN [NoSource EXCEPT !.module = module]
                ELSE LET h == CHOOSE h \in headers : TRUE
                     IN  [file |-> h.file, line |-> h.line, module |-> module]
  <2>1. /\ Origin(red.sources, red.configuration, a) = From(HeadersIn(red.sources, red.configuration))
        /\ Place(a) = From(HeadersIn(plan.sources, plan.configuration))
    BY Zenon DEF Origin
  <2> HIDE DEF From
  <2>2. HeadersIn(red.sources, red.configuration) = HeadersIn(plan.sources, plan.configuration)
    BY <1>6, <1>7
  <2> QED
    BY <2>1, <2>2
<1> HIDE DEF c, q, p, w, Refs, Place
<1>9. ASSUME NEW i \in DOMAIN p PROVE w[i] = ReducedPlanned(p[i], MappedOf(specs, p[i].address))
  <2> DEFINE a == c[i].address
             M == MappedOf(specs, a)
  <2>1. q[i] = [address |-> a, args |-> KeptIn(c[i].args, M), blocks |-> KeptIn(c[i].blocks, M)]
    BY <1>2, <1>3 DEF ReducedResource
  <2>2. p[i] = [address |-> a, args |-> c[i].args, blocks |-> c[i].blocks, references |-> Refs(a), origin |-> Place(a)]
    BY <1>3
  <2>3. w[i] = [address |-> q[i].address, args |-> q[i].args, blocks |-> q[i].blocks,
                references |-> KeptNames(Refs(q[i].address), MappedOf(specs, q[i].address)),
                origin |-> Place(q[i].address)]
    BY <1>2, <1>3, <1>4, <1>5, <1>8
  <2> HIDE DEF a, M
  <2>4. /\ q[i].address = a /\ q[i].args = KeptIn(c[i].args, M) /\ q[i].blocks = KeptIn(c[i].blocks, M)
        /\ p[i].address = a /\ p[i].args = c[i].args /\ p[i].blocks = c[i].blocks
        /\ p[i].references = Refs(a) /\ p[i].origin = Place(a)
    BY <2>1, <2>2
  <2>5. w[i] = [address |-> a, args |-> KeptIn(c[i].args, M), blocks |-> KeptIn(c[i].blocks, M),
                references |-> KeptNames(Refs(a), M), origin |-> Place(a)]
    BY <2>3, <2>4 DEF M
  <2>6. ReducedPlanned(p[i], M) = [address |-> a, args |-> KeptIn(c[i].args, M), blocks |-> KeptIn(c[i].blocks, M),
                references |-> KeptNames(Refs(a), M), origin |-> Place(a)]
    BY <2>4 DEF ReducedPlanned
  <2> QED
    BY <2>4, <2>5, <2>6 DEF M
<1> QED
  BY <1>2, <1>3, <1>4, <1>9 DEF p, w, red

\* A set of fields holds all that a specification reads.
Covers(M, spec) ==
    /\ "name" \in M
    /\ spec.region \in M \cup {""} /\ RootField(spec.items) \in M \cup {""}
    /\ \A a \in DOMAIN spec.map : \A i \in DOMAIN spec.map[a] : RootField(spec.map[a][i].field) \in M \cup {""}

\* The mapped fields of a type hold what each specification of the type reads.
LEMMA MappedCovers ==
    ASSUME NEW specs, NEW spec \in ToSet(specs) PROVE Covers(MappedFields(specs, spec.tf), spec)
<1> DEFINE mine == {k \in DOMAIN specs : specs[k].tf = spec.tf}
           Of(s) == {s.region, RootField(s.items)}
                        \cup UNION {{RootField(s.map[a][i].field) : i \in DOMAIN s.map[a]} : a \in DOMAIN s.map}
           M == MappedFields(specs, spec.tf)
<1>1. PICK k \in mine : specs[k] = spec
  BY DEF ToSet
<1>2. M = (({"name"} \cup UNION {Of(specs[j]) : j \in mine}) \ {""})
  <2>1. mine # {}
    BY <1>1
  <2>2. M = IF mine = {} THEN {} ELSE ({"name"} \cup UNION {Of(specs[j]) : j \in mine}) \ {""}
    BY Zenon DEF MappedFields
  <2> HIDE DEF M, mine, Of
  <2> QED
    BY <2>1, <2>2
<1> HIDE DEF M, mine
<1>3. Of(spec) \subseteq M \cup {""}
  <2> HIDE DEF Of
  <2> QED
    BY <1>1, <1>2
<1>4. "name" \in M
  <2> HIDE DEF Of
  <2> QED
    BY <1>2
<1>5. spec.region \in Of(spec) /\ RootField(spec.items) \in Of(spec)
  OBVIOUS
<1>6. \A a \in DOMAIN spec.map : \A i \in DOMAIN spec.map[a] : RootField(spec.map[a][i].field) \in Of(spec)
  OBVIOUS
<1> HIDE DEF Of
<1> QED
  BY <1>3, <1>4, <1>5, <1>6 DEF Covers, M

\* The keys of a resource are names, and its blocks are not nested.
IsNamed(res) ==
    /\ "" \notin Keys(res) /\ "" \notin DOMAIN res.references
    /\ \A f \in DOMAIN res.blocks : RootField(f) = f

\* A planned resource is such.
LEMMA PlannedIsNamed ==
    ASSUME NEW plan, IsPlan(plan), NEW res \in ToSet(ParsePlan(plan)) PROVE IsNamed(res)
<1>1. PICK i \in DOMAIN ParsePlan(plan) : res = ParsePlan(plan)[i]
  BY DEF ToSet
<1> DEFINE c == Collected(plan)[i]
<1>2. c \in Typed(plan) /\ res.args = c.args /\ res.blocks = c.blocks
  BY <1>1, PlannedIs
<1> HIDE DEF c
<1>3. "" \notin Keys(c) /\ \A f \in DOMAIN c.blocks : RootField(f) = f
  BY <1>2 DEF IsPlan, Typed
<1>4. Keys(res) = Keys(c)
  BY <1>2 DEF Keys
<1>5. DOMAIN res.references \subseteq DOMAIN Declared(plan.configuration, res.address)
  BY ReferencesDesignate
<1>6. "" \notin DOMAIN Declared(plan.configuration, res.address)
  BY DEF Declared, IsPlan, IsConfiguration
<1> QED
  BY <1>2, <1>3, <1>4, <1>5, <1>6 DEF IsNamed

\* The keys that are left, and their values.
IsLeft(q, res, M) ==
    /\ q.address = res.address /\ q.origin = res.origin
    /\ Keys(q) = Keys(res) \cap M
    /\ DOMAIN q.args = {k \in DOMAIN res.args : RootField(k) \in M}
    /\ \A k \in DOMAIN q.args : q.args[k] = res.args[k]
    /\ DOMAIN q.blocks = DOMAIN res.blocks \cap M
    /\ \A k \in DOMAIN q.blocks : q.blocks[k] = res.blocks[k]
    /\ DOMAIN q.references = DOMAIN res.references \cap M
    /\ \A k \in DOMAIN q.references : q.references[k] = res.references[k]

\* They are those of the keys that are mapped.
LEMMA LeftOf ==
    ASSUME NEW res, IsNamed(res), NEW M, NEW q, q = ReducedPlanned(res, M) PROVE IsLeft(q, res, M)
<1>1. /\ q.address = res.address /\ q.origin = res.origin /\ q.references = KeptNames(res.references, M)
      /\ q.args = KeptIn(res.args, M) /\ q.blocks = KeptIn(res.blocks, M)
  BY DEF ReducedPlanned
<1>2. /\ DOMAIN q.args = {k \in DOMAIN res.args : RootField(k) \in M}
      /\ \A k \in DOMAIN q.args : q.args[k] = res.args[k]
  BY <1>1 DEF KeptIn
<1>3. /\ DOMAIN q.blocks = {k \in DOMAIN res.blocks : RootField(k) \in M}
      /\ \A k \in DOMAIN q.blocks : q.blocks[k] = res.blocks[k]
  BY <1>1 DEF KeptIn
<1>4. /\ DOMAIN q.references = DOMAIN res.references \cap M
      /\ \A k \in DOMAIN q.references : q.references[k] = res.references[k]
  BY <1>1 DEF KeptNames
<1>5. DOMAIN q.blocks = DOMAIN res.blocks \cap M
  BY <1>3 DEF IsNamed
<1>6. {RootField(f) : f \in DOMAIN q.args} = {RootField(f) : f \in DOMAIN res.args} \cap M
  BY <1>2
<1>7. Keys(q) = Keys(res) \cap M
  BY <1>5, <1>6 DEF Keys
<1> QED
  BY <1>1, <1>2, <1>3, <1>4, <1>5, <1>7 DEF IsLeft

\* The references that fill something are left.
LEMMA SameInjected ==
    ASSUME NEW spec, IsSpec(spec), NEW res, IsNamed(res), NEW M, Covers(M, spec), NEW q, q = ReducedPlanned(res, M)
    PROVE  Injected(spec, q) = Injected(spec, res)
<1>1. ASSUME NEW a \in DOMAIN spec.map, NEW f \in Argument(spec.map[a]) PROVE f \in M \cup {""}
  <2>1. Len(spec.map[a]) = 1 /\ f = spec.map[a][1].field /\ RootField(f) = f
    BY <1>1 DEF Argument
  <2>2. 1 \in DOMAIN spec.map[a]
    <3>1. DOMAIN spec.map[a] = 1 .. Len(spec.map[a])
      BY SequenceDomain DEF IsSpec
    <3> QED
      BY <2>1, <3>1
  <2> QED
    BY <2>1, <2>2 DEF Covers
<1>2. ASSUME NEW f \in M \cup {""}
      PROVE  f \notin Keys(q) /\ f \in DOMAIN q.references <=> f \notin Keys(res) /\ f \in DOMAIN res.references
  <2>1. IsLeft(q, res, M)
    BY LeftOf
  <2> QED
    BY <2>1 DEF IsLeft, IsNamed
<1> QED
  BY <1>1, <1>2 DEF Injected

\* Two functions agree at a point.
Alike(f, V, W) == (f \in DOMAIN W <=> f \in DOMAIN V) /\ (f \in DOMAIN W => W[f] = V[f])

\* What is read of the values of a resource is left, with the references that fill it.
LEMMA SameValues ==
    ASSUME NEW spec, IsSpec(spec), NEW res, IsNamed(res), NEW M, Covers(M, spec), NEW q, q = ReducedPlanned(res, M),
           NEW f, RootField(f) \in M \cup {""}
    PROVE  Alike(f, WithReferences(spec, res), WithReferences(spec, q))
<1> DEFINE filled == UNION {Argument(spec.map[a]) : a \in Injected(spec, res)}
           Address(r, g) == IF Len(r.references[g]) = 1 THEN Text(r.references[g][1]) ELSE ListOf(r.references[g])
           V == WithReferences(spec, res)
           W == WithReferences(spec, q)
<1>1. V = [g \in filled \cup DOMAIN res.args |-> IF g \in filled THEN Address(res, g) ELSE res.args[g]]
  BY Zenon DEF WithReferences
<1>2. W = [g \in filled \cup DOMAIN q.args |-> IF g \in filled THEN Address(q, g) ELSE q.args[g]]
  <2> DEFINE left == UNION {Argument(spec.map[a]) : a \in Injected(spec, q)}
  <2>1. W = [g \in left \cup DOMAIN q.args |-> IF g \in left THEN Address(q, g) ELSE q.args[g]]
    BY Zenon DEF WithReferences
  <2>2. left = filled
    BY SameInjected
  <2> HIDE DEF Address, W, left, filled
  <2> QED
    BY <2>1, <2>2
<1>3. ASSUME NEW g \in filled PROVE g \in DOMAIN res.references /\ RootField(g) = g
  <2>1. PICK a \in Injected(spec, res) : g \in Argument(spec.map[a])
    OBVIOUS
  <2>2. PICK h \in Argument(spec.map[a]) : h \in DOMAIN res.references
    BY <2>1 DEF Injected
  <2>3. h = g /\ RootField(g) = g
    BY <2>1, <2>2 DEF Argument
  <2> QED
    BY <2>2, <2>3
<1>4. /\ DOMAIN q.args = {k \in DOMAIN res.args : RootField(k) \in M}
      /\ \A k \in DOMAIN q.args : q.args[k] = res.args[k]
      /\ DOMAIN q.references = DOMAIN res.references \cap M
      /\ \A k \in DOMAIN q.references : q.references[k] = res.references[k]
  <2>1. IsLeft(q, res, M)
    BY LeftOf
  <2> QED
    BY <2>1 DEF IsLeft
<1> HIDE DEF filled, V, W
<1>5. CASE f \in filled
  <2>1. f \in DOMAIN q.references
    BY <1>3, <1>4, <1>5 DEF IsNamed
  <2>2. q.references[f] = res.references[f]
    BY <1>4, <2>1
  <2>3. Address(q, f) = Address(res, f)
    BY <2>2
  <2> HIDE DEF Address
  <2> QED
    BY <1>1, <1>2, <1>5, <2>3 DEF Alike, V, W
<1>6. CASE f \notin filled
  <2>1. f \in DOMAIN q.args <=> f \in DOMAIN res.args
    <3>1. RootField(f) = "" => f \notin DOMAIN res.args
      BY DEF IsNamed, Keys
    <3> QED
      BY <1>4, <3>1
  <2> HIDE DEF Address
  <2> QED
    BY <1>1, <1>2, <1>4, <1>6, <2>1 DEF Alike, V, W
<1> QED
  BY <1>5, <1>6

\* Two documents hold the same at the paths of an attribute.
Agree(d1, d2, alts) ==
    \A i \in DOMAIN alts : /\ PathExists(d1, alts[i]) <=> PathExists(d2, alts[i])
                           /\ Lookup(d1, alts[i]) = Lookup(d2, alts[i])

\* What is read of them is the same.
LEMMA SameReading ==
    ASSUME NEW d1, NEW d2, NEW alts, IsSequence(alts), Agree(d1, d2, alts), NEW transform
    PROVE  ProjectOne(d1, alts, transform) = ProjectOne(d2, alts, transform)
<1> DEFINE read(d) == {i \in DOMAIN alts : Lookup(d, alts[i]) # Null}
           first(d) == CHOOSE i \in read(d) : \A j \in read(d) : i <= j
<1>1. LookupCoalesce(d1, alts) = LookupCoalesce(d2, alts)
  <2>1. /\ LookupCoalesce(d1, alts) = IF read(d1) = {} THEN Null ELSE Lookup(d1, alts[first(d1)])
        /\ LookupCoalesce(d2, alts) = IF read(d2) = {} THEN Null ELSE Lookup(d2, alts[first(d2)])
    BY DEF LookupCoalesce
  <2>2. read(d1) = read(d2)
    BY DEF Agree
  <2>3. read(d1) # {} => first(d1) \in DOMAIN alts
    <3>1. DOMAIN alts = 1 .. Len(alts) /\ Len(alts) \in Nat
      BY SequenceDomain
    <3> DEFINE S == read(d1)
    <3>2. S \in SUBSET Nat /\ S \subseteq DOMAIN alts
      BY <3>1
    <3> HIDE DEF S
    <3>3. S # {} => (CHOOSE i \in S : \A j \in S : i <= j) \in S
      BY <3>2, LeastIndex
    <3> QED
      BY <3>2, <3>3 DEF S
  <2>4. first(d1) = first(d2)
    <3> HIDE DEF read
    <3> QED
      BY <2>2
  <2> HIDE DEF first, read
  <2> QED
    BY <2>1, <2>2, <2>3, <2>4 DEF Agree
<1>2. SourcePresent(d1, alts) <=> SourcePresent(d2, alts)
  BY DEF SourcePresent, Agree
<1> DEFINE One(v, present, out) ==
                IF transform = << >>
                THEN [value |-> v, observed |-> present, derived |-> FALSE]
                ELSE IF v = Null /\ ~present
                THEN [value |-> Null, observed |-> FALSE, derived |-> FALSE]
                ELSE [value |-> out.value, observed |-> present,
                      derived |-> out.value # Null /\ out.derived]
<1>3. \A d : ProjectOne(d, alts, transform)
                = One(LookupCoalesce(d, alts), SourcePresent(d, alts), ApplyTransform(LookupCoalesce(d, alts), transform))
  BY Zenon DEF ProjectOne
<1>4. SourcePresent(d1, alts) = SourcePresent(d2, alts)
  BY <1>2, Zenon DEF SourcePresent
<1> HIDE DEF One
<1> QED
  BY <1>1, <1>3, <1>4

\* And so is their projection.
LEMMA SameProjection ==
    ASSUME NEW spec, IsSpec(spec), NEW d1, NEW d2, \A a \in DOMAIN spec.map : Agree(d1, d2, spec.map[a]), NEW source
    PROVE  ProjectAttested(d1, spec.map, spec.transforms, source) = ProjectAttested(d2, spec.map, spec.transforms, source)
<1> DEFINE map == spec.map
           Of(a) == IF a \in DOMAIN spec.transforms THEN spec.transforms[a] ELSE << >>
           Split(one) ==
                [attrs |-> [a \in {a \in DOMAIN one : one[a].value # Null} |-> one[a].value],
                 prov  |-> [a \in DOMAIN one |->
                                Attestation(source.origin, source.ref, one[a].observed, one[a].derived)]]
           Ones(d) == [a \in DOMAIN map |-> ProjectOne(d, map[a], Of(a))]
<1>1. \A d : ProjectAttested(d, spec.map, spec.transforms, source) = Split(Ones(d))
  BY Zenon DEF ProjectAttested
<1>2. \A a \in DOMAIN map : ProjectOne(d1, map[a], Of(a)) = ProjectOne(d2, map[a], Of(a))
  <2> HIDE DEF Of
  <2> QED
    BY SameReading DEF IsSpec
<1>3. Ones(d1) = Ones(d2)
  <2> HIDE DEF Of, map
  <2> QED
    BY <1>2
<1> HIDE DEF Split, Ones
<1> QED
  BY <1>1, <1>3

\* The items of a reduced resource are as many, and hold the same at the paths that are mapped.
LEMMA SameItems ==
    ASSUME NEW spec, IsSpec(spec), NEW res, IsNamed(res), NEW M, Covers(M, spec), NEW q, q = ReducedPlanned(res, M)
    PROVE  /\ DOMAIN ItemsOf(spec, q) = DOMAIN ItemsOf(spec, res)
           /\ \A i \in DOMAIN ItemsOf(spec, res) : \A a \in DOMAIN spec.map :
                Agree(ItemsOf(spec, q)[i], ItemsOf(spec, res)[i], spec.map[a])
<1> DEFINE V == WithReferences(spec, res)
           W == WithReferences(spec, q)
           items == ItemsOf(spec, res)
           left == ItemsOf(spec, q)
<1>1. ASSUME NEW f, RootField(f) \in M \cup {""} PROVE Alike(f, V, W)
  BY <1>1, SameValues
<1>2. \A a \in DOMAIN spec.map : \A j \in DOMAIN spec.map[a] :
        spec.map[a][j].from \in {"item", "parent"} /\ RootField(spec.map[a][j].field) \in M \cup {""}
  BY DEF IsSpec, Covers, ToSet
<1> HIDE DEF V, W
<1>3. ASSUME NEW x, NEW y, NEW z, NEW t, NEW a \in DOMAIN spec.map,
             (x = z /\ (y = W /\ t = V)) \/ ((x = W /\ z = V) /\ y = t)
      PROVE  Agree([item |-> x, parent |-> y], [item |-> z, parent |-> t], spec.map[a])
  <2> SUFFICES ASSUME NEW j \in DOMAIN spec.map[a]
               PROVE  LET p == spec.map[a][j]
                          d1 == [item |-> x, parent |-> y]
                          d2 == [item |-> z, parent |-> t]
                      IN  /\ PathExists(d1, p) <=> PathExists(d2, p)
                          /\ Lookup(d1, p) = Lookup(d2, p)
    BY DEF Agree
  <2> DEFINE p == spec.map[a][j]
             d1 == [item |-> x, parent |-> y]
             d2 == [item |-> z, parent |-> t]
  <2>1. p.from \in {"item", "parent"} /\ RootField(p.field) \in M \cup {""}
    BY <1>2
  <2>2. (p.field \in DOMAIN W <=> p.field \in DOMAIN V) /\ (p.field \in DOMAIN W => W[p.field] = V[p.field])
    BY <1>1, <2>1 DEF Alike
  <2> HIDE DEF p
  <2>3. d1[p.from] = d2[p.from] \/ (d1[p.from] = W /\ d2[p.from] = V)
    <3>1. d1["item"] = x /\ d1["parent"] = y /\ d2["item"] = z /\ d2["parent"] = t
      OBVIOUS
    <3> HIDE DEF d1, d2
    <3> QED
      BY <1>3, <2>1, <3>1
  <2> HIDE DEF d1, d2
  <2>4. (PathExists(d1, p) <=> PathExists(d2, p)) /\ Lookup(d1, p) = Lookup(d2, p)
    BY <2>2, <2>3 DEF PathExists, Lookup
  <2> QED
    BY <2>4 DEF d1, d2, p
<1>4. IsLeft(q, res, M)
  BY LeftOf
<1>5. CASE spec.items = ""
  <2>1. items = <<[item |-> V, parent |-> Nothing]>> /\ left = <<[item |-> W, parent |-> Nothing]>>
    BY <1>5 DEF ItemsOf, V, W
  <2>2. DOMAIN items = {1} /\ DOMAIN left = {1}
    BY <2>1
  <2>3. items[1] = [item |-> V, parent |-> Nothing] /\ left[1] = [item |-> W, parent |-> Nothing]
    BY <2>1
  <2>4. \A a \in DOMAIN spec.map : Agree([item |-> W, parent |-> Nothing], [item |-> V, parent |-> Nothing], spec.map[a])
    BY <1>3
  <2> HIDE DEF items, left
  <2> QED
    BY <2>2, <2>3, <2>4 DEF items, left
<1>6. CASE spec.items # "" /\ spec.items \in DOMAIN res.blocks
  <2>1. spec.items \in M
    BY <1>6 DEF Covers, IsNamed
  <2>2. spec.items \in DOMAIN q.blocks /\ q.blocks[spec.items] = res.blocks[spec.items]
    BY <1>4, <1>6, <2>1 DEF IsLeft
  <2> DEFINE block == res.blocks[spec.items]
  <2>3. /\ items = [i \in DOMAIN block |-> [item |-> block[i], parent |-> V]]
        /\ left = [i \in DOMAIN block |-> [item |-> block[i], parent |-> W]]
    BY <1>6, <2>2 DEF ItemsOf, V, W
  <2> HIDE DEF block
  <2>4. \A i \in DOMAIN block : \A a \in DOMAIN spec.map :
            Agree([item |-> block[i], parent |-> W], [item |-> block[i], parent |-> V], spec.map[a])
    BY <1>3
  <2> HIDE DEF items, left
  <2> QED
    BY <2>3, <2>4 DEF items, left
<1>7. CASE spec.items # "" /\ spec.items \notin DOMAIN res.blocks
  <2>1. spec.items \notin DOMAIN q.blocks
    BY <1>4, <1>7 DEF IsLeft
  <2>2. items = << >> /\ left = << >>
    BY <1>7, <2>1 DEF ItemsOf
  <2> QED
    BY <2>2
<1> QED
  BY <1>5, <1>6, <1>7

\* The region is the same, or is lost when its path is nested.
LEMMA RegionReduced ==
    ASSUME NEW spec, NEW res, IsNamed(res), NEW M, Covers(M, spec), NEW q, IsLeft(q, res, M)
    PROVE  \/ RegionOf(spec, q) = RegionOf(spec, res)
           \/ RootField(spec.region) # spec.region /\ RegionOf(spec, q) = ""
<1> DEFINE path == [from |-> "item", field |-> spec.region]
           doc(r) == [item |-> r.args, parent |-> Nothing]
           transform == IF spec.region \in DOMAIN spec.transforms THEN spec.transforms[spec.region] ELSE << >>
           Region(one) == IF spec.region = "" THEN "" ELSE IdentityOf([region |-> one.value], "region")
<1>1. \A r : RegionOf(spec, r) = Region(ProjectOne(doc(r), <<path>>, transform))
  BY Zenon DEF RegionOf
<1>2. /\ DOMAIN q.args = {k \in DOMAIN res.args : RootField(k) \in M}
      /\ \A k \in DOMAIN q.args : q.args[k] = res.args[k]
  BY DEF IsLeft
<1>3. spec.region \in M \cup {""}
  BY DEF Covers
<1>4. \A r : (PathExists(doc(r), path) <=> spec.region \in DOMAIN r.args)
          /\ Lookup(doc(r), path) = IF spec.region \in DOMAIN r.args THEN r.args[spec.region] ELSE Null
  BY DEF PathExists, Lookup
<1>5. IsSequence(<<path>>) /\ DOMAIN <<path>> = {1} /\ <<path>>[1] = path
  <2> HIDE DEF path
  <2> QED
    BY OneIsSequence
<1> HIDE DEF path, doc, transform, Region
<1>6. CASE spec.region = ""
  BY <1>1, <1>6 DEF Region
<1>7. CASE spec.region # "" /\ (spec.region \in DOMAIN q.args <=> spec.region \in DOMAIN res.args)
  <2>1. Agree(doc(q), doc(res), <<path>>)
    BY <1>2, <1>4, <1>5, <1>7 DEF Agree
  <2>2. ProjectOne(doc(q), <<path>>, transform) = ProjectOne(doc(res), <<path>>, transform)
    BY <1>5, <2>1, SameReading
  <2> QED
    BY <1>1, <2>2
<1>8. CASE spec.region # "" /\ spec.region \notin DOMAIN q.args /\ spec.region \in DOMAIN res.args
  <2>1. RootField(spec.region) # spec.region
    BY <1>2, <1>3, <1>8
  <2>2. LookupCoalesce(doc(q), <<path>>) = Null
    BY <1>4, <1>5, <1>8, OneLookup
  <2>3. ~SourcePresent(doc(q), <<path>>)
    BY <1>4, <1>5, <1>8 DEF SourcePresent
  <2>4. ProjectOne(doc(q), <<path>>, transform).value = Null
    <3> DEFINE d == doc(q)
               alts == <<path>>
               v == LookupCoalesce(d, alts)
               present == SourcePresent(d, alts)
               out == ApplyTransform(v, transform)
               one == ProjectOne(d, alts, transform)
    <3>1. one = IF transform = << >> THEN [value |-> v, observed |-> present, derived |-> FALSE]
                ELSE IF v = Null /\ ~present THEN [value |-> Null, observed |-> FALSE, derived |-> FALSE]
                ELSE [value |-> out.value, observed |-> present, derived |-> out.value # Null /\ out.derived]
      BY DEF ProjectOne
    <3>2. v = Null /\ ~present
      BY <2>2, <2>3
    <3> HIDE DEF v, present, out, one
    <3>3. one.value = Null
      BY <3>1, <3>2
    <3> QED
      BY <3>3 DEF one
  <2>5. Null.kind # "string"
    BY DEF Null, Val
  <2>6. IdentityOf([region |-> Null], "region") = ""
    <3> DEFINE attrs == [region |-> Null]
    <3>1. attrs["region"] = Null
      OBVIOUS
    <3> HIDE DEF attrs
    <3>2. IdentityOf(attrs, "region") = ""
      BY <2>5, <3>1 DEF IdentityOf
    <3> QED
      BY <3>2 DEF attrs
  <2>7. RegionOf(spec, q) = ""
    BY <1>1, <2>4, <2>6 DEF Region
  <2> QED
    BY <2>1, <2>7
<1>9. spec.region \in DOMAIN q.args => spec.region \in DOMAIN res.args
  BY <1>2
<1> QED
  BY <1>6, <1>7, <1>8, <1>9

\* What is made of the one and of the other differ in their region at most, when its path is nested.
IsResource(r) ==
    r = [provider |-> r.provider, type |-> r.type, id |-> r.id, name |-> r.name,
         region |-> r.region, attrs |-> r.attrs, prov |-> r.prov, source |-> r.source]
ButRegion(r, t) ==
    /\ IsResource(r) /\ IsResource(t)
    /\ r.provider = t.provider /\ r.type = t.type /\ r.id = t.id /\ r.name = t.name
    /\ r.attrs = t.attrs /\ r.prov = t.prov /\ r.source = t.source
SameMade(m, n) ==
    /\ m.address = n.address /\ m.spec = n.spec /\ m.injected = n.injected
    /\ n.spec.tf = TypeOf(n.address)
    /\ ButRegion(m.resource, n.resource)
    /\ \/ m.resource.region = n.resource.region
       \/ RootField(n.spec.region) # n.spec.region /\ m.resource.region = ""

\* The name of a resource is left.
LEMMA NameReduced ==
    ASSUME NEW res, IsNamed(res), NEW M, "name" \in M, NEW q, IsLeft(q, res, M)
    PROVE  IdentityOf(q.args, "name") = IdentityOf(res.args, "name")
<1>1. RootField("name") = "name"
  BY PlanAssumption DEF RootField
<1>2. /\ "name" \in DOMAIN q.args <=> "name" \in DOMAIN res.args
      /\ "name" \in DOMAIN q.args => q.args["name"] = res.args["name"]
  BY <1>1 DEF IsLeft
<1> QED
  BY <1>2 DEF IdentityOf

\* What is made of an item of the one and of the other.
LEMMA MakeReduced ==
    ASSUME NEW provider, NEW spec, IsSpec(spec), NEW res, IsNamed(res), spec.tf = TypeOf(res.address),
           NEW M, Covers(M, spec), NEW q, q = ReducedPlanned(res, M), NEW i \in DOMAIN ItemsOf(spec, res)
    PROVE  SameMade(Make(provider, spec, q, ItemsOf(spec, q)[i]), Make(provider, spec, res, ItemsOf(spec, res)[i]))
<1> DEFINE OrElse(text, default) == IF text = "" THEN default ELSE text
           read(item) == ProjectAttested(item, spec.map, spec.transforms, [origin |-> "terraform", ref |-> spec.tf])
           out(r, item) == WithConst(AttestReferences(read(item), spec, r), spec.const)
           Id(r, o) == OrElse(IdentityOf(o.attrs, spec.id), r.address)
           Resource(r, o) ==
                [provider |-> provider, type |-> spec.type, id |-> Id(r, o),
                 name |-> OrElse(IdentityOf(r.args, "name"), Id(r, o)),
                 region |-> RegionOf(spec, r), attrs |-> o.attrs, prov |-> o.prov,
                 source |-> r.origin]
           Whole(r, o) == [address |-> r.address, spec |-> spec, injected |-> Injected(spec, r), resource |-> Resource(r, o)]
           x == ItemsOf(spec, q)[i]
           y == ItemsOf(spec, res)[i]
<1>1. \A r, item : Make(provider, spec, r, item) = Whole(r, out(r, item))
  BY Zenon DEF Make
<1>2. IsLeft(q, res, M)
  BY LeftOf
<1>3. Injected(spec, q) = Injected(spec, res)
  BY SameInjected
<1>4. read(x) = read(y)
  <2>1. \A a \in DOMAIN spec.map : Agree(x, y, spec.map[a])
    BY SameItems
  <2> HIDE DEF x, y
  <2> QED
    BY <2>1, SameProjection
<1>5. out(q, x) = out(res, y)
  <2> DEFINE p == read(y)
             Mark == Attestation("terraform", "configuration", TRUE, TRUE)
             Filled(S) == [p EXCEPT !.prov = [a \in DOMAIN p.prov |-> IF a \in S THEN Mark ELSE p.prov[a]]]
  <2>1. \A r : AttestReferences(p, spec, r) = Filled(Injected(spec, r))
    <3> HIDE DEF p
    <3> QED
      BY DEF AttestReferences
  <2> HIDE DEF read, Filled, x, y
  <2> QED
    BY <1>3, <1>4, <2>1
<1> DEFINE o == out(res, y)
<1>6. /\ Make(provider, spec, q, x) = Whole(q, o)
      /\ Make(provider, spec, res, y) = Whole(res, o)
  <2> HIDE DEF Whole, out, x, y
  <2> QED
    BY <1>1, <1>5
<1> HIDE DEF o
<1>7. q.address = res.address /\ q.origin = res.origin
  BY <1>2 DEF IsLeft
<1>8. IdentityOf(q.args, "name") = IdentityOf(res.args, "name")
  BY <1>2, NameReduced DEF Covers
<1>9. \/ RegionOf(spec, q) = RegionOf(spec, res)
      \/ RootField(spec.region) # spec.region /\ RegionOf(spec, q) = ""
  BY <1>2, RegionReduced
<1>10. Id(q, o) = Id(res, o)
  BY <1>7
<1> HIDE DEF OrElse, Id
<1>11. SameMade(Whole(q, o), Whole(res, o))
  <2> DEFINE m == Whole(q, o)
             n == Whole(res, o)
  <2>1. /\ m.address = q.address /\ m.spec = spec /\ m.injected = Injected(spec, q) /\ m.resource = Resource(q, o)
        /\ n.address = res.address /\ n.spec = spec /\ n.injected = Injected(spec, res) /\ n.resource = Resource(res, o)
    OBVIOUS
  <2> HIDE DEF m, n
  <2>2. ButRegion(Resource(q, o), Resource(res, o))
    BY <1>7, <1>8, <1>10 DEF ButRegion, IsResource
  <2>3. Resource(q, o).region = RegionOf(spec, q) /\ Resource(res, o).region = RegionOf(spec, res)
    OBVIOUS
  <2> HIDE DEF Resource
  <2>4. SameMade(m, n)
    BY <1>3, <1>7, <1>9, <2>1, <2>2, <2>3 DEF SameMade
  <2> QED
    BY <2>4 DEF m, n
<1> HIDE DEF Whole, x, y
<1>12. SameMade(Make(provider, spec, q, x), Make(provider, spec, res, y))
  BY <1>6, <1>11
<1> QED
  BY <1>12 DEF x, y

\* Two sequences of what is made, as long as each other, differ in the same way.
Paired(s, t) ==
    /\ IsSequence(s) /\ IsSequence(t) /\ DOMAIN s = DOMAIN t
    /\ \A i \in DOMAIN t : SameMade(s[i], t[i])

\* So do their concatenations.
LEMMA ConcatPaired ==
    ASSUME NEW s, NEW t, NEW u, NEW v, Paired(s, t), Paired(u, v) PROVE Paired(s \o u, t \o v)
<1>1. /\ Len(s) \in Nat /\ DOMAIN s = 1 .. Len(s) /\ Len(t) \in Nat /\ DOMAIN t = 1 .. Len(t)
      /\ Len(u) \in Nat /\ DOMAIN u = 1 .. Len(u) /\ Len(v) \in Nat /\ DOMAIN v = 1 .. Len(v)
  BY SequenceDomain DEF Paired
<1>2. Len(s) = Len(t) /\ Len(u) = Len(v)
  <2>1. \A m, n \in Nat : 1 .. m = 1 .. n => m = n
    OBVIOUS
  <2> QED
    BY <1>1, <2>1 DEF Paired
<1>3. IsSequence(s \o u) /\ IsSequence(t \o v)
  BY ConcatIsSequence DEF Paired
<1>4. /\ DOMAIN (s \o u) = 1 .. Len(s) + Len(u) /\ DOMAIN (t \o v) = 1 .. Len(t) + Len(v)
      /\ \A i \in 1 .. Len(s) + Len(u) : (s \o u)[i] = IF i <= Len(s) THEN s[i] ELSE u[i - Len(s)]
      /\ \A i \in 1 .. Len(t) + Len(v) : (t \o v)[i] = IF i <= Len(t) THEN t[i] ELSE v[i - Len(t)]
  <2> DEFINE S == ToSet(s) \cup ToSet(u)
             T == ToSet(t) \cup ToSet(v)
  <2>1. s \in Seq(S) /\ u \in Seq(S) /\ t \in Seq(T) /\ v \in Seq(T)
    <3>1. s \in Seq(ToSet(s)) /\ u \in Seq(ToSet(u)) /\ t \in Seq(ToSet(t)) /\ v \in Seq(ToSet(v))
      BY DEF Paired, IsSequence
    <3> QED
      BY <3>1
  <2> HIDE DEF S, T
  <2> QED
    BY <2>1
<1>5. ASSUME NEW i \in DOMAIN (t \o v) PROVE SameMade((s \o u)[i], (t \o v)[i])
  <2>1. i \in 1 .. Len(t) + Len(v)
    BY <1>4
  <2>2. CASE i <= Len(t)
    <3>1. i \in DOMAIN t
      BY <1>1, <2>1, <2>2
    <3> QED
      BY <1>2, <1>4, <2>1, <2>2, <3>1 DEF Paired
  <2>3. CASE ~(i <= Len(t))
    <3>1. i - Len(t) \in DOMAIN v
      BY <1>1, <2>1, <2>3
    <3> QED
      BY <1>2, <1>4, <2>1, <2>3, <3>1 DEF Paired
  <2> QED
    BY <2>2, <2>3
<1> QED
  BY <1>2, <1>3, <1>4, <1>5 DEF Paired

\* And their concatenations one after the other.
LEMMA FlattenPaired ==
    ASSUME NEW ss, IsSequence(ss), NEW tt, IsSequence(tt), DOMAIN ss = DOMAIN tt,
           \A i \in DOMAIN tt : Paired(ss[i], tt[i])
    PROVE  Paired(FlattenSeq(ss), FlattenSeq(tt))
<1> DEFINE n == Len(tt)
<1>1. n \in Nat /\ DOMAIN tt = 1 .. n /\ Len(ss) \in Nat /\ DOMAIN ss = 1 .. Len(ss)
  BY SequenceDomain
<1>2. Len(ss) = n
  <2>1. \A k, l \in Nat : 1 .. k = 1 .. l => k = l
    OBVIOUS
  <2> HIDE DEF n
  <2> QED
    BY <1>1, <2>1
<1> HIDE DEF n
<1>3. CASE n = 0
  <2>1. ss = << >> /\ tt = << >>
    <3>1. ss \in Seq(ToSet(ss)) /\ tt \in Seq(ToSet(tt))
      BY DEF IsSequence
    <3> QED
      BY <1>2, <1>3, <3>1 DEF n
  <2>2. FlattenSeq(ss) = << >> /\ FlattenSeq(tt) = << >>
    BY <2>1 DEF FlattenSeq
  <2>3. Paired(<< >>, << >>)
    BY EmptyIsSequence DEF Paired
  <2> QED
    BY <2>2, <2>3
<1>4. CASE n # 0
  <2>1. PICK g : Flattens(g, ss, n) /\ FlattenSeq(ss) = g[n]
    BY <1>1, <1>2, <1>4, FlattenIs
  <2>2. PICK h : Flattens(h, tt, n) /\ FlattenSeq(tt) = h[n]
    BY <1>1, <1>4, FlattenIs DEF n
  <2> DEFINE Bad == {k \in 1 .. n : ~Paired(g[k], h[k])}
  <2>3. Bad = {}
    <3> SUFFICES ASSUME Bad # {} PROVE FALSE
      OBVIOUS
    <3>1. PICK k \in Bad : \A j \in Bad : k <= j
      <4>1. Bad \in SUBSET Nat
        BY <1>1
      <4> HIDE DEF Bad
      <4> QED
        BY <4>1, LeastIndex
    <3>2. k \in 1 .. n /\ ~Paired(g[k], h[k])
      OBVIOUS
    <3>3. /\ g[k] = IF k = 1 THEN ss[k] ELSE g[k - 1] \o ss[k]
          /\ h[k] = IF k = 1 THEN tt[k] ELSE h[k - 1] \o tt[k]
      BY <2>1, <2>2, <3>2 DEF Flattens
    <3>4. Paired(ss[k], tt[k])
      BY <1>1, <3>2
    <3>5. k # 1
      BY <3>2, <3>3, <3>4
    <3>6. k - 1 \in 1 .. n /\ k - 1 \notin Bad
      <4>1. k - 1 \in 1 .. n
        BY <1>1, <3>2, <3>5
      <4> HIDE DEF Bad
      <4> QED
        BY <3>1, <3>2, <4>1
    <3>7. Paired(g[k - 1], h[k - 1])
      BY <3>6
    <3>8. Paired(g[k - 1] \o ss[k], h[k - 1] \o tt[k])
      BY <3>4, <3>7, ConcatPaired
    <3> HIDE DEF Bad
    <3> QED
      BY <3>2, <3>3, <3>5, <3>8
  <2>4. Paired(g[n], h[n])
    BY <1>1, <1>4, <2>3
  <2> QED
    BY <2>1, <2>2, <2>4
<1> QED
  BY <1>3, <1>4

\* What is made of a reduced plan and of the plan differ in their regions at most.
LEMMA AllMadeReduced ==
    ASSUME NEW provider, NEW specs, IsSequence(specs), \A spec \in ToSet(specs) : IsSpec(spec), NEW plan, IsPlan(plan)
    PROVE  Paired(AllMade(provider, specs, ParsePlan(Trim(specs, plan))), AllMade(provider, specs, ParsePlan(plan)))
<1> DEFINE MakeAll(res, spec, items) == [i \in DOMAIN items |-> Make(provider, spec, res, items[i])]
           MakeEach(res, spec) ==
                IF spec.tf = TypeOf(res.address) THEN MakeAll(res, spec, ItemsOf(spec, res)) ELSE << >>
           Each(res) == [k \in DOMAIN specs |-> MakeEach(res, specs[k])]
           All(resources) == [i \in DOMAIN resources |-> FlattenSeq(Each(resources[i]))]
           p == ParsePlan(plan)
           w == ParsePlan(Trim(specs, plan))
           M(res) == MappedOf(specs, res.address)
<1>1. \A resources : AllMade(provider, specs, resources) = FlattenSeq(All(resources))
  BY Zenon DEF AllMade
<1>2. /\ IsSequence(p) /\ IsSequence(w) /\ DOMAIN w = DOMAIN p
      /\ \A i \in DOMAIN p : w[i] = ReducedPlanned(p[i], M(p[i]))
      /\ \A r \in ToSet(p) : \A f \in DOMAIN r.blocks : IsSequence(r.blocks[f])
      /\ \A r \in ToSet(w) : \A f \in DOMAIN r.blocks : IsSequence(r.blocks[f])
      /\ \A r \in ToSet(p) : IsNamed(r)
  <2>1. IsPlan(Trim(specs, plan))
    BY ReducedIsPlan
  <2>2. /\ DOMAIN w = DOMAIN p
        /\ \A i \in DOMAIN p : w[i] = ReducedPlanned(p[i], M(p[i]))
    BY ReducedPlannedIs
  <2>3. \A r \in ToSet(p) : IsNamed(r)
    BY PlannedIsNamed
  <2> QED
    BY <2>1, <2>2, <2>3, PlannedIs, PlannedOnce
<1>3. /\ DOMAIN specs = 1 .. Len(specs) /\ Len(specs) \in Nat
      /\ DOMAIN p = 1 .. Len(p) /\ Len(p) \in Nat
  BY <1>2, SequenceDomain
<1> HIDE DEF p, w
<1>4. ASSUME NEW i \in DOMAIN p, NEW k \in DOMAIN specs PROVE Paired(MakeEach(w[i], specs[k]), MakeEach(p[i], specs[k]))
  <2> DEFINE res == p[i]
             q == w[i]
             spec == specs[k]
             s == MakeEach(q, spec)
             t == MakeEach(res, spec)
  <2>1. /\ res \in ToSet(p) /\ q \in ToSet(w) /\ spec \in ToSet(specs)
    BY <1>2 DEF ToSet
  <2>2. /\ q = ReducedPlanned(res, M(res)) /\ q.address = res.address
        /\ IsNamed(res) /\ IsSpec(spec)
        /\ \A f \in DOMAIN res.blocks : IsSequence(res.blocks[f])
        /\ \A f \in DOMAIN q.blocks : IsSequence(q.blocks[f])
    <3>1. q = ReducedPlanned(res, M(res))
      BY <1>2
    <3>2. q.address = res.address
      BY <3>1 DEF ReducedPlanned
    <3> QED
      BY <1>2, <2>1, <3>1, <3>2
  <2> HIDE DEF res, q, spec
  <2>3. ASSUME spec.tf = TypeOf(res.address) PROVE Paired(s, t)
    <3>1. Covers(M(res), spec)
      BY <2>1, <2>3, MappedCovers DEF MappedOf
    <3> DEFINE x == ItemsOf(spec, q)
               y == ItemsOf(spec, res)
               N == M(res)
    <3> HIDE DEF N
    <3>2. DOMAIN x = DOMAIN y
      BY <2>2, <3>1, SameItems DEF N
    <3>3. IsSequence(x) /\ IsSequence(y)
      BY <2>2, ItemsAreASequence
    <3>4. \A j \in DOMAIN y : SameMade(Make(provider, spec, q, x[j]), Make(provider, spec, res, y[j]))
      BY <2>2, <2>3, <3>1, MakeReduced DEF N
    <3>5. s = MakeAll(q, spec, x) /\ t = MakeAll(res, spec, y)
      BY <2>2, <2>3
    <3> HIDE DEF x, y, s, t
    <3>6. /\ DOMAIN s = DOMAIN x /\ s = [j \in DOMAIN s |-> s[j]] /\ \A j \in DOMAIN s : s[j] = Make(provider, spec, q, x[j])
          /\ DOMAIN t = DOMAIN y /\ t = [j \in DOMAIN t |-> t[j]] /\ \A j \in DOMAIN t : t[j] = Make(provider, spec, res, y[j])
      BY <3>5
    <3>7. IsSequence(s) /\ IsSequence(t)
      BY <3>3, <3>6, SameDomain
    <3>8. Paired(s, t)
      BY <3>2, <3>4, <3>6, <3>7 DEF Paired
    <3> QED
      BY <3>8 DEF s, t
  <2>4. ASSUME spec.tf # TypeOf(res.address) PROVE Paired(s, t)
    <3>1. s = << >> /\ t = << >>
      BY <2>2, <2>4
    <3> HIDE DEF s, t
    <3>2. Paired(s, t)
      BY <3>1, EmptyIsSequence DEF Paired
    <3> QED
      BY <3>2 DEF s, t
  <2>5. Paired(s, t)
    <3> HIDE DEF s, t
    <3> QED
      BY <2>3, <2>4
  <2> QED
    BY <2>5 DEF s, t, res, q, spec
<1> HIDE DEF MakeEach
<1>5. ASSUME NEW i \in DOMAIN p PROVE Paired(FlattenSeq(Each(w[i])), FlattenSeq(Each(p[i])))
  <2> DEFINE ss == Each(w[i])
             tt == Each(p[i])
  <2>1. /\ DOMAIN ss = DOMAIN specs /\ ss = [k \in DOMAIN ss |-> ss[k]]
        /\ DOMAIN tt = DOMAIN specs /\ tt = [k \in DOMAIN tt |-> tt[k]]
        /\ \A k \in DOMAIN tt : Paired(ss[k], tt[k])
    BY <1>4
  <2> HIDE DEF ss, tt
  <2>2. IsSequence(ss) /\ IsSequence(tt)
    BY <2>1, SameDomain
  <2>3. Paired(FlattenSeq(ss), FlattenSeq(tt))
    BY <2>1, <2>2, FlattenPaired
  <2> QED
    BY <2>3 DEF ss, tt
<1> HIDE DEF Each
<1>6. Paired(FlattenSeq(All(w)), FlattenSeq(All(p)))
  <2> DEFINE ss == All(w)
             tt == All(p)
  <2>1. /\ DOMAIN ss = DOMAIN w /\ ss = [k \in DOMAIN ss |-> ss[k]]
        /\ DOMAIN tt = DOMAIN p /\ tt = [k \in DOMAIN tt |-> tt[k]]
        /\ \A k \in DOMAIN tt : Paired(ss[k], tt[k])
    BY <1>2, <1>5
  <2> HIDE DEF ss, tt
  <2>2. IsSequence(ss) /\ IsSequence(tt)
    BY <1>2, <2>1, SameDomain
  <2>3. Paired(FlattenSeq(ss), FlattenSeq(tt))
    BY <1>2, <2>1, <2>2, FlattenPaired
  <2> QED
    BY <2>3 DEF ss, tt
<1> HIDE DEF All
<1> QED
  BY <1>1, <1>6 DEF p, w

\* The identities are the same.
LEMMA IdentitiesReduced ==
    ASSUME NEW m, NEW n, Paired(m, n) PROVE IdParAdresse(m) = IdParAdresse(n)
<1> DEFINE Of(made, a) == {i \in DOMAIN made : made[i].address = a}
           Latest(S) == CHOOSE i \in S : \A j \in S : j <= i
           Addresses(made) == {made[i].address : i \in DOMAIN made}
<1>1. \A made : IdParAdresse(made) = [a \in Addresses(made) |-> made[Latest(Of(made, a))].resource.id]
  BY Zenon DEF IdParAdresse
<1>2. /\ DOMAIN m = DOMAIN n
      /\ \A i \in DOMAIN n : m[i].address = n[i].address /\ m[i].resource.id = n[i].resource.id
  BY DEF Paired, SameMade, ButRegion
<1>3. Addresses(m) = Addresses(n) /\ \A a : Of(m, a) = Of(n, a)
  BY <1>2
<1>4. ASSUME NEW a \in Addresses(n) PROVE Latest(Of(n, a)) \in DOMAIN n
  <2> DEFINE S == Of(n, a)
  <2>1. S # {} /\ S \subseteq DOMAIN n
    BY <1>4
  <2>2. DOMAIN n = 1 .. Len(n) /\ Len(n) \in Nat
    BY SequenceDomain DEF Paired
  <2> HIDE DEF S
  <2>3. \E i \in S : \A j \in S : j <= i
    BY <2>1, <2>2, LastIndex
  <2>4. Latest(S) \in S
    BY <2>3
  <2> QED
    BY <2>1, <2>4 DEF S
<1> HIDE DEF Of, Latest, Addresses
<1>5. \A a \in Addresses(n) : m[Latest(Of(m, a))].resource.id = n[Latest(Of(n, a))].resource.id
  BY <1>2, <1>3, <1>4
<1> QED
  BY <1>1, <1>3, <1>5

\* A resource is another one, or lost the region of it, whose path is nested.
Less(spec, r, t) ==
    \/ r = t
    \/ RootField(spec.region) # spec.region /\ r = [t EXCEPT !.region = ""]

\* The second pass gives the same resource, but for its region.
LEMMA ResolvedReduced ==
    ASSUME NEW m, NEW n, SameMade(m, n), NEW ids
    PROVE  Less(n.spec, ResoudreVersLIdentite(m, ids), ResoudreVersLIdentite(n, ids))
<1> DEFINE Id(t) == IF t \in DOMAIN ids THEN ids[t] ELSE t
           Of(v) == IF v.kind \in {"string", "list"}
                    THEN Val(v.kind, [j \in DOMAIN v.of |-> Id(v.of[j])]) ELSE v
           Ident(x) == IF x.spec.id \in x.injected THEN Id(x.resource.id) ELSE x.resource.id
           Name(x) == IF x.resource.name = x.resource.id THEN Ident(x) ELSE x.resource.name
           Attrs(x) == [a \in DOMAIN x.resource.attrs |->
                            IF a \in x.injected THEN Of(x.resource.attrs[a]) ELSE x.resource.attrs[a]]
<1>1. \A x : ResoudreVersLIdentite(x, ids) = [x.resource EXCEPT !.id = Ident(x), !.name = Name(x), !.attrs = Attrs(x)]
  BY Zenon DEF ResoudreVersLIdentite
<1>2. Ident(m) = Ident(n) /\ Name(m) = Name(n) /\ Attrs(m) = Attrs(n)
  BY DEF SameMade, ButRegion
<1> HIDE DEF Ident, Name, Attrs
<1>3. ASSUME NEW x, IsResource(x.resource)
      PROVE  ResoudreVersLIdentite(x, ids)
                = [provider |-> x.resource.provider, type |-> x.resource.type, id |-> Ident(x), name |-> Name(x),
                   region |-> x.resource.region, attrs |-> Attrs(x), prov |-> x.resource.prov, source |-> x.resource.source]
  <2> DEFINE y == x.resource
             id == Ident(x)
             name == Name(x)
             attrs == Attrs(x)
             out == ResoudreVersLIdentite(x, ids)
  <2>1. out = [y EXCEPT !.id = id, !.name = name, !.attrs = attrs]
    BY <1>1
  <2>2. y = [provider |-> y.provider, type |-> y.type, id |-> y.id, name |-> y.name,
             region |-> y.region, attrs |-> y.attrs, prov |-> y.prov, source |-> y.source]
    BY <1>3 DEF IsResource
  <2> HIDE DEF y, id, name, attrs, out
  <2>3. out = [provider |-> y.provider, type |-> y.type, id |-> id, name |-> name,
               region |-> y.region, attrs |-> attrs, prov |-> y.prov, source |-> y.source]
    BY <2>1, <2>2
  <2> QED
    BY <2>3 DEF y, id, name, attrs, out
<1> DEFINE r == ResoudreVersLIdentite(m, ids)
           t == ResoudreVersLIdentite(n, ids)
           Full(region) ==
                [provider |-> n.resource.provider, type |-> n.resource.type, id |-> Ident(n), name |-> Name(n),
                 region |-> region, attrs |-> Attrs(n), prov |-> n.resource.prov, source |-> n.resource.source]
<1>4. r = Full(m.resource.region) /\ t = Full(n.resource.region)
  BY <1>2, <1>3 DEF SameMade, ButRegion
<1>5. /\ IsResource(Full("")) /\ IsResource(t)
      /\ t.provider = Full("").provider /\ t.type = Full("").type /\ t.id = Full("").id /\ t.name = Full("").name
      /\ t.attrs = Full("").attrs /\ t.prov = Full("").prov /\ t.source = Full("").source /\ Full("").region = ""
  BY <1>4 DEF IsResource
<1> DEFINE full == Full("")
           lost == [t EXCEPT !.region = ""]
<1> HIDE DEF t, full
<1>6. lost = full
  BY <1>5 DEF IsResource, full
<1> HIDE DEF r, t, Full, lost
<1>7. r = t \/ (RootField(n.spec.region) # n.spec.region /\ r = lost)
  BY <1>4, <1>6 DEF SameMade, full
<1> QED
  BY <1>7, Zenon DEF Less, r, t, lost

\* What is not mapped is counted alike.
LEMMA UnmappedReduced ==
    ASSUME NEW specs, NEW plan, IsPlan(plan)
    PROVE  Unmapped(specs, ParsePlan(Trim(specs, plan))) = Unmapped(specs, ParsePlan(plan))
<1> DEFINE p == ParsePlan(plan)
           w == ParsePlan(Trim(specs, plan))
           types == OwnedTypes \ {specs[k].tf : k \in DOMAIN specs}
           Of(resources, t) == {i \in DOMAIN resources : TypeOf(resources[i].address) = t}
           Count(S) == Cardinality(S)
<1>1. \A resources : Unmapped(specs, resources)
        = [t \in {t \in types : Count(Of(resources, t)) > 0} |-> Count(Of(resources, t))]
  BY Zenon DEF Unmapped
<1>2. DOMAIN w = DOMAIN p /\ \A i \in DOMAIN p : w[i].address = p[i].address
  <2>1. /\ DOMAIN w = DOMAIN p
        /\ \A i \in DOMAIN p : w[i] = ReducedPlanned(p[i], MappedOf(specs, p[i].address))
    BY ReducedPlannedIs
  <2> HIDE DEF w, p
  <2> QED
    BY <2>1 DEF ReducedPlanned
<1> HIDE DEF w, p, types, Count
<1>3. \A t : Of(w, t) = Of(p, t)
  BY <1>2
<1> HIDE DEF Of
<1> QED
  BY <1>1, <1>3 DEF w, p

\* The inventory of a reduced plan is the one of the plan, but for the regions of a nested path.
LEMMA AppliedReduced ==
    ASSUME NEW provider, NEW specs, IsSequence(specs), \A spec \in ToSet(specs) : IsSpec(spec), NEW plan, IsPlan(plan),
           NEW made, made = AllMade(provider, specs, ParsePlan(plan)),
           NEW inv, inv = Apply(provider, specs, ParsePlan(Trim(specs, plan)))
    PROVE  /\ inv.unmapped = Unmapped(specs, ParsePlan(plan))
           /\ Len(inv.resources) = Len(made)
           /\ \A i \in DOMAIN made :
                /\ made[i].spec.tf = TypeOf(made[i].address)
                /\ Less(made[i].spec, inv.resources[i], ResoudreVersLIdentite(made[i], IdParAdresse(made)))
<1> DEFINE w == ParsePlan(Trim(specs, plan))
           less == AllMade(provider, specs, w)
           out == Apply(provider, specs, w).resources
<1>1. Paired(less, made)
  BY AllMadeReduced
<1>2. /\ IsSequence(out) /\ DOMAIN out = DOMAIN less
      /\ \A i \in DOMAIN out : out[i] = ResoudreVersLIdentite(less[i], IdParAdresse(less))
  BY <1>1, AppliedIs DEF Paired
<1>3. inv.unmapped = Unmapped(specs, ParsePlan(plan))
  BY UnmappedReduced DEF Apply
<1>4. out = inv.resources
  OBVIOUS
<1> HIDE DEF less, out, w
<1>5. IdParAdresse(less) = IdParAdresse(made)
  BY <1>1, IdentitiesReduced
<1>6. Len(out) = Len(made)
  <2>1. \A k, l \in Nat : 1 .. k = 1 .. l => k = l
    OBVIOUS
  <2>2. /\ Len(out) \in Nat /\ DOMAIN out = 1 .. Len(out) /\ Len(made) \in Nat /\ DOMAIN made = 1 .. Len(made)
        /\ DOMAIN out = DOMAIN made
    BY <1>1, <1>2, SequenceDomain DEF Paired
  <2> QED
    BY <2>1, <2>2
<1>7. ASSUME NEW i \in DOMAIN made
      PROVE  /\ made[i].spec.tf = TypeOf(made[i].address)
             /\ Less(made[i].spec, out[i], ResoudreVersLIdentite(made[i], IdParAdresse(made)))
  <2>1. SameMade(less[i], made[i])
    BY <1>1 DEF Paired
  <2>2. out[i] = ResoudreVersLIdentite(less[i], IdParAdresse(made))
    BY <1>1, <1>2, <1>5 DEF Paired
  <2>3. made[i].spec.tf = TypeOf(made[i].address)
    BY <2>1 DEF SameMade
  <2> QED
    BY <2>1, <2>2, <2>3, ResolvedReduced
<1> QED
  BY <1>3, <1>4, <1>6, <1>7, Zenon

\* What is left of a plan is what the mapping reads.
LEMMA ReducedIsMapped ==
    ASSUME NEW specs, NEW plan, IsPlan(plan) PROVE CheckPlanAttributes(specs, Trim(specs, plan)) = {}
<1> DEFINE red == Trim(specs, plan)
           v == plan.values
           w == red.values
<1>1. /\ DOMAIN w = DOMAIN v
      /\ \A i \in DOMAIN v : w[i] = ReducedResource(v[i], MappedOf(specs, v[i].address))
  <2>1. /\ red = [readable |-> plan.readable, values |-> w,
                  configuration |-> red.configuration, sources |-> plan.sources]
        /\ DOMAIN w = DOMAIN v /\ w = [i \in DOMAIN w |-> w[i]]
        /\ \A i \in DOMAIN v : w[i] = ReducedResource(v[i], MappedOf(specs, v[i].address))
        /\ DOMAIN red.configuration = DOMAIN plan.configuration
        /\ \A s \in DOMAIN plan.configuration : red.configuration[s] = ReducedScope(specs, plan.configuration[s])
    BY ReducedIs
  <2> QED
    BY <2>1
<1>2. \A i \in DOMAIN v : \A f \in DOMAIN v[i].blocks : RootField(f) = f
  BY DEF IsPlan, ToSet
<1>3. CheckPlanAttributes(specs, red)
        = UNION {{TypeOf(r.address)} \X (Keys(r) \ MappedFields(specs, TypeOf(r.address))) : r \in Range(w)}
  BY DEF CheckPlanAttributes
<1> HIDE DEF red, v, w
<1>4. ASSUME NEW r \in Range(w) PROVE Keys(r) \subseteq MappedFields(specs, TypeOf(r.address))
  <2>1. PICK i \in DOMAIN w : r = w[i]
    BY DEF Range
  <2>2. r.address = v[i].address /\ Keys(r) = Keys(v[i]) \cap MappedOf(specs, v[i].address)
    BY <1>1, <1>2, <2>1, ReducedKeys
  <2> QED
    BY <2>2 DEF MappedOf
<1>5. \A r \in Range(w) : {TypeOf(r.address)} \X (Keys(r) \ MappedFields(specs, TypeOf(r.address))) = {}
  BY <1>4
<1> QED
  BY <1>3, <1>5 DEF red

\* What the list of the mapping leaves is a record of functions.
LEMMA TrimmedIs ==
    ASSUME NEW specs, NEW plan, IsPlan(plan), NEW i \in DOMAIN Trim(specs, plan).values
    PROVE  LET r == plan.values[i]
               t == Trim(specs, plan).values[i]
               mapped == MappedFields(specs, TypeOf(r.address))
           IN  /\ i \in DOMAIN plan.values
               /\ t = [address |-> r.address, args |-> t.args, blocks |-> t.blocks]
               /\ t.args = [f \in {f \in DOMAIN r.args : RootField(f) \in mapped} |-> r.args[f]]
               /\ t.blocks = [b \in DOMAIN r.blocks \cap mapped |-> r.blocks[b]]
<1> DEFINE red == Trim(specs, plan)
           r == plan.values[i]
           M == MappedFields(specs, TypeOf(r.address))
<1>1. DOMAIN red.values = DOMAIN plan.values /\ red.values[i] = ReducedResource(r, M)
  <2>1. /\ red = [readable |-> plan.readable, values |-> red.values,
                  configuration |-> red.configuration, sources |-> plan.sources]
        /\ DOMAIN red.values = DOMAIN plan.values /\ red.values = [j \in DOMAIN red.values |-> red.values[j]]
        /\ \A j \in DOMAIN plan.values :
              red.values[j] = ReducedResource(plan.values[j], MappedOf(specs, plan.values[j].address))
        /\ DOMAIN red.configuration = DOMAIN plan.configuration
        /\ \A s \in DOMAIN plan.configuration : red.configuration[s] = ReducedScope(specs, plan.configuration[s])
    BY ReducedIs
  <2> QED
    BY <2>1 DEF MappedOf
<1>2. \A b \in DOMAIN r.blocks : RootField(b) = b
  BY <1>1 DEF IsPlan, ToSet
<1> HIDE DEF red, r, M
<1>3. {b \in DOMAIN r.blocks : RootField(b) \in M} = DOMAIN r.blocks \cap M
  BY <1>2
<1>4. ReducedResource(r, M).args = [f \in {f \in DOMAIN r.args : RootField(f) \in M} |-> r.args[f]]
  BY DEF ReducedResource, KeptIn
<1>5. ReducedResource(r, M).blocks = [b \in DOMAIN r.blocks \cap M |-> r.blocks[b]]
  BY <1>3 DEF ReducedResource, KeptIn
<1>6. ReducedResource(r, M) = [address |-> r.address, args |-> ReducedResource(r, M).args,
                               blocks |-> ReducedResource(r, M).blocks]
  BY DEF ReducedResource
<1> QED
  BY <1>1, <1>4, <1>5, <1>6 DEF red, r, M

\* A resource that bears no secret is not changed by the names of secrets.
LEMMA NothingToScrub ==
    ASSUME NEW r, r = [address |-> r.address, args |-> r.args, blocks |-> r.blocks],
           r.args = [f \in DOMAIN r.args |-> r.args[f]], r.blocks = [b \in DOMAIN r.blocks |-> r.blocks[b]],
           \A f \in DOMAIN r.args \cap SecretFields : r.args[f] = Null,
           \A b \in DOMAIN r.blocks :
             /\ IsSequence(r.blocks[b])
             /\ b \in SecretFields => r.blocks[b] = <<>>
             /\ \A item \in ToSet(r.blocks[b]) :
                  /\ item = [k \in DOMAIN item |-> item[k]]
                  /\ \A f \in DOMAIN item \cap SecretFields : item[f] = Null
    PROVE  Scrub(r) = r
<1> DEFINE Nulled(values) == [f \in DOMAIN values |-> IF f \in SecretFields THEN Null ELSE values[f]]
           Items(b) == IF b \in SecretFields THEN <<>>
                       ELSE [i \in DOMAIN r.blocks[b] |-> Nulled(r.blocks[b][i])]
           blocks == [b \in DOMAIN r.blocks |-> Items(b)]
<1>1. Scrub(r) = [r EXCEPT !.args = Nulled(r.args), !.blocks = blocks]
  BY Zenon DEF Scrub
<1>2. \A values : values = [f \in DOMAIN values |-> values[f]] /\ (\A f \in DOMAIN values \cap SecretFields : values[f] = Null)
                    => Nulled(values) = values
  OBVIOUS
<1>3. Nulled(r.args) = r.args
  BY <1>2
<1>4. ASSUME NEW b \in DOMAIN r.blocks PROVE Items(b) = r.blocks[b]
  <2>1. CASE b \in SecretFields
    BY <2>1
  <2>2. CASE b \notin SecretFields
    <3> DEFINE items == r.blocks[b]
    <3>1. \A i \in DOMAIN items : Nulled(items[i]) = items[i]
      BY <1>2 DEF ToSet
    <3>2. items = [i \in DOMAIN items |-> items[i]]
      BY DEF IsSequence
    <3> HIDE DEF Nulled
    <3> QED
      BY <2>2, <3>1, <3>2
  <2> QED
    BY <2>1, <2>2
<1>5. blocks = r.blocks
  <2> HIDE DEF Items
  <2> QED
    BY <1>4
<1> HIDE DEF blocks, Nulled
<1> QED
  BY <1>1, <1>3, <1>5

\* Where no value that is read bears the name of a secret, a reduction is what its list leaves.
LEMMA NothingIsScrubbed ==
    ASSUME NEW specs, NEW plan, IsPlan(plan), NoSecretIsRead(specs, plan)
    PROVE  Reduce(specs, plan) = Trim(specs, plan)
<1> DEFINE red == Trim(specs, plan)
           after == [i \in DOMAIN red.values |-> Scrub(red.values[i])]
<1>1. /\ red = [readable |-> plan.readable, values |-> red.values,
                configuration |-> red.configuration, sources |-> plan.sources]
      /\ red.values = [i \in DOMAIN red.values |-> red.values[i]]
  <2>1. LET q == Trim(specs, plan) IN
        /\ q = [readable |-> plan.readable, values |-> q.values,
                configuration |-> q.configuration, sources |-> plan.sources]
        /\ q.values = [i \in DOMAIN q.values |-> q.values[i]]
    BY ReducedIs
  <2> QED
    BY <2>1
<1>2. ASSUME NEW i \in DOMAIN red.values PROVE Scrub(red.values[i]) = red.values[i]
  <2> DEFINE r == plan.values[i]
             t == red.values[i]
             M == MappedFields(specs, TypeOf(r.address))
  <2>1. /\ i \in DOMAIN plan.values
        /\ t = [address |-> r.address, args |-> t.args, blocks |-> t.blocks]
        /\ t.args = [f \in {f \in DOMAIN r.args : RootField(f) \in M} |-> r.args[f]]
        /\ t.blocks = [b \in DOMAIN r.blocks \cap M |-> r.blocks[b]]
    BY TrimmedIs
  <2>2. r \in ToSet(plan.values)
    BY <2>1 DEF ToSet
  <2>3. \A b \in DOMAIN r.blocks : /\ IsSequence(r.blocks[b])
                                  /\ \A item \in ToSet(r.blocks[b]) : item = [k \in DOMAIN item |-> item[k]]
    BY <2>2 DEF IsPlan
  <2>4. /\ \A f \in DOMAIN r.args \cap SecretFields : RootField(f) \in M => r.args[f] = Null
        /\ \A b \in DOMAIN r.blocks \cap M :
            /\ b \in SecretFields => r.blocks[b] = <<>>
            /\ \A item \in ToSet(r.blocks[b]) : \A f \in DOMAIN item \cap SecretFields : item[f] = Null
    BY <2>2 DEF NoSecretIsRead
  <2> HIDE DEF r, t, M
  <2>5. /\ DOMAIN t.args = {f \in DOMAIN r.args : RootField(f) \in M}
        /\ \A f \in DOMAIN t.args : t.args[f] = r.args[f]
        /\ t.args = [f \in DOMAIN t.args |-> t.args[f]]
    BY <2>1
  <2>6. /\ DOMAIN t.blocks = DOMAIN r.blocks \cap M
        /\ \A b \in DOMAIN t.blocks : t.blocks[b] = r.blocks[b]
        /\ t.blocks = [b \in DOMAIN t.blocks |-> t.blocks[b]]
    BY <2>1
  <2>7. t = [address |-> t.address, args |-> t.args, blocks |-> t.blocks]
    BY <2>1
  <2>8. \A f \in DOMAIN t.args \cap SecretFields : t.args[f] = Null
    BY <2>4, <2>5
  <2>9. \A b \in DOMAIN t.blocks :
             /\ IsSequence(t.blocks[b])
             /\ b \in SecretFields => t.blocks[b] = <<>>
             /\ \A item \in ToSet(t.blocks[b]) :
                  /\ item = [k \in DOMAIN item |-> item[k]]
                  /\ \A f \in DOMAIN item \cap SecretFields : item[f] = Null
    BY <2>3, <2>4, <2>6
  <2>10. Scrub(t) = t
    BY <2>5, <2>6, <2>7, <2>8, <2>9, NothingToScrub
  <2> QED
    BY <2>10 DEF t
<1>3. Reduce(specs, plan) = [red EXCEPT !.values = after]
  BY Zenon DEF Reduce
<1> HIDE DEF red
<1>4. after = red.values
  BY <1>1, <1>2
<1> HIDE DEF after
<1> QED
  BY <1>1, <1>3, <1>4 DEF red

\* A reduced plan is accepted, whatever it bears: its keys are those that the list leaves.
LEMMA ScrubbedIsMapped ==
    ASSUME NEW specs, NEW plan, IsPlan(plan) PROVE CheckPlanAttributes(specs, Reduce(specs, plan)) = {}
<1> DEFINE red == Trim(specs, plan)
           after == [i \in DOMAIN red.values |-> Scrub(red.values[i])]
           out == Reduce(specs, plan)
           More(r) == {TypeOf(r.address)} \X (Keys(r) \ MappedFields(specs, TypeOf(r.address)))
<1>1. out.values = after
  <2>1. red = [readable |-> plan.readable, values |-> red.values,
                configuration |-> red.configuration, sources |-> plan.sources]
    <3>1. LET q == Trim(specs, plan) IN
          q = [readable |-> plan.readable, values |-> q.values,
               configuration |-> q.configuration, sources |-> plan.sources]
      BY ReducedIs
    <3> QED
      BY <3>1
  <2>2. out = [red EXCEPT !.values = after]
    BY Zenon DEF Reduce
  <2> HIDE DEF red, after, out
  <2> QED
    BY <2>1, <2>2
<1>2. ASSUME NEW i \in DOMAIN red.values
      PROVE  More(Scrub(red.values[i])) = More(red.values[i])
  <2> DEFINE t == red.values[i]
  <2>1. t = [address |-> t.address, args |-> t.args, blocks |-> t.blocks]
    <3> DEFINE r == plan.values[i]
               M == MappedFields(specs, TypeOf(r.address))
    <3>1. /\ i \in DOMAIN plan.values
          /\ t = [address |-> r.address, args |-> t.args, blocks |-> t.blocks]
          /\ t.args = [f \in {f \in DOMAIN r.args : RootField(f) \in M} |-> r.args[f]]
          /\ t.blocks = [b \in DOMAIN r.blocks \cap M |-> r.blocks[b]]
      BY TrimmedIs
    <3> HIDE DEF t
    <3> QED
      BY <3>1
  <2> HIDE DEF t
  <2>2. /\ Scrub(t).address = t.address
        /\ DOMAIN Scrub(t).args = DOMAIN t.args
        /\ DOMAIN Scrub(t).blocks = DOMAIN t.blocks
    BY <2>1 DEF Scrub
  <2>3. Keys(Scrub(t)) = Keys(t)
    BY <2>2 DEF Keys
  <2> QED
    BY <2>2, <2>3, Zenon DEF t
<1>3. UNION {More(r) : r \in Range(red.values)} = {}
  <2>1. CheckPlanAttributes(specs, red) = {}
    BY ReducedIsMapped
  <2> QED
    BY <2>1, Zenon DEF CheckPlanAttributes
<1>4. CheckPlanAttributes(specs, out) = UNION {More(r) : r \in Range(out.values)}
  BY Zenon DEF CheckPlanAttributes
<1> HIDE DEF red, out, More
<1>5. ASSUME NEW r \in Range(out.values) PROVE More(r) = {}
  <2>1. PICK i \in DOMAIN red.values : r = Scrub(red.values[i])
    BY <1>1 DEF Range
  <2>2. red.values[i] \in Range(red.values)
    BY DEF Range
  <2> QED
    BY <1>2, <1>3, <2>1, <2>2
<1> QED
  BY <1>4, <1>5 DEF out

=============================================================================
