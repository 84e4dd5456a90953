-------------------------- MODULE AggregateProofs --------------------------
(***************************************************************************)
(* Why the totals of aggregate_reports are those of the rows, for any      *)
(* range, rows, grouping and filter: the laws of a finite sum, then what   *)
(* the two stores hold after each row.                                     *)
(***************************************************************************)
EXTENDS Aggregate, FiniteSetTheorems, WellFoundedInduction, SequenceTheorems, TLAPS

(* The element a fold takes next, and the equation of its partial sums. *)
Pick(S) == CHOOSE x \in S : TRUE
SumsTo(g, f, s) == g[s] = IF s = {} THEN 0 ELSE f[Pick(s)] + g[s \ {Pick(s)}]
Partial(f, S) ==
  CHOOSE g : g = [s \in SUBSET S |-> IF s = {} THEN 0 ELSE f[Pick(s)] + g[s \ {Pick(s)}]]

(* The counted rows of a key, by period and by day. *)
InPeriod(k, p) == {i \in With(k) : PeriodAt(read[i].date) = p}
OnDay(k, d) == {i \in With(k) : read[i].date = d}

(* A cumulative value is the sum of its rows, and is there if they are. *)
CumOK ==
  \A k \in Key, p \in Period :
    cum[<<k, p>>] = IF InPeriod(k, p) = {} THEN Unset ELSE SumOf(InPeriod(k, p))

(* So is the snapshot of a group or an account, day by day. *)
SnapOK ==
  \A k \in Member, d \in Date :
    snap[<<k, d>>] = IF OnDay(k, d) = {} THEN Unset ELSE SumOf(OnDay(k, d))

(* That of a bucket is the value of its last row of the day. *)
IsLast(i, S) == i \in S /\ \A j \in S : j <= i
LastOK ==
  \A b \in Bucket, d \in Date :
    IF OnDay(b, d) = {} THEN snap[<<b, d>>] = Unset
    ELSE \E i \in OnDay(b, d) : IsLast(i, OnDay(b, d)) /\ snap[<<b, d>>] = read[i].row.value

(* The request is a legal one, and the walk is at a date until it is done. *)
WalkOK ==
  /\ groupBy \in DOMAIN PeriodOf /\ filter \in Filter
  /\ pc # "done" => current \in Date

IInv == TypeOK /\ WalkOK /\ CumOK /\ SnapOK /\ LastOK

-----------------------------------------------------------------------------
(* Induction, over a set of numbers and over the subsets of a finite set *)

LEMMA NatSet ==
  ASSUME NEW A \in SUBSET Nat, 0 \in A, \A n \in A : n + 1 \in A
  PROVE  A = Nat
<1> SUFFICES ASSUME Nat \ A # {} PROVE FALSE
  OBVIOUS
<1>1. PICK n \in Nat \ A : \A m \in Nat \ A : <<m, n>> \notin OpToRel(<, Nat)
  BY NatLessThanWellFounded, WFMin, Zenon
<1>2. n # 0 /\ n - 1 \in Nat
  OBVIOUS
<1>3. n - 1 \notin A
  BY <1>2
<1>4. ~(n - 1 < n)
  BY <1>1, <1>2, <1>3 DEF OpToRel
<1>5. QED BY <1>4

LEMMA SubsetInduction ==
  ASSUME NEW S, IsFiniteSet(S), NEW A \in SUBSET SUBSET S, {} \in A,
         \A T \in A : \A x \in S \ T : T \cup {x} \in A
  PROVE  S \in A
<1> DEFINE N == {n \in Nat : \A T \in SUBSET S : Cardinality(T) = n => T \in A}
<1>1. 0 \in N
  <2>1. \A T \in SUBSET S : Cardinality(T) = 0 => T = {}
    BY FS_Subset, FS_EmptySet
  <2>2. QED BY <2>1
<1>2. ASSUME NEW n \in N PROVE n + 1 \in N
  <2> SUFFICES ASSUME NEW T \in SUBSET S, Cardinality(T) = n + 1 PROVE T \in A
    OBVIOUS
  <2>1. IsFiniteSet(T)
    BY FS_Subset
  <2>2. T # {}
    <3>1. n \in Nat
      OBVIOUS
    <3>2. n + 1 # 0
      BY <3>1
    <3>3. QED BY <3>2, FS_EmptySet
  <2>3. PICK x : x \in T
    BY <2>2
  <2>4. Cardinality(T \ {x}) = n
    <3>1. n \in Nat
      OBVIOUS
    <3>2. Cardinality(T \ {x}) = Cardinality(T) - 1
      BY <2>1, <2>3, FS_RemoveElement
    <3>3. QED BY <3>1, <3>2
  <2>5. T \ {x} \in A
    BY <2>4
  <2>6. (T \ {x}) \cup {x} \in A
    BY <2>3, <2>5
  <2>7. QED BY <2>3, <2>6
<1>3. N = Nat
  <2> HIDE DEF N
  <2>1. N \subseteq Nat
    BY DEF N
  <2>2. QED BY <1>1, <1>2, <2>1, NatSet
<1>4. QED BY <1>3, FS_CardinalityType

-----------------------------------------------------------------------------
(* The fold of the library has partial sums *)

LEMMA SumIsPartial == \A f, S : SumFunctionOnSet(f, S) = Partial(f, S)[S]
BY DEF SumFunctionOnSet, FoldFunctionOnSet, MapThenFoldSet, Partial, Pick

(* Level by level: sums that are right for the sets of up to n elements    *)
(* give sums that are right for the sets of up to n + 1.                    *)
LEMMA LevelStep ==
  ASSUME NEW f, NEW S, IsFiniteSet(S), NEW n \in Nat, NEW g,
         \A s \in SUBSET S : Cardinality(s) <= n => SumsTo(g, f, s)
  PROVE  \E h : \A s \in SUBSET S : Cardinality(s) <= n + 1 => SumsTo(h, f, s)
<1> DEFINE Value(s) == IF s = {} THEN 0 ELSE f[Pick(s)] + g[s \ {Pick(s)}]
           h == [s \in SUBSET S |-> IF Cardinality(s) <= n THEN g[s] ELSE Value(s)]
<1>1. \A s \in SUBSET S : h[s] = Value(s)
  <2>1. \A s \in SUBSET S : Cardinality(s) <= n => g[s] = Value(s)
    BY DEF SumsTo
  <2>2. QED BY <2>1
<1>2. ASSUME NEW s \in SUBSET S, Cardinality(s) <= n + 1
      PROVE  SumsTo(h, f, s)
  <2>1. CASE s = {}
    <3>1. h[s] = 0
      BY <1>1, <2>1
    <3>2. QED BY <2>1, <3>1 DEF SumsTo
  <2>2. CASE s # {}
    <3> DEFINE t == s \ {Pick(s)}
    <3>1. Pick(s) \in s
      BY <2>2 DEF Pick
    <3>2. IsFiniteSet(s) /\ Cardinality(s) \in Nat
      BY FS_Subset, FS_CardinalityType
    <3>3. t \in SUBSET S /\ Cardinality(t) = Cardinality(s) - 1
      BY <3>1, <3>2, FS_RemoveElement
    <3>4. Cardinality(t) <= n
      BY <1>2, <3>2, <3>3
    <3>5. h[t] = g[t]
      BY <3>3, <3>4
    <3>6. h[s] = f[Pick(s)] + g[t]
      BY <1>1, <2>2
    <3>7. QED BY <2>2, <3>5, <3>6 DEF SumsTo
  <2>3. QED BY <2>1, <2>2
<1> HIDE DEF h
<1>3. QED BY <1>2

LEMMA PartialExists ==
  ASSUME NEW f, NEW S, IsFiniteSet(S)
  PROVE  \A s \in SUBSET S : SumsTo(Partial(f, S), f, s)
<1> DEFINE Good(n) == \E g : \A s \in SUBSET S : Cardinality(s) <= n => SumsTo(g, f, s)
           N == {n \in Nat : Good(n)}
<1>1. 0 \in N
  <2> DEFINE g == [s \in SUBSET S |-> 0]
  <2>1. ASSUME NEW s \in SUBSET S, Cardinality(s) <= 0 PROVE SumsTo(g, f, s)
    <3>1. IsFiniteSet(s) /\ Cardinality(s) \in Nat
      BY FS_Subset, FS_CardinalityType
    <3>2. Cardinality(s) = 0
      BY <2>1, <3>1
    <3>3. s = {}
      BY <3>1, <3>2, FS_EmptySet
    <3>4. QED BY <3>3 DEF SumsTo
  <2>2. QED BY <2>1
<1>2. ASSUME NEW n \in N PROVE n + 1 \in N
  <2>1. n \in Nat
    OBVIOUS
  <2>2. PICK g : \A s \in SUBSET S : Cardinality(s) <= n => SumsTo(g, f, s)
    OBVIOUS
  <2>3. Good(n + 1)
    BY <2>1, <2>2, LevelStep
  <2>4. QED BY <2>1, <2>3
<1>3. N = Nat
  <2>1. N \subseteq Nat
    OBVIOUS
  <2> HIDE DEF N
  <2>2. QED BY <1>1, <1>2, <2>1, NatSet
<1>4. PICK g : \A s \in SUBSET S : SumsTo(g, f, s)
  <2>1. Cardinality(S) \in N
    BY <1>3, FS_CardinalityType
  <2>2. PICK g : \A s \in SUBSET S : Cardinality(s) <= Cardinality(S) => SumsTo(g, f, s)
    BY <2>1
  <2>3. \A s \in SUBSET S : Cardinality(s) <= Cardinality(S)
    BY FS_Subset
  <2>4. QED BY <2>2, <2>3
<1> DEFINE Eq(h) == h = [s \in SUBSET S |-> IF s = {} THEN 0 ELSE f[Pick(s)] + h[s \ {Pick(s)}]]
           h0 == [s \in SUBSET S |-> g[s]]
<1>5. Eq(h0)
  <2>1. ASSUME NEW s \in SUBSET S
        PROVE  h0[s] = IF s = {} THEN 0 ELSE f[Pick(s)] + h0[s \ {Pick(s)}]
    <3>1. s \ {Pick(s)} \in SUBSET S
      OBVIOUS
    <3>2. h0[s] = g[s] /\ h0[s \ {Pick(s)}] = g[s \ {Pick(s)}]
      BY <3>1
    <3>3. QED BY <1>4, <3>2 DEF SumsTo
  <2>2. QED BY <2>1
<1>6. Eq(Partial(f, S))
  <2>1. \E h : Eq(h)
    BY <1>5
  <2>2. QED BY <2>1, Zenon DEF Partial
<1>7. QED BY <1>6 DEF SumsTo

(* The partial sums do not depend on the set they are partial to. *)
LEMMA PartialIsSum ==
  ASSUME NEW f, NEW S, IsFiniteSet(S), NEW s \in SUBSET S
  PROVE  Partial(f, S)[s] = SumFunctionOnSet(f, s)
<1> DEFINE N == {n \in Nat : \A u \in SUBSET S, v \in SUBSET S :
                    u \subseteq v /\ Cardinality(u) <= n => Partial(f, S)[u] = Partial(f, v)[u]}
<1>1. \A v \in SUBSET S : \A u \in SUBSET v : SumsTo(Partial(f, v), f, u)
  BY PartialExists, FS_Subset
<1>2. \A u \in SUBSET S : SumsTo(Partial(f, S), f, u)
  BY PartialExists
<1>3. \A u \in SUBSET S : IsFiniteSet(u) /\ Cardinality(u) \in Nat
  BY FS_Subset, FS_CardinalityType
<1>4. 0 \in N
  <2> SUFFICES ASSUME NEW u \in SUBSET S, NEW v \in SUBSET S, u \subseteq v, Cardinality(u) <= 0
               PROVE  Partial(f, S)[u] = Partial(f, v)[u]
    OBVIOUS
  <2>1. Cardinality(u) = 0
    BY <1>3
  <2>2. u = {}
    BY <1>3, <2>1, FS_EmptySet
  <2>3. QED BY <1>1, <1>2, <2>2 DEF SumsTo
<1>5. ASSUME NEW n \in N PROVE n + 1 \in N
  <2>1. n \in Nat
    OBVIOUS
  <2> SUFFICES ASSUME NEW u \in SUBSET S, NEW v \in SUBSET S, u \subseteq v, Cardinality(u) <= n + 1
               PROVE  Partial(f, S)[u] = Partial(f, v)[u]
    BY <2>1
  <2>2. CASE u = {}
    BY <1>1, <1>2, <2>2 DEF SumsTo
  <2>3. CASE u # {}
    <3> DEFINE w == u \ {Pick(u)}
    <3>1. Pick(u) \in u
      BY <2>3 DEF Pick
    <3>2. w \in SUBSET S /\ w \subseteq v /\ Cardinality(w) = Cardinality(u) - 1
      BY <1>3, <3>1, FS_RemoveElement
    <3>3. Cardinality(w) <= n
      BY <1>3, <2>1, <3>2
    <3>4. Partial(f, S)[w] = Partial(f, v)[w]
      BY <3>2, <3>3
    <3>5. Partial(f, S)[u] = f[Pick(u)] + Partial(f, S)[w]
      BY <1>2, <2>3 DEF SumsTo
    <3>6. Partial(f, v)[u] = f[Pick(u)] + Partial(f, v)[w]
      BY <1>1, <2>3 DEF SumsTo
    <3>7. QED BY <3>4, <3>5, <3>6
  <2>4. QED BY <2>2, <2>3
<1>6. N = Nat
  <2>1. N \subseteq Nat
    OBVIOUS
  <2> HIDE DEF N
  <2>2. QED BY <1>4, <1>5, <2>1, NatSet
<1>7. Partial(f, S)[s] = Partial(f, s)[s]
  <2>1. Cardinality(s) \in N
    BY <1>3, <1>6
  <2>2. QED BY <1>3, <2>1
<1>8. QED BY <1>7, SumIsPartial

-----------------------------------------------------------------------------
(* The laws of a sum *)

LEMMA SumEmpty == \A f : SumFunctionOnSet(f, {}) = 0
<1> SUFFICES ASSUME NEW f PROVE SumFunctionOnSet(f, {}) = 0
  OBVIOUS
<1>1. SumsTo(Partial(f, {}), f, {})
  BY PartialExists, FS_EmptySet
<1>2. QED BY <1>1, SumIsPartial DEF SumsTo

LEMMA SumPick ==
  ASSUME NEW f, NEW S, IsFiniteSet(S), S # {}
  PROVE  /\ Pick(S) \in S
         /\ SumFunctionOnSet(f, S) = f[Pick(S)] + SumFunctionOnSet(f, S \ {Pick(S)})
<1>1. Pick(S) \in S
  BY DEF Pick
<1>2. Partial(f, S)[S] = f[Pick(S)] + Partial(f, S)[S \ {Pick(S)}]
  BY PartialExists DEF SumsTo
<1>3. Partial(f, S)[S \ {Pick(S)}] = SumFunctionOnSet(f, S \ {Pick(S)})
  BY PartialIsSum
<1>4. QED BY <1>1, <1>2, <1>3, SumIsPartial

(* A sum of natural numbers is one, and any element can be taken out. *)
LEMMA SumTakeAll ==
  ASSUME NEW f, NEW S, IsFiniteSet(S), \A x \in S : f[x] \in Nat
  PROVE  /\ SumFunctionOnSet(f, S) \in Nat
         /\ \A x \in S : SumFunctionOnSet(f, S) = f[x] + SumFunctionOnSet(f, S \ {x})
<1> DEFINE Law(T) == /\ SumFunctionOnSet(f, T) \in Nat
                     /\ \A x \in T : SumFunctionOnSet(f, T) = f[x] + SumFunctionOnSet(f, T \ {x})
           N == {n \in Nat : \A T \in SUBSET S : Cardinality(T) <= n => Law(T)}
<1>1. \A T \in SUBSET S : IsFiniteSet(T) /\ Cardinality(T) \in Nat
  BY FS_Subset, FS_CardinalityType
<1>2. 0 \in N
  <2> SUFFICES ASSUME NEW T \in SUBSET S, Cardinality(T) <= 0 PROVE Law(T)
    OBVIOUS
  <2>1. Cardinality(T) = 0
    BY <1>1
  <2>2. T = {}
    BY <1>1, <2>1, FS_EmptySet
  <2>3. QED BY <2>2, SumEmpty
<1>3. ASSUME NEW n \in N PROVE n + 1 \in N
  <2>1. n \in Nat
    OBVIOUS
  <2> SUFFICES ASSUME NEW T \in SUBSET S, Cardinality(T) <= n + 1 PROVE Law(T)
    BY <2>1
  <2>2. CASE T = {}
    BY <2>2, SumEmpty
  <2>3. CASE T # {}
    <3> DEFINE p == Pick(T)
    <3>1. p \in T /\ SumFunctionOnSet(f, T) = f[p] + SumFunctionOnSet(f, T \ {p})
      BY <1>1, <2>3, SumPick
    <3>2. \A x \in T : T \ {x} \in SUBSET S /\ Cardinality(T \ {x}) <= n
      <4> SUFFICES ASSUME NEW x \in T PROVE Cardinality(T \ {x}) <= n
        OBVIOUS
      <4>1. Cardinality(T \ {x}) = Cardinality(T) - 1
        BY <1>1, FS_RemoveElement
      <4>2. QED BY <1>1, <2>1, <4>1
    <3>3. \A x \in T : Law(T \ {x})
      BY <3>2
    <3> HIDE DEF p
    <3>4. SumFunctionOnSet(f, T) \in Nat
      BY <3>1, <3>3
    <3>5. ASSUME NEW x \in T PROVE SumFunctionOnSet(f, T) = f[x] + SumFunctionOnSet(f, T \ {x})
      <4>1. CASE x = p
        BY <3>1, <4>1
      <4>2. CASE x # p
        <5> DEFINE U == (T \ {p}) \ {x}
        <5>1. SumFunctionOnSet(f, T \ {p}) = f[x] + SumFunctionOnSet(f, U)
          BY <3>1, <3>3, <4>2
        <5>2. SumFunctionOnSet(f, T \ {x}) = f[p] + SumFunctionOnSet(f, (T \ {x}) \ {p})
          BY <3>1, <3>3, <4>2
        <5>3. (T \ {x}) \ {p} = U
          OBVIOUS
        <5>4. SumFunctionOnSet(f, U) \in Nat
          <6>1. U \in SUBSET S /\ Cardinality(U) <= n
            <7>1. T \ {p} \in SUBSET S /\ Cardinality(T \ {p}) <= n
              BY <3>1, <3>2
            <7>2. Cardinality(U) <= Cardinality(T \ {p})
              BY <1>1, <7>1, FS_Subset
            <7>3. Cardinality(U) \in Nat /\ Cardinality(T \ {p}) \in Nat
              BY <1>1, <7>1
            <7>4. QED BY <2>1, <7>1, <7>2, <7>3
          <6>2. QED BY <6>1
        <5>5. f[x] \in Nat /\ f[p] \in Nat
          BY <3>1
        <5> HIDE DEF U
        <5>6. QED BY <3>1, <5>1, <5>2, <5>3, <5>4, <5>5
      <4>3. QED BY <4>1, <4>2
    <3>6. QED BY <3>4, <3>5
  <2>4. QED BY <2>2, <2>3
<1>4. N = Nat
  <2>1. N \subseteq Nat
    OBVIOUS
  <2> HIDE DEF N
  <2>2. QED BY <1>2, <1>3, <2>1, NatSet
<1>5. QED
  <2>1. Cardinality(S) \in N
    BY <1>1, <1>4
  <2>2. Law(S)
    BY <1>1, <2>1
  <2>3. QED BY <2>2

LEMMA SumAdd ==
  ASSUME NEW f, NEW S, IsFiniteSet(S), NEW x, x \notin S, \A y \in S \cup {x} : f[y] \in Nat
  PROVE  SumFunctionOnSet(f, S \cup {x}) = f[x] + SumFunctionOnSet(f, S)
<1>1. IsFiniteSet(S \cup {x})
  BY FS_AddElement
<1>2. (S \cup {x}) \ {x} = S
  OBVIOUS
<1>3. QED BY <1>1, <1>2, SumTakeAll

LEMMA SumOne == \A f, x : f[x] \in Nat => SumFunctionOnSet(f, {x}) = f[x]
<1> SUFFICES ASSUME NEW f, NEW x, f[x] \in Nat PROVE SumFunctionOnSet(f, {x}) = f[x]
  OBVIOUS
<1>1. SumFunctionOnSet(f, {} \cup {x}) = f[x] + SumFunctionOnSet(f, {})
  BY SumAdd, FS_EmptySet
<1>2. {} \cup {x} = {x}
  OBVIOUS
<1>3. QED BY <1>1, <1>2, SumEmpty

(* Only the values on the set matter. *)
LEMMA SumAgree ==
  ASSUME NEW f, NEW g, NEW S, IsFiniteSet(S), \A x \in S : f[x] \in Nat /\ g[x] = f[x]
  PROVE  SumFunctionOnSet(g, S) = SumFunctionOnSet(f, S)
<1> DEFINE A == {T \in SUBSET S : SumFunctionOnSet(g, T) = SumFunctionOnSet(f, T)}
<1>1. {} \in A
  BY SumEmpty
<1>2. ASSUME NEW T \in A, NEW x \in S \ T PROVE T \cup {x} \in A
  <2>1. IsFiniteSet(T)
    BY FS_Subset
  <2>2. SumFunctionOnSet(f, T \cup {x}) = f[x] + SumFunctionOnSet(f, T)
    BY <2>1, SumAdd
  <2>3. SumFunctionOnSet(g, T \cup {x}) = g[x] + SumFunctionOnSet(g, T)
    BY <2>1, SumAdd
  <2>4. QED BY <2>2, <2>3
<1>3. S \in A
  <2> HIDE DEF A
  <2>1. A \in SUBSET SUBSET S
    BY DEF A
  <2>2. QED BY <1>1, <1>2, <2>1, SubsetInduction
<1>4. QED BY <1>3

(* One value raised raises the sum by as much. *)
LEMMA SumRaise ==
  ASSUME NEW f, NEW g, NEW S, IsFiniteSet(S), \A y \in S : f[y] \in Nat,
         NEW x \in S, NEW v \in Nat, g[x] = f[x] + v, \A y \in S \ {x} : g[y] = f[y]
  PROVE  SumFunctionOnSet(g, S) = SumFunctionOnSet(f, S) + v
<1>1. IsFiniteSet(S \ {x})
  BY FS_RemoveElement
<1>2. SumFunctionOnSet(g, S \ {x}) = SumFunctionOnSet(f, S \ {x})
  BY <1>1, SumAgree
<1>3. SumFunctionOnSet(f, S) = f[x] + SumFunctionOnSet(f, S \ {x})
  BY SumTakeAll
<1>4. SumFunctionOnSet(g, S) = g[x] + SumFunctionOnSet(g, S \ {x})
  BY SumTakeAll
<1>5. SumFunctionOnSet(f, S \ {x}) \in Nat
  BY <1>1, SumTakeAll
<1>6. QED BY <1>2, <1>3, <1>4, <1>5

LEMMA SumZero ==
  ASSUME NEW f, NEW S, IsFiniteSet(S), \A x \in S : f[x] = 0
  PROVE  SumFunctionOnSet(f, S) = 0
<1> DEFINE A == {T \in SUBSET S : SumFunctionOnSet(f, T) = 0}
<1>1. {} \in A
  BY SumEmpty
<1>2. ASSUME NEW T \in A, NEW x \in S \ T PROVE T \cup {x} \in A
  <2>1. IsFiniteSet(T)
    BY FS_Subset
  <2>2. SumFunctionOnSet(f, T \cup {x}) = f[x] + SumFunctionOnSet(f, T)
    BY <2>1, SumAdd
  <2>3. QED BY <2>2
<1>3. S \in A
  <2> HIDE DEF A
  <2>1. A \in SUBSET SUBSET S
    BY DEF A
  <2>2. QED BY <1>1, <1>2, <2>1, SubsetInduction
<1>4. QED BY <1>3

(* A sum is that of the sums of its parts. *)
Part(S, h, p) == {x \in S : h[x] = p}

LEMMA SumOfParts ==
  ASSUME NEW f, NEW h, NEW S, IsFiniteSet(S), NEW P, IsFiniteSet(P),
         \A x \in S : f[x] \in Nat /\ h[x] \in P
  PROVE  SumFunctionOnSet([p \in P |-> SumFunctionOnSet(f, Part(S, h, p))], P) = SumFunctionOnSet(f, S)
<1> DEFINE Sums(T) == [p \in P |-> SumFunctionOnSet(f, Part(T, h, p))]
           A == {T \in SUBSET S : SumFunctionOnSet(Sums(T), P) = SumFunctionOnSet(f, T)}
<1>1. {} \in A
  <2>1. \A p \in P : Sums({})[p] = 0
    <3>1. \A p \in P : Part({}, h, p) = {}
      BY DEF Part
    <3>2. QED BY <3>1, SumEmpty
  <2> HIDE DEF Sums
  <2>2. SumFunctionOnSet(Sums({}), P) = 0
    BY <2>1, SumZero
  <2>3. QED BY <2>2, SumEmpty
<1>2. ASSUME NEW T \in A, NEW x \in S \ T PROVE T \cup {x} \in A
  <2>1. IsFiniteSet(T) /\ T \cup {x} \in SUBSET S
    BY FS_Subset
  <2>2. \A p \in P : IsFiniteSet(Part(T, h, p)) /\ Part(T, h, p) \subseteq S
    BY <2>1, FS_Subset DEF Part
  <2>3. \A p \in P : Sums(T)[p] \in Nat
    BY <2>2, SumTakeAll
  <2>4. Sums(T \cup {x})[h[x]] = Sums(T)[h[x]] + f[x]
    <3>1. Part(T \cup {x}, h, h[x]) = Part(T, h, h[x]) \cup {x}
      BY DEF Part
    <3>2. x \notin Part(T, h, h[x])
      BY DEF Part
    <3>3. SumFunctionOnSet(f, Part(T, h, h[x]) \cup {x}) = f[x] + SumFunctionOnSet(f, Part(T, h, h[x]))
      BY <2>2, <3>2, SumAdd
    <3>4. Sums(T)[h[x]] = SumFunctionOnSet(f, Part(T, h, h[x]))
      OBVIOUS
    <3>5. Sums(T \cup {x})[h[x]] = SumFunctionOnSet(f, Part(T, h, h[x]) \cup {x})
      BY <3>1
    <3>6. Sums(T)[h[x]] \in Nat /\ f[x] \in Nat
      BY <2>3
    <3> HIDE DEF Sums
    <3>7. QED BY <3>3, <3>4, <3>5, <3>6
  <2>5. \A p \in P \ {h[x]} : Sums(T \cup {x})[p] = Sums(T)[p]
    <3>1. \A p \in P \ {h[x]} : Part(T \cup {x}, h, p) = Part(T, h, p)
      BY DEF Part
    <3>2. QED BY <3>1
  <2>6. SumFunctionOnSet(f, T \cup {x}) = f[x] + SumFunctionOnSet(f, T)
    BY <2>1, SumAdd
  <2>7. SumFunctionOnSet(Sums(T), P) = SumFunctionOnSet(f, T) /\ SumFunctionOnSet(f, T) \in Nat
    BY <2>1, SumTakeAll
  <2> HIDE DEF Sums
  <2> DEFINE old == Sums(T)
             new == Sums(T \cup {x})
  <2> h[x] \in P /\ f[x] \in Nat
    OBVIOUS
  <2> HIDE DEF old, new
  <2>8. SumFunctionOnSet(Sums(T \cup {x}), P) = SumFunctionOnSet(Sums(T), P) + f[x]
    <3>1. \A p \in P : old[p] \in Nat
      BY <2>3 DEF old
    <3>2. new[h[x]] = old[h[x]] + f[x] /\ \A p \in P \ {h[x]} : new[p] = old[p]
      BY <2>4, <2>5 DEF old, new
    <3>3. SumFunctionOnSet(new, P) = SumFunctionOnSet(old, P) + f[x]
      BY <3>1, <3>2, SumRaise
    <3>4. QED BY <3>3 DEF old, new
  <2>9. SumFunctionOnSet(Sums(T \cup {x}), P) = SumFunctionOnSet(f, T \cup {x})
    BY <2>6, <2>7, <2>8
  <2>10. QED BY <2>1, <2>9
<1>3. S \in A
  <2> HIDE DEF A
  <2>1. A \in SUBSET SUBSET S
    BY DEF A
  <2>2. QED BY <1>1, <1>2, <2>1, SubsetInduction
<1>4. QED BY <1>3

-----------------------------------------------------------------------------
(* The rows read *)

Entry == [date : Date, row : Row]
ValueIn(s) == [i \in DOMAIN s |-> s[i].row.value]
SumIn(s, S) == SumFunction([i \in S |-> s[i].row.value])

LEMMA SumInIs ==
  ASSUME NEW s \in Seq(Entry), NEW S \in SUBSET DOMAIN s
  PROVE  /\ IsFiniteSet(S)
         /\ \A i \in S : ValueIn(s)[i] \in Nat
         /\ SumIn(s, S) = SumFunctionOnSet(ValueIn(s), S)
         /\ SumIn(s, S) \in Nat
<1>1. DOMAIN s = 1..Len(s) /\ Len(s) \in Nat
  OBVIOUS
<1>2. IsFiniteSet(S)
  <2>1. IsFiniteSet(1..Len(s))
    BY <1>1, FS_Interval
  <2>2. QED BY <1>1, <2>1, FS_Subset
<1>3. \A i \in DOMAIN s : ValueIn(s)[i] = s[i].row.value /\ s[i].row.value \in Nat
  <2>1. \A i \in DOMAIN s : s[i] \in Entry
    BY <1>1
  <2>2. QED BY <2>1, AggregateAssumption DEF ValueIn, Entry
<1>4. SumIn(s, S) = SumFunctionOnSet(ValueIn(s), S)
  <2> DEFINE f == [i \in S |-> s[i].row.value]
  <2>1. \A i \in S : ValueIn(s)[i] \in Nat /\ f[i] = ValueIn(s)[i]
    BY <1>3
  <2>2. SumIn(s, S) = SumFunctionOnSet(f, S)
    BY DEF SumIn, SumFunction
  <2> HIDE DEF f
  <2>3. SumFunctionOnSet(f, S) = SumFunctionOnSet(ValueIn(s), S)
    BY <1>2, <2>1, SumAgree
  <2>4. QED BY <2>2, <2>3
<1>5. SumFunctionOnSet(ValueIn(s), S) \in Nat
  BY <1>2, <1>3, SumTakeAll
<1>6. QED BY <1>2, <1>3, <1>4, <1>5

(* A row appended counts for the sets it is in only. *)
LEMMA SumAppend ==
  ASSUME NEW s \in Seq(Entry), NEW e \in Entry, NEW S \in SUBSET DOMAIN s
  PROVE  /\ SumIn(Append(s, e), S) = SumIn(s, S)
         /\ SumIn(Append(s, e), S \cup {Len(s) + 1}) = SumIn(s, S) + e.row.value
<1> DEFINE t == Append(s, e)
           n == Len(s) + 1
<1>1. /\ t \in Seq(Entry) /\ DOMAIN t = DOMAIN s \cup {n} /\ n \notin DOMAIN s
      /\ \A i \in DOMAIN s : t[i] = s[i]
      /\ t[n] = e
  OBVIOUS
<1> HIDE DEF t, n
<1>2. S \in SUBSET DOMAIN t /\ S \cup {n} \in SUBSET DOMAIN t
  BY <1>1
<1>3. \A i \in S : ValueIn(t)[i] = ValueIn(s)[i]
  BY <1>1 DEF ValueIn
<1>4. SumFunctionOnSet(ValueIn(t), S) = SumFunctionOnSet(ValueIn(s), S)
  BY <1>3, SumInIs, SumAgree
<1>5. SumIn(t, S) = SumIn(s, S)
  BY <1>1, <1>2, <1>4, SumInIs
<1>6. SumFunctionOnSet(ValueIn(t), S \cup {n}) = ValueIn(t)[n] + SumFunctionOnSet(ValueIn(t), S)
  <2>1. n \notin S
    BY <1>1
  <2>2. \A i \in S \cup {n} : ValueIn(t)[i] \in Nat
    BY <1>1, <1>2, SumInIs
  <2>3. QED BY <2>1, <2>2, SumInIs, SumAdd
<1>7. ValueIn(t)[n] = e.row.value /\ e.row.value \in Nat
  BY <1>1, AggregateAssumption DEF ValueIn, Entry
<1>8. SumIn(t, S) \in Nat
  BY <1>1, <1>2, SumInIs
<1>9. SumIn(t, S \cup {n}) = SumIn(s, S) + e.row.value
  BY <1>1, <1>2, <1>4, <1>5, <1>6, <1>7, <1>8, SumInIs
<1>10. QED BY <1>5, <1>9 DEF t, n

LEMMA ReadIsTyped ==
  ASSUME TypeOK
  PROVE  /\ read \in Seq(Entry) /\ DOMAIN read = 1..Len(read) /\ IsFiniteSet(DOMAIN read)
         /\ \A i \in DOMAIN read : read[i].date \in Date /\ read[i].row \in Row
         /\ \A S : SumOf(S) = SumIn(read, S)
         /\ \A k : With(k) \subseteq Counted /\ Counted \subseteq DOMAIN read
<1>1. read \in Seq(Entry)
  BY DEF TypeOK, Entry
<1>2. DOMAIN read = 1..Len(read) /\ Len(read) \in Nat
  BY <1>1
<1>3. IsFiniteSet(DOMAIN read)
  BY <1>2, FS_Interval
<1>4. \A i \in DOMAIN read : read[i] \in Entry
  BY <1>1
<1>5. \A i \in DOMAIN read : read[i].date \in Date /\ read[i].row \in Row
  BY <1>4 DEF Entry
<1>6. QED BY <1>1, <1>2, <1>3, <1>5 DEF SumOf, SumIn, With, Counted

-----------------------------------------------------------------------------
(* Keys and periods *)

LEMMA KeysOfRow ==
  ASSUME NEW r \in Row
  PROVE  /\ KeysOf(r) \subseteq Key
         /\ \A b \in Bucket : b \in KeysOf(r) <=> b = BucketKey(Label(r))
         /\ BucketKey(Label(r)) \in Bucket
BY DEF KeysOf, Key, Bucket, Member, BucketKey, GroupKeys, AccountKeys

LEMMA KeysApart == Bucket \cap Member = {} /\ Bucket \subseteq Key /\ Member \subseteq Key
BY DEF Key, Bucket, Member, BucketKey, GroupKeys, AccountKeys

LEMMA PeriodType ==
  ASSUME WalkOK, NEW d \in Date
  PROVE  PeriodAt(d) \in Period /\ PeriodAt(d) \in Nat
BY AggregateAssumption DEF WalkOK, PeriodAt, Period

-----------------------------------------------------------------------------
(* The invariant *)

LEMMA InitOK == Init => IInv
<1> SUFFICES ASSUME Init PROVE IInv
  OBVIOUS
<1> USE AggregateAssumption DEF Init
<1>1. TypeOK
  BY DEF TypeOK, Date, Unset
<1>2. WalkOK
  BY DEF WalkOK, Date
<1>3. \A k : With(k) = {}
  BY DEF With, Counted
<1>4. CumOK
  BY <1>3 DEF CumOK, InPeriod
<1>5. SnapOK /\ LastOK
  BY <1>3, KeysApart DEF SnapOK, LastOK, OnDay
<1>6. QED BY <1>1, <1>2, <1>4, <1>5 DEF IInv

(* A step of the walk moves to the next date, or ends it. *)
LEMMA AdvanceStep ==
  ASSUME TypeOK, WalkOK, pc # "done", Advance
  PROVE  /\ current' \in 1..LastDate + 1 /\ pc' \in {"date", "done"}
         /\ pc' # "done" => current' \in Date
BY AggregateAssumption DEF TypeOK, WalkOK, Advance, NextDate, Date

(* The steps that read no row leave the stores and the sums alone. *)
LEMMA QuietStep ==
  ASSUME IInv, UNCHANGED <<request, read, stores>>
  PROVE  CumOK' /\ SnapOK' /\ LastOK'
<1> USE DEF request, stores
<1>1. \A k : With(k)' = With(k)
  BY DEF With, Counted, Wanted
<1>2. \A k, p : InPeriod(k, p)' = InPeriod(k, p)
  BY <1>1 DEF InPeriod, PeriodAt
<1>3. \A k, d : OnDay(k, d)' = OnDay(k, d)
  BY <1>1 DEF OnDay
<1>4. \A S : SumIn(read', S) = SumIn(read, S)
  OBVIOUS
<1>5. CumOK'
  BY <1>2, <1>4 DEF IInv, CumOK, SumOf, SumIn
<1>6. SnapOK'
  BY <1>3, <1>4 DEF IInv, SnapOK, SumOf, SumIn
<1>7. LastOK'
  BY <1>3 DEF IInv, LastOK
<1>8. QED BY <1>5, <1>6, <1>7

(* What reading a row adds to the rows of a key. *)
Takes(r, k) == Wanted(r) /\ k \in KeysOf(r)
With1(S, c) == IF c THEN S \cup {Len(read) + 1} ELSE S

LEMMA RowSets ==
  ASSUME TypeOK, WalkOK, NEW r \in Row, ReadRow(r)
  PROVE  /\ read' = Append(read, [date |-> current, row |-> r])
         /\ [date |-> current, row |-> r] \in Entry
         /\ \A k, p : InPeriod(k, p)' = With1(InPeriod(k, p), Takes(r, k) /\ p = PeriodAt(current))
         /\ \A k, d : OnDay(k, d)' = With1(OnDay(k, d), Takes(r, k) /\ d = current)
<1> DEFINE n == Len(read) + 1
<1>1. read' = Append(read, [date |-> current, row |-> r]) /\ pc = "rows"
  BY DEF ReadRow
<1>2. current \in Date
  BY <1>1 DEF WalkOK
<1>3. /\ DOMAIN read' = DOMAIN read \cup {n} /\ n \notin DOMAIN read
      /\ \A i \in DOMAIN read : read'[i] = read[i]
      /\ read'[n] = [date |-> current, row |-> r]
  BY <1>1, ReadIsTyped
<1> HIDE DEF n
<1>4. UNCHANGED request
  BY DEF ReadRow
<1>5. \A k : With(k)' = IF Takes(r, k) THEN With(k) \cup {n} ELSE With(k)
  BY <1>3, <1>4 DEF With, Counted, Wanted, Takes, request
<1>6. \A k : With(k) \subseteq DOMAIN read
  BY DEF With, Counted
<1>7. \A k, p : InPeriod(k, p)' = With1(InPeriod(k, p), Takes(r, k) /\ p = PeriodAt(current))
  BY <1>3, <1>4, <1>5, <1>6 DEF InPeriod, PeriodAt, With1, request, n
<1>8. \A k, d : OnDay(k, d)' = With1(OnDay(k, d), Takes(r, k) /\ d = current)
  BY <1>3, <1>5, <1>6 DEF OnDay, With1, n
<1>9. QED BY <1>1, <1>2, <1>7, <1>8 DEF Entry

(* The value of a store after a row, from that before it. *)
LEMMA SumGrows ==
  ASSUME TypeOK, WalkOK, NEW r \in Row, ReadRow(r), NEW S \in SUBSET DOMAIN read, NEW c \in BOOLEAN
  PROVE  /\ SumIn(read', With1(S, c)) = IF c THEN SumOf(S) + r.value ELSE SumOf(S)
         /\ SumOf(S) \in Nat /\ r.value \in Nat
         /\ S = {} => SumOf(S) = 0
<1> DEFINE e == [date |-> current, row |-> r]
<1>1. read' = Append(read, e) /\ e \in Entry /\ read \in Seq(Entry) /\ e.row.value = r.value
  BY RowSets, ReadIsTyped
<1> HIDE DEF e
<1>2. SumIn(read', S) = SumIn(read, S) /\ SumIn(read', S \cup {Len(read) + 1}) = SumIn(read, S) + r.value
  BY <1>1, SumAppend
<1>3. SumOf(S) = SumIn(read, S) /\ SumOf(S) \in Nat
  BY <1>1, ReadIsTyped, SumInIs
<1>4. S = {} => SumOf(S) = 0
  BY <1>1, <1>3, SumInIs, SumEmpty
<1>5. r.value \in Nat
  BY AggregateAssumption
<1>6. QED BY <1>2, <1>3, <1>4, <1>5 DEF With1

LEMMA CumStep ==
  ASSUME IInv, NEW r \in Row, ReadRow(r)
  PROVE  CumOK'
<1> TypeOK /\ WalkOK /\ CumOK
  BY DEF IInv
<1> SUFFICES ASSUME NEW k \in Key, NEW p \in Period
             PROVE  cum'[<<k, p>>] = IF InPeriod(k, p)' = {} THEN Unset ELSE SumIn(read', InPeriod(k, p)')
  BY DEF CumOK, SumOf, SumIn
<1> DEFINE S == InPeriod(k, p)
           c == Takes(r, k) /\ p = PeriodAt(current)
<1>1. S \in SUBSET DOMAIN read
  BY DEF InPeriod, With, Counted
<1>2. InPeriod(k, p)' = With1(S, c)
  BY RowSets
<1>3. cum[<<k, p>>] = IF S = {} THEN Unset ELSE SumOf(S)
  BY DEF CumOK
<1>4. cum'[<<k, p>>] = IF c THEN Plus(cum[<<k, p>>], r.value) ELSE cum[<<k, p>>]
  <2>1. UNCHANGED groupBy
    BY DEF ReadRow, request
  <2>2. CASE Wanted(r)
    BY <2>2 DEF ReadRow, CumValue, Takes
  <2>3. CASE ~Wanted(r)
    BY <2>3 DEF ReadRow, stores, Takes
  <2>4. QED BY <2>2, <2>3
<1>5. c \in BOOLEAN
  BY DEF Takes, Wanted
<1> HIDE DEF S, c
<1>6. /\ SumIn(read', With1(S, c)) = IF c THEN SumOf(S) + r.value ELSE SumOf(S)
      /\ SumOf(S) \in Nat /\ r.value \in Nat /\ (S = {} => SumOf(S) = 0)
  BY <1>1, <1>5, SumGrows
<1>7. CASE c
  <2>1. With1(S, c) # {}
    BY <1>7 DEF With1
  <2>2. cum'[<<k, p>>] = SumOf(S) + r.value
    BY <1>3, <1>4, <1>6, <1>7 DEF Plus, Unset
  <2>3. QED BY <1>2, <1>6, <1>7, <2>1, <2>2
<1>8. CASE ~c
  <2>1. With1(S, c) = S
    BY <1>8 DEF With1
  <2>2. QED BY <1>2, <1>3, <1>4, <1>6, <1>8, <2>1
<1>9. QED BY <1>5, <1>7, <1>8

(* What a row does to a snapshot. *)
LEMMA SnapCell ==
  ASSUME TypeOK, NEW r \in Row, ReadRow(r), NEW k \in Key, NEW d \in Date
  PROVE  snap'[<<k, d>>] = IF Takes(r, k) /\ d = current THEN SnapValue(k, snap[<<k, d>>], r.value) ELSE snap[<<k, d>>]
<1>1. CASE Wanted(r)
  BY <1>1 DEF ReadRow, Takes
<1>2. CASE ~Wanted(r)
  BY <1>2 DEF ReadRow, stores, Takes
<1>3. QED BY <1>1, <1>2

LEMMA SnapStep ==
  ASSUME IInv, NEW r \in Row, ReadRow(r)
  PROVE  SnapOK'
<1> TypeOK /\ WalkOK /\ SnapOK
  BY DEF IInv
<1> SUFFICES ASSUME NEW k \in Member, NEW d \in Date
             PROVE  snap'[<<k, d>>] = IF OnDay(k, d)' = {} THEN Unset ELSE SumIn(read', OnDay(k, d)')
  BY DEF SnapOK, SumOf, SumIn
<1> DEFINE S == OnDay(k, d)
           c == Takes(r, k) /\ d = current
<1>1. S \in SUBSET DOMAIN read
  BY DEF OnDay, With, Counted
<1>2. OnDay(k, d)' = With1(S, c)
  BY RowSets
<1>3. snap[<<k, d>>] = IF S = {} THEN Unset ELSE SumOf(S)
  BY DEF SnapOK
<1>4. snap'[<<k, d>>] = IF c THEN Plus(snap[<<k, d>>], r.value) ELSE snap[<<k, d>>]
  <2>1. k \in Key /\ k \notin Bucket
    BY KeysApart
  <2>2. QED BY <2>1, SnapCell DEF SnapValue
<1>5. c \in BOOLEAN
  BY DEF Takes, Wanted
<1> HIDE DEF S, c
<1>6. /\ SumIn(read', With1(S, c)) = IF c THEN SumOf(S) + r.value ELSE SumOf(S)
      /\ SumOf(S) \in Nat /\ r.value \in Nat /\ (S = {} => SumOf(S) = 0)
  BY <1>1, <1>5, SumGrows
<1>7. CASE c
  <2>1. With1(S, c) # {}
    BY <1>7 DEF With1
  <2>2. snap'[<<k, d>>] = SumOf(S) + r.value
    BY <1>3, <1>4, <1>6, <1>7 DEF Plus, Unset
  <2>3. QED BY <1>2, <1>6, <1>7, <2>1, <2>2
<1>8. CASE ~c
  <2>1. With1(S, c) = S
    BY <1>8 DEF With1
  <2>2. QED BY <1>2, <1>3, <1>4, <1>6, <1>8, <2>1
<1>9. QED BY <1>5, <1>7, <1>8

(* The new row comes after all the others. *)
LEMMA LastStep ==
  ASSUME IInv, NEW r \in Row, ReadRow(r)
  PROVE  LastOK'
<1> TypeOK /\ WalkOK /\ LastOK
  BY DEF IInv
<1> SUFFICES ASSUME NEW b \in Bucket, NEW d \in Date
             PROVE  IF OnDay(b, d)' = {} THEN snap'[<<b, d>>] = Unset
                    ELSE \E i \in OnDay(b, d)' :
                           IsLast(i, OnDay(b, d)') /\ snap'[<<b, d>>] = read'[i].row.value
  BY DEF LastOK, IsLast
<1> DEFINE S == OnDay(b, d)
           c == Takes(r, b) /\ d = current
           n == Len(read) + 1
<1>1. S \subseteq 1..Len(read) /\ Len(read) \in Nat
  BY ReadIsTyped DEF OnDay, With, Counted
<1>2. OnDay(b, d)' = With1(S, c)
  BY RowSets
<1>3. IF S = {} THEN snap[<<b, d>>] = Unset
      ELSE \E i \in S : IsLast(i, S) /\ snap[<<b, d>>] = read[i].row.value
  BY DEF LastOK
<1>4. snap'[<<b, d>>] = IF c THEN r.value ELSE snap[<<b, d>>]
  <2>1. b \in Key
    BY KeysApart
  <2>2. QED BY <2>1, SnapCell DEF SnapValue
<1>5. /\ \A i \in 1..Len(read) : read'[i] = read[i]
      /\ read'[n].row = r
  <2>1. read \in Seq(Entry) /\ read' = Append(read, [date |-> current, row |-> r])
    BY RowSets, ReadIsTyped
  <2>2. read'[n] = [date |-> current, row |-> r]
    BY <2>1
  <2>3. QED BY <2>1, <2>2
<1> HIDE DEF S, c
<1>6. CASE c
  <2>1. With1(S, c) = S \cup {n}
    BY <1>6 DEF With1
  <2>2. IsLast(n, S \cup {n})
    BY <1>1 DEF IsLast
  <2>3. QED BY <1>2, <1>4, <1>5, <1>6, <2>1, <2>2
<1>7. CASE ~c
  <2>1. With1(S, c) = S
    BY <1>7 DEF With1
  <2>2. QED BY <1>1, <1>2, <1>3, <1>4, <1>5, <1>7, <2>1
<1>8. QED BY <1>6, <1>7

LEMMA ReadTypeStep ==
  ASSUME IInv, NEW r \in Row, ReadRow(r)
  PROVE  TypeOK' /\ WalkOK'
<1> TypeOK /\ WalkOK
  BY DEF IInv
<1>1. read' \in Seq([date : Date, row : Row])
  <2>1. read' = Append(read, [date |-> current, row |-> r])
    BY RowSets
  <2>2. [date |-> current, row |-> r] \in [date : Date, row : Row]
    BY RowSets DEF Entry
  <2>3. QED BY <2>1, <2>2 DEF TypeOK
<1>2. r.value \in Nat
  BY AggregateAssumption
<1>3. \A x \in Nat \cup {Unset} : Plus(x, r.value) \in Nat
  BY <1>2 DEF Plus, Unset
<1>4. CASE Wanted(r)
  <2>1. snap' \in [Key \X Date -> Nat \cup {Unset}]
    BY <1>2, <1>3, <1>4 DEF ReadRow, SnapValue, TypeOK
  <2>2. cum' \in [Key \X Period -> Nat \cup {Unset}]
    BY <1>2, <1>3, <1>4 DEF ReadRow, CumValue, TypeOK
  <2>3. QED BY <1>1, <2>1, <2>2 DEF ReadRow, TypeOK, WalkOK, request
<1>5. CASE ~Wanted(r)
  BY <1>1, <1>5 DEF ReadRow, TypeOK, WalkOK, request, stores
<1>6. QED BY <1>4, <1>5

LEMMA NextOK == IInv /\ [Next]_vars => IInv'
<1> SUFFICES ASSUME IInv, [Next]_vars PROVE IInv'
  OBVIOUS
<1> TypeOK /\ WalkOK
  BY DEF IInv
<1>1. CASE Missing
  <2>1. TypeOK' /\ WalkOK'
    BY <1>1, AdvanceStep DEF Missing, TypeOK, WalkOK, request, stores
  <2>2. QED BY <1>1, <2>1, QuietStep DEF Missing, IInv
<1>2. CASE Found
  <2>1. TypeOK' /\ WalkOK'
    BY <1>2 DEF Found, TypeOK, WalkOK, request, stores
  <2>2. QED BY <1>2, <2>1, QuietStep DEF Found, IInv
<1>3. CASE EndDate
  <2>1. TypeOK' /\ WalkOK'
    BY <1>3, AdvanceStep DEF EndDate, TypeOK, WalkOK, request, stores
  <2>2. QED BY <1>3, <2>1, QuietStep DEF EndDate, IInv
<1>4. ASSUME NEW r \in Row, ReadRow(r) PROVE IInv'
  BY <1>4, ReadTypeStep, CumStep, SnapStep, LastStep DEF IInv
<1>5. CASE UNCHANGED vars
  <2>1. TypeOK' /\ WalkOK'
    BY <1>5 DEF vars, TypeOK, WalkOK, request, stores
  <2>2. QED BY <1>5, <2>1, QuietStep DEF vars, IInv
<1>6. QED BY <1>1, <1>2, <1>3, <1>4, <1>5 DEF Next

LEMMA Invariance == Spec => []IInv
BY InitOK, NextOK, PTL DEF Spec

(* The walk stays in its range, and its stores hold numbers. *)
THEOREM AggregateTypeCorrect == Spec => []TypeOK
BY Invariance, PTL DEF IInv

-----------------------------------------------------------------------------
(* The result *)

(* A set of natural numbers with a bound has a greatest. *)
LEMMA MaxIs ==
  ASSUME NEW S \in SUBSET Nat, IsFiniteSet(S), S # {}
  PROVE  Max(S) \in S /\ \A x \in S : Max(S) >= x
<1> DEFINE HasMax(T) == \E x \in T : \A y \in T : x >= y
           A == {T \in SUBSET S : T = {} \/ HasMax(T)}
<1>1. {} \in A
  OBVIOUS
<1>2. ASSUME NEW T \in A, NEW x \in S \ T PROVE T \cup {x} \in A
  <2>1. CASE T = {}
    <3>1. HasMax({x})
      OBVIOUS
    <3>2. T \cup {x} = {x}
      BY <2>1
    <3>3. QED BY <3>1, <3>2
  <2>2. CASE HasMax(T)
    <3>1. PICK m \in T : \A y \in T : m >= y
      BY <2>2
    <3>2. m \in Nat /\ x \in Nat /\ T \subseteq Nat
      OBVIOUS
    <3>3. CASE x >= m
      <4>1. \A y \in T \cup {x} : x >= y
        BY <3>1, <3>2, <3>3
      <4>2. QED BY <4>1
    <3>4. CASE m >= x
      <4>1. \A y \in T \cup {x} : m >= y
        BY <3>1, <3>4
      <4>2. QED BY <3>1, <4>1
    <3>5. QED BY <3>2, <3>3, <3>4
  <2>3. QED BY <2>1, <2>2
<1>3. S \in A
  <2> HIDE DEF A
  <2>1. A \in SUBSET SUBSET S
    BY DEF A
  <2>2. QED BY <1>1, <1>2, <2>1, SubsetInduction
<1>4. HasMax(S)
  BY <1>3
<1>5. QED BY <1>4, Zenon DEF Max

(* The periods of the result are those of the counted rows. *)
LEMMA PeriodsAre ==
  ASSUME IInv
  PROVE  /\ Periods = {PeriodAt(read[i].date) : i \in Counted}
         /\ IsFiniteSet(Periods) /\ Periods \subseteq Nat
         /\ Periods = {} <=> Counted = {}
<1> TypeOK /\ WalkOK /\ CumOK
  BY DEF IInv
<1>1. \A k \in Key, p \in Period : cum[<<k, p>>] # Unset <=> InPeriod(k, p) # {}
  <2> SUFFICES ASSUME NEW k \in Key, NEW p \in Period
               PROVE  cum[<<k, p>>] # Unset <=> InPeriod(k, p) # {}
    OBVIOUS
  <2>1. InPeriod(k, p) \in SUBSET DOMAIN read
    BY DEF InPeriod, With, Counted
  <2>2. SumOf(InPeriod(k, p)) \in Nat
    BY <2>1, ReadIsTyped, SumInIs
  <2>3. QED BY <2>2 DEF CumOK, Unset
<1>2. ASSUME NEW p \in Periods PROVE \E i \in Counted : p = PeriodAt(read[i].date)
  BY <1>1 DEF Periods, InPeriod, With
<1>3. ASSUME NEW i \in Counted PROVE PeriodAt(read[i].date) \in Periods
  <2> DEFINE k == BucketKey(Label(read[i].row))
             p == PeriodAt(read[i].date)
  <2>1. read[i].date \in Date /\ read[i].row \in Row
    BY ReadIsTyped
  <2>2. k \in Key /\ k \in KeysOf(read[i].row) /\ p \in Period
    BY <2>1, KeysOfRow, PeriodType DEF KeysOf
  <2>3. i \in InPeriod(k, p)
    BY <2>2 DEF InPeriod, With
  <2> HIDE DEF k, p
  <2>4. cum[<<k, p>>] # Unset
    BY <1>1, <2>2, <2>3
  <2>5. p \in Periods
    BY <2>2, <2>4 DEF Periods
  <2>6. QED BY <2>5 DEF p
<1>4. Periods = {PeriodAt(read[i].date) : i \in Counted}
  BY <1>2, <1>3
<1>5. IsFiniteSet(Periods)
  <2>1. IsFiniteSet(Date)
    BY AggregateAssumption, FS_Interval DEF Date
  <2> DEFINE f == [d \in Date |-> PeriodAt(d)]
             T == {f[d] : d \in Date}
  <2>2. IsFiniteSet(T)
    <3>1. f \in Surjection(Date, T)
      BY DEF Surjection
    <3>2. QED BY <2>1, <3>1, FS_Surjection
  <2>3. Periods \subseteq T
    <3>1. \A i \in Counted : PeriodAt(read[i].date) = f[read[i].date] /\ read[i].date \in Date
      BY ReadIsTyped
    <3>2. QED BY <1>4, <3>1
  <2>4. QED BY <2>2, <2>3, FS_Subset
<1>6. Periods \subseteq Nat
  BY <1>4, ReadIsTyped, PeriodType
<1>7. QED BY <1>4, <1>5, <1>6

(* What the result says of a key's traffic in a period. *)
LEMMA CumReadIs ==
  ASSUME IInv, NEW k \in Key, NEW p \in Period
  PROVE  CumRead(k, p) = SumOf(InPeriod(k, p))
<1> TypeOK /\ CumOK
  BY DEF IInv
<1>1. InPeriod(k, p) \in SUBSET DOMAIN read
  BY DEF InPeriod, With, Counted
<1>2. SumOf(InPeriod(k, p)) \in Nat /\ (InPeriod(k, p) = {} => SumOf(InPeriod(k, p)) = 0)
  <2>1. read \in Seq(Entry) /\ SumOf(InPeriod(k, p)) = SumIn(read, InPeriod(k, p))
    BY ReadIsTyped
  <2>2. QED BY <1>1, <2>1, SumInIs, SumEmpty
<1>3. QED BY <1>2 DEF CumOK, CumRead, Unset

(* Its periods together have all of it. *)
LEMMA TrafficIs ==
  ASSUME IInv, NEW k \in Key
  PROVE  Traffic(k) = SumOf(With(k))
<1> TypeOK /\ WalkOK
  BY DEF IInv
<1> DEFINE S == With(k)
           v == ValueIn(read)
           h == [i \in DOMAIN read |-> PeriodAt(read[i].date)]
           parts == [p \in Periods |-> SumFunctionOnSet(v, Part(S, h, p))]
<1>1. S \subseteq DOMAIN read /\ read \in Seq(Entry) /\ \A T : SumOf(T) = SumIn(read, T)
  BY ReadIsTyped
<1>2. \A p \in Periods : Part(S, h, p) = InPeriod(k, p)
  BY <1>1 DEF Part, InPeriod
<1>3. \A i \in S : h[i] \in Periods
  BY <1>1, PeriodsAre DEF With
<1> HIDE DEF S, h
<1>4. \A p \in Periods : CumRead(k, p) = parts[p]
  <2> SUFFICES ASSUME NEW p \in Periods PROVE CumRead(k, p) = SumFunctionOnSet(v, Part(S, h, p))
    OBVIOUS
  <2>1. CumRead(k, p) = SumOf(InPeriod(k, p))
    BY CumReadIs DEF Periods
  <2>2. Part(S, h, p) \in SUBSET DOMAIN read
    BY <1>1 DEF Part
  <2>3. QED BY <1>1, <1>2, <2>1, <2>2, SumInIs
<1>5. Traffic(k) = SumFunctionOnSet(parts, Periods)
  <2>1. [p \in Periods |-> CumRead(k, p)] = parts
    BY <1>4
  <2>2. QED BY <2>1 DEF Traffic, SumFunction
<1>6. SumFunctionOnSet(parts, Periods) = SumFunctionOnSet(v, S)
  <2>1. IsFiniteSet(S) /\ \A i \in S : v[i] \in Nat
    BY <1>1, SumInIs
  <2> HIDE DEF v
  <2>2. QED BY <1>3, <2>1, PeriodsAre, SumOfParts
<1>7. QED BY <1>1, <1>5, <1>6, SumInIs DEF S

LEMMA BucketsAre ==
  ASSUME IInv
  PROVE  /\ AllBuckets = {BucketKey(Label(read[i].row)) : i \in Counted}
         /\ IsFiniteSet(AllBuckets) /\ AllBuckets \subseteq Bucket
         /\ \A b \in Bucket : With(b) = {i \in Counted : BucketKey(Label(read[i].row)) = b}
<1> TypeOK /\ WalkOK /\ CumOK
  BY DEF IInv
<1>1. \A b \in Bucket : With(b) = {i \in Counted : BucketKey(Label(read[i].row)) = b}
  BY ReadIsTyped, KeysOfRow DEF With
<1>2. \A b \in Bucket, p \in Period : cum[<<b, p>>] # Unset <=> InPeriod(b, p) # {}
  <2> SUFFICES ASSUME NEW b \in Bucket, NEW p \in Period
               PROVE  cum[<<b, p>>] # Unset <=> InPeriod(b, p) # {}
    OBVIOUS
  <2>1. InPeriod(b, p) \in SUBSET DOMAIN read
    BY DEF InPeriod, With, Counted
  <2>2. SumOf(InPeriod(b, p)) \in Nat
    BY <2>1, ReadIsTyped, SumInIs
  <2>3. QED BY <2>2, KeysApart DEF CumOK, Unset
<1>3. ASSUME NEW b \in AllBuckets PROVE \E i \in Counted : b = BucketKey(Label(read[i].row))
  <2>1. PICK p \in Period : InPeriod(b, p) # {}
    BY <1>2 DEF AllBuckets, Periods
  <2>2. QED BY <1>1, <2>1 DEF InPeriod, AllBuckets
<1>4. ASSUME NEW i \in Counted PROVE BucketKey(Label(read[i].row)) \in AllBuckets
  <2> DEFINE b == BucketKey(Label(read[i].row))
             p == PeriodAt(read[i].date)
  <2>1. b \in Bucket /\ p \in Period /\ p \in Periods
    BY ReadIsTyped, KeysOfRow, PeriodType, PeriodsAre
  <2>2. i \in InPeriod(b, p)
    BY <1>1, <2>1 DEF InPeriod
  <2> HIDE DEF b, p
  <2>3. cum[<<b, p>>] # Unset
    BY <1>2, <2>1, <2>2
  <2>4. b \in AllBuckets
    BY <2>1, <2>3 DEF AllBuckets
  <2>5. QED BY <2>4 DEF b
<1>5. AllBuckets = {BucketKey(Label(read[i].row)) : i \in Counted}
  BY <1>3, <1>4
<1>6. IsFiniteSet(AllBuckets)
  <2> DEFINE f == [i \in Counted |-> BucketKey(Label(read[i].row))]
  <2>1. IsFiniteSet(Counted)
    BY ReadIsTyped, FS_Subset
  <2>2. f \in Surjection(Counted, AllBuckets)
    BY <1>5 DEF Surjection
  <2>3. QED BY <2>1, <2>2, FS_Surjection
<1>7. QED BY <1>1, <1>5, <1>6 DEF AllBuckets

(* The rows of a set, by their buckets, add up to the set. *)
LEMMA SumOfBuckets ==
  ASSUME IInv, NEW S \in SUBSET Counted, NEW f,
         \A b \in AllBuckets : f[b] = SumOf({i \in S : BucketKey(Label(read[i].row)) = b})
  PROVE  SumFunctionOnSet(f, AllBuckets) = SumOf(S)
<1> DEFINE v == ValueIn(read)
           h == [i \in DOMAIN read |-> BucketKey(Label(read[i].row))]
           parts == [b \in AllBuckets |-> SumFunctionOnSet(v, Part(S, h, b))]
<1> TypeOK
  BY DEF IInv
<1>1. S \in SUBSET DOMAIN read /\ read \in Seq(Entry) /\ \A T : SumOf(T) = SumIn(read, T)
  BY ReadIsTyped
<1>2. \A b \in AllBuckets : Part(S, h, b) = {i \in S : BucketKey(Label(read[i].row)) = b}
  BY <1>1 DEF Part
<1>3. \A i \in S : h[i] \in AllBuckets
  BY <1>1, BucketsAre
<1> HIDE DEF h
<1>4. \A b \in AllBuckets : f[b] = parts[b] /\ parts[b] \in Nat
  <2> SUFFICES ASSUME NEW b \in AllBuckets
               PROVE  f[b] = SumFunctionOnSet(v, Part(S, h, b)) /\ f[b] \in Nat
    OBVIOUS
  <2>1. Part(S, h, b) \in SUBSET DOMAIN read
    BY <1>1 DEF Part
  <2>2. f[b] = SumIn(read, Part(S, h, b))
    BY <1>1, <1>2
  <2>3. QED BY <1>1, <2>1, <2>2, SumInIs
<1>5. SumFunctionOnSet(parts, AllBuckets) = SumFunctionOnSet(v, S)
  <2>1. IsFiniteSet(S) /\ \A i \in S : v[i] \in Nat
    BY <1>1, SumInIs
  <2> HIDE DEF v
  <2>2. QED BY <1>3, <2>1, BucketsAre, SumOfParts
<1> HIDE DEF parts
<1>6. SumFunctionOnSet(f, AllBuckets) = SumFunctionOnSet(parts, AllBuckets)
  BY <1>4, BucketsAre, SumAgree
<1>7. QED BY <1>1, <1>5, <1>6, SumInIs

(* The buckets' traffic of a period is that of its rows, and the periods'  *)
(* is all of it.                                                           *)
LEMMA TotalTrafficIs ==
  ASSUME IInv
  PROVE  TotalTraffic = SumOf(Counted)
<1> TypeOK /\ WalkOK
  BY DEF IInv
<1> DEFINE v == ValueIn(read)
           h == [i \in DOMAIN read |-> PeriodAt(read[i].date)]
           parts == [p \in Periods |-> SumFunctionOnSet(v, Part(Counted, h, p))]
<1>1. Counted \in SUBSET DOMAIN read /\ read \in Seq(Entry) /\ \A T : SumOf(T) = SumIn(read, T)
  BY ReadIsTyped
<1>2. \A i \in Counted : h[i] \in Periods
  BY <1>1, PeriodsAre
<1>3. \A p \in Periods : TrafficAt(p) = parts[p]
  <2> SUFFICES ASSUME NEW p \in Periods PROVE TrafficAt(p) = SumFunctionOnSet(v, Part(Counted, h, p))
    OBVIOUS
  <2> DEFINE S == Part(Counted, h, p)
             f == [b \in AllBuckets |-> CumRead(b, p)]
  <2>1. S \in SUBSET Counted
    BY DEF Part
  <2>2. \A b \in AllBuckets : f[b] = SumOf({i \in S : BucketKey(Label(read[i].row)) = b})
    <3> SUFFICES ASSUME NEW b \in AllBuckets
                 PROVE  CumRead(b, p) = SumOf({i \in S : BucketKey(Label(read[i].row)) = b})
      OBVIOUS
    <3>1. b \in Bucket /\ b \in Key /\ p \in Period
      BY BucketsAre, KeysApart DEF Periods
    <3>2. InPeriod(b, p) = {i \in S : BucketKey(Label(read[i].row)) = b}
      BY <1>1, <3>1, BucketsAre DEF InPeriod, Part
    <3>3. QED BY <3>1, <3>2, CumReadIs
  <2>3. TrafficAt(p) = SumFunctionOnSet(f, AllBuckets)
    BY DEF TrafficAt, SumFunction
  <2> HIDE DEF S, f
  <2>4. TrafficAt(p) = SumOf(S)
    BY <2>1, <2>2, <2>3, SumOfBuckets
  <2>5. S \in SUBSET DOMAIN read
    BY <1>1, <2>1
  <2>6. QED BY <1>1, <2>4, <2>5, SumInIs DEF S
<1>4. TotalTraffic = SumFunctionOnSet(parts, Periods)
  <2>1. [p \in Periods |-> TrafficAt(p)] = parts
    BY <1>3
  <2>2. QED BY <2>1 DEF TotalTraffic, SumFunction
<1> HIDE DEF h
<1>5. SumFunctionOnSet(parts, Periods) = SumFunctionOnSet(v, Counted)
  <2>1. IsFiniteSet(Counted) /\ \A i \in Counted : v[i] \in Nat
    BY <1>1, SumInIs
  <2> HIDE DEF v
  <2>2. QED BY <1>2, <2>1, PeriodsAre, SumOfParts
<1>6. QED BY <1>1, <1>4, <1>5, SumInIs

(* Nothing of the rows that count is lost or counted twice on the way to   *)
(* the totals, whatever the range, the rows, the grouping and the filter.  *)
THEOREM TrafficIsConserved == Spec => []TrafficConserved
<1>1. IInv => TrafficConserved
  BY TotalTrafficIs, TrafficIs, KeysApart DEF TrafficConserved
<1>2. QED BY <1>1, Invariance, PTL

-----------------------------------------------------------------------------
(* What is stored *)

LEMMA SnapIsSet ==
  ASSUME IInv, NEW k \in Key, NEW d \in Date
  PROVE  snap[<<k, d>>] # Unset <=> OnDay(k, d) # {}
<1> TypeOK /\ SnapOK /\ LastOK
  BY DEF IInv
<1>1. OnDay(k, d) \in SUBSET DOMAIN read
  BY DEF OnDay, With, Counted
<1>2. CASE k \in Member
  <2>1. SumOf(OnDay(k, d)) \in Nat
    BY <1>1, ReadIsTyped, SumInIs
  <2>2. QED BY <1>2, <2>1 DEF SnapOK, Unset
<1>3. CASE k \in Bucket
  <2>1. \A i \in OnDay(k, d) : read[i].row.value \in Nat
    BY <1>1, ReadIsTyped, AggregateAssumption
  <2>2. QED BY <1>3, <2>1 DEF LastOK, Unset
<1>4. QED BY <1>2, <1>3 DEF Key

(* A key stores what its last day in the last period has. *)
LEMMA StoredIs ==
  ASSUME IInv, Counted # {}, NEW k \in Key
  PROVE  LET rows == LastPeriod(With(k))
         IN  /\ Max(Periods) \in Periods
             /\ rows \subseteq Counted
             /\ rows = {} => Stored(k) = 0
             /\ rows # {} => \E d \in Date : /\ LastDay(rows) = OnDay(k, d) /\ OnDay(k, d) # {}
                                             /\ Stored(k) = snap[<<k, d>>]
<1> TypeOK /\ WalkOK
  BY DEF IInv
<1> DEFINE p == Max(Periods)
           rows == LastPeriod(With(k))
           dates == {d \in Date : PeriodAt(d) = p /\ snap[<<k, d>>] # Unset}
<1>1. p \in Periods
  BY PeriodsAre, MaxIs
<1>2. Periods = {PeriodAt(read[i].date) : i \in Counted}
  BY PeriodsAre
<1>3. rows = {i \in With(k) : PeriodAt(read[i].date) = p}
  BY <1>2, Zenon DEF LastPeriod
<1>4. rows \subseteq Counted /\ \A i \in rows : read[i].date \in Date
  BY <1>3, ReadIsTyped
<1>5. dates = {read[i].date : i \in rows}
  <2>1. ASSUME NEW d \in dates PROVE \E i \in rows : d = read[i].date
    BY <1>3, SnapIsSet DEF OnDay
  <2>2. ASSUME NEW i \in rows PROVE read[i].date \in dates
    BY <1>3, <1>4, SnapIsSet DEF OnDay
  <2>3. QED BY <2>1, <2>2
<1>6. Stored(k) = IF dates = {} THEN 0 ELSE snap[<<k, Max(dates)>>]
  <2>1. Periods # {}
    BY PeriodsAre
  <2>2. QED BY <2>1 DEF Stored, SnapRead
<1>7. ASSUME rows # {}
      PROVE  \E d \in Date : /\ LastDay(rows) = OnDay(k, d) /\ OnDay(k, d) # {}
                             /\ Stored(k) = snap[<<k, d>>]
  <2>1. dates # {} /\ dates \subseteq Date /\ Date \subseteq Nat /\ IsFiniteSet(Date)
    <3>1. dates # {}
      BY <1>5, <1>7
    <3>2. LastDate \in Nat
      BY AggregateAssumption
    <3>3. IsFiniteSet(1..LastDate) /\ 1..LastDate \subseteq Nat
      BY <3>2, FS_Interval
    <3>4. QED BY <3>1, <3>3 DEF Date
  <2>2. Max(dates) \in dates
    <3>1. IsFiniteSet(dates)
      BY <2>1, FS_Subset
    <3> HIDE DEF dates
    <3>2. QED BY <2>1, <3>1, MaxIs
  <2>3. LastDay(rows) = {i \in rows : read[i].date = Max(dates)}
    BY <1>5, Zenon DEF LastDay
  <2>4. LastDay(rows) = OnDay(k, Max(dates))
    BY <1>3, <2>2, <2>3 DEF OnDay
  <2>5. OnDay(k, Max(dates)) # {}
    BY <2>2, SnapIsSet
  <2>6. QED BY <1>6, <2>1, <2>2, <2>4, <2>5
<1>8. rows = {} => Stored(k) = 0
  BY <1>5, <1>6
<1>9. QED BY <1>1, <1>4, <1>7, <1>8

(* A group or an account stores the sum of its last day, in whatever order *)
(* the rows of that day were read.                                         *)
THEOREM StoredIsOfLastDay == Spec => []StoredIsLastDay
<1>1. IInv => StoredIsLastDay
  <2> SUFFICES ASSUME IInv, NEW k \in Member
               PROVE  LET rows == IF Counted = {} THEN {} ELSE LastPeriod(With(k))
                      IN  Stored(k) = IF rows = {} THEN 0 ELSE SumOf(LastDay(rows))
    BY DEF StoredIsLastDay
  <2>1. k \in Key
    BY KeysApart
  <2>2. CASE Counted = {}
    BY <2>2, PeriodsAre DEF Stored
  <2>3. CASE Counted # {}
    <3> DEFINE rows == LastPeriod(With(k))
    <3>1. CASE rows = {}
      BY <2>1, <2>3, <3>1, StoredIs
    <3>2. CASE rows # {}
      <4>1. PICK d \in Date : /\ LastDay(rows) = OnDay(k, d) /\ OnDay(k, d) # {}
                              /\ Stored(k) = snap[<<k, d>>]
        BY <2>1, <2>3, <3>2, StoredIs
      <4>2. snap[<<k, d>>] = SumOf(OnDay(k, d))
        BY <4>1 DEF IInv, SnapOK
      <4>3. QED BY <2>3, <3>2, <4>1, <4>2
    <3>3. QED BY <3>1, <3>2
  <2>4. QED BY <2>2, <2>3
<1>2. QED BY <1>1, Invariance, PTL

(* Where no two rows of a day have a label, the buckets' total is the sum  *)
(* of what each said last.                                                 *)
THEOREM TotalOfBuckets == Spec => []TotalIsOfBuckets
<1> DEFINE Rows(b) == LastPeriod(With(b))
           Last(b) == IF Rows(b) = {} THEN {} ELSE LastDay(Rows(b))
<1>1. ASSUME IInv, LabelsDiffer, Counted # {}
      PROVE  TotalStored = SumOf(UNION {Last(b) : b \in Bucket})
  <2> TypeOK /\ LastOK
    BY <1>1 DEF IInv
  <2> DEFINE S == UNION {Last(b) : b \in Bucket}
             f == [b \in AllBuckets |-> SnapRead(b, Max(Periods))]
  <2>1. ASSUME NEW b \in Bucket
        PROVE  /\ Last(b) \subseteq With(b)
               /\ Stored(b) = SumOf(Last(b))
    <3>1. b \in Key
      BY KeysApart
    <3>2. CASE Rows(b) = {}
      <4>1. SumOf({}) = 0
        BY ReadIsTyped, SumInIs, SumEmpty
      <4>2. QED BY <1>1, <3>1, <3>2, <4>1, StoredIs
    <3>3. CASE Rows(b) # {}
      <4>1. PICK d \in Date : /\ Last(b) = OnDay(b, d) /\ OnDay(b, d) # {}
                              /\ Stored(b) = snap[<<b, d>>]
        BY <1>1, <3>1, <3>3, StoredIs
      <4>2. PICK i \in OnDay(b, d) : snap[<<b, d>>] = read[i].row.value
        BY <4>1 DEF LastOK
      <4>3. OnDay(b, d) = {i}
        <5>1. ASSUME NEW j \in OnDay(b, d) PROVE j = i
          <6>1. i \in Counted /\ j \in Counted /\ read[i].date = read[j].date
            BY DEF OnDay, With
          <6>2. BucketKey(Label(read[i].row)) = b /\ BucketKey(Label(read[j].row)) = b
            BY <1>1, BucketsAre DEF OnDay
          <6>3. Label(read[i].row) = Label(read[j].row)
            BY <6>2 DEF BucketKey
          <6>4. QED BY <1>1, <6>1, <6>3 DEF LabelsDiffer
        <5>2. QED BY <5>1
      <4>4. SumOf({i}) = read[i].row.value
        <5>1. {i} \in SUBSET DOMAIN read
          BY ReadIsTyped DEF OnDay
        <5>2. ValueIn(read)[i] = read[i].row.value
          BY <5>1 DEF ValueIn
        <5>3. SumOf({i}) = SumFunctionOnSet(ValueIn(read), {i}) /\ ValueIn(read)[i] \in Nat
          BY <5>1, ReadIsTyped, SumInIs
        <5>4. QED BY <5>2, <5>3, SumOne
      <4>5. QED BY <4>1, <4>2, <4>3, <4>4 DEF OnDay
    <3>4. QED BY <3>2, <3>3
  <2>2. S \in SUBSET Counted
    BY <2>1 DEF With
  <2>3. ASSUME NEW b \in AllBuckets
        PROVE  f[b] = SumOf({i \in S : BucketKey(Label(read[i].row)) = b})
    <3>1. b \in Bucket
      BY <1>1, BucketsAre
    <3>2. \A c \in Bucket : \A i \in Last(c) : BucketKey(Label(read[i].row)) = c
      BY <1>1, <2>1, BucketsAre
    <3>3. {i \in S : BucketKey(Label(read[i].row)) = b} = Last(b)
      BY <3>1, <3>2
    <3>4. f[b] = Stored(b)
      BY <1>1, PeriodsAre DEF Stored
    <3>5. QED BY <2>1, <3>1, <3>3, <3>4
  <2>4. TotalStored = SumFunctionOnSet(f, AllBuckets)
    BY <1>1, PeriodsAre DEF TotalStored, StoredAt, SumFunction
  <2> HIDE DEF S, f
  <2>5. SumFunctionOnSet(f, AllBuckets) = SumOf(S)
    BY <1>1, <2>2, <2>3, SumOfBuckets
  <2>6. QED BY <2>4, <2>5 DEF S
<1>2. IInv => TotalIsOfBuckets
  BY <1>1 DEF TotalIsOfBuckets
<1>3. QED BY <1>2, Invariance, PTL
=============================================================================
