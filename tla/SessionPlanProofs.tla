---------------------------- MODULE SessionPlanProofs ----------------------------
(***************************************************************************)
(* Proofs about SessionPlan, for every pool of sessions, every size of     *)
(* sample and every bound: that a stratified sample is fair, and that the  *)
(* identity check finds nothing where the run sent its plan.               *)
(***************************************************************************)
EXTENDS SessionPlan, FiniteSetTheorems, WellFoundedInduction, NaturalsInduction, TLAPS

-------------------------------------------------------------------------------
(* Sets of places and sums of sequences. *)

\* A set of naturals has a least member.
LEMMA Least ==
  ASSUME NEW T \in SUBSET Nat, T # {}
  PROVE  \E k \in T : \A j \in T : k <= j
<1>1. PICK x \in T : \A y \in T : ~ (<<y, x>> \in OpToRel(<, Nat))
  BY NatLessThanWellFounded, WFMin
<1>2. \A y \in T : ~ (y < x)
  BY <1>1 DEF OpToRel
<1> QED
  BY <1>2

UpTo(c, k) == Cardinality({i \in c : i <= k})

\* A step up counts one more where there is a member.
Climbs(c) ==
  \A k \in Nat : (k + 1 \in c => UpTo(c, k + 1) = UpTo(c, k) + 1) /\ (k + 1 \notin c => UpTo(c, k + 1) = UpTo(c, k))

LEMMA UpToStep ==
  ASSUME NEW n \in Nat, NEW c, c \subseteq 1 .. n
  PROVE  /\ IsFiniteSet(c) /\ Cardinality(c) \in Nat /\ Cardinality(c) <= n
         /\ \A k \in Nat : UpTo(c, k) \in Nat
         /\ UpTo(c, 0) = 0 /\ UpTo(c, n) = Cardinality(c)
         /\ Climbs(c)
<1>1. IsFiniteSet(1 .. n) /\ Cardinality(1 .. n) = n
  BY FS_Interval
<1>2. IsFiniteSet(c) /\ Cardinality(c) \in Nat /\ Cardinality(c) <= n
  BY <1>1, FS_Subset, FS_CardinalityType
<1>3. \A k \in Nat : IsFiniteSet({i \in c : i <= k}) /\ UpTo(c, k) \in Nat
  <2> TAKE k \in Nat
  <2>1. {i \in c : i <= k} \subseteq c
    OBVIOUS
  <2> QED
    BY <1>2, <2>1, FS_Subset, FS_CardinalityType DEF UpTo
<1>0. \A i \in c : i \in Nat /\ i > 0 /\ i <= n
  OBVIOUS
<1>4. UpTo(c, 0) = 0
  <2>1. {i \in c : i <= 0} = {}
    <3>1. \A i \in c : ~(i <= 0)
      BY <1>0
    <3> QED
      BY <3>1, Zenon
  <2> QED
    BY <2>1, FS_EmptySet DEF UpTo
<1>5. UpTo(c, n) = Cardinality(c)
  <2>1. {i \in c : i <= n} = c
    BY <1>0
  <2> QED
    BY <2>1 DEF UpTo
<1>6. ASSUME NEW k \in Nat
      PROVE  (k + 1 \in c => UpTo(c, k + 1) = UpTo(c, k) + 1) /\ (k + 1 \notin c => UpTo(c, k + 1) = UpTo(c, k))
  <2> DEFINE S == {i \in c : i <= k}
             T == {i \in c : i <= k + 1}
  <2>0. \A i \in c : i \in Nat
    BY <1>0
  <2>00. \A i \in Nat : i <= k + 1 <=> (i <= k \/ i = k + 1)
    OBVIOUS
  <2>1. CASE k + 1 \in c
    <3>1. T = S \cup {k + 1} /\ k + 1 \notin S
      <4>1. ~(k + 1 <= k)
        OBVIOUS
      <4>2. \A i : i \in T <=> i \in S \cup {k + 1}
        BY <2>0, <2>00, <2>1, Zenon
      <4> QED
        BY <4>1, <4>2, Zenon
    <3>2. IsFiniteSet(S)
      BY <1>3
    <3> HIDE DEF S, T
    <3>3. Cardinality(T) = Cardinality(S) + 1
      BY <3>1, <3>2, FS_AddElement
    <3> QED
      BY <2>1, <3>3 DEF S, T, UpTo
  <2>2. CASE k + 1 \notin c
    <3>1. T = S
      BY <2>0, <2>00, <2>2, Zenon
    <3> QED
      BY <2>2, <3>1 DEF UpTo
  <2> QED
    BY <2>1, <2>2
<1>7. Climbs(c)
  BY <1>6, Zenon DEF Climbs
<1> QED
  BY <1>2, <1>3, <1>4, <1>5, <1>7

\* The j-th member is there.
LEMMA NthThere ==
  ASSUME NEW n \in Nat, NEW c, c \subseteq 1 .. n, NEW j \in 1 .. Cardinality(c)
  PROVE  \E k \in c : UpTo(c, k) = j
<1>0. /\ Cardinality(c) \in Nat /\ UpTo(c, 0) = 0 /\ UpTo(c, n) = Cardinality(c) /\ \A k \in Nat : UpTo(c, k) \in Nat
      /\ \A k \in Nat : (k + 1 \in c => UpTo(c, k + 1) = UpTo(c, k) + 1) /\ (k + 1 \notin c => UpTo(c, k + 1) = UpTo(c, k))
  <2>1. Cardinality(c) \in Nat /\ UpTo(c, 0) = 0 /\ UpTo(c, n) = Cardinality(c)
    BY UpToStep
  <2>2. \A k \in Nat : UpTo(c, k) \in Nat
    BY UpToStep
  <2>3. Climbs(c)
    BY UpToStep
  <2> QED
    BY <2>1, <2>2, <2>3, Zenon DEF Climbs
<1> DEFINE T == {k \in Nat : UpTo(c, k) >= j}
<1>1. j \in Nat /\ j > 0 /\ j <= Cardinality(c) /\ Cardinality(c) \in Nat
  BY <1>0
<1>2. T \in SUBSET Nat /\ n \in T
  BY <1>1, <1>0
<1>3. PICK k \in T : \A i \in T : k <= i
  <2> HIDE DEF T
  <2> QED
    BY <1>2, Least
<1>4. k \in Nat /\ UpTo(c, k) \in Nat /\ UpTo(c, k) >= j
  BY <1>0
<1>5. k # 0
  BY <1>1, <1>4, <1>0
<1>6. k - 1 \in Nat /\ k - 1 \notin T /\ (k - 1) + 1 = k
  BY <1>3, <1>4, <1>5
<1>7. UpTo(c, k - 1) \in Nat /\ UpTo(c, k - 1) < j
  BY <1>1, <1>6, <1>0
<1>8. (k \in c => UpTo(c, k) = UpTo(c, k - 1) + 1) /\ (k \notin c => UpTo(c, k) = UpTo(c, k - 1))
  BY <1>6, <1>0
<1> QED
  BY <1>1, <1>4, <1>7, <1>8

\* Two members have two places.
LEMMA PlacesGrow ==
  ASSUME NEW n \in Nat, NEW c, c \subseteq 1 .. n, NEW k \in c, NEW l \in c, k < l
  PROVE  UpTo(c, k) < UpTo(c, l)
<1> DEFINE S == {i \in c : i <= k}
           T == {i \in c : i <= l}
<1>1. k \in Nat /\ l \in Nat /\ \A i \in c : i \in Nat
  OBVIOUS
<1>6. ~(l <= k) /\ l <= l /\ \A i \in Nat : i <= k => i <= l
  BY <1>1
<1>2. S \subseteq T /\ l \in T /\ l \notin S
  BY <1>1, <1>6, Zenon
<1>3. IsFiniteSet(T)
  <2>1. T \subseteq c
    OBVIOUS
  <2> QED
    BY <2>1, UpToStep, FS_Subset
<1> HIDE DEF S, T
<1>4. Cardinality(S) \in Nat /\ Cardinality(T) \in Nat /\ Cardinality(S) <= Cardinality(T) /\ (Cardinality(S) = Cardinality(T) => S = T)
  BY <1>2, <1>3, FS_Subset, FS_CardinalityType
<1>5. Cardinality(S) < Cardinality(T)
  BY <1>2, <1>4
<1> QED
  BY <1>5 DEF S, T, UpTo
Total(s) == FoldLeft(+, 0, s)

\* What holds of 0 and, if of k, of k + 1, holds up to n.
LEMMA Upwards ==
  ASSUME NEW n \in Nat, NEW T \in SUBSET (0 .. n), 0 \in T, \A k \in T : k < n => k + 1 \in T
  PROVE  T = 0 .. n
<1> SUFFICES ASSUME (0 .. n) \ T # {} PROVE FALSE
  OBVIOUS
<1> DEFINE U == (0 .. n) \ T
<1>1. U \in SUBSET Nat /\ U # {}
  OBVIOUS
<1>2. PICK k \in U : \A j \in U : k <= j
  <2> HIDE DEF U
  <2> QED
    BY <1>1, Least
<1>3. k \in Nat /\ k # 0 /\ k <= n
  BY <1>2
<1>4. k - 1 \in 0 .. n /\ k - 1 \notin U /\ k - 1 < n /\ (k - 1) + 1 = k
  BY <1>2, <1>3
<1> QED
  BY <1>2, <1>4

\* The least upper member of a set of places.
LEMMA Top ==
  ASSUME NEW n \in Nat, NEW S \in SUBSET (1 .. n), n \in S
  PROVE  Max(S) = n
<1>1. n \in S /\ \A y \in S : n >= y
  OBVIOUS
<1>2. Max(S) \in S /\ \A y \in S : Max(S) >= y
  BY <1>1 DEF Max
<1>3. \A m \in S : m >= n => m = n
  OBVIOUS
<1> QED
  BY <1>1, <1>2, <1>3, Zenon

\* A fold of a sequence is a running sum.
LEMMA RunningSum ==
  ASSUME NEW s \in Seq(Int)
  PROVE  \E g \in [0 .. Len(s) -> Int] :
           g[0] = 0 /\ (\A k \in 1 .. Len(s) : g[k] = g[k - 1] + s[k]) /\ Total(s) = g[Len(s)]
<1> DEFINE n == Len(s)
           D == DOMAIN s
           F(f) == [S \in SUBSET D |-> IF S = {} THEN 0 ELSE f[S \ {Max(S)}] + s[Max(S)]]
           Unfolds(f, k) == \A S \in SUBSET (1 .. k) : f[S] = IF S = {} THEN 0 ELSE f[S \ {Max(S)}] + s[Max(S)]
           u == CHOOSE f : f = F(f)
<1>1. n \in Nat /\ D = 1 .. n /\ \A k \in 1 .. n : s[k] \in Int
  OBVIOUS
<1>2. Total(s) = u[D]
  BY DEF Total, FoldLeft, MapThenFoldSet
<1>3. \E f : f = F(f)
  <2> DEFINE T == {k \in 0 .. n : \E f : Unfolds(f, k)}
  <2> HIDE DEF n, D
  <2>1. 0 \in T
    <3> DEFINE f == [S \in {{}} |-> 0]
    <3>1. f[{}] = 0 /\ \A S \in SUBSET (1 .. 0) : S = {}
      OBVIOUS
    <3> HIDE DEF f
    <3>2. Unfolds(f, 0)
      BY <3>1
    <3> HIDE DEF Unfolds
    <3> QED
      BY <1>1, <3>2
  <2>2. ASSUME NEW k \in T, k < n PROVE k + 1 \in T
    <3>1. PICK f : Unfolds(f, k)
      OBVIOUS
    <3>2. k \in Nat /\ k + 1 \in 0 .. n /\ k + 1 \in Nat
      BY <1>1, <2>2
    <3> DEFINE g == [S \in SUBSET (1 .. (k + 1)) |-> IF k + 1 \in S THEN f[S \ {k + 1}] + s[k + 1] ELSE f[S]]
    <3>3. ASSUME NEW S \in SUBSET (1 .. (k + 1)), k + 1 \in S
          PROVE  g[S] = g[S \ {Max(S)}] + s[Max(S)]
      <4>1. Max(S) = k + 1
        BY <3>2, <3>3, Top
      <4>2. S \ {k + 1} \in SUBSET (1 .. (k + 1)) /\ k + 1 \notin S \ {k + 1}
        OBVIOUS
      <4> QED
        BY <3>3, <4>1, <4>2
    <3>4. ASSUME NEW S \in SUBSET (1 .. (k + 1)), k + 1 \notin S
          PROVE  g[S] = IF S = {} THEN 0 ELSE g[S \ {Max(S)}] + s[Max(S)]
      <4>1. S \in SUBSET (1 .. k) /\ g[S] = f[S]
        BY <3>2, <3>4
      <4>2. S \ {Max(S)} \in SUBSET (1 .. (k + 1)) /\ k + 1 \notin S \ {Max(S)}
        BY <3>4
      <4>3. g[S \ {Max(S)}] = f[S \ {Max(S)}]
        BY <4>2
      <4> HIDE DEF g
      <4> QED
        BY <3>1, <4>1, <4>3
    <3> HIDE DEF g
    <3>5. Unfolds(g, k + 1)
      BY <3>3, <3>4
    <3> HIDE DEF Unfolds
    <3> QED
      BY <3>2, <3>5
  <2>3. n \in 0 .. n /\ T \in SUBSET (0 .. n)
    BY <1>1
  <2> HIDE DEF T
  <2>4. n \in T
    BY <1>1, <2>1, <2>2, <2>3, Upwards, Zenon
  <2>5. PICK f : Unfolds(f, n)
    BY <2>4 DEF T
  <2> DEFINE h == [S \in SUBSET D |-> f[S]]
  <2>6. \A S \in SUBSET D : h[S] = IF S = {} THEN 0 ELSE h[S \ {Max(S)}] + s[Max(S)]
    BY <1>1, <2>5
  <2>7. h = F(h)
    <3>1. h = [S \in SUBSET D |-> h[S]]
      OBVIOUS
    <3> HIDE DEF h
    <3> QED
      BY <2>6, <3>1
  <2> QED
    BY <2>7
<1>4. u = F(u)
  BY <1>3
<1> HIDE DEF u
<1>5. \A S \in SUBSET D : u[S] = IF S = {} THEN 0 ELSE u[S \ {Max(S)}] + s[Max(S)]
  BY <1>4
<1> DEFINE g == [k \in 0 .. n |-> u[1 .. k]]
<1>6. g[0] = 0
  <2>1. 1 .. 0 = {} /\ 1 .. 0 \in SUBSET D /\ 0 \in 0 .. n
    BY <1>1
  <2> QED
    BY <1>5, <2>1
<1>7. ASSUME NEW k \in 1 .. n PROVE g[k] = g[k - 1] + s[k]
  <2> HIDE DEF n, D
  <2>1. k \in Nat /\ k > 0 /\ k <= n /\ k \in 0 .. n /\ k - 1 \in 0 .. n
    BY <1>1
  <2>2. 1 .. k \in SUBSET D /\ k \in 1 .. k /\ (1 .. k) \ {k} = 1 .. (k - 1)
    BY <1>1, <2>1
  <2>3. Max(1 .. k) = k
    BY <2>1, <2>2, Top
  <2>4. u[1 .. k] = u[1 .. (k - 1)] + s[k]
    BY <1>5, <2>2, <2>3
  <2> QED
    BY <2>1, <2>4
<1>8. g \in [0 .. n -> Int]
  <2> DEFINE T == {k \in 0 .. n : g[k] \in Int}
  <2> HIDE DEF g, n
  <2>1. 0 \in T
    BY <1>1, <1>6
  <2>2. ASSUME NEW k \in T, k < n PROVE k + 1 \in T
    <3>1. k + 1 \in 1 .. n /\ (k + 1) - 1 = k
      BY <1>1, <2>2
    <3>2. g[k + 1] = g[k] + s[k + 1] /\ g[k] \in Int /\ s[k + 1] \in Int
      BY <1>1, <1>7, <3>1
    <3> QED
      BY <1>1, <3>1, <3>2
  <2>3. T \in SUBSET (0 .. n)
    OBVIOUS
  <2>4. T = 0 .. n
    <3> HIDE DEF T
    <3> QED
      BY <1>1, <2>1, <2>2, <2>3, Upwards, Zenon
  <2>5. g = [k \in 0 .. n |-> g[k]]
    BY DEF g
  <2> QED
    BY <2>4, <2>5
<1>9. Total(s) = g[n]
  BY <1>1, <1>2
<1> QED
  BY <1>6, <1>7, <1>8, <1>9

\* Sequences with a running sum in common have the same total.
LEMMA TotalIs ==
  ASSUME NEW s \in Seq(Int), NEW h \in [0 .. Len(s) -> Int], h[0] = 0, \A k \in 1 .. Len(s) : h[k] = h[k - 1] + s[k]
  PROVE  Total(s) = h[Len(s)]
<1>1. PICK g \in [0 .. Len(s) -> Int] : g[0] = 0 /\ (\A k \in 1 .. Len(s) : g[k] = g[k - 1] + s[k]) /\ Total(s) = g[Len(s)]
  BY RunningSum
<1> DEFINE n == Len(s)
           T == {k \in 0 .. n : g[k] = h[k]}
<1>2. n \in Nat
  OBVIOUS
<1>3. ASSUME NEW k \in T, k < n PROVE k + 1 \in T
  <2>1. k + 1 \in 1 .. n /\ k + 1 \in 0 .. n /\ (k + 1) - 1 = k /\ k \in 0 .. n /\ g[k] = h[k]
    BY <1>2, <1>3
  <2>2. g[k + 1] = h[k + 1]
    BY <1>1, <2>1
  <2> QED
    BY <2>1, <2>2
<1>4. 0 \in T /\ T \in SUBSET (0 .. n)
  BY <1>1, <1>2
<1> HIDE DEF T
<1>5. T = 0 .. n
  BY <1>2, <1>3, <1>4, Upwards, Zenon
<1>6. n \in T
  BY <1>2, <1>5
<1> QED
  BY <1>1, <1>6 DEF T

\* A function on 1 .. n is a sequence.
LEMMA TotalOf ==
  ASSUME NEW n \in Nat, NEW s \in [1 .. n -> Int], NEW h \in [0 .. n -> Int], h[0] = 0,
         \A k \in 1 .. n : h[k] = h[k - 1] + s[k]
  PROVE  Total(s) = h[n]
<1>1. s \in Seq(Int) /\ Len(s) = n
  OBVIOUS
<1> QED
  BY <1>1, TotalIs

LEMMA NatFun ==
  ASSUME NEW n \in Nat, NEW s \in [1 .. n -> Nat]
  PROVE  s \in [1 .. n -> Int] /\ s \in Seq(Nat) /\ Len(s) = n
<1>1. s = [i \in 1 .. n |-> s[i]] /\ \A i \in 1 .. n : s[i] \in Int
  OBVIOUS
<1>2. s \in [1 .. n -> Int]
  BY <1>1, Zenon
<1> QED
  BY <1>2

LEMMA NatSeq == ASSUME NEW s \in Seq(Nat) PROVE s \in Seq(Int) /\ Len(s) \in Nat /\ \A i \in 1 .. Len(s) : s[i] \in Nat
<1>1. Len(s) \in Nat /\ \A i \in 1 .. Len(s) : s[i] \in Nat
  OBVIOUS
<1> QED
  BY <1>1

\* One for each positive entry adds up to how many there are.
LEMMA OnesTotal ==
  ASSUME NEW n \in Nat, NEW c, NEW s, s = [i \in 1 .. n |-> IF c[i] > 0 THEN 1 ELSE 0]
  PROVE  Total(s) = Cardinality({i \in 1 .. n : c[i] > 0})
<1> DEFINE P(k) == {i \in 1 .. k : c[i] > 0}
           h == [k \in 0 .. n |-> Cardinality(P(k))]
<1>1. ASSUME NEW k \in 0 .. n PROVE IsFiniteSet(P(k)) /\ Cardinality(P(k)) \in Nat
  <2>1. IsFiniteSet(1 .. k) /\ P(k) \subseteq 1 .. k
    BY FS_Interval
  <2> QED
    BY <2>1, FS_Subset, FS_CardinalityType
<1>2. P(0) = {} /\ Cardinality(P(0)) = 0
  BY FS_EmptySet
<1>3. ASSUME NEW k \in 1 .. n PROVE h[k] = h[k - 1] + s[k]
  <2>1. k \in Nat /\ k \in 0 .. n /\ k - 1 \in 0 .. n /\ k \notin P(k - 1)
    OBVIOUS
  <2>2. CASE c[k] > 0
    <3>1. P(k) = P(k - 1) \cup {k}
      BY <2>1, <2>2
    <3>2. Cardinality(P(k - 1) \cup {k}) = Cardinality(P(k - 1)) + 1
      <4>1. IsFiniteSet(P(k - 1)) /\ k \notin P(k - 1)
        BY <1>1, <2>1
      <4> HIDE DEF P
      <4> QED
        BY <4>1, FS_AddElement
    <3>3. s[k] = 1
      BY <2>2
    <3>4. h[k] = Cardinality(P(k)) /\ h[k - 1] = Cardinality(P(k - 1))
      BY <2>1
    <3>5. Cardinality(P(k)) = Cardinality(P(k - 1)) + 1
      <4> HIDE DEF P
      <4> QED
        BY <3>1, <3>2, Zenon
    <3> HIDE DEF P, h
    <3> QED
      BY <3>3, <3>4, <3>5, Zenon
  <2>3. CASE ~(c[k] > 0)
    <3>1. P(k) = P(k - 1)
      BY <2>1, <2>3
    <3>2. s[k] = 0
      BY <2>3
    <3>3. Cardinality(P(k - 1)) \in Nat
      BY <1>1, <2>1
    <3>4. h[k] = Cardinality(P(k)) /\ h[k - 1] = Cardinality(P(k - 1))
      BY <2>1
    <3>5. Cardinality(P(k)) = Cardinality(P(k - 1)) + 0
      <4> HIDE DEF P
      <4> QED
        BY <3>1, <3>3
    <3> HIDE DEF P, h
    <3> QED
      BY <3>2, <3>4, <3>5, Zenon
  <2> QED
    BY <2>2, <2>3
<1> HIDE DEF P
<1>4. h \in [0 .. n -> Int] /\ h[0] = 0 /\ h[n] = Cardinality(P(n))
  BY <1>1, <1>2
<1>5. s \in [1 .. n -> Int]
  OBVIOUS
<1> HIDE DEF h
<1>6. Total(s) = h[n]
  BY <1>3, <1>4, <1>5, TotalOf
<1> QED
  BY <1>4, <1>6 DEF P

\* Every entry times one factor adds up to the factor times the total.
LEMMA ScaledTotal ==
  ASSUME NEW n \in Nat, NEW c \in Seq(Nat), Len(c) = n, NEW o \in Nat, NEW s, s = [i \in 1 .. n |-> o * c[i]]
  PROVE  Total(s) = o * Total(c)
<1>1. c \in Seq(Int) /\ \A i \in 1 .. n : c[i] \in Nat
  BY NatSeq, Zenon
<1>2. PICK g \in [0 .. n -> Int] : g[0] = 0 /\ (\A i \in 1 .. n : g[i] = g[i - 1] + c[i]) /\ Total(c) = g[n]
  BY <1>1, RunningSum
<1> DEFINE h == [k \in 0 .. n |-> o * g[k]]
<1>3. \A a \in Int, b \in Int : o * (a + b) = o * a + o * b /\ o * a \in Int /\ o * 0 = 0
  OBVIOUS
<1>4. ASSUME NEW k \in 1 .. n PROVE h[k] = h[k - 1] + s[k] /\ s[k] \in Int
  <2>1. k \in 0 .. n /\ k - 1 \in 0 .. n /\ g[k - 1] \in Int /\ c[k] \in Int /\ g[k] = g[k - 1] + c[k]
    BY <1>1, <1>2
  <2>2. o * (g[k - 1] + c[k]) = o * g[k - 1] + o * c[k] /\ o * c[k] \in Int
    BY <1>3, <2>1, Zenon
  <2>3. h[k] = o * g[k] /\ h[k - 1] = o * g[k - 1] /\ s[k] = o * c[k]
    BY <2>1, Zenon
  <2> QED
    BY <2>1, <2>2, <2>3, Zenon
<1>5. h \in [0 .. n -> Int]
  BY <1>3, Zenon
<1>6. h[0] = 0 /\ h[n] = o * g[n]
  <2>1. 0 \in 0 .. n /\ n \in 0 .. n
    OBVIOUS
  <2>2. h[0] = o * g[0] /\ h[n] = o * g[n]
    BY <2>1, Zenon
  <2>3. o * 0 = 0
    BY <1>3
  <2> QED
    BY <1>2, <2>2, <2>3, Zenon
<1>7. s \in [1 .. n -> Int]
  <2> HIDE DEF h
  <2>1. \A k \in 1 .. n : o * c[k] \in Int
    BY <1>1, <1>3
  <2> QED
    BY <2>1, Zenon
<1> HIDE DEF h
<1>8. Total(s) = h[n]
  BY <1>4, <1>5, <1>6, <1>7, TotalOf
<1> QED
  BY <1>2, <1>6, <1>8, Zenon


\* A set of places in order: a sequence of its members that grows and has them all.
LEMMA AscendingIs ==
  ASSUME NEW n \in Nat, NEW S, S \subseteq 1 .. n
  PROVE  /\ Cardinality(S) \in Nat /\ Ascending(S) \in [1 .. Cardinality(S) -> S]
         /\ \A i, j \in 1 .. Cardinality(S) : i <= j <=> Ascending(S)[i] <= Ascending(S)[j]
         /\ \A k \in S : \E j \in 1 .. Cardinality(S) : Ascending(S)[j] = k
<1> DEFINE m == Cardinality(S)
           A == Ascending(S)
<1>1. A = [j \in 1 .. m |-> CHOOSE i \in S : UpTo(S, i) = j]
  BY DEF Ascending, UpTo
<1>2. m \in Nat /\ (\A k \in S : k \in Nat /\ k > 0 /\ k <= n) /\ (\A k \in Nat : UpTo(S, k) \in Nat) /\ UpTo(S, n) = m
  <2>1. m \in Nat /\ UpTo(S, n) = m
    BY UpToStep
  <2>2. \A k \in Nat : UpTo(S, k) \in Nat
    BY UpToStep
  <2> QED
    BY <2>1, <2>2
<1>3. ASSUME NEW j \in 1 .. m PROVE A[j] \in S /\ UpTo(S, A[j]) = j
  <2>1. \E i \in S : UpTo(S, i) = j
    BY NthThere
  <2> QED
    BY <1>1, <2>1
<1> HIDE DEF A
<1>4. ASSUME NEW k \in S PROVE UpTo(S, k) \in 1 .. m
  <2>1. k \in Nat /\ UpTo(S, k) \in Nat
    BY <1>2
  <2>2. UpTo(S, k) > 0
    <3>1. {i \in S : i <= k} # {} /\ {i \in S : i <= k} \subseteq S
      BY <2>1
    <3>2. IsFiniteSet({i \in S : i <= k})
      BY <3>1, UpToStep, FS_Subset
    <3>3. UpTo(S, k) # 0
      BY <3>1, <3>2, FS_EmptySet DEF UpTo
    <3> QED
      BY <2>1, <3>3
  <2>3. UpTo(S, k) <= m
    <3>1. CASE k = n
      BY <1>2, <3>1
    <3>2. CASE k # n
      <4>1. {i \in S : i <= k} \subseteq S
        OBVIOUS
      <4>2. UpTo(S, k) <= Cardinality(S)
        BY <4>1, UpToStep, FS_Subset DEF UpTo
      <4> QED
        BY <4>2
    <3> QED
      BY <3>1, <3>2
  <2> QED
    BY <1>2, <2>1, <2>2, <2>3
<1>5. ASSUME NEW k \in S PROVE \E j \in 1 .. m : A[j] = k
  <2> DEFINE j == UpTo(S, k)
  <2>1. j \in 1 .. m /\ A[j] \in S /\ UpTo(S, A[j]) = j
    BY <1>3, <1>4
  <2>2. ~(A[j] < k)
    <3>1. A[j] < k => UpTo(S, A[j]) < UpTo(S, k)
      BY <2>1, PlacesGrow, Zenon
    <3> QED
      BY <1>2, <2>1, <3>1
  <2>3. ~(k < A[j])
    <3>1. k < A[j] => UpTo(S, k) < UpTo(S, A[j])
      BY <2>1, PlacesGrow, Zenon
    <3> QED
      BY <1>2, <2>1, <3>1
  <2>4. A[j] \in Nat /\ k \in Nat
    BY <1>2, <2>1
  <2> HIDE DEF j
  <2>5. A[j] = k
    BY <2>2, <2>3, <2>4
  <2> QED
    BY <2>1, <2>5
<1>6. ASSUME NEW i \in 1 .. m, NEW j \in 1 .. m PROVE i <= j <=> A[i] <= A[j]
  <2>1. A[i] \in S /\ A[j] \in S /\ UpTo(S, A[i]) = i /\ UpTo(S, A[j]) = j
    BY <1>3
  <2>2. A[i] \in Nat /\ A[j] \in Nat /\ i \in Nat /\ j \in Nat
    BY <1>2, <2>1
  <2>3. A[j] < A[i] => j < i
    BY <2>1, PlacesGrow, Zenon
  <2>4. A[i] < A[j] => i < j
    BY <2>1, PlacesGrow, Zenon
  <2>5. A[i] = A[j] => i = j
    BY <2>1
  <2> QED
    BY <2>2, <2>3, <2>4, <2>5
<1>7. A \in [1 .. m -> S]
  <2>1. A = [j \in 1 .. m |-> A[j]]
    BY <1>1
  <2> QED
    BY <1>3, <2>1, Zenon
<1> QED
  BY <1>2, <1>5, <1>6, <1>7 DEF A

\* What comes of it: no member twice, and a sequence of that length.
LEMMA AscendingOnce ==
  ASSUME NEW n \in Nat, NEW S, S \subseteq 1 .. n
  PROVE  /\ Len(Ascending(S)) = Cardinality(S) /\ DOMAIN Ascending(S) = 1 .. Cardinality(S)
         /\ \A i, j \in 1 .. Cardinality(S) : Ascending(S)[i] = Ascending(S)[j] => i = j
<1> DEFINE m == Cardinality(S)
           A == Ascending(S)
<1>1. m \in Nat /\ A \in [1 .. m -> S]
  BY AscendingIs, Zenon
<1>2. \A i, j \in 1 .. m : i <= j <=> A[i] <= A[j]
  BY AscendingIs, Zenon
<1> HIDE DEF m, A
<1>3. Len(A) = m /\ DOMAIN A = 1 .. m
  BY <1>1
<1>4. ASSUME NEW i \in 1 .. m, NEW j \in 1 .. m, A[i] = A[j] PROVE i = j
  <2>1. A[i] \in Nat /\ i \in Nat /\ j \in Nat
    <3>1. A[i] \in 1 .. n
      BY <1>1, Zenon
    <3> QED
      BY <1>1, <3>1
  <2>2. A[i] <= A[j] /\ A[j] <= A[i]
    BY <1>4, <2>1
  <2>3. i <= j /\ j <= i
    BY <1>2, <2>2
  <2> QED
    BY <2>1, <2>3
<1> QED
  BY <1>3, <1>4 DEF m, A

\* Two sets with a one-to-one map between them are as large as each other.
LEMMA SameSize ==
  ASSUME NEW S, NEW T, IsFiniteSet(S), NEW f \in [S -> T],
         \A a, b \in S : f[a] = f[b] => a = b, \A t \in T : \E a \in S : f[a] = t
  PROVE  IsFiniteSet(T) /\ Cardinality(T) = Cardinality(S)
<1>1. f \in Bijection(S, T)
  <2>1. f \in Injection(S, T)
    BY Zenon DEF Injection, IsInjective
  <2>2. f \in Surjection(S, T)
    BY Zenon DEF Surjection
  <2> QED
    BY <2>1, <2>2 DEF Bijection
<1> QED
  BY <1>1, FS_Bijection DEF ExistsBijection

\* A set falls into N parts of such sizes.
PartsOf(N, U, P, s) ==
  /\ P \in [1 .. N -> SUBSET U] /\ s \in [1 .. N -> Nat]
  /\ \A m, n \in 1 .. N : m # n => P[m] \cap P[n] = {}
  /\ \A x \in U : \E n \in 1 .. N : x \in P[n]
  /\ \A n \in 1 .. N : s[n] = Cardinality(P[n])

\* It has as many members as the sizes add up to.
LEMMA ClassesTotal ==
  ASSUME NEW N \in Nat, NEW U, IsFiniteSet(U), NEW P, NEW s, PartsOf(N, U, P, s)
  PROVE  Cardinality(U) = Total(s)
<1> DEFINE V(k) == {x \in U : \E n \in 1 .. k : x \in P[n]}
           h == [k \in 0 .. N |-> Cardinality(V(k))]
<1>0. /\ P \in [1 .. N -> SUBSET U] /\ s \in [1 .. N -> Nat]
      /\ \A m, n \in 1 .. N : m # n => P[m] \cap P[n] = {}
      /\ \A n \in 1 .. N : s[n] = Cardinality(P[n])
  BY DEF PartsOf
<1>1. \A k : IsFiniteSet(V(k)) /\ Cardinality(V(k)) \in Nat
  <2> TAKE k
  <2>1. V(k) \subseteq U
    OBVIOUS
  <2> HIDE DEF V
  <2> QED
    BY <2>1, FS_Subset, FS_CardinalityType
<1>2. \A n \in 1 .. N : IsFiniteSet(P[n]) /\ Cardinality(P[n]) \in Nat
  <2> TAKE n \in 1 .. N
  <2>1. P[n] \subseteq U
    BY <1>0
  <2> QED
    BY <2>1, FS_Subset, FS_CardinalityType
<1>3. Cardinality(V(0)) = 0
  <2>1. V(0) = {}
    OBVIOUS
  <2> QED
    BY <2>1, FS_EmptySet
<1>4. ASSUME NEW k \in 1 .. N PROVE h[k] = h[k - 1] + s[k]
  <2>1. k \in Nat /\ k \in 0 .. N /\ k - 1 \in 0 .. N /\ 1 .. k = (1 .. (k - 1)) \cup {k} /\ k \notin 1 .. (k - 1)
        /\ \A n \in 1 .. (k - 1) : n \in 1 .. N /\ n # k
    OBVIOUS
  <2>2. V(k) = V(k - 1) \cup P[k]
    <3>1. P[k] \subseteq U
      BY <1>0
    <3> QED
      BY <2>1, <3>1
  <2>3. V(k - 1) \cap P[k] = {}
    BY <1>0, <2>1
  <2> HIDE DEF V
  <2>4. Cardinality(V(k)) = Cardinality(V(k - 1)) + Cardinality(P[k]) - Cardinality({})
    <3>1. IsFiniteSet(V(k - 1)) /\ IsFiniteSet(P[k])
      BY <1>1, <1>2
    <3>2. Cardinality(V(k - 1) \cup P[k]) = Cardinality(V(k - 1)) + Cardinality(P[k]) - Cardinality(V(k - 1) \cap P[k])
      BY <3>1, FS_Union, Zenon
    <3> QED
      BY <2>2, <2>3, <3>2, Zenon
  <2>5. Cardinality({}) = 0 /\ Cardinality(V(k - 1)) \in Nat /\ Cardinality(P[k]) \in Nat
    BY <1>1, <1>2, FS_EmptySet
  <2>6. h[k] = Cardinality(V(k)) /\ h[k - 1] = Cardinality(V(k - 1)) /\ s[k] = Cardinality(P[k])
    BY <1>0, <2>1
  <2> QED
    BY <2>4, <2>5, <2>6
<1>8. V(N) = U
  BY DEF PartsOf
<1> HIDE DEF V
<1>5. h \in [0 .. N -> Int] /\ h[0] = 0 /\ h[N] = Cardinality(V(N))
  BY <1>1, <1>3
<1>6. s \in [1 .. N -> Int]
  BY <1>0, NatFun, Zenon
<1> HIDE DEF h
<1>7. Total(s) = h[N]
  BY <1>4, <1>5, <1>6, TotalOf
<1> QED
  BY <1>5, <1>7, <1>8

-------------------------------------------------------------------------------
(* A table of N columns, read row by row. *)

RowAt(N, p) == 1 + ((p - 1) \div N)
ColumnAt(N, p) == 1 + ((p - 1) % N)

\* A place's row and column give it back.
LEMMA CellIs ==
  ASSUME NEW N \in Nat \ {0}, NEW p \in Nat \ {0}
  PROVE  RowAt(N, p) \in Nat \ {0} /\ ColumnAt(N, p) \in 1 .. N /\ p = (RowAt(N, p) - 1) * N + ColumnAt(N, p)
<1> DEFINE q == p - 1
<1>1. q \in Nat
  OBVIOUS
<1> HIDE DEF q
<1>2. PICK d \in Nat, e \in 0 .. N - 1 : d = q \div N /\ e = q % N /\ q = N * d + e
  <2>1. q \div N \in Nat /\ q % N \in 0 .. N - 1 /\ q = N * (q \div N) + (q % N)
    BY <1>1
  <2> QED
    BY <2>1, Zenon
<1>3. RowAt(N, p) = 1 + d /\ ColumnAt(N, p) = 1 + e /\ p = q + 1
  BY <1>2 DEF RowAt, ColumnAt, q
<1>4. N * d = d * N /\ (1 + d) - 1 = d /\ 1 + d \in Nat \ {0} /\ 1 + e \in 1 .. N
  OBVIOUS
<1>5. p = d * N + (1 + e)
  BY <1>2, <1>3, <1>4
<1> QED
  BY <1>3, <1>4, <1>5, Zenon

\* The places are in the order of their rows, and in a row of their columns.
LEMMA CellOrder ==
  ASSUME NEW N \in Nat \ {0}, NEW r \in Nat \ {0}, NEW s \in Nat \ {0}, NEW a \in 1 .. N, NEW b \in 1 .. N
  PROVE  (r - 1) * N + a <= (s - 1) * N + b <=> r < s \/ (r = s /\ a <= b)
<1>0. (r - 1) * N \in Nat /\ (s - 1) * N \in Nat
  OBVIOUS
<1>1. \A x \in Nat, y \in Nat : x < y => y * N >= x * N + N
  <2> SUFFICES ASSUME NEW x \in Nat, NEW y \in Nat, x < y PROVE y * N >= x * N + N
    OBVIOUS
  <2> DEFINE d == y - x - 1
  <2>1. d \in Nat /\ y = x + 1 + d
    OBVIOUS
  <2> HIDE DEF d
  <2>2. (x + 1 + d) * N = x * N + N + d * N /\ d * N \in Nat /\ x * N \in Nat
    BY <2>1
  <2> QED
    BY <2>1, <2>2
<1>2. r - 1 \in Nat /\ s - 1 \in Nat
  OBVIOUS
<1>3. CASE r < s
  <2>1. (s - 1) * N >= (r - 1) * N + N
    BY <1>1, <1>2, <1>3
  <2> QED
    BY <1>0, <1>3, <2>1
<1>4. CASE s < r
  <2>1. (r - 1) * N >= (s - 1) * N + N
    BY <1>1, <1>2, <1>4
  <2> QED
    BY <1>0, <1>4, <2>1
<1>5. CASE r = s
  BY <1>0, <1>5
<1> QED
  BY <1>3, <1>4, <1>5

\* The place of a row and a column has them.
LEMMA CellAt ==
  ASSUME NEW N \in Nat \ {0}, NEW r \in Nat \ {0}, NEW a \in 1 .. N
  PROVE  (r - 1) * N + a \in Nat \ {0} /\ RowAt(N, (r - 1) * N + a) = r /\ ColumnAt(N, (r - 1) * N + a) = a
<1> DEFINE p == (r - 1) * N + a
           s == RowAt(N, p)
           b == ColumnAt(N, p)
<1>1. (r - 1) * N \in Nat /\ a \in Nat /\ a > 0
  OBVIOUS
<1>2. p \in Nat \ {0}
  BY <1>1
<1> HIDE DEF p
<1>3. s \in Nat \ {0} /\ b \in 1 .. N /\ p = (s - 1) * N + b
  BY <1>2, CellIs
<1> HIDE DEF s, b
<1>4. p <= p /\ p = (r - 1) * N + a
  BY <1>2 DEF p
<1>5. (r < s \/ (r = s /\ a <= b)) /\ (s < r \/ (s = r /\ b <= a))
  <2>1. (r - 1) * N + a <= (s - 1) * N + b <=> r < s \/ (r = s /\ a <= b)
    BY <1>3, CellOrder
  <2>2. (s - 1) * N + b <= (r - 1) * N + a <=> s < r \/ (s = r /\ b <= a)
    BY <1>3, CellOrder
  <2> QED
    BY <1>3, <1>4, <2>1, <2>2, Zenon
<1>6. r = s /\ a = b
  BY <1>3, <1>5
<1> QED
  BY <1>2, <1>6 DEF p, s, b

\* The places of a column down to a row are as many as the rows.
LEMMA ColumnDown ==
  ASSUME NEW N \in Nat \ {0}, NEW n \in 1 .. N, NEW m \in Nat
  PROVE  LET S == {p \in Nat \ {0} : ColumnAt(N, p) = n /\ RowAt(N, p) <= m} IN IsFiniteSet(S) /\ Cardinality(S) = m
<1> DEFINE S == {p \in Nat \ {0} : ColumnAt(N, p) = n /\ RowAt(N, p) <= m}
           f == [r \in 1 .. m |-> (r - 1) * N + n]
<1>1. \A r \in 1 .. m : r \in Nat \ {0} /\ r <= m /\ f[r] = (r - 1) * N + n
  OBVIOUS
<1>2. \A r \in 1 .. m : f[r] \in Nat \ {0} /\ RowAt(N, f[r]) = r /\ ColumnAt(N, f[r]) = n
  <2> TAKE r \in 1 .. m
  <2> HIDE DEF f
  <2>1. r \in Nat \ {0} /\ f[r] = (r - 1) * N + n
    BY <1>1
  <2>2. (r - 1) * N + n \in Nat \ {0} /\ RowAt(N, (r - 1) * N + n) = r /\ ColumnAt(N, (r - 1) * N + n) = n
    BY <2>1, CellAt
  <2> QED
    BY <2>1, <2>2, Zenon
<1>3. f \in [1 .. m -> S]
  <2>1. \A r \in 1 .. m : f[r] \in S
    BY <1>1, <1>2
  <2>2. f = [r \in 1 .. m |-> f[r]]
    OBVIOUS
  <2> HIDE DEF f, S
  <2> QED
    BY <2>1, <2>2, Zenon
<1>4. \A a, b \in 1 .. m : f[a] = f[b] => a = b
  <2> HIDE DEF f
  <2> QED
    BY <1>2
<1>5. ASSUME NEW p \in S PROVE \E r \in 1 .. m : f[r] = p
  <2> DEFINE r == RowAt(N, p)
  <2>1. p \in Nat \ {0} /\ ColumnAt(N, p) = n /\ r <= m
    OBVIOUS
  <2>2. r \in Nat \ {0} /\ p = (r - 1) * N + n
    BY <2>1, CellIs
  <2> HIDE DEF r, f
  <2>3. r \in 1 .. m
    BY <2>1, <2>2
  <2>4. f[r] = p
    BY <1>1, <2>2, <2>3
  <2> QED
    BY <2>3, <2>4
<1>6. IsFiniteSet(1 .. m) /\ Cardinality(1 .. m) = m
  BY FS_Interval
<1> HIDE DEF S, f
<1>7. IsFiniteSet(S) /\ Cardinality(S) = Cardinality(1 .. m)
  BY <1>3, <1>4, <1>5, <1>6, SameSize
<1> QED
  BY <1>6, <1>7 DEF S
\* Members of a set and their places in its order are as many.
LEMMA PartRead ==
  ASSUME NEW n \in Nat, NEW S, S \subseteq 1 .. n, NEW D, D \subseteq 1 .. Cardinality(S), NEW E, E \subseteq S,
         \A j \in 1 .. Cardinality(S) : j \in D <=> Ascending(S)[j] \in E
  PROVE  IsFiniteSet(D) /\ Cardinality(D) = Cardinality(E)
<1> DEFINE m == Cardinality(S)
           A == Ascending(S)
           f == [j \in D |-> A[j]]
<1>1. m \in Nat /\ A \in [1 .. m -> S] /\ \A k \in S : \E j \in 1 .. m : A[j] = k
  BY AscendingIs, Zenon
<1>2. \A i, j \in 1 .. m : A[i] = A[j] => i = j
  BY AscendingOnce, Zenon
<1> HIDE DEF m, A
<1>3. D \subseteq 1 .. m /\ \A j \in 1 .. m : j \in D <=> A[j] \in E
  BY DEF m, A
<1>4. IsFiniteSet(D)
  <2>1. IsFiniteSet(1 .. m)
    BY <1>1, FS_Interval
  <2> QED
    BY <1>3, <2>1, FS_Subset
<1>5. f \in [D -> E]
  BY <1>3
<1>6. \A a, b \in D : f[a] = f[b] => a = b
  BY <1>2, <1>3
<1>7. ASSUME NEW t \in E PROVE \E a \in D : f[a] = t
  <2>1. PICK j \in 1 .. m : A[j] = t
    BY <1>1
  <2> QED
    BY <1>3, <2>1
<1> HIDE DEF f
<1> QED
  BY <1>4, <1>5, <1>6, <1>7, SameSize

\* How many of a column are read once a place is.
Reached(N, c, p, n) ==
  LET r == IF n <= ColumnAt(N, p) THEN RowAt(N, p) ELSE RowAt(N, p) - 1 IN IF r <= c[n] THEN r ELSE c[n]

\* Such a set of places of a table, and what reading it gives.
Filled(N, L, c, cells) ==
  /\ N \in Nat \ {0} /\ L \in Nat /\ c \in [1 .. N -> 0 .. L]
  /\ cells \subseteq 1 .. L * N /\ \A p \in 1 .. L * N : p \in cells <=> RowAt(N, p) <= c[ColumnAt(N, p)]
ReadOut(N, L, c, cells) ==
  /\ L * N \in Nat /\ Cardinality(cells) = Total(c)
  /\ \A n \in 1 .. N : Cardinality({j \in 1 .. Cardinality(cells) : ColumnAt(N, Ascending(cells)[j]) = n}) = c[n]
  /\ \A n \in 1 .. N, k \in 1 .. Cardinality(cells) :
       Cardinality({j \in 1 .. k : ColumnAt(N, Ascending(cells)[j]) = n}) = Reached(N, c, Ascending(cells)[k], n)

\* A row no further down than another, or above it.
LEMMA RowUpTo ==
  ASSUME NEW a \in Nat, NEW b \in Nat, NEW d \in Nat, NEW n \in Nat
  PROVE  a < b \/ (a = b /\ n <= d) <=> a <= IF n <= d THEN b ELSE b - 1
  OBVIOUS

\* A table whose columns have c entries each, read row by row: all of them, and of each column as far as the row.
LEMMA TableRead ==
  ASSUME NEW N, NEW L, NEW c, NEW cells, Filled(N, L, c, cells)
  PROVE  ReadOut(N, L, c, cells)
<1> DEFINE m == Cardinality(cells)
           A == Ascending(cells)
           P == [n \in 1 .. N |-> {p \in cells : ColumnAt(N, p) = n}]
           Down(n, r) == {p \in Nat \ {0} : ColumnAt(N, p) = n /\ RowAt(N, p) <= r}
<1>0. /\ N \in Nat \ {0} /\ L \in Nat /\ c \in [1 .. N -> 0 .. L]
      /\ cells \subseteq 1 .. L * N /\ \A p \in 1 .. L * N : p \in cells <=> RowAt(N, p) <= c[ColumnAt(N, p)]
  BY DEF Filled
<1> USE <1>0
<1>1. L * N \in Nat /\ cells \subseteq 1 .. L * N
  OBVIOUS
<1>2. \A p \in cells : /\ p \in Nat \ {0} /\ ColumnAt(N, p) \in 1 .. N /\ RowAt(N, p) \in Nat \ {0}
                       /\ RowAt(N, p) <= c[ColumnAt(N, p)] /\ p = (RowAt(N, p) - 1) * N + ColumnAt(N, p)
  <2> TAKE p \in cells
  <2>1. p \in Nat \ {0}
    BY <1>1
  <2> QED
    BY <2>1, CellIs
<1>3. ASSUME NEW p \in Nat \ {0}, RowAt(N, p) <= c[ColumnAt(N, p)] PROVE p \in cells
  <2> DEFINE r == RowAt(N, p)
             a == ColumnAt(N, p)
  <2>1. r \in Nat \ {0} /\ a \in 1 .. N /\ p = (r - 1) * N + a
    BY CellIs
  <2> HIDE DEF r, a
  <2>2. r <= L
    BY <1>3, <2>1 DEF r, a
  <2>3. L \in Nat \ {0}
    BY <2>1, <2>2
  <2>4. (r - 1) * N + a <= (L - 1) * N + N
    <3>1. N \in 1 .. N /\ a <= N /\ (r < L \/ r = L)
      BY <2>1, <2>2
    <3> QED
      BY <2>1, <2>3, <3>1, CellOrder
  <2>5. (L - 1) * N + N = L * N
    BY <2>3
  <2>6. p \in 1 .. L * N
    BY <1>1, <2>1, <2>4, <2>5
  <2> QED
    BY <1>3, <2>6
<1>4. \A n \in 1 .. N, r \in Nat : r <= c[n] => Down(n, r) \subseteq cells
  <2> SUFFICES ASSUME NEW n \in 1 .. N, NEW r \in Nat, r <= c[n], NEW p \in Down(n, r) PROVE p \in cells
    OBVIOUS
  <2>1. p \in Nat \ {0} /\ ColumnAt(N, p) = n /\ RowAt(N, p) <= r /\ RowAt(N, p) \in Nat /\ c[n] \in Nat
    BY CellIs
  <2>2. RowAt(N, p) <= c[ColumnAt(N, p)]
    BY <2>1
  <2> QED
    BY <1>3, <2>1, <2>2
<1>5. \A n \in 1 .. N, r \in Nat : Cardinality(Down(n, r)) = r
  BY ColumnDown
<1>11. PICK w \in Nat : cells \subseteq 1 .. w
  BY <1>1
<1> HIDE DEF m, A, Down
<1>6. \A n \in 1 .. N : P[n] = Down(n, c[n]) /\ Cardinality(P[n]) = c[n]
  <2> TAKE n \in 1 .. N
  <2>1. c[n] \in Nat /\ c[n] <= c[n]
    OBVIOUS
  <2>2. Down(n, c[n]) \subseteq P[n]
    <3>1. \A p \in Down(n, c[n]) : ColumnAt(N, p) = n
      BY DEF Down
    <3> QED
      BY <1>4, <2>1, <3>1
  <2>3. P[n] \subseteq Down(n, c[n])
    BY <1>2 DEF Down
  <2> QED
    BY <1>5, <2>1, <2>2, <2>3
<1>7. Cardinality(cells) = Total(c)
  <2>1. IsFiniteSet(cells)
    <3>1. IsFiniteSet(1 .. w)
      BY FS_Interval
    <3> QED
      BY <1>11, <3>1, FS_Subset
  <2>2. P \in [1 .. N -> SUBSET cells] /\ \A j, n \in 1 .. N : j # n => P[j] \cap P[n] = {}
    OBVIOUS
  <2>3. \A x \in cells : \E n \in 1 .. N : x \in P[n]
    BY <1>2
  <2>4. c \in [1 .. N -> Nat] /\ \A n \in 1 .. N : c[n] = Cardinality(P[n])
    BY <1>6
  <2> HIDE DEF P
  <2>5. PartsOf(N, cells, P, c) /\ N \in Nat
    BY <2>2, <2>3, <2>4, Zenon DEF PartsOf
  <2> QED
    BY <2>1, <2>5, ClassesTotal, Zenon
<1>8. m \in Nat /\ A \in [1 .. m -> cells]
  BY <1>1, AscendingIs, Zenon DEF m, A
<1>9. ASSUME NEW n \in 1 .. N PROVE Cardinality({j \in 1 .. m : ColumnAt(N, A[j]) = n}) = c[n]
  <2> DEFINE D == {j \in 1 .. m : ColumnAt(N, A[j]) = n}
  <2>1. P[n] \subseteq cells /\ D \subseteq 1 .. m /\ \A j \in 1 .. m : j \in D <=> A[j] \in P[n]
    BY <1>8
  <2> HIDE DEF P, D
  <2> DEFINE E == P[n]
  <2> HIDE DEF E
  <2>2. Cardinality(D) = Cardinality(E)
    <3>1. D \subseteq 1 .. Cardinality(cells) /\ E \subseteq cells
          /\ \A j \in 1 .. Cardinality(cells) : j \in D <=> Ascending(cells)[j] \in E
      BY <2>1 DEF E, m, A
    <3> QED
      BY <1>11, <3>1, PartRead, ZenonT(60)
  <2> QED
    BY <1>6, <2>2 DEF D, E
<1>10. ASSUME NEW n \in 1 .. N, NEW k \in 1 .. m
       PROVE  Cardinality({j \in 1 .. k : ColumnAt(N, A[j]) = n}) = Reached(N, c, A[k], n)
  <2> DEFINE D == {j \in 1 .. k : ColumnAt(N, A[j]) = n}
             p == A[k]
             row == IF n <= ColumnAt(N, p) THEN RowAt(N, p) ELSE RowAt(N, p) - 1
             low == IF row <= c[n] THEN row ELSE c[n]
  <2>1. p \in cells /\ p \in Nat \ {0} /\ ColumnAt(N, p) \in 1 .. N /\ RowAt(N, p) \in Nat \ {0}
    BY <1>2, <1>8
  <2> HIDE DEF p
  <2>2. row \in Nat /\ low \in Nat /\ low <= c[n] /\ c[n] \in Nat
    BY <2>1
  <2>3. ASSUME NEW q \in Nat \ {0}, ColumnAt(N, q) = n PROVE q <= p <=> RowAt(N, q) <= row
    <3>1. RowAt(N, q) \in Nat \ {0} /\ q = (RowAt(N, q) - 1) * N + n /\ p = (RowAt(N, p) - 1) * N + ColumnAt(N, p)
      BY <2>1, <2>3, CellIs
    <3>2. (RowAt(N, q) - 1) * N + n <= (RowAt(N, p) - 1) * N + ColumnAt(N, p)
          <=> RowAt(N, q) < RowAt(N, p) \/ (RowAt(N, q) = RowAt(N, p) /\ n <= ColumnAt(N, p))
      BY <2>1, <3>1, CellOrder
    <3>3. q <= p <=> RowAt(N, q) < RowAt(N, p) \/ (RowAt(N, q) = RowAt(N, p) /\ n <= ColumnAt(N, p))
      BY <3>1, <3>2, Zenon
    <3>4. RowAt(N, q) < RowAt(N, p) \/ (RowAt(N, q) = RowAt(N, p) /\ n <= ColumnAt(N, p)) <=> RowAt(N, q) <= row
      <4>1. RowAt(N, q) \in Nat /\ RowAt(N, p) \in Nat /\ ColumnAt(N, p) \in Nat /\ n \in Nat
        BY <2>1, <3>1
      <4> QED
        BY <4>1, RowUpTo, Zenon
    <3> QED
      BY <3>3, <3>4, Zenon
  <2> HIDE DEF row
  <2>4. Down(n, low) \subseteq cells
    BY <1>4, <2>2
  <2>5. ASSUME NEW j \in 1 .. m PROVE j \in D <=> A[j] \in Down(n, low)
    <3>1. A[j] \in cells /\ A[j] \in Nat \ {0} /\ RowAt(N, A[j]) \in Nat /\ RowAt(N, A[j]) <= c[ColumnAt(N, A[j])]
      BY <1>2, <1>8
    <3>2. j <= k <=> A[j] <= p
      BY <1>1, AscendingIs DEF m, A, p
    <3>3. j \in D <=> j <= k /\ ColumnAt(N, A[j]) = n
      BY <1>8
    <3>4. ColumnAt(N, A[j]) = n => (A[j] <= p <=> RowAt(N, A[j]) <= row)
      BY <2>3, <3>1
    <3>5. ColumnAt(N, A[j]) = n => (RowAt(N, A[j]) <= low <=> RowAt(N, A[j]) <= row)
      BY <2>2, <3>1
    <3>6. A[j] \in Down(n, low) <=> ColumnAt(N, A[j]) = n /\ RowAt(N, A[j]) <= low
      BY <3>1 DEF Down
    <3> QED
      BY <3>2, <3>3, <3>4, <3>5, <3>6, Zenon
  <2>6. D \subseteq 1 .. m
    BY <1>8
  <2> HIDE DEF D, low
  <2>7. Cardinality(D) = Cardinality(Down(n, low))
    <3> DEFINE E == Down(n, low)
    <3> HIDE DEF E
    <3>1. D \subseteq 1 .. Cardinality(cells) /\ E \subseteq cells
          /\ \A j \in 1 .. Cardinality(cells) : j \in D <=> Ascending(cells)[j] \in E
      BY <2>4, <2>5, <2>6 DEF E, m, A
    <3>2. Cardinality(D) = Cardinality(E)
      BY <1>11, <3>1, PartRead, ZenonT(60)
    <3> QED
      BY <3>2 DEF E
  <2>8. Cardinality(D) = low
    BY <1>5, <2>2, <2>7
  <2> QED
    BY <2>8 DEF D, low, row, p, Reached
<1> QED
  BY <1>1, <1>7, <1>9, <1>10 DEF m, A, ReadOut

-------------------------------------------------------------------------------
(* Shares rounded by largest remainder. *)

\* Entry by entry, sums add up and compare.
LEMMA TotalSum ==
  ASSUME NEW n \in Nat, NEW a \in [1 .. n -> Int], NEW b \in [1 .. n -> Int], NEW s \in [1 .. n -> Int],
         \A i \in 1 .. n : s[i] = a[i] + b[i]
  PROVE  Total(a) \in Int /\ Total(b) \in Int /\ Total(s) = Total(a) + Total(b)
<1>1. a \in Seq(Int) /\ b \in Seq(Int) /\ Len(a) = n /\ Len(b) = n
  OBVIOUS
<1>2. PICK f \in [0 .. n -> Int] : f[0] = 0 /\ (\A k \in 1 .. n : f[k] = f[k - 1] + a[k]) /\ Total(a) = f[n]
  BY <1>1, RunningSum
<1>3. PICK g \in [0 .. n -> Int] : g[0] = 0 /\ (\A k \in 1 .. n : g[k] = g[k - 1] + b[k]) /\ Total(b) = g[n]
  BY <1>1, RunningSum
<1> DEFINE h == [k \in 0 .. n |-> f[k] + g[k]]
<1>4. h \in [0 .. n -> Int] /\ h[0] = 0 /\ h[n] = f[n] + g[n]
  BY <1>2, <1>3
<1>5. ASSUME NEW k \in 1 .. n PROVE h[k] = h[k - 1] + s[k]
  <2>1. k \in 0 .. n /\ k - 1 \in 0 .. n
    OBVIOUS
  <2>2. f[k] = f[k - 1] + a[k] /\ g[k] = g[k - 1] + b[k] /\ f[k - 1] \in Int /\ g[k - 1] \in Int /\ a[k] \in Int /\ b[k] \in Int
    BY <1>2, <1>3, <2>1
  <2>3. h[k] = f[k] + g[k] /\ h[k - 1] = f[k - 1] + g[k - 1] /\ s[k] = a[k] + b[k]
    BY <2>1
  <2> QED
    BY <2>2, <2>3
<1> HIDE DEF h
<1>7. Total(s) = h[n]
  BY <1>4, <1>5, TotalOf
<1> QED
  BY <1>2, <1>3, <1>4, <1>7

LEMMA TotalAtMost ==
  ASSUME NEW n \in Nat, NEW a \in [1 .. n -> Int], NEW b \in [1 .. n -> Int], \A i \in 1 .. n : a[i] <= b[i]
  PROVE  Total(a) \in Int /\ Total(b) \in Int /\ Total(a) <= Total(b)
<1>1. a \in Seq(Int) /\ b \in Seq(Int) /\ Len(a) = n /\ Len(b) = n
  OBVIOUS
<1>2. PICK f \in [0 .. n -> Int] : f[0] = 0 /\ (\A k \in 1 .. n : f[k] = f[k - 1] + a[k]) /\ Total(a) = f[n]
  BY <1>1, RunningSum
<1>3. PICK g \in [0 .. n -> Int] : g[0] = 0 /\ (\A k \in 1 .. n : g[k] = g[k - 1] + b[k]) /\ Total(b) = g[n]
  BY <1>1, RunningSum
<1> DEFINE T == {k \in 0 .. n : f[k] <= g[k]}
<1>4. 0 \in T /\ T \in SUBSET (0 .. n)
  BY <1>2, <1>3
<1>5. ASSUME NEW k \in T, k < n PROVE k + 1 \in T
  <2>1. k + 1 \in 1 .. n /\ k + 1 \in 0 .. n /\ (k + 1) - 1 = k /\ k \in 0 .. n /\ f[k] <= g[k]
    BY <1>5
  <2>2. f[k + 1] = f[k] + a[k + 1] /\ g[k + 1] = g[k] + b[k + 1] /\ a[k + 1] <= b[k + 1]
    BY <1>2, <1>3, <2>1
  <2>3. f[k] \in Int /\ g[k] \in Int /\ a[k + 1] \in Int /\ b[k + 1] \in Int
    BY <2>1
  <2> QED
    BY <2>1, <2>2, <2>3, SMTT(30)
<1> HIDE DEF T
<1>6. n \in T
  <2>1. T = 0 .. n
    BY <1>4, <1>5, Upwards, Zenon
  <2> QED
    BY <2>1
<1> QED
  BY <1>2, <1>3, <1>6 DEF T

\* Those before a place when the larger come first, and of equals the first.
Before(N, rest, n) == {k \in 1 .. N : rest[k] > rest[n] \/ (rest[k] = rest[n] /\ k < n)}

\* So many of them come first, and each of those is positive if so many are.
LEMMA Ranks ==
  ASSUME NEW N \in Nat, NEW rest \in [1 .. N -> Nat], NEW left \in Nat,
         NEW Z, Z \subseteq 1 .. N, \A k \in 1 .. N : k \in Z <=> rest[k] > 0, left <= Cardinality(Z)
  PROVE  /\ \A n \in 1 .. N : Cardinality(Before(N, rest, n)) \in Nat
         /\ Cardinality({n \in 1 .. N : Cardinality(Before(N, rest, n)) < left}) = left
         /\ \A n \in 1 .. N : Cardinality(Before(N, rest, n)) < left => rest[n] > 0
<1> DEFINE B(n) == Before(N, rest, n)
           rank == [n \in 1 .. N |-> Cardinality(B(n))]
<1>1. IsFiniteSet(1 .. N) /\ Cardinality(1 .. N) = N
  BY FS_Interval
<1>3. IsFiniteSet(Z) /\ Cardinality(Z) \in Nat /\ Cardinality(Z) <= N
  <2>1. IsFiniteSet(Z) /\ Cardinality(Z) <= N
    <3>1. Z \in SUBSET (1 .. N)
      OBVIOUS
    <3>2. IsFiniteSet(Z)
      BY <1>1, <3>1, FS_Subset
    <3>3. Cardinality(Z) <= Cardinality(1 .. N)
      BY <1>1, <3>1, FS_Subset
    <3> QED
      BY <1>1, <3>2, <3>3
  <2> QED
    BY <2>1, FS_CardinalityType
<1>4. \A n \in 1 .. N : B(n) \subseteq 1 .. N /\ n \notin B(n)
  BY DEF Before
<1>5. ASSUME NEW n \in 1 .. N PROVE IsFiniteSet(B(n)) /\ Cardinality(B(n)) \in 0 .. N - 1
  <2>1. IsFiniteSet((1 .. N) \ {n}) /\ Cardinality((1 .. N) \ {n}) = N - 1
    BY <1>1, FS_RemoveElement
  <2>2. B(n) \subseteq (1 .. N) \ {n}
    BY <1>4
  <2> HIDE DEF B
  <2>3. IsFiniteSet(B(n)) /\ Cardinality(B(n)) <= N - 1
    BY <2>1, <2>2, FS_Subset
  <2>4. Cardinality(B(n)) \in Nat
    BY <2>3, FS_CardinalityType
  <2> QED
    BY <2>3, <2>4
<1>6. ASSUME NEW m \in 1 .. N, NEW n \in 1 .. N, m \in B(n) PROVE rank[m] < rank[n]
  <2>1. \A k \in 1 .. N : rest[k] \in Nat /\ k \in Nat
    OBVIOUS
  <2>2. B(m) \subseteq B(n) /\ m \notin B(m)
    BY <1>4, <1>6, <2>1 DEF Before
  <2>3. rank[m] = Cardinality(B(m)) /\ rank[n] = Cardinality(B(n))
    OBVIOUS
  <2> HIDE DEF B, rank
  <2>4. Cardinality(B(m)) <= Cardinality(B(n)) /\ Cardinality(B(m)) # Cardinality(B(n))
    BY <1>5, <1>6, <2>2, FS_Subset
  <2>5. Cardinality(B(m)) \in Int /\ Cardinality(B(n)) \in Int
    BY <1>5
  <2> QED
    BY <2>3, <2>4, <2>5
<1>7. ASSUME NEW m \in 1 .. N, NEW n \in 1 .. N, rank[m] = rank[n] PROVE m = n
  <2>1. m # n => m \in B(n) \/ n \in B(m)
    BY DEF Before
  <2>2. rank[m] \in Int /\ rank[n] \in Int
    BY <1>5
  <2> HIDE DEF B, rank
  <2>3. m \notin B(n) /\ n \notin B(m)
    BY <1>6, <1>7, <2>2
  <2> QED
    BY <2>1, <2>3
<1>8. rank \in [1 .. N -> 0 .. N - 1]
  BY <1>5
<1>9. \A t \in 0 .. N - 1 : \E n \in 1 .. N : rank[n] = t
  <2> HIDE DEF rank
  <2>1. rank \in Injection(1 .. N, 0 .. N - 1)
    BY <1>7, <1>8, Zenon DEF Injection, IsInjective
  <2>2. IsFiniteSet(0 .. N - 1) /\ Cardinality(0 .. N - 1) = N
    <3>1. 0 \in Int /\ N - 1 \in Int /\ (IF 0 > N - 1 THEN 0 ELSE (N - 1) - 0 + 1) = N
      OBVIOUS
    <3> QED
      BY <3>1, FS_Interval, Zenon
  <2>3. rank \in Surjection(1 .. N, 0 .. N - 1)
    BY <1>1, <2>1, <2>2, FS_Injection
  <2> QED
    BY <2>3, Zenon DEF Surjection
<1>10. left <= N
  BY <1>3
<1>11. Cardinality({n \in 1 .. N : rank[n] < left}) = left
  <2> DEFINE S == {n \in 1 .. N : rank[n] < left}
             f == [n \in S |-> rank[n]]
  <2>1. S \subseteq 1 .. N
    OBVIOUS
  <2>2. IsFiniteSet(S)
    <3> HIDE DEF S
    <3> QED
      BY <1>1, <2>1, FS_Subset
  <2> HIDE DEF rank
  <2>3. f \in [S -> 0 .. left - 1]
    BY <1>8
  <2>4. \A a, b \in S : f[a] = f[b] => a = b
    BY <1>7
  <2>5. ASSUME NEW t \in 0 .. left - 1 PROVE \E a \in S : f[a] = t
    <3>1. t \in 0 .. N - 1 /\ t < left
      BY <1>10
    <3>2. PICK n \in 1 .. N : rank[n] = t
      BY <1>9, <3>1
    <3> QED
      BY <3>1, <3>2
  <2>6. Cardinality(0 .. left - 1) = left
    <3>1. 0 \in Int /\ left - 1 \in Int /\ (IF 0 > left - 1 THEN 0 ELSE (left - 1) - 0 + 1) = left
      OBVIOUS
    <3> QED
      BY <3>1, FS_Interval, Zenon
  <2> HIDE DEF f, S
  <2>7. Cardinality(0 .. left - 1) = Cardinality(S)
    <3>1. PICK W : W = 0 .. left - 1
      OBVIOUS
    <3>2. f \in [S -> W] /\ \A t \in W : \E a \in S : f[a] = t
      BY <2>3, <2>5, <3>1, Zenon
    <3>3. Cardinality(W) = Cardinality(S)
      BY <2>2, <2>4, <3>2, SameSize
    <3> QED
      BY <3>1, <3>3, Zenon
  <2> QED
    BY <2>6, <2>7 DEF S
<1>12. ASSUME NEW n \in 1 .. N, rank[n] < left PROVE rest[n] > 0
  <2> SUFFICES ASSUME rest[n] = 0 PROVE FALSE
    OBVIOUS
  <2>1. Z \subseteq B(n)
    BY DEF Before
  <2>2. rank[n] = Cardinality(B(n)) /\ left <= Cardinality(Z)
    OBVIOUS
  <2> HIDE DEF B, rank
  <2>3. Cardinality(Z) <= Cardinality(B(n)) /\ Cardinality(B(n)) \in Int
    <3>1. Z \in SUBSET B(n) /\ IsFiniteSet(B(n)) /\ Cardinality(B(n)) \in 0 .. N - 1
      BY <1>5, <2>1
    <3>2. Cardinality(Z) <= Cardinality(B(n))
      BY <3>1, FS_Subset
    <3> QED
      BY <3>1, <3>2
  <2> QED
    BY <1>3, <1>12, <2>2, <2>3
<1>13. \A n \in 1 .. N : rank[n] = Cardinality(Before(N, rest, n)) /\ rank[n] \in Nat
  BY <1>5
<1> HIDE DEF rank
<1>14. {n \in 1 .. N : rank[n] < left} = {n \in 1 .. N : Cardinality(Before(N, rest, n)) < left}
  BY <1>13
<1> QED
  BY <1>11, <1>12, <1>13, <1>14

\* A share rounded down, or up where something was lost by that.
LEMMA ShareBounds ==
  ASSUME NEW L \in Nat \ {0}, NEW take \in Nat, take <= L, NEW l \in Nat, NEW w \in Nat, NEW r \in Nat, r < L, NEW u \in {0, 1},
         NEW t \in Nat, t = take * l, t = L * w + r, u = 1 => r > 0, NEW c \in Nat, c = w + u
  PROVE  c <= l /\ (c - 1) * L < t /\ (c + 1) * L > t
<1>1. L * w \in Nat /\ (w - 1) * L = L * w - L /\ w * L = L * w /\ (w + 1) * L = L * w + L /\ (w + 2) * L = L * w + L + L
  OBVIOUS
<1>2. w + u <= l
  <2> SUFFICES ASSUME w + u > l PROVE FALSE
    OBVIOUS
  <2>1. PICK e \in Nat : L = take + e
    <3>1. L - take \in Nat /\ L = take + (L - take)
      OBVIOUS
    <3> QED
      BY <3>1
  <2>2. L * l = t + e * l /\ e * l \in Nat /\ L * l \in Nat
    <3>1. (take + e) * l = take * l + e * l /\ e * l \in Nat
      OBVIOUS
    <3> QED
      BY <2>1, <3>1
  <2>3. PICK d \in Nat : w = l + d
    <3>1. w - l \in Nat /\ w = l + (w - l)
      OBVIOUS
    <3> QED
      BY <3>1
  <2>4. L * w = L * l + L * d /\ L * d \in Nat
    <3>1. L * (l + d) = L * l + L * d /\ L * d \in Nat
      OBVIOUS
    <3> QED
      BY <2>3, <3>1
  <2>5. r = 0 /\ L * d = 0
    <3> DEFINE a == L * w
               b == L * l
               g == L * d
               f == e * l
    <3>1. a \in Nat /\ b \in Nat /\ g \in Nat /\ f \in Nat /\ t = a + r /\ b = t + f /\ a = b + g
      BY <1>1, <2>2, <2>4
    <3> HIDE DEF a, b, f, g
    <3>2. r = 0 /\ g = 0
      BY <3>1
    <3> QED
      BY <3>2 DEF g
  <2>6. d = 0
    <3>1. d # 0 => L * d > 0
      OBVIOUS
    <3> QED
      BY <2>5, <3>1
  <2> QED
    BY <2>3, <2>5, <2>6
<1>3. (w + 0 - 1) = w - 1 /\ (w + 1 - 1) = w /\ (w + 0 + 1) = w + 1 /\ (w + 1 + 1) = w + 2 /\ w + 0 = w
  OBVIOUS
<1> DEFINE a == L * w
<1>4. a \in Nat /\ t = a + r /\ (w - 1) * L = a - L /\ w * L = a /\ (w + 1) * L = a + L /\ (w + 2) * L = a + L + L
  BY <1>1
<1> HIDE DEF a
<1>5. CASE u = 0
  BY <1>2, <1>3, <1>4, <1>5
<1>6. CASE u = 1
  BY <1>2, <1>3, <1>4, <1>6
<1> QED
  BY <1>5, <1>6

\* What all shares lose by rounding is some for each that loses anything, and fewer than those.
LEMMA LeftBounds ==
  ASSUME NEW L \in Nat \ {0}, NEW left \in Int, NEW z \in Nat, NEW r \in Int, L * left = r, r >= 0, r <= (L - 1) * z
  PROVE  left \in Nat /\ left <= z
<1>1. left >= 0
  <2> SUFFICES ASSUME left < 0 PROVE FALSE
    OBVIOUS
  <2>1. PICK d \in Nat : left = 0 - (d + 1)
    <3>1. 0 - left - 1 \in Nat /\ left = 0 - ((0 - left - 1) + 1)
      OBVIOUS
    <3> QED
      BY <3>1
  <2>2. L * (0 - (d + 1)) = 0 - (L * d) - L /\ L * d \in Nat
    OBVIOUS
  <2> QED
    BY <2>1, <2>2
<1>2. left <= z
  <2> SUFFICES ASSUME left > z PROVE FALSE
    OBVIOUS
  <2>1. PICK d \in Nat : left = z + 1 + d
    <3>1. left - z - 1 \in Nat /\ left = z + 1 + (left - z - 1)
      OBVIOUS
    <3> QED
      BY <3>1
  <2> DEFINE a == L * z
             b == L * d
  <2>2. a \in Nat /\ b \in Nat /\ (L - 1) * z = a - z
    OBVIOUS
  <2>3. L * (z + 1 + d) = a + L + b
    OBVIOUS
  <2>4. L * left = a + L + b
    BY <2>1, <2>3
  <2> HIDE DEF a, b
  <2> QED
    BY <2>2, <2>4
<1> QED
  BY <1>1, <1>2

\* What is asked for, shared out by what there is of each, rounded down and one more for those that lost most.
SharedOut(N, L, take, len, whole, rest, left, count) ==
  /\ Total(len) = L
  /\ \A k \in 1 .. N : rest[k] < L /\ take * len[k] = L * whole[k] + rest[k]
  /\ take = left + Total(whole)
  /\ \A n \in 1 .. N : count[n] = whole[n] + IF Cardinality(Before(N, rest, n)) < left THEN 1 ELSE 0

\* It is shared out whole, each share to within one and no larger than what there is to share from.
LEMMA Rounded ==
  ASSUME NEW N \in Nat, NEW L \in Nat \ {0}, NEW take \in Nat, take <= L, NEW left \in Int,
         NEW len \in [1 .. N -> Nat], NEW whole \in [1 .. N -> Nat], NEW rest \in [1 .. N -> Nat],
         NEW count \in [1 .. N -> Nat], SharedOut(N, L, take, len, whole, rest, left, count)
  PROVE  /\ Total(count) = take
         /\ \A n \in 1 .. N : count[n] <= len[n] /\ (count[n] - 1) * L < take * len[n] /\ (count[n] + 1) * L > take * len[n]
<1> DEFINE Z == {k \in 1 .. N : rest[k] > 0}
           z == Cardinality(Z)
<1>1. \A k \in 1 .. N : whole[k] \in Nat /\ rest[k] \in Nat /\ len[k] \in Nat /\ take * len[k] \in Nat /\ L * whole[k] \in Nat
  <2> TAKE k \in 1 .. N
  <2>1. whole[k] \in Nat /\ rest[k] \in Nat /\ len[k] \in Nat
    OBVIOUS
  <2>2. \A x \in Nat, y \in Nat : x * y \in Nat
    OBVIOUS
  <2> QED
    BY <2>1, <2>2
<1>0. \A k \in 1 .. N : rest[k] < L /\ take * len[k] = L * whole[k] + rest[k]
  BY DEF SharedOut
<1>2. /\ whole \in [1 .. N -> Int] /\ rest \in [1 .. N -> Int] /\ len \in Seq(Nat) /\ Len(len) = N
      /\ whole \in Seq(Nat) /\ Len(whole) = N
  BY NatFun, Zenon
<1> DEFINE wholes == [k \in 1 .. N |-> L * whole[k]]
           taken == [k \in 1 .. N |-> take * len[k]]
<1>3. Total(taken) = take * L /\ Total(wholes) = L * Total(whole)
  <2>1. taken = [i \in 1 .. N |-> take * len[i]] /\ wholes = [i \in 1 .. N |-> L * whole[i]]
    OBVIOUS
  <2> HIDE DEF taken, wholes
  <2>2. Total(taken) = take * Total(len)
    BY <1>2, <2>1, ScaledTotal
  <2>3. Total(wholes) = L * Total(whole)
    BY <1>2, <2>1, ScaledTotal
  <2> QED
    BY <2>2, <2>3, Zenon DEF SharedOut
<1>4. wholes \in [1 .. N -> Int] /\ taken \in [1 .. N -> Int] /\ \A i \in 1 .. N : taken[i] = wholes[i] + rest[i]
  BY <1>0, <1>1
<1> HIDE DEF wholes, taken
<1>5. Total(whole) \in Int /\ Total(rest) \in Int /\ Total(taken) = Total(wholes) + Total(rest)
  <2>1. Total(rest) \in Int /\ Total(taken) = Total(wholes) + Total(rest)
    BY <1>2, <1>4, TotalSum, ZenonT(60)
  <2>3. \A i \in 1 .. N : whole[i] <= whole[i]
    BY <1>1
  <2>2. Total(whole) \in Int
    BY <1>2, <2>3, TotalAtMost, Zenon
  <2> QED
    BY <2>1, <2>2
<1>6. L * left = Total(rest)
  <2>1. PICK w \in Int, r \in Int : w = Total(whole) /\ r = Total(rest)
    BY <1>5
  <2>2. take * L = L * w + r /\ take = left + w
    BY <1>3, <1>5, <2>1, Zenon DEF SharedOut
  <2>3. (left + w) * L = L * left + L * w /\ L * w \in Int /\ L * left \in Int
    OBVIOUS
  <2>4. L * left + L * w = L * w + r
    BY <2>2, <2>3, Zenon
  <2> DEFINE a == L * left
             b == L * w
  <2>5. a \in Int /\ b \in Int /\ r \in Int /\ a + b = b + r
    BY <2>3, <2>4
  <2> HIDE DEF a, b
  <2>6. a = r
    BY <2>5
  <2> QED
    BY <2>1, <2>6, Zenon DEF a
<1>7. Z \subseteq 1 .. N /\ (\A k \in 1 .. N : k \in Z <=> rest[k] > 0) /\ z \in Nat
  <2>1. Z \subseteq 1 .. N /\ \A k \in 1 .. N : k \in Z <=> rest[k] > 0
    OBVIOUS
  <2> HIDE DEF Z
  <2>2. IsFiniteSet(1 .. N)
    BY FS_Interval
  <2>3. IsFiniteSet(Z)
    BY <2>1, <2>2, FS_Subset
  <2> QED
    BY <2>1, <2>3, FS_CardinalityType
<1>8. Total(rest) <= (L - 1) * z /\ Total(rest) >= 0
  <2> DEFINE ones == [i \in 1 .. N |-> IF rest[i] > 0 THEN 1 ELSE 0]
             most == [i \in 1 .. N |-> (L - 1) * ones[i]]
             none == [i \in 1 .. N |-> 0 * ones[i]]
  <2>1. Total(ones) = z
    <3>1. ones = [i \in 1 .. N |-> IF rest[i] > 0 THEN 1 ELSE 0]
      OBVIOUS
    <3> HIDE DEF ones
    <3> QED
      BY <3>1, OnesTotal DEF Z
  <2>2. ones \in Seq(Nat) /\ Len(ones) = N /\ L - 1 \in Nat /\ 0 \in Nat
    OBVIOUS
  <2>3. Total(most) = (L - 1) * Total(ones) /\ Total(none) = 0 * Total(ones)
    <3> HIDE DEF most, none, ones
    <3>1. most = [i \in 1 .. N |-> (L - 1) * ones[i]] /\ none = [i \in 1 .. N |-> 0 * ones[i]]
      BY DEF most, none
    <3> QED
      BY <2>2, <3>1, ScaledTotal
  <2>4. \A i \in 1 .. N : most[i] \in Int /\ none[i] \in Int /\ rest[i] <= most[i] /\ none[i] <= rest[i]
    <3> TAKE i \in 1 .. N
    <3>1. rest[i] \in 0 .. L - 1 /\ (ones[i] = IF rest[i] > 0 THEN 1 ELSE 0)
      BY <1>0, <1>1
    <3>4. ones[i] \in {0, 1} /\ L - 1 \in Nat /\ rest[i] \in Nat
      BY <3>1
    <3>2. (L - 1) * 1 = L - 1 /\ (L - 1) * 0 = 0 /\ 0 * 1 = 0 /\ 0 * 0 = 0
      OBVIOUS
    <3>3. most[i] = (L - 1) * ones[i] /\ none[i] = 0 * ones[i]
      OBVIOUS
    <3> HIDE DEF most, none, ones
    <3>5. CASE ones[i] = 1
      BY <3>1, <3>2, <3>3, <3>5, SMTT(30)
    <3>6. CASE ones[i] = 0
      BY <3>1, <3>2, <3>3, <3>6, SMTT(30)
    <3> QED
      BY <3>4, <3>5, <3>6
  <2>5. most \in [1 .. N -> Int] /\ none \in [1 .. N -> Int]
    BY <2>4
  <2> HIDE DEF most, none, ones
  <2>6. Total(rest) <= Total(most)
    BY <1>2, <2>4, <2>5, TotalAtMost
  <2>7. Total(none) <= Total(rest)
    BY <1>2, <2>4, <2>5, TotalAtMost
  <2>8. 0 * z = 0
    BY <1>7
  <2> QED
    BY <2>1, <2>3, <2>6, <2>7, <2>8
<1> HIDE DEF Z, z
<1> HIDE DEF Z, z
<1>9. left \in Nat /\ left <= z
  BY <1>5, <1>6, <1>7, <1>8, LeftBounds
<1>10. /\ \A n \in 1 .. N : Cardinality(Before(N, rest, n)) \in Nat
       /\ Cardinality({n \in 1 .. N : Cardinality(Before(N, rest, n)) < left}) = left
       /\ \A n \in 1 .. N : Cardinality(Before(N, rest, n)) < left => rest[n] > 0
  <2>1. left <= Cardinality(Z)
    BY <1>9 DEF z
  <2> QED
    BY <1>7, <1>9, <2>1, Ranks
<1> DEFINE up == [n \in 1 .. N |-> IF Cardinality(Before(N, rest, n)) < left THEN 1 ELSE 0]
<1>11. \A n \in 1 .. N : up[n] \in {0, 1} /\ (up[n] = 1 => rest[n] > 0) /\ count[n] = whole[n] + up[n]
  <2> TAKE n \in 1 .. N
  <2>1. up[n] = IF Cardinality(Before(N, rest, n)) < left THEN 1 ELSE 0
    OBVIOUS
  <2> HIDE DEF up
  <2>2. count[n] = whole[n] + up[n]
    BY <2>1, Zenon DEF SharedOut
  <2> QED
    BY <1>10, <2>1, <2>2
<1>12. Total(up) = left
  <2> DEFINE c == [n \in 1 .. N |-> left - Cardinality(Before(N, rest, n))]
             chosen == {n \in 1 .. N : Cardinality(Before(N, rest, n)) < left}
  <2>1. \A n \in 1 .. N : c[n] > 0 <=> Cardinality(Before(N, rest, n)) < left
    <3> TAKE n \in 1 .. N
    <3>1. c[n] = left - Cardinality(Before(N, rest, n)) /\ Cardinality(Before(N, rest, n)) \in Nat
      BY <1>10
    <3> HIDE DEF c
    <3> QED
      BY <1>9, <3>1
  <2> HIDE DEF c
  <2>2. up = [n \in 1 .. N |-> IF c[n] > 0 THEN 1 ELSE 0]
    BY <2>1
  <2>3. chosen = {n \in 1 .. N : c[n] > 0}
    BY <2>1
  <2>4. Cardinality(chosen) = left
    BY <1>10
  <2> HIDE DEF up, chosen
  <2>5. Total(up) = Cardinality({n \in 1 .. N : c[n] > 0})
    BY <2>2, OnesTotal
  <2> QED
    BY <2>3, <2>4, <2>5, Zenon
<1>13. Total(count) = take
  <2>0. up = [n \in 1 .. N |-> up[n]]
    OBVIOUS
  <2> HIDE DEF up
  <2>1. up \in [1 .. N -> Int]
    <3>1. \A n \in 1 .. N : up[n] \in Int
      BY <1>11, SMTT(30)
    <3> QED
      BY <2>0, <3>1, Zenon
  <2>3. count \in [1 .. N -> Int] /\ \A n \in 1 .. N : count[n] = whole[n] + up[n]
    BY <1>11, NatFun, Zenon
  <2>4. Total(count) = Total(whole) + Total(up)
    BY <1>2, <2>1, <2>3, TotalSum, ZenonT(60)
  <2> QED
    BY <1>5, <1>9, <1>12, <2>4 DEF SharedOut
<1> HIDE DEF up
<1>14. ASSUME NEW n \in 1 .. N
       PROVE  count[n] <= len[n] /\ (count[n] - 1) * L < take * len[n] /\ (count[n] + 1) * L > take * len[n]
  <2>1. PICK w, r, u, l, t : w = whole[n] /\ r = rest[n] /\ u = up[n] /\ l = len[n] /\ t = take * l
    OBVIOUS
  <2>2. w \in Nat /\ r \in Nat /\ r < L /\ u \in {0, 1} /\ l \in Nat /\ t \in Nat /\ t = L * w + r /\ (u = 1 => r > 0)
    <3>1. w \in Nat /\ r \in Nat /\ u \in {0, 1} /\ l \in Nat /\ (u = 1 => r > 0) /\ t \in Nat
      BY <1>1, <1>11, <2>1
    <3>2. r < L /\ t = L * w + r
      BY <1>0, <2>1, Zenon
    <3> QED
      BY <3>1, <3>2
  <2>4. count[n] = w + u /\ count[n] \in Nat
    BY <1>11, <2>1
  <2>3. t = take * l
    BY <2>1, Zenon
  <2>5. count[n] <= l /\ (count[n] - 1) * L < t /\ (count[n] + 1) * L > t
    BY <2>2, <2>3, <2>4, ShareBounds, ZenonT(60)
  <2>6. l = len[n] /\ t = take * len[n]
    BY <2>1, Zenon
  <2> QED
    BY <2>5, <2>6, Zenon
<1> QED
  BY <1>13, <1>14

-------------------------------------------------------------------------------
(* The sample. *)

Sessions == [fits : Seq(BOOLEAN), size : Nat, waits : BOOLEAN]
Traces == [pool : Seq(Sessions), stratified : BOOLEAN, take : Nat, waits : BOOLEAN, live : BOOLEAN, recycled : BOOLEAN,
           salt : {"text", "cache_salt"}]

\* A session's turns are some, and no more than the cap.
LEMMA FittingIs ==
  ASSUME MaxTurns \in Nat, NEW s \in Sessions
  PROVE  Fitting(s) \in 0 .. MaxTurns
<1> DEFINE n == Len(s.fits)
           short == {k \in DOMAIN s.fits : ~s.fits[k]}
           T == short \cup {n + 1, MaxTurns + 1}
<1>1. s.fits \in Seq(BOOLEAN) /\ n \in Nat /\ DOMAIN s.fits = 1 .. n
  BY DEF Sessions
<1>2. T \in SUBSET Nat /\ T # {} /\ MaxTurns + 1 \in T /\ \A k \in T : k >= 1
  BY <1>1
<1>3. Fitting(s) = Min(T) - 1
  BY DEF Fitting
<1> HIDE DEF T
<1>4. \E k \in T : \A j \in T : k <= j
  BY <1>2, Least
<1>5. Min(T) \in T /\ \A j \in T : Min(T) <= j
  BY <1>4 DEF Min
<1>6. Min(T) \in Nat /\ Min(T) >= 1 /\ Min(T) <= MaxTurns + 1
  BY <1>2, <1>5
<1> QED
  BY <1>3, <1>6

\* The pool in the seed's order, less what is not eligible: places in it, none twice.
LEMMA ShuffledIs ==
  ASSUME trace.pool \in Seq(Sessions)
  PROVE  /\ Len(Shuffled) \in Nat /\ Shuffled \in [1 .. Len(Shuffled) -> DOMAIN trace.pool]
         /\ \A i, j \in 1 .. Len(Shuffled) : Shuffled[i] = Shuffled[j] => i = j
<1> DEFINE c == {i \in DOMAIN trace.pool : Eligible(Session(i))}
           m == Len(trace.pool)
<1>1. m \in Nat /\ DOMAIN trace.pool = 1 .. m /\ c \subseteq 1 .. m
  OBVIOUS
<1>2. Shuffled = Ascending(c)
  BY DEF Shuffled
<1> HIDE DEF c, m
<1>3. /\ Cardinality(c) \in Nat /\ Ascending(c) \in [1 .. Cardinality(c) -> c] /\ Len(Ascending(c)) = Cardinality(c)
  BY <1>1, AscendingIs, AscendingOnce
<1>4. \A i, j \in 1 .. Cardinality(c) : Ascending(c)[i] = Ascending(c)[j] => i = j
  BY <1>1, AscendingOnce, Zenon
<1> QED
  BY <1>1, <1>2, <1>3, <1>4

-------------------------------------------------------------------------------
(* The strata, and the sample dealt from them. *)

Lens(strata) == [n \in 1 .. Len(strata) |-> Len(strata[n])]

\* N sequences, no member in two of them or twice in one, L members in all.
Shape(strata, N, L) ==
  /\ strata \in [1 .. N -> Seq(Nat)] /\ Len(strata) = N
  /\ Lens(strata) \in [1 .. N -> 0 .. L] /\ Total(Lens(strata)) = L
  /\ \A m, n \in 1 .. N : \A i \in 1 .. Len(strata[m]), j \in 1 .. Len(strata[n]) :
       strata[m][i] = strata[n][j] => m = n /\ i = j

\* The strata are such sequences, of the sample's sessions.
LEMMA StrataIs ==
  ASSUME trace.pool \in Seq(Sessions), Len(Shuffled) # 0
  PROVE  \E N \in Nat \ {0} : Shape(Strata, N, Len(Shuffled))
<1> DEFINE L == Len(Shuffled)
           of == [k \in DOMAIN Shuffled |-> Stratum(Shuffled[k])]
           F == {k \in DOMAIN of : \A j \in 1 .. k - 1 : of[j] # of[k]}
           first == Ascending(F)
           N == Cardinality(F)
           P(n) == {k \in DOMAIN of : of[k] = of[first[n]]}
           places(n) == Ascending(P(n))
<1>1. L \in Nat /\ Shuffled \in [1 .. L -> DOMAIN trace.pool] /\ \A i, j \in 1 .. L : Shuffled[i] = Shuffled[j] => i = j
  BY ShuffledIs
<1>2. DOMAIN Shuffled = 1 .. L /\ DOMAIN of = 1 .. L /\ \A k \in 1 .. L : Shuffled[k] \in Nat
  BY <1>1
<1>3. Strata = [n \in DOMAIN first |-> [j \in DOMAIN places(n) |-> Shuffled[places(n)[j]]]]
  BY DEF Strata
<1> HIDE DEF of, L
<1>4. F \subseteq 1 .. L
  BY <1>2
<1> HIDE DEF F
<1>5. /\ N \in Nat /\ first \in [1 .. N -> F] /\ DOMAIN first = 1 .. N
      /\ (\A k \in F : \E j \in 1 .. N : first[j] = k) /\ \A i, j \in 1 .. N : first[i] = first[j] => i = j
  <2>1. N \in Nat /\ first \in [1 .. N -> F] /\ \A k \in F : \E j \in 1 .. N : first[j] = k
    BY <1>1, <1>4, AscendingIs, Zenon
  <2>2. DOMAIN first = 1 .. N /\ \A i, j \in 1 .. N : first[i] = first[j] => i = j
    BY <1>1, <1>4, AscendingOnce, Zenon
  <2> QED
    BY <2>1, <2>2, Zenon
<1> HIDE DEF first, N
<1>6. \A n \in 1 .. N : P(n) \subseteq 1 .. L
  BY <1>2
<1>7. ASSUME NEW k \in 1 .. L PROVE \E n \in 1 .. N : k \in P(n)
  <2> DEFINE T == {j \in 1 .. L : of[j] = of[k]}
  <2>1. T \in SUBSET Nat /\ T # {}
    OBVIOUS
  <2>2. PICK f \in T : \A j \in T : f <= j
    <3> HIDE DEF T
    <3> QED
      BY <2>1, Least
  <2>3. f \in F
    <3>1. f \in 1 .. L /\ of[f] = of[k] /\ \A j \in 1 .. L : of[j] = of[k] => f <= j
      BY <2>2
    <3>2. \A j \in 1 .. f - 1 : of[j] # of[f]
      BY <1>1, <3>1
    <3> QED
      BY <1>2, <3>1, <3>2 DEF F
  <2>4. PICK n \in 1 .. N : first[n] = f
    BY <1>5, <2>3
  <2> QED
    BY <1>2, <2>2, <2>4
<1>8. ASSUME NEW m \in 1 .. N, NEW n \in 1 .. N, NEW k \in P(m), k \in P(n) PROVE m = n
  <2>1. of[first[m]] = of[first[n]] /\ first[m] \in F /\ first[n] \in F
    BY <1>5, <1>8
  <2>2. first[m] \in 1 .. L /\ first[n] \in 1 .. L
    BY <1>4, <2>1
  <2>3. ~(first[m] < first[n]) /\ ~(first[n] < first[m])
    <3>1. \A i, j \in F : of[i] = of[j] => ~(i < j)
      <4> SUFFICES ASSUME NEW i \in F, NEW j \in F, of[i] = of[j], i < j PROVE FALSE
        OBVIOUS
      <4>1. i \in 1 .. j - 1
        BY <1>1, <1>4
      <4> QED
        BY <4>1 DEF F
    <3> QED
      BY <2>1, <3>1, Zenon
  <2>4. first[m] = first[n]
    BY <1>1, <2>2, <2>3
  <2> QED
    BY <1>5, <2>4
<1> HIDE DEF P
<1>9. ASSUME NEW n \in 1 .. N
      PROVE  /\ Cardinality(P(n)) \in 0 .. L /\ DOMAIN places(n) = 1 .. Cardinality(P(n))
             /\ places(n) \in [1 .. Cardinality(P(n)) -> P(n)]
             /\ \A i, j \in 1 .. Cardinality(P(n)) : places(n)[i] = places(n)[j] => i = j
  <2>1. Cardinality(P(n)) \in Nat /\ places(n) \in [1 .. Cardinality(P(n)) -> P(n)]
    BY <1>1, <1>6, AscendingIs, Zenon
  <2>2. DOMAIN places(n) = 1 .. Cardinality(P(n))
    BY <1>1, <1>6, AscendingOnce, Zenon
  <2>3. \A i, j \in 1 .. Cardinality(P(n)) : places(n)[i] = places(n)[j] => i = j
    BY <1>1, <1>6, AscendingOnce, Zenon
  <2>4. Cardinality(P(n)) <= L
    <3>1. P(n) \subseteq 1 .. L
      BY <1>6
    <3> QED
      BY <1>1, <3>1, UpToStep
  <2>5. Cardinality(P(n)) \in 0 .. L
    BY <1>1, <2>1, <2>4
  <2> QED
    BY <2>1, <2>2, <2>3, <2>5
<1> HIDE DEF places
<1>10. /\ DOMAIN Strata = 1 .. N
       /\ \A n \in 1 .. N : /\ Strata[n] = [j \in 1 .. Cardinality(P(n)) |-> Shuffled[places(n)[j]]]
                            /\ \A j \in 1 .. Cardinality(P(n)) : places(n)[j] \in P(n) /\ places(n)[j] \in 1 .. L
  <2>1. DOMAIN Strata = 1 .. N
    BY <1>3, <1>5
  <2>2. ASSUME NEW n \in 1 .. N PROVE Strata[n] = [j \in 1 .. Cardinality(P(n)) |-> Shuffled[places(n)[j]]]
    <3>1. Strata[n] = [j \in DOMAIN places(n) |-> Shuffled[places(n)[j]]]
      BY <1>3, <1>5
    <3> QED
      BY <1>9, <3>1
  <2>3. ASSUME NEW n \in 1 .. N, NEW j \in 1 .. Cardinality(P(n)) PROVE places(n)[j] \in P(n) /\ places(n)[j] \in 1 .. L
    BY <1>6, <1>9
  <2> QED
    BY <2>1, <2>2, <2>3
<1>11. \A n \in 1 .. N : Strata[n] \in Seq(Nat) /\ Len(Strata[n]) = Cardinality(P(n))
  <2> TAKE n \in 1 .. N
  <2>1. \A j \in 1 .. Cardinality(P(n)) : Shuffled[places(n)[j]] \in Nat
    BY <1>2, <1>10
  <2>2. Cardinality(P(n)) \in Nat
    BY <1>9
  <2>3. Strata[n] = [j \in 1 .. Cardinality(P(n)) |-> Shuffled[places(n)[j]]]
    BY <1>10
  <2> QED
    BY <2>1, <2>2, <2>3
<1>12. Strata \in [1 .. N -> Seq(Nat)] /\ Len(Strata) = N
  <2>1. Strata = [n \in 1 .. N |-> Strata[n]]
    BY <1>3, <1>5
  <2>2. Strata \in [1 .. N -> Seq(Nat)]
    BY <1>11, <2>1, Zenon
  <2> QED
    BY <1>5, <2>2
<1> DEFINE sizes == [n \in 1 .. N |-> P(n)]
<1>13. Lens(Strata) = [n \in 1 .. N |-> Cardinality(P(n))]
  BY <1>11, <1>12 DEF Lens
<1>14. Lens(Strata) \in [1 .. N -> 0 .. L]
  BY <1>9, <1>13
<1>15. Total(Lens(Strata)) = L
  <2>1. sizes \in [1 .. N -> SUBSET (1 .. L)]
    BY <1>6
  <2>2. \A m, n \in 1 .. N : m # n => sizes[m] \cap sizes[n] = {}
    BY <1>8
  <2>3. \A k \in 1 .. L : \E n \in 1 .. N : k \in sizes[n]
    BY <1>7
  <2>4. Lens(Strata) \in [1 .. N -> Nat] /\ \A n \in 1 .. N : Lens(Strata)[n] = Cardinality(sizes[n])
    BY <1>13, <1>14
  <2>5. IsFiniteSet(1 .. L) /\ Cardinality(1 .. L) = L
    BY <1>1, FS_Interval
  <2> HIDE DEF sizes
  <2>6. Cardinality(1 .. L) = Total(Lens(Strata))
    <3>1. PartsOf(N, 1 .. L, sizes, Lens(Strata))
      BY <2>1, <2>2, <2>3, <2>4, Zenon DEF PartsOf
    <3> QED
      BY <1>5, <2>5, <3>1, ClassesTotal, Zenon
  <2> QED
    BY <2>5, <2>6
<1>16. ASSUME NEW m \in 1 .. N, NEW n \in 1 .. N, NEW i \in 1 .. Len(Strata[m]), NEW j \in 1 .. Len(Strata[n]),
              Strata[m][i] = Strata[n][j]
       PROVE  m = n /\ i = j
  <2>1. i \in 1 .. Cardinality(P(m)) /\ j \in 1 .. Cardinality(P(n))
    BY <1>11
  <2>2. Shuffled[places(m)[i]] = Shuffled[places(n)[j]]
    BY <1>10, <1>16, <2>1
  <2>3. places(m)[i] = places(n)[j]
    BY <1>1, <1>10, <2>1, <2>2, Zenon
  <2>4. m = n
    BY <1>8, <1>10, <2>1, <2>3
  <2> QED
    BY <1>9, <2>1, <2>3, <2>4
<1>17. N # 0
  BY <1>1, <1>7 DEF L
<1>18. N \in Nat \ {0}
  BY <1>5, <1>17
<1>19. Shape(Strata, N, L)
  BY <1>12, <1>14, <1>15, <1>16, Zenon DEF Shape
<1> QED
  BY <1>18, <1>19 DEF L

\* The first so many of each stratum.
FirstOnes(some, strata, N, c) ==
  /\ some \in [1 .. N -> Seq(Nat)] /\ Len(some) = N /\ c \in [1 .. N -> Nat]
  /\ \A n \in 1 .. N : Len(some[n]) = c[n] /\ c[n] <= Len(strata[n]) /\ \A j \in 1 .. c[n] : some[n][j] = strata[n][j]

Table(some) == {p \in 1 .. Len(Shuffled) * Len(some) : RowOf(some, p) <= Len(some[ColumnOf(some, p)])}

\* What dealing so many of each stratum comes to.
Dealt(N, strata, c, some) ==
  LET dealt == RoundRobin(some)
      full == Ascending(Table(some))
  IN  /\ Total(c) \in Nat /\ Len(dealt) = Total(c) /\ IsInjective(dealt)
      /\ \A n \in 1 .. N : Cardinality({j \in 1 .. Total(c) : dealt[j] \in ToSet(strata[n])}) = c[n]
      /\ \A n \in 1 .. N, k \in 1 .. Total(c) :
           Cardinality({j \in 1 .. k : dealt[j] \in ToSet(strata[n])}) = Reached(N, c, full[k], n)
      /\ \A k \in 1 .. Total(c) : full[k] \in Nat \ {0}

\* Dealing them out in turn takes each once, and after each play as many of a stratum as its row has come to.
LEMMA DealtIs ==
  ASSUME NEW N \in Nat \ {0}, Len(Shuffled) \in Nat, NEW strata, Shape(strata, N, Len(Shuffled)),
         NEW some, NEW c, FirstOnes(some, strata, N, c)
  PROVE  Dealt(N, strata, c, some)
<1> DEFINE L == Len(Shuffled)
           dealt == RoundRobin(some)
           cells == Table(some)
           full == Ascending(cells)
           row(j) == RowAt(N, full[j])
           column(j) == ColumnAt(N, full[j])
<1>1. /\ Len(some) = N /\ c \in [1 .. N -> Nat] /\ L \in Nat
      /\ \A n \in 1 .. N : Len(some[n]) = c[n] /\ c[n] <= Len(strata[n]) /\ \A j \in 1 .. c[n] : some[n][j] = strata[n][j]
  BY DEF FirstOnes
<1>2. /\ \A n \in 1 .. N : Len(strata[n]) \in 0 .. L /\ DOMAIN strata[n] = 1 .. Len(strata[n])
      /\ \A m, n \in 1 .. N : \A i \in 1 .. Len(strata[m]), j \in 1 .. Len(strata[n]) :
           strata[m][i] = strata[n][j] => m = n /\ i = j
  <2>1. \A n \in 1 .. N : strata[n] \in Seq(Nat) /\ Len(strata) = N /\ Lens(strata)[n] \in 0 .. L
    BY DEF Shape
  <2>2. \A n \in 1 .. N : Lens(strata)[n] = Len(strata[n])
    BY <2>1 DEF Lens
  <2>3. \A n \in 1 .. N : Len(strata[n]) \in 0 .. L /\ DOMAIN strata[n] = 1 .. Len(strata[n])
    BY <2>1, <2>2
  <2> QED
    BY <2>3, Zenon DEF Shape
<1>3. c \in [1 .. N -> 0 .. L]
  <2>1. \A n \in 1 .. N : c[n] \in 0 .. L
    BY <1>1, <1>2
  <2> QED
    BY <1>1, <2>1
<1>4. \A p : RowOf(some, p) = RowAt(N, p) /\ ColumnOf(some, p) = ColumnAt(N, p)
  BY <1>1 DEF RowOf, ColumnOf, RowAt, ColumnAt
<1>5. cells \subseteq 1 .. L * N /\ \A p \in 1 .. L * N : p \in cells <=> RowAt(N, p) <= c[ColumnAt(N, p)]
  <2>1. cells = {p \in 1 .. L * N : RowAt(N, p) <= Len(some[ColumnAt(N, p)])}
    BY <1>1, <1>4, ZenonT(60) DEF Table
  <2>2. L * N \in Nat
    BY <1>1
  <2>3. \A p \in 1 .. L * N : ColumnAt(N, p) \in 1 .. N
    <3> TAKE p \in 1 .. L * N
    <3>1. p \in Nat \ {0}
      BY <2>2
    <3> QED
      BY <3>1, CellIs
  <2>4. \A p \in 1 .. L * N : Len(some[ColumnAt(N, p)]) = c[ColumnAt(N, p)]
    BY <1>1, <2>3
  <2> HIDE DEF cells
  <2>5. cells \subseteq 1 .. L * N
    BY <2>1
  <2>6. \A p \in 1 .. L * N : p \in cells <=> RowAt(N, p) <= c[ColumnAt(N, p)]
    BY <2>1, <2>4, Zenon
  <2> QED
    BY <2>5, <2>6
<1>6. dealt = [k \in DOMAIN full |-> some[column(k)][row(k)]]
  <2>1. dealt = [k \in DOMAIN full |-> some[ColumnOf(some, full[k])][RowOf(some, full[k])]]
    BY DEF RoundRobin, Table
  <2> HIDE DEF full
  <2> QED
    BY <1>4, <2>1, Zenon
<1> HIDE DEF cells
<1>7. /\ L * N \in Nat /\ Cardinality(cells) = Total(c)
      /\ \A n \in 1 .. N : Cardinality({j \in 1 .. Cardinality(cells) : ColumnAt(N, full[j]) = n}) = c[n]
      /\ \A n \in 1 .. N, k \in 1 .. Cardinality(cells) :
           Cardinality({j \in 1 .. k : ColumnAt(N, full[j]) = n}) = Reached(N, c, full[k], n)
  <2>1. Filled(N, L, c, cells)
    BY <1>1, <1>3, <1>5 DEF Filled
  <2>2. ReadOut(N, L, c, cells)
    BY <2>1, TableRead
  <2> QED
    BY <2>2 DEF ReadOut
<1>8. /\ Total(c) \in Nat /\ full \in [1 .. Total(c) -> cells] /\ DOMAIN full = 1 .. Total(c)
      /\ \A i, j \in 1 .. Total(c) : full[i] = full[j] => i = j
  <2>1. Cardinality(cells) \in Nat /\ full \in [1 .. Cardinality(cells) -> cells]
    BY <1>5, <1>7, AscendingIs, Zenon
  <2>2. DOMAIN full = 1 .. Cardinality(cells) /\ \A i, j \in 1 .. Cardinality(cells) : full[i] = full[j] => i = j
    BY <1>5, <1>7, AscendingOnce, Zenon
  <2> QED
    BY <1>7, <2>1, <2>2, Zenon
<1> DEFINE all == Total(c)
<1> HIDE DEF full, L, all
<1>9. ASSUME NEW j \in 1 .. all
      PROVE  /\ full[j] \in Nat \ {0} /\ column(j) \in 1 .. N /\ row(j) \in 1 .. Len(strata[column(j)])
             /\ full[j] = (row(j) - 1) * N + column(j) /\ dealt[j] = strata[column(j)][row(j)]
  <2>1. full[j] \in cells /\ full[j] \in 1 .. L * N
    BY <1>5, <1>8 DEF all
  <2>2. full[j] \in Nat \ {0} /\ row(j) <= c[column(j)]
    BY <1>5, <1>7, <2>1
  <2>3. row(j) \in Nat \ {0} /\ column(j) \in 1 .. N /\ full[j] = (row(j) - 1) * N + column(j)
    BY <2>2, CellIs
  <2>4. dealt[j] = some[column(j)][row(j)]
    BY <1>6, <1>8 DEF all
  <2> HIDE DEF row, column, dealt
  <2>5. c[column(j)] \in Nat /\ Len(strata[column(j)]) \in Nat /\ c[column(j)] <= Len(strata[column(j)])
    BY <1>1, <1>2, <2>3
  <2>6. row(j) \in 1 .. c[column(j)] /\ row(j) \in 1 .. Len(strata[column(j)])
    BY <2>2, <2>3, <2>5
  <2>7. some[column(j)][row(j)] = strata[column(j)][row(j)]
    BY <1>1, <2>3, <2>6
  <2> QED
    BY <2>2, <2>3, <2>4, <2>6, <2>7
<1> HIDE DEF dealt
<1>10. DOMAIN dealt = 1 .. all /\ Len(dealt) = all
  <2>1. DOMAIN dealt = 1 .. all
    BY <1>6, <1>8 DEF all
  <2>2. dealt = [k \in 1 .. all |-> some[column(k)][row(k)]]
    BY <1>6, <1>8 DEF all
  <2> QED
    BY <1>8, <2>1, <2>2 DEF all
<1> HIDE DEF row, column
<1>11. IsInjective(dealt)
  <2> SUFFICES ASSUME NEW i \in 1 .. all, NEW j \in 1 .. all, dealt[i] = dealt[j] PROVE i = j
    BY <1>10 DEF IsInjective
  <2>0. /\ column(i) \in 1 .. N /\ row(i) \in 1 .. Len(strata[column(i)])
        /\ column(j) \in 1 .. N /\ row(j) \in 1 .. Len(strata[column(j)])
        /\ strata[column(i)][row(i)] = strata[column(j)][row(j)]
    BY <1>9
  <2>1. column(i) = column(j) /\ row(i) = row(j)
    <3> DEFINE m == column(i)
               n == column(j)
               a == row(i)
               b == row(j)
    <3> HIDE DEF m, n, a, b
    <3>1. m \in 1 .. N /\ n \in 1 .. N /\ a \in 1 .. Len(strata[m]) /\ b \in 1 .. Len(strata[n]) /\ strata[m][a] = strata[n][b]
      BY <2>0 DEF m, n, a, b
    <3>2. m = n /\ a = b
      BY <1>2, <3>1, ZenonT(60)
    <3> QED
      BY <3>2 DEF m, n, a, b
  <2>2. full[i] = full[j]
    BY <1>9, <2>1, Zenon
  <2> QED
    BY <1>8, <2>2 DEF all
<1>12. ASSUME NEW n \in 1 .. N, NEW j \in 1 .. all PROVE dealt[j] \in ToSet(strata[n]) <=> column(j) = n
  <2>1. ToSet(strata[n]) = {strata[n][i] : i \in 1 .. Len(strata[n])}
    BY <1>2 DEF ToSet
  <2>2. CASE column(j) = n
    BY <1>9, <2>1, <2>2
  <2>3. CASE column(j) # n
    <3>0. column(j) \in 1 .. N /\ row(j) \in 1 .. Len(strata[column(j)])
      BY <1>9
    <3>1. \A i \in 1 .. Len(strata[n]) : strata[column(j)][row(j)] # strata[n][i]
      BY <1>2, <3>0, <2>3, Zenon
    <3> QED
      BY <1>9, <2>1, <2>3, <3>1
  <2> QED
    BY <2>2, <2>3
<1>13. \A n \in 1 .. N, k \in 0 .. all :
         {j \in 1 .. k : dealt[j] \in ToSet(strata[n])} = {j \in 1 .. k : ColumnAt(N, full[j]) = n}
  <2> TAKE n \in 1 .. N, k \in 0 .. all
  <2>1. \A j \in 1 .. k : j \in 1 .. all
    BY <1>8 DEF all
  <2>2. \A j \in 1 .. k : dealt[j] \in ToSet(strata[n]) <=> ColumnAt(N, full[j]) = n
    BY <1>12, <2>1 DEF column
  <2> QED
    BY <2>2
<1>14. \A n \in 1 .. N : Cardinality({j \in 1 .. all : dealt[j] \in ToSet(strata[n])}) = c[n]
  <2> TAKE n \in 1 .. N
  <2>1. all \in 0 .. all /\ Cardinality(cells) = all
    BY <1>7, <1>8 DEF all
  <2> QED
    BY <1>7, <1>13, <2>1
<1>15. \A n \in 1 .. N, k \in 1 .. all : Cardinality({j \in 1 .. k : dealt[j] \in ToSet(strata[n])}) = Reached(N, c, full[k], n)
  <2> TAKE n \in 1 .. N, k \in 1 .. all
  <2>1. k \in 0 .. all /\ k \in 1 .. Cardinality(cells)
    BY <1>7, <1>8 DEF all
  <2> QED
    BY <1>7, <1>13, <2>1
<1> QED
  BY <1>8, <1>9, <1>10, <1>11, <1>14, <1>15 DEF dealt, full, cells, all, Dealt

-------------------------------------------------------------------------------
(* The fairness of the sample. *)

\* A quotient and what is left.
LEMMA Divided ==
  ASSUME NEW a \in Nat, NEW b \in Nat \ {0}
  PROVE  a \div b \in Nat /\ a % b \in Nat /\ a % b < b /\ a = b * (a \div b) + (a % b)
<1>1. a \div b \in Nat /\ a % b \in 0 .. b - 1 /\ a = b * (a \div b) + (a % b)
  OBVIOUS
<1> QED
  BY <1>1

\* What is dealt out: the first c of each stratum, as many as asked for, each stratum's share to within one.
Drawn(N, c, some) ==
  /\ FirstOnes(some, Strata, N, c) /\ Stratified = RoundRobin(some)
  /\ Total(c) = (IF trace.take = 0 THEN Len(Shuffled) ELSE trace.take)
  /\ \A n \in 1 .. N : /\ (c[n] - 1) * Len(Shuffled) < Total(c) * Len(Strata[n])
                       /\ (c[n] + 1) * Len(Shuffled) > Total(c) * Len(Strata[n])

\* With no number asked for it is all there is.
LEMMA DrawnWhole ==
  ASSUME NEW N \in Nat \ {0}, Len(Shuffled) \in Nat \ {0}, Shape(Strata, N, Len(Shuffled)), trace.take = 0
  PROVE  Drawn(N, Lens(Strata), Strata)
<1> DEFINE L == Len(Shuffled)
           strata == Strata
           c == Lens(strata)
<1>1. /\ strata \in [1 .. N -> Seq(Nat)] /\ Len(strata) = N /\ c \in [1 .. N -> 0 .. L] /\ Total(c) = L
  BY DEF Shape
<1>2. Stratified = RoundRobin(strata)
  BY DEF Stratified
<1>3. L \in Nat \ {0}
  OBVIOUS
<1>4. \A n \in 1 .. N : c[n] = Len(strata[n])
  BY <1>1 DEF Lens
<1> HIDE DEF L, strata, c
<1>5. c \in [1 .. N -> Nat] /\ \A n \in 1 .. N : c[n] \in Nat
  <2>1. \A n \in 1 .. N : c[n] \in Nat
    BY <1>1, <1>3
  <2> QED
    BY <1>1, <2>1
<1>6. FirstOnes(strata, strata, N, c)
  BY <1>1, <1>4, <1>5 DEF FirstOnes
<1>7. ASSUME NEW n \in 1 .. N PROVE (c[n] - 1) * L < Total(c) * Len(strata[n]) /\ (c[n] + 1) * L > Total(c) * Len(strata[n])
  <2>1. \A x \in Nat : (x - 1) * L < L * x /\ (x + 1) * L > L * x
    <3> TAKE x \in Nat
    <3>1. (x - 1) * L = L * x - L /\ (x + 1) * L = L * x + L /\ L * x \in Nat
      BY <1>3
    <3> QED
      BY <1>3, <3>1
  <2>2. (c[n] - 1) * L < L * c[n] /\ (c[n] + 1) * L > L * c[n]
    BY <1>5, <2>1
  <2>3. Len(strata[n]) = c[n] /\ Total(c) = L
    BY <1>1, <1>4
  <2> QED
    BY <2>2, <2>3, Zenon
<1> QED
  BY <1>1, <1>2, <1>6, <1>7 DEF Drawn, L, strata, c

\* With a number asked for it is shared out among the strata.
LEMMA DrawnShares ==
  ASSUME NEW N \in Nat \ {0}, Len(Shuffled) \in Nat \ {0}, Shape(Strata, N, Len(Shuffled)),
         trace.take \in Nat, trace.take # 0, trace.take <= Len(Shuffled)
  PROVE  \E c, some : Drawn(N, c, some)
<1> DEFINE L == Len(Shuffled)
           take == trace.take
           strata == Strata
           len == Lens(strata)
           whole == [n \in 1 .. N |-> (take * Len(strata[n])) \div L]
           rest == [n \in 1 .. N |-> (take * Len(strata[n])) % L]
           left == take - Total(whole)
           c == [n \in 1 .. N |-> Count(strata, n)]
           some == [n \in 1 .. N |-> SubSeq(strata[n], 1, Count(strata, n))]
<1>1. /\ strata \in [1 .. N -> Seq(Nat)] /\ Len(strata) = N /\ len \in [1 .. N -> 0 .. L] /\ Total(len) = L
      /\ DOMAIN strata = 1 .. N
  BY DEF Shape
<1>2. L \in Nat \ {0} /\ take \in Nat \ {0} /\ take <= L
  OBVIOUS
<1>3. Stratified = RoundRobin(some)
  BY <1>1 DEF Stratified
<1>4. \A n \in 1 .. N : len[n] = Len(strata[n])
  BY <1>1 DEF Lens
<1>5. \A n \in 1 .. N : c[n] = whole[n] + IF Cardinality(Before(N, rest, n)) < left THEN 1 ELSE 0
  <2> TAKE n \in 1 .. N
  <2>1. left = trace.take - FoldLeft(+, 0, [k \in DOMAIN strata |-> (trace.take * Len(strata[k])) \div Len(Shuffled)])
    BY <1>1 DEF Total
  <2>2. Before(N, rest, n) = {k \in DOMAIN strata : Rest(strata, k) > Rest(strata, n) \/ (Rest(strata, k) = Rest(strata, n) /\ k < n)}
    <3>1. \A k \in 1 .. N : rest[k] = Rest(strata, k)
      BY DEF Rest
    <3> HIDE DEF rest, strata
    <3> QED
      BY <1>1, <3>1 DEF Before
  <2>3. whole[n] = (trace.take * Len(strata[n])) \div Len(Shuffled) /\ c[n] = Count(strata, n)
    OBVIOUS
  <2> HIDE DEF left, rest, whole, strata, c
  <2> QED
    BY <2>1, <2>2, <2>3 DEF Count
<1> HIDE DEF strata, L, take
<1>6. ASSUME NEW n \in 1 .. N
      PROVE  /\ len[n] \in Nat /\ whole[n] \in Nat /\ rest[n] \in Nat /\ rest[n] < L /\ take * len[n] = L * whole[n] + rest[n]
             /\ c[n] \in Nat
  <2>1. len[n] \in Nat
    BY <1>1, <1>2
  <2>2. take * len[n] \in Nat
    BY <1>2, <2>1
  <2>3. whole[n] = (take * len[n]) \div L /\ rest[n] = (take * len[n]) % L
    BY <1>4
  <2>4. whole[n] \in Nat /\ rest[n] \in Nat /\ rest[n] < L /\ take * len[n] = L * whole[n] + rest[n]
    <3> DEFINE a == take * len[n]
    <3>1. a \in Nat /\ whole[n] = a \div L /\ rest[n] = a % L
      BY <2>2, <2>3
    <3> HIDE DEF a, whole, rest
    <3>2. a \div L \in Nat /\ a % L \in Nat /\ a % L < L /\ a = L * (a \div L) + (a % L)
      BY <1>2, <3>1, Divided
    <3> QED
      BY <3>1, <3>2, Zenon DEF a
  <2> HIDE DEF whole, rest, c, left, len
  <2>5. c[n] \in Nat
    BY <1>5, <2>4
  <2> QED
    BY <2>1, <2>4, <2>5
<1>7. /\ len = [n \in 1 .. N |-> len[n]] /\ DOMAIN len = 1 .. N /\ DOMAIN whole = 1 .. N /\ DOMAIN rest = 1 .. N /\ DOMAIN c = 1 .. N
      /\ whole = [n \in 1 .. N |-> whole[n]] /\ rest = [n \in 1 .. N |-> rest[n]] /\ c = [n \in 1 .. N |-> c[n]]
  BY <1>1
<1>8. /\ DOMAIN some = 1 .. N /\ \A n \in 1 .. N : some[n] = SubSeq(strata[n], 1, c[n])
      /\ some = [n \in 1 .. N |-> some[n]]
  OBVIOUS
<1>9. left \in Int /\ take = left + Total(whole)
  <2>1. whole \in [1 .. N -> Nat]
    BY <1>6
  <2>2. Total(whole) \in Int
    <3>1. whole \in Seq(Int)
      BY <2>1, NatFun
    <3>2. PICK g \in [0 .. Len(whole) -> Int] : Total(whole) = g[Len(whole)]
      BY <3>1, RunningSum
    <3>3. Len(whole) \in 0 .. Len(whole)
      BY <2>1, NatFun
    <3> HIDE DEF whole
    <3> QED
      BY <3>2, <3>3
  <2> HIDE DEF whole
  <2> QED
    BY <1>2, <2>2
<1> HIDE DEF len, whole, rest, left, c, some
<1>10. len \in [1 .. N -> Nat] /\ whole \in [1 .. N -> Nat] /\ rest \in [1 .. N -> Nat] /\ c \in [1 .. N -> Nat]
  BY <1>6, <1>7
<1>11. SharedOut(N, L, take, len, whole, rest, left, c)
  BY <1>9, <1>1, <1>5, <1>6 DEF SharedOut
<1>12. /\ Total(c) = take
       /\ \A n \in 1 .. N : c[n] <= len[n] /\ (c[n] - 1) * L < take * len[n] /\ (c[n] + 1) * L > take * len[n]
  <2>1. N \in Nat /\ L \in Nat \ {0} /\ take \in Nat /\ take <= L /\ left \in Int
    BY <1>2, <1>9
  <2> QED
    BY <1>10, <1>11, <2>1, Rounded, Zenon
<1>13. FirstOnes(some, strata, N, c)
  <2>1. ASSUME NEW n \in 1 .. N
        PROVE  some[n] \in Seq(Nat) /\ Len(some[n]) = c[n] /\ c[n] <= Len(strata[n]) /\ \A j \in 1 .. c[n] : some[n][j] = strata[n][j]
    <3>1. c[n] \in Nat /\ c[n] <= Len(strata[n]) /\ strata[n] \in Seq(Nat) /\ some[n] = SubSeq(strata[n], 1, c[n])
      BY <1>1, <1>4, <1>8, <1>10, <1>12
    <3> QED
      BY <3>1, SMTT(30)
  <2>2. some \in [1 .. N -> Seq(Nat)]
    BY <1>8, <2>1
  <2>3. Len(some) = N
    BY <1>8
  <2> QED
    BY <1>10, <2>1, <2>2, <2>3, Zenon DEF FirstOnes
<1>14. take # 0
  BY <1>2
<1>15. Drawn(N, c, some)
  BY <1>3, <1>4, <1>12, <1>13, <1>14 DEF Drawn, strata, L, take
<1> QED
  BY <1>15

\* Rows are read one after another: of two columns that still have entries, neither is a whole row ahead.
LEMMA TurnAbout ==
  ASSUME NEW N \in Nat \ {0}, NEW c \in [1 .. N -> Nat], NEW p \in Nat \ {0}, NEW m \in 1 .. N, NEW n \in 1 .. N,
         Reached(N, c, p, m) < c[m]
  PROVE  Reached(N, c, p, n) - Reached(N, c, p, m) \in -1 .. 1 \/ Reached(N, c, p, n) = c[n]
<1> DEFINE R == RowAt(N, p)
           a == IF m <= ColumnAt(N, p) THEN R ELSE R - 1
           b == IF n <= ColumnAt(N, p) THEN R ELSE R - 1
<1>1. R \in Nat \ {0} /\ c[m] \in Nat /\ c[n] \in Nat
  BY CellIs
<1> HIDE DEF R
<1>2. a \in {R, R - 1} /\ b \in {R, R - 1}
  OBVIOUS
<1>3. Reached(N, c, p, m) = (IF a <= c[m] THEN a ELSE c[m]) /\ Reached(N, c, p, n) = (IF b <= c[n] THEN b ELSE c[n])
  BY DEF Reached, R
<1> HIDE DEF a, b
<1>4. Reached(N, c, p, m) = a
  BY <1>1, <1>2, <1>3
<1> QED
  BY <1>1, <1>2, <1>3, <1>4

\* What is said of a sample.
FairOf(strata, len, take, chosen) ==
  LET of(n, k) == Cardinality({j \in 1 .. k : chosen[j] \in ToSet(strata[n])})
      all == Len(chosen)
  IN  /\ IsInjective(chosen) /\ all = IF take = 0 THEN len ELSE take
      /\ \A n \in DOMAIN strata :
           /\ (of(n, all) - 1) * len < all * Len(strata[n])
           /\ (of(n, all) + 1) * len > all * Len(strata[n])
      /\ \A k \in 1 .. all, m, n \in DOMAIN strata :
           of(m, k) < of(m, all) => of(n, k) - of(m, k) \in -1 .. 1 \/ of(n, k) = of(n, all)

\* It holds of the one that is drawn.
LEMMA DrawnFair ==
  ASSUME MaxTurns \in Nat, trace \in Traces, trace.take <= Len(Shuffled), Len(Shuffled) # 0
  PROVE  FairOf(Strata, Len(Shuffled), trace.take, Stratified)
<1> DEFINE L == Len(Shuffled)
           strata == Strata
           chosen == Stratified
           of(n, k) == Cardinality({j \in 1 .. k : chosen[j] \in ToSet(strata[n])})
           all == Len(chosen)
<1>1. trace.pool \in Seq(Sessions) /\ trace.take \in Nat /\ trace.take <= L /\ L # 0
  BY DEF Traces
<1>2. L \in Nat \ {0}
  BY <1>1, ShuffledIs
<1>3. PICK N \in Nat \ {0} : Shape(strata, N, L)
  BY <1>1, StrataIs
<1>4. PICK c, some : Drawn(N, c, some)
  <2>1. CASE trace.take = 0
    BY <1>2, <1>3, <2>1, DrawnWhole
  <2>2. CASE trace.take # 0
    BY <1>1, <1>2, <1>3, <2>2, DrawnShares
  <2> QED
    BY <2>1, <2>2
<1>5. FirstOnes(some, strata, N, c) /\ chosen = RoundRobin(some)
  BY <1>1, <1>4 DEF Drawn
<1>6. c \in [1 .. N -> Nat]
  BY <1>5 DEF FirstOnes
<1> DEFINE full == Ascending(Table(some))
<1>7. /\ Total(c) \in Nat /\ all = Total(c) /\ IsInjective(chosen)
      /\ \A n \in 1 .. N : Cardinality({j \in 1 .. Total(c) : chosen[j] \in ToSet(strata[n])}) = c[n]
      /\ \A n \in 1 .. N, k \in 1 .. Total(c) :
           Cardinality({j \in 1 .. k : chosen[j] \in ToSet(strata[n])}) = Reached(N, c, full[k], n)
      /\ \A k \in 1 .. Total(c) : full[k] \in Nat \ {0}
  <2>1. Dealt(N, strata, c, some)
    BY <1>2, <1>3, <1>5, DealtIs
  <2> QED
    BY <1>5, <2>1, Zenon DEF Dealt
<1>8. DOMAIN strata = 1 .. N
  BY <1>3 DEF Shape
<1> HIDE DEF full, strata, chosen
<1>9. /\ \A n \in 1 .. N : of(n, all) = c[n]
      /\ \A n \in 1 .. N, k \in 1 .. all : of(n, k) = Reached(N, c, full[k], n)
  BY <1>7
<1>10. /\ all = IF trace.take = 0 THEN L ELSE trace.take
       /\ \A n \in 1 .. N : (c[n] - 1) * L < all * Len(strata[n]) /\ (c[n] + 1) * L > all * Len(strata[n])
  BY <1>4, <1>7 DEF Drawn, strata
<1>11. \A k \in 1 .. all : full[k] \in Nat \ {0}
  BY <1>7
<1>12. IsInjective(chosen)
  BY <1>7
<1> HIDE DEF of, all
<1>13. ASSUME NEW k \in 1 .. all, NEW m \in 1 .. N, NEW n \in 1 .. N, of(m, k) < of(m, all)
       PROVE  of(n, k) - of(m, k) \in -1 .. 1 \/ of(n, k) = of(n, all)
  <2>1. Reached(N, c, full[k], m) < c[m] /\ full[k] \in Nat \ {0}
    BY <1>9, <1>11, <1>13
  <2>2. Reached(N, c, full[k], n) - Reached(N, c, full[k], m) \in -1 .. 1 \/ Reached(N, c, full[k], n) = c[n]
    BY <1>3, <1>6, <2>1, TurnAbout, ZenonT(60)
  <2> QED
    BY <1>9, <2>2, Zenon
<1>14. \A n \in 1 .. N : (of(n, all) - 1) * L < all * Len(strata[n]) /\ (of(n, all) + 1) * L > all * Len(strata[n])
  <2> TAKE n \in 1 .. N
  <2>1. of(n, all) = c[n]
    BY <1>9
  <2> QED
    BY <1>10, <2>1, Zenon
<1>15. \A k \in 1 .. all, m, n \in DOMAIN strata :
         of(m, k) < of(m, all) => of(n, k) - of(m, k) \in -1 .. 1 \/ of(n, k) = of(n, all)
  BY <1>8, <1>13
<1>16. \A n \in DOMAIN strata : (of(n, all) - 1) * L < all * Len(strata[n]) /\ (of(n, all) + 1) * L > all * Len(strata[n])
  BY <1>8, <1>14
<1>17. IsInjective(chosen) /\ all = IF trace.take = 0 THEN L ELSE trace.take
  BY <1>10, <1>12
<1> QED
  BY <1>15, <1>16, <1>17, Zenon DEF FairOf, of, all, strata, chosen, L

\* The sample's operators, of any trace.
ShuffledOf(t) ==
  Ascending({i \in DOMAIN t.pool : (t.waits => t.pool[i].waits) /\ Fitting(t.pool[i]) >= MinTurns})
StratumOf(t, list, i) == <<Quartile([k \in DOMAIN list |-> Fitting(t.pool[list[k]])], Fitting(t.pool[i])),
                           Quartile([k \in DOMAIN list |-> t.pool[list[k]].size], t.pool[i].size)>>
Grouped(of, list) ==
  LET first == Ascending({k \in DOMAIN of : \A j \in 1 .. k - 1 : of[j] # of[k]})
      places(n) == Ascending({k \in DOMAIN of : of[k] = of[first[n]]})
  IN  [n \in DOMAIN first |-> [j \in DOMAIN places(n) |-> list[places(n)[j]]]]
StrataOf(t, list) == Grouped([k \in DOMAIN list |-> StratumOf(t, list, list[k])], list)
StratifiedOf(t, len, strata) ==
  LET count(n) ==
        LET whole(k) == (t.take * Len(strata[k])) \div len
            rest(k) == (t.take * Len(strata[k])) % len
            left == t.take - FoldLeft(+, 0, [k \in DOMAIN strata |-> whole(k)])
            before == {k \in DOMAIN strata : rest(k) > rest(n) \/ (rest(k) = rest(n) /\ k < n)}
        IN  whole(n) + IF Cardinality(before) < left THEN 1 ELSE 0
      some == IF t.take = 0 THEN strata ELSE [n \in DOMAIN strata |-> SubSeq(strata[n], 1, count(n))]
      row(p) == 1 + ((p - 1) \div Len(some))
      column(p) == 1 + ((p - 1) % Len(some))
      full == Ascending({p \in 1 .. len * Len(some) : row(p) <= Len(some[column(p)])})
  IN  [k \in DOMAIN full |-> some[column(full[k])][row(full[k])]]

LEMMA SampleOperators ==
  Shuffled = ShuffledOf(trace) /\ Strata = StrataOf(trace, Shuffled) /\ Stratified = StratifiedOf(trace, Len(Shuffled), Strata)
<1>1. Shuffled = ShuffledOf(trace)
  BY DEF Shuffled, ShuffledOf, Eligible, Session
<1>2. Strata = StrataOf(trace, Shuffled)
  BY DEF Strata, StrataOf, StratumOf, Grouped, Stratum, Session
<1>3. Stratified = StratifiedOf(trace, Len(Shuffled), Strata)
  BY DEF Stratified, StratifiedOf, RoundRobin, RowOf, ColumnOf, Count, Rest
<1> QED
  BY <1>1, <1>2, <1>3

\* With the trace as it was, so is the sample.
LEMMA SameTrace == trace' = trace => Shuffled' = Shuffled /\ Strata' = Strata
<1>1. Shuffled = ShuffledOf(trace) /\ Shuffled' = ShuffledOf(trace')
  BY DEF Shuffled, ShuffledOf, Eligible, Session
<1>2. Strata = StrataOf(trace, Shuffled) /\ Strata' = StrataOf(trace', Shuffled')
  BY DEF Strata, StrataOf, StratumOf, Grouped, Stratum, Session
<1> QED
  BY <1>1, <1>2, Zenon

\* Nothing but Load chooses the sample.
FairInv ==
  /\ MaxTurns \in Nat /\ trace \in Traces
  /\ loaded = "yes" /\ trace.stratified => FairOf(Strata, Len(Shuffled), trace.take, sample)

LEMMA FairStart == PoolsAssumption /\ Init => FairInv
<1> SUFFICES ASSUME PoolsAssumption, Init PROVE FairInv
  OBVIOUS
<1>1. MaxTurns \in Nat /\ trace \in Traces
  BY DEF PoolsAssumption, Init, Traces, Sessions
<1>2. loaded = "no"
  BY DEF Init
<1> QED
  BY <1>1, <1>2 DEF FairInv

LEMMA FairNext == FairInv /\ [Next]_vars => FairInv'
<1> SUFFICES ASSUME FairInv, [Next]_vars PROVE FairInv'
  OBVIOUS
<1>1. ASSUME UNCHANGED <<trace, loaded, sample>> PROVE FairInv'
  <2>1. trace' = trace /\ loaded' = loaded /\ sample' = sample
    BY <1>1
  <2>2. Shuffled' = Shuffled /\ Strata' = Strata
    BY <2>1, SameTrace
  <2> QED
    BY <2>1, <2>2 DEF FairInv
<1>2. CASE Load
  <2>1. trace' = trace
    BY <1>2 DEF Load
  <2>2. Shuffled' = Shuffled /\ Strata' = Strata
    BY <2>1, SameTrace
  <2>3. trace \in Traces /\ MaxTurns \in Nat /\ trace.take \in Nat /\ trace.pool \in Seq(Sessions)
    BY DEF FairInv, Traces
  <2>4. CASE loaded' = "yes" /\ trace.stratified
    <3>1. ~(Len(Shuffled) < trace.take) /\ Shuffled # <<>> /\ sample' = Stratified
      BY <1>2, <2>4 DEF Load
    <3>2. /\ Len(Shuffled) \in Nat /\ Shuffled \in [1 .. Len(Shuffled) -> DOMAIN trace.pool]
      BY <2>3, ShuffledIs
    <3>3. Len(Shuffled) # 0
      <4> SUFFICES ASSUME Len(Shuffled) = 0 PROVE Shuffled = <<>>
        BY <3>1
      <4> DEFINE l == Shuffled
      <4>1. l \in [1 .. 0 -> DOMAIN trace.pool]
        BY <3>2
      <4> HIDE DEF l
      <4>2. l = <<>>
        BY <4>1
      <4> QED
        BY <4>2 DEF l
    <3>4. trace.take <= Len(Shuffled)
      BY <2>3, <3>1, <3>2
    <3>5. FairOf(Strata, Len(Shuffled), trace.take, Stratified)
      BY <2>3, <3>3, <3>4, DrawnFair
    <3> QED
      BY <2>1, <2>2, <2>3, <3>1, <3>5 DEF FairInv
  <2>5. CASE ~(loaded' = "yes" /\ trace.stratified)
    BY <2>1, <2>3, <2>5 DEF FairInv
  <2> QED
    BY <2>4, <2>5
<1>3. CASE Begin
  BY <1>1, <1>3 DEF Begin
<1>4. CASE Draw
  BY <1>1, <1>4 DEF Draw
<1>5. CASE End
  BY <1>1, <1>5 DEF End
<1>6. ASSUME NEW u \in DOMAIN unit, Send(u) PROVE FairInv'
  BY <1>1, <1>6 DEF Send
<1>7. ASSUME NEW u \in DOMAIN unit, NEW how \in {"text", "empty", "failed"}, Answer(u, how) PROVE FairInv'
  BY <1>1, <1>7 DEF Answer
<1>8. CASE UNCHANGED vars
  BY <1>1, <1>8 DEF vars
<1> QED
  BY <1>2, <1>3, <1>4, <1>5, <1>6, <1>7, <1>8 DEF Next, Over

LEMMA FairIs == FairInv => SampleIsFair
  BY Zenon DEF FairInv, FairOf, SampleIsFair

-------------------------------------------------------------------------------
(* The identity check. *)

\* A play is a session of the pool and its number, at one of its turns; one that waits or failed has sent it.
PlayIs(u) ==
  /\ u = <<u[1], u[2]>> /\ u[1] \in DOMAIN trace.pool /\ u[2] \in Nat /\ (~trace.recycled => u[2] = 0)
  /\ unit[u] \in [n : Nat, last : {"ok", "sent", "failed"}]
  /\ unit[u].n <= TurnsOf(u) /\ (unit[u].last # "ok" => unit[u].n > 0)

\* The turns of the plays sent so far.
SentKeys == {k \in (DOMAIN unit) \X (1 .. MaxTurns) : k[2] <= unit[k[1]].n}

\* The k-th play of a recycled replay, and those of the first k.
PlayAt(k) == <<sample[1 + (k % Len(sample))], k \div Len(sample)>>
PlaysBefore(k) == {PlayAt(j) : j \in 0 .. k - 1}

\* A replay that runs has a sample of its pool, no session twice, and only a one-shot replay has the engine's replies.
SampleInv ==
  Running => /\ Len(sample) \in Nat \ {0} /\ sample \in [1 .. Len(sample) -> DOMAIN trace.pool]
             /\ \A i, j \in 1 .. Len(sample) : sample[i] = sample[j] => i = j
             /\ ~(trace.live /\ trace.recycled)

\* Nothing is sent before a pass begins, and the messages are as the plan froze them unless replies are live.
TextInv ==
  /\ verdict # "before" => Running
  /\ verdict = "before" => unit = <<>> /\ executed = <<>> /\ said = {} /\ seen = <<>>
  /\ loaded # "no" /\ ~trace.live => text = frozen
  /\ DOMAIN text = (DOMAIN trace.pool) \X (1 .. MaxTurns)
  /\ trace.live => \A k \in said : text[<<k[1][1], k[2]>>] = pass

\* The plays are there with their turns so far, those of a recycled replay in the order they are drawn in.
PlaysInv ==
  /\ \A u \in DOMAIN unit : PlayIs(u)
  /\ trace.recycled => \E k \in Nat : /\ IsFiniteSet(DOMAIN unit) /\ Cardinality(DOMAIN unit) = k
                                      /\ DOMAIN unit = PlaysBefore(k)

\* Each turn sent has its digest, as planned, and its prompt, with this pass's replies.
SentInv ==
  /\ DOMAIN executed = SentKeys /\ DOMAIN seen = SentKeys
  /\ \A k \in SentKeys : executed[k] = Planned(k[1], k[2])
  /\ \A k \in SentKeys : \E texts : seen[k] = Prompt(k[1], k[2], texts)
  /\ \A k \in SentKeys : \A i \in 1 .. k[2] - 1 : trace.live /\ <<k[1], i>> \in said => seen[k].replies[i] = pass

KeptInv ==
  /\ MaxTurns \in Nat /\ trace \in Traces
  /\ loaded \in {"no", "yes", "refused"} /\ verdict \in {"before", "none", "match"}
  /\ SampleInv /\ TextInv /\ PlaysInv /\ SentInv

LEMMA KeptStart == PoolsAssumption /\ Init => KeptInv
<1> SUFFICES ASSUME PoolsAssumption, Init PROVE KeptInv
  OBVIOUS
<1>1. MaxTurns \in Nat /\ trace \in Traces
  BY DEF PoolsAssumption, Init, Traces, Sessions
<1>2. unit = <<>> /\ executed = <<>> /\ said = {} /\ seen = <<>> /\ verdict = "before" /\ loaded = "no"
  BY DEF Init
<1>3. DOMAIN unit = {} /\ DOMAIN executed = {} /\ DOMAIN seen = {} /\ SentKeys = {}
  BY <1>2 DEF SentKeys
<1>4. SentInv
  BY <1>3 DEF SentInv
<1>5. PlaysInv
  <2>1. PlaysBefore(0) = {} /\ IsFiniteSet({}) /\ Cardinality({}) = 0
    BY FS_EmptySet DEF PlaysBefore
  <2> QED
    BY <1>3, <2>1 DEF PlaysInv
<1>6. TextInv
  BY <1>2 DEF Init, TextInv
<1>7. SampleInv
  BY <1>2 DEF SampleInv, Running
<1> QED
  BY <1>1, <1>2, <1>4, <1>5, <1>6, <1>7 DEF KeptInv

\* What a play sends depends on the texts only in the replies between its turns.
LEMMA DigestIs ==
  ASSUME NEW u, NEW t, trace.live \/ text = frozen
  PROVE  SentDigest(Prompt(u, t, text)) = Planned(u, t)
<1>1. CASE ~trace.live
  BY <1>1 DEF SentDigest, Planned
<1>2. CASE trace.live
  <2> DEFINE users == [i \in 1 .. t |-> IF i = 1 /\ trace.recycled /\ trace.salt = "text" THEN <<u[1], i, Tag(u)>> ELSE <<u[1], i>>]
             salted == IF trace.recycled /\ trace.salt = "cache_salt" THEN Tag(u) ELSE <<>>
             replies(texts) == [i \in 1 .. t - 1 |-> texts[<<u[1], i>>]]
  <2>1. \A texts : Prompt(u, t, texts) = [users |-> users, replies |-> replies(texts), salt |-> salted]
    BY DEF Prompt
  <2> HIDE DEF users, salted, replies
  <2>2. \A texts : SentDigest(Prompt(u, t, texts)) = [users |-> users, replies |-> <<>>, salt |-> salted]
    BY <1>2, <2>1 DEF SentDigest
  <2> QED
    BY <2>2 DEF Planned
<1> QED
  BY <1>1, <1>2

LEMMA SameKeys == UNCHANGED <<trace, unit>> => SentKeys' = SentKeys
BY DEF SentKeys

LEMMA LoadKeeps ==
  ASSUME KeptInv, Load
  PROVE  KeptInv'
<1>1. loaded = "no" /\ loaded' \in {"yes", "refused"} /\ frozen' = text
      /\ UNCHANGED <<trace, text, pass, unit, executed, said, seen, verdict>>
  BY DEF Load
<1>2. verdict = "before"
  BY <1>1 DEF KeptInv, TextInv, Running
<1>3. SentInv'
  <2>1. SentKeys' = SentKeys
    BY <1>1, SameKeys
  <2>2. unit = <<>>
    BY <1>2 DEF KeptInv, TextInv
  <2>3. SentKeys = {}
    BY <2>2 DEF SentKeys
  <2>4. DOMAIN executed' = {} /\ DOMAIN seen' = {}
    BY <1>1, <2>3 DEF KeptInv, SentInv
  <2> QED
    BY <2>1, <2>3, <2>4 DEF SentInv
<1>4. PlaysInv'
  <2>1. unit = <<>> /\ unit' = <<>> /\ DOMAIN unit' = {}
    BY <1>1, <1>2 DEF KeptInv, TextInv
  <2>2. PlaysBefore(0)' = {} /\ IsFiniteSet({}) /\ Cardinality({}) = 0
    BY FS_EmptySet DEF PlaysBefore
  <2> QED
    BY <2>1, <2>2 DEF PlaysInv
<1>5. TextInv'
  BY <1>1, <1>2 DEF KeptInv, TextInv
<1>6. SampleInv'
  <2> SUFFICES ASSUME Running' PROVE SampleInv'
    BY DEF SampleInv
  <2>1. loaded' = "yes" /\ ~trace.stratified /\ trace.take = 0
    BY <1>1 DEF Running
  <2>2. sample' = Shuffled /\ Shuffled # <<>> /\ ~(trace.live /\ trace.recycled)
    BY <2>1 DEF Load
  <2>3. trace.pool \in Seq(Sessions)
    BY DEF KeptInv, Traces
  <2>4. /\ Len(Shuffled) \in Nat /\ Shuffled \in [1 .. Len(Shuffled) -> DOMAIN trace.pool]
        /\ \A i, j \in 1 .. Len(Shuffled) : Shuffled[i] = Shuffled[j] => i = j
    BY <2>3, ShuffledIs
  <2>5. Len(Shuffled) # 0
    BY <2>2, <2>4
  <2> QED
    BY <1>1, <2>2, <2>4, <2>5 DEF SampleInv
<1> QED
  BY <1>1, <1>3, <1>4, <1>5, <1>6 DEF KeptInv

\* A dict's entry set: the key is there, its value is the one given, and the others are as they were.
LEMMA PutIs ==
  ASSUME NEW f, NEW key, NEW value
  PROVE  /\ DOMAIN Put(f, key, value) = DOMAIN f \cup {key} /\ Put(f, key, value)[key] = value
         /\ \A k \in DOMAIN f : k # key => Put(f, key, value)[k] = f[k]
BY DEF Put

\* A pass begins with nothing sent.
LEMMA NoneSent ==
  ASSUME \A u \in DOMAIN unit' : unit'[u].n = 0, DOMAIN executed' = {}, DOMAIN seen' = {}
  PROVE  SentInv'
<1>1. SentKeys' = {}
  <2>1. \A k \in SentKeys' : k[2] \in Nat /\ k[2] > 0 /\ k[2] <= 0
    BY DEF SentKeys
  <2>2. \A k \in SentKeys' : FALSE
    BY <2>1
  <2> QED
    BY <2>2
<1> QED
  BY <1>1 DEF SentInv

LEMMA BeginKeeps ==
  ASSUME KeptInv, Begin
  PROVE  KeptInv'
<1>1. Running /\ verdict' = "none" /\ executed' = <<>> /\ said' = {} /\ seen' = <<>> /\ pass' = pass + 1
      /\ UNCHANGED <<trace, loaded, sample, frozen, text>>
      /\ unit' = IF trace.recycled THEN <<>> ELSE [u \in ToSet(sample) \X {0} |-> [n |-> 0, last |-> "ok"]]
  BY DEF Begin
<1>2. Running' /\ SampleInv'
  BY <1>1 DEF KeptInv, SampleInv, Running
<1>3. \A u \in DOMAIN unit' : unit'[u] = [n |-> 0, last |-> "ok"] /\ ~trace.recycled /\ u \in ToSet(sample) \X {0}
  BY <1>1
<1>4. \A u \in DOMAIN unit' : PlayIs(u)'
  <2> SUFFICES ASSUME NEW u \in DOMAIN unit' PROVE PlayIs(u)'
    OBVIOUS
  <2>1. unit'[u] = [n |-> 0, last |-> "ok"] /\ u \in ToSet(sample) \X {0}
    BY <1>3
  <2>2. PICK i \in DOMAIN sample : u = <<sample[i], 0>>
    BY <2>1 DEF ToSet
  <2>3. sample[i] \in DOMAIN trace.pool
    BY <1>1, <2>2 DEF KeptInv, SampleInv
  <2>4. TurnsOf(u)' \in Nat
    <3>1. trace.pool[sample[i]] \in Sessions
      BY <2>3 DEF KeptInv, Traces
    <3>2. TurnsOf(u)' = Fitting(trace.pool[sample[i]])
      BY <1>1, <2>2 DEF TurnsOf, Session, Fitting
    <3> QED
      BY <3>1, <3>2, FittingIs DEF KeptInv
  <2>5. u = <<u[1], u[2]>> /\ u[1] = sample[i] /\ u[2] = 0
    BY <2>2
  <2> QED
    BY <1>1, <2>1, <2>3, <2>4, <2>5 DEF PlayIs
<1>5. PlaysInv'
  <2>1. trace'.recycled => DOMAIN unit' = {}
    BY <1>1
  <2>2. PlaysBefore(0)' = {} /\ IsFiniteSet({}) /\ Cardinality({}) = 0
    BY FS_EmptySet DEF PlaysBefore
  <2>3. trace'.recycled => \E k \in Nat : /\ IsFiniteSet(DOMAIN unit') /\ Cardinality(DOMAIN unit') = k
                                          /\ DOMAIN unit' = PlaysBefore(k)'
    BY <2>1, <2>2
  <2> QED
    BY <1>4, <2>3, Zenon DEF PlaysInv
<1>6. SentInv'
  BY <1>1, <1>3, NoneSent
<1>7. TextInv'
  BY <1>1, <1>2 DEF KeptInv, TextInv
<1> QED
  BY <1>1, <1>2, <1>5, <1>6, <1>7 DEF KeptInv

\* Two of a recycled replay's plays are of different sessions, or differently numbered.
LEMMA PlaysDiffer ==
  ASSUME NEW L \in Nat \ {0}, NEW f, \A i, j \in 1 .. L : f[i] = f[j] => i = j, NEW a \in Nat, NEW b \in Nat,
         f[1 + (a % L)] = f[1 + (b % L)], a \div L = b \div L
  PROVE  a = b
<1>1. a % L \in 0 .. L - 1 /\ b % L \in 0 .. L - 1 /\ a = L * (a \div L) + (a % L) /\ b = L * (b \div L) + (b % L)
  OBVIOUS
<1>2. 1 + (a % L) \in 1 .. L /\ 1 + (b % L) \in 1 .. L
  BY <1>1
<1>3. 1 + (a % L) = 1 + (b % L)
  BY <1>2, Zenon
<1>4. a % L = b % L
  BY <1>1, <1>3
<1> QED
  BY <1>1, <1>4, Zenon

LEMMA DrawKeeps ==
  ASSUME KeptInv, Draw
  PROVE  KeptInv'
<1> DEFINE L == Len(sample)
<1>0. PICK c, v : c = Cardinality(DOMAIN unit) /\ v = PlayAt(c)
  OBVIOUS
<1>1. Running /\ verdict = "none" /\ trace.recycled /\ unit' = Put(unit, v, [n |-> 0, last |-> "ok"])
      /\ UNCHANGED <<trace, loaded, sample, frozen, text, pass, executed, said, seen, verdict>>
  BY <1>0 DEF Draw, PlayAt
<1>2. L \in Nat \ {0} /\ sample \in [1 .. L -> DOMAIN trace.pool] /\ \A i, j \in 1 .. L : sample[i] = sample[j] => i = j
  BY <1>1 DEF KeptInv, SampleInv
<1>3. c \in Nat /\ IsFiniteSet(DOMAIN unit) /\ DOMAIN unit = PlaysBefore(c)
  BY <1>0, <1>1 DEF KeptInv, PlaysInv
<1> HIDE DEF L
<1>4. \A j \in Nat : PlayAt(j) = <<sample[1 + (j % L)], j \div L>>
  BY DEF PlayAt, L
<1>5. v \notin DOMAIN unit
  <2> SUFFICES ASSUME NEW j \in 0 .. c - 1, v = PlayAt(j) PROVE FALSE
    BY <1>3, Zenon DEF PlaysBefore
  <2>1. j \in Nat /\ j # c
    BY <1>3
  <2>2. sample[1 + (j % L)] = sample[1 + (c % L)] /\ j \div L = c \div L
    <3>1. <<sample[1 + (j % L)], j \div L>> = <<sample[1 + (c % L)], c \div L>>
      BY <1>0, <1>3, <1>4, <2>1, Zenon
    <3> QED
      BY <3>1
  <2>3. j = c
    BY <1>2, <1>3, <2>1, <2>2, PlaysDiffer, Zenon
  <2> QED
    BY <2>1, <2>3
<1>6. DOMAIN unit' = DOMAIN unit \cup {v} /\ unit'[v] = [n |-> 0, last |-> "ok"] /\ \A u \in DOMAIN unit : unit'[u] = unit[u]
  <2>1. DOMAIN unit' = DOMAIN unit \cup {v} /\ unit'[v] = [n |-> 0, last |-> "ok"]
    BY <1>1 DEF Put
  <2>2. \A u \in DOMAIN unit : unit'[u] = unit[u]
    <3> SUFFICES ASSUME NEW u \in DOMAIN unit PROVE unit'[u] = unit[u]
      OBVIOUS
    <3>1. u # v
      BY <1>5
    <3> QED
      BY <1>1, <3>1 DEF Put
  <2> QED
    BY <2>1, <2>2
<1>7. PlaysInv'
  <2>1. PlayIs(v)'
    <3>1. c % L \in 0 .. L - 1 /\ c \div L \in Nat
      BY <1>2, <1>3
    <3>2. 1 + (c % L) \in 1 .. L
      BY <1>2, <3>1
    <3>3. v = <<sample[1 + (c % L)], c \div L>>
      BY <1>0, <1>3, <1>4
    <3>4. v = <<v[1], v[2]>> /\ v[1] \in DOMAIN trace.pool /\ v[2] \in Nat
      BY <1>2, <3>1, <3>2, <3>3
    <3>5. TurnsOf(v)' \in Nat
      <4>1. trace.pool[v[1]] \in Sessions
        BY <3>4 DEF KeptInv, Traces
      <4>2. TurnsOf(v)' = Fitting(trace.pool[v[1]])
        BY <1>1 DEF TurnsOf, Session, Fitting
      <4> QED
        BY <4>1, <4>2, FittingIs DEF KeptInv
    <3>6. unit'[v].n = 0 /\ unit'[v].last = "ok" /\ unit'[v] \in [n : Nat, last : {"ok", "sent", "failed"}]
      BY <1>6
    <3> QED
      BY <1>1, <3>4, <3>5, <3>6 DEF PlayIs
  <2>2. ASSUME NEW u \in DOMAIN unit PROVE PlayIs(u)'
    <3>1. PlayIs(u)
      BY DEF KeptInv, PlaysInv
    <3>2. TurnsOf(u)' = TurnsOf(u)
      BY <1>1 DEF TurnsOf, Session, Fitting
    <3>3. unit'[u] = unit[u] /\ trace' = trace
      BY <1>1, <1>6
    <3> QED
      BY <3>1, <3>2, <3>3, Zenon DEF PlayIs
  <2>3. PlaysBefore(c + 1)' = PlaysBefore(c) \cup {v}
    <3>1. \A j : PlayAt(j)' = PlayAt(j)
      BY <1>1 DEF PlayAt
    <3>2. 0 .. (c + 1) - 1 = (0 .. c - 1) \cup {c}
      BY <1>3
    <3>3. PlaysBefore(c + 1)' = {PlayAt(j)' : j \in 0 .. (c + 1) - 1}
      BY DEF PlaysBefore
    <3>4. PlaysBefore(c + 1)' = {PlayAt(j) : j \in (0 .. c - 1) \cup {c}}
      BY <3>1, <3>2, <3>3, Zenon
    <3> QED
      BY <1>0, <3>4, Zenon DEF PlaysBefore
  <2>4. IsFiniteSet(DOMAIN unit') /\ Cardinality(DOMAIN unit') = c + 1
    <3>1. IsFiniteSet(DOMAIN unit \cup {v}) /\ Cardinality(DOMAIN unit \cup {v}) = Cardinality(DOMAIN unit) + 1
      BY <1>3, <1>5, FS_AddElement
    <3> QED
      BY <1>0, <1>6, <3>1, Zenon
  <2>5. DOMAIN unit' = PlaysBefore(c + 1)' /\ c + 1 \in Nat
    BY <1>3, <1>6, <2>3
  <2>6. \A u \in DOMAIN unit' : PlayIs(u)'
    BY <1>6, <2>1, <2>2, Zenon
  <2> QED
    BY <2>4, <2>5, <2>6, Zenon DEF PlaysInv
<1>8. SentKeys' = SentKeys
  <2>1. \A t \in 1 .. MaxTurns : ~(t <= 0)
    BY DEF KeptInv
  <2>2. unit'[v].n = 0
    BY <1>6
  <2>3. SentKeys' = {k \in (DOMAIN unit') \X (1 .. MaxTurns) : k[2] <= unit'[k[1]].n}
    BY DEF SentKeys
  <2>4. ASSUME NEW k PROVE k \in SentKeys' <=> k \in SentKeys
    <3>1. CASE k \in SentKeys'
      <4>1. k \in (DOMAIN unit') \X (1 .. MaxTurns) /\ k[2] <= unit'[k[1]].n
        BY <2>3, <3>1
      <4>2. k[1] # v
        BY <2>1, <2>2, <4>1
      <4>3. k[1] \in DOMAIN unit /\ unit'[k[1]] = unit[k[1]]
        BY <1>6, <4>1, <4>2
      <4> QED
        BY <3>1, <4>1, <4>3 DEF SentKeys
    <3>2. CASE k \in SentKeys
      BY <1>6, <2>3, <3>2 DEF SentKeys
    <3> QED
      BY <3>1, <3>2
  <2> QED
    BY <2>4
<1>9. SentInv'
  <2>1. \A u, t, x : Planned(u, t)' = Planned(u, t) /\ Prompt(u, t, x)' = Prompt(u, t, x)
    BY <1>1 DEF Planned, Prompt, SentDigest
  <2>2. SentInv
    BY DEF KeptInv
  <2> QED
    BY <1>1, <1>8, <2>1, <2>2 DEF SentInv
<1>10. SampleInv' /\ TextInv'
  BY <1>1 DEF KeptInv, SampleInv, TextInv, Running
<1> QED
  BY <1>1, <1>7, <1>9, <1>10 DEF KeptInv

\* A play's request is sent: one key more, with its digest and prompt.
LEMMA SendKeeps ==
  ASSUME KeptInv, NEW u \in DOMAIN unit, Send(u)
  PROVE  KeptInv'
<1> DEFINE t == unit[u].n + 1
           p == Prompt(u, t, text)
           x == <<u, t>>
<1>1. /\ unit[u].last = "ok" /\ unit[u].n < TurnsOf(u)
      /\ unit' = [unit EXCEPT ![u] = [n |-> t, last |-> "sent"]]
      /\ executed' = Put(executed, x, SentDigest(p)) /\ seen' = Put(seen, x, p)
      /\ UNCHANGED <<trace, loaded, sample, frozen, text, pass, said, verdict>>
  BY DEF Send
<1>2. PlayIs(u) /\ u[1] \in DOMAIN trace.pool
  BY DEF KeptInv, PlaysInv, PlayIs
<1>3. TurnsOf(u) \in 0 .. MaxTurns /\ MaxTurns \in Nat
  <2>1. trace.pool[u[1]] \in Sessions
    BY <1>2 DEF KeptInv, Traces
  <2> QED
    BY <2>1, FittingIs DEF KeptInv, TurnsOf, Session
<1>4. unit[u].n \in Nat /\ t \in 1 .. MaxTurns /\ t <= TurnsOf(u)
  BY <1>1, <1>2, <1>3 DEF PlayIs
<1>5. verdict # "before"
  <2>1. verdict = "before" => unit = <<>>
    BY DEF KeptInv, TextInv
  <2> QED
    BY <2>1
<1>6. Running /\ (trace.live \/ text = frozen)
  BY <1>5 DEF KeptInv, TextInv, Running
<1> HIDE DEF t, p
<1>7. DOMAIN unit' = DOMAIN unit /\ unit'[u] = [n |-> t, last |-> "sent"] /\ \A v \in DOMAIN unit : v # u => unit'[v] = unit[v]
  BY <1>1
<1>8. SentKeys' = SentKeys \cup {x} /\ x \notin SentKeys /\ \A k \in SentKeys : k # x
  <2>1. SentKeys' = {k \in (DOMAIN unit) \X (1 .. MaxTurns) : k[2] <= unit'[k[1]].n}
    BY <1>7 DEF SentKeys
  <2>2. x \in (DOMAIN unit) \X (1 .. MaxTurns) /\ x[1] = u /\ x[2] = t
    BY <1>4
  <2>3. unit'[u].n = t /\ t = unit[u].n + 1
    BY <1>7 DEF t
  <2>4. x \notin SentKeys
    BY <1>4, <2>2, <2>3 DEF SentKeys
  <2>5. x \in SentKeys'
    BY <1>4, <2>1, <2>2, <2>3
  <2>6. ASSUME NEW k \in (DOMAIN unit) \X (1 .. MaxTurns), k # x
        PROVE  k[2] <= unit'[k[1]].n <=> k[2] <= unit[k[1]].n
    <3>1. CASE k[1] # u
      BY <1>7, <3>1
    <3>2. CASE k[1] = u
      <4>1. k = <<u, k[2]>> /\ k[2] \in Nat
        BY <1>3, <3>2
      <4>2. k[2] # t
        BY <2>6, <4>1
      <4> QED
        BY <1>4, <2>3, <3>2, <4>1, <4>2
    <3> QED
      BY <3>1, <3>2
  <2> HIDE DEF x
  <2>7. SentKeys = {k \in (DOMAIN unit) \X (1 .. MaxTurns) : k[2] <= unit[k[1]].n}
    BY DEF SentKeys
  <2>8. \A k : k \in SentKeys' <=> k \in SentKeys \cup {x}
    BY <2>1, <2>2, <2>5, <2>6, <2>7, Zenon
  <2> QED
    BY <2>4, <2>8
<1>9. /\ \A v, s, y : Planned(v, s)' = Planned(v, s) /\ Prompt(v, s, y)' = Prompt(v, s, y)
      /\ \A v : TurnsOf(v)' = TurnsOf(v)
  BY <1>1 DEF Planned, Prompt, SentDigest, TurnsOf, Session, Fitting
<1>10. /\ DOMAIN executed' = SentKeys' /\ executed'[x] = SentDigest(p) /\ \A k \in SentKeys : executed'[k] = executed[k]
       /\ DOMAIN seen' = SentKeys' /\ seen'[x] = p /\ \A k \in SentKeys : seen'[k] = seen[k]
  <2>1. DOMAIN executed = SentKeys /\ DOMAIN seen = SentKeys
    BY DEF KeptInv, SentInv
  <2> HIDE DEF x
  <2>2. DOMAIN executed' = SentKeys \cup {x} /\ DOMAIN seen' = SentKeys \cup {x}
    BY <1>1, <2>1, PutIs, ZenonT(60)
  <2>3. executed'[x] = SentDigest(p) /\ seen'[x] = p
    BY <1>1 DEF Put
  <2>4. ASSUME NEW k \in SentKeys PROVE executed'[k] = executed[k] /\ seen'[k] = seen[k]
    <3>1. k # x
      BY <1>8
    <3> QED
      BY <1>1, <2>1, <3>1 DEF Put
  <2> QED
    BY <1>8, <2>2, <2>3, <2>4
<1>11. SentInv'
  <2>1. x[1] = u /\ x[2] = t
    OBVIOUS
  <2>2. SentDigest(p) = Planned(u, t)
    BY <1>6, DigestIs DEF p
  <2>3. \A k \in SentKeys' : executed'[k] = Planned(k[1], k[2])'
    <3>1. \A k \in SentKeys : executed[k] = Planned(k[1], k[2])
      BY DEF KeptInv, SentInv
    <3> HIDE DEF x
    <3> SUFFICES ASSUME NEW k \in SentKeys' PROVE executed'[k] = Planned(k[1], k[2])'
      OBVIOUS
    <3>2. Planned(k[1], k[2])' = Planned(k[1], k[2])
      BY <1>9
    <3>3. CASE k = x
      BY <1>10, <2>1, <2>2, <3>2, <3>3
    <3>4. CASE k \in SentKeys
      BY <1>10, <3>1, <3>2, <3>4
    <3> QED
      BY <1>8, <3>3, <3>4
  <2>4. \A k \in SentKeys' : \E y : seen'[k] = Prompt(k[1], k[2], y)'
    <3>1. \A k \in SentKeys : \E y : seen[k] = Prompt(k[1], k[2], y)
      BY DEF KeptInv, SentInv
    <3>2. p = Prompt(u, t, text)
      BY DEF p
    <3> HIDE DEF x
    <3> SUFFICES ASSUME NEW k \in SentKeys' PROVE \E y : seen'[k] = Prompt(k[1], k[2], y)'
      OBVIOUS
    <3>3. CASE k = x
      <4>1. Prompt(k[1], k[2], text)' = Prompt(k[1], k[2], text)
        BY <1>1, <1>9
      <4>2. seen'[k] = Prompt(k[1], k[2], text)'
        BY <1>10, <2>1, <3>2, <3>3, <4>1
      <4> QED
        BY <4>2
    <3>4. CASE k \in SentKeys
      <4>1. PICK y : seen[k] = Prompt(k[1], k[2], y)
        BY <3>1, <3>4
      <4>2. Prompt(k[1], k[2], y)' = Prompt(k[1], k[2], y)
        BY <1>9
      <4> QED
        BY <1>10, <3>4, <4>1, <4>2
    <3> QED
      BY <1>8, <3>3, <3>4
  <2>5. \A i \in 1 .. t - 1 : trace.live /\ <<u, i>> \in said => p.replies[i] = pass
    <3> SUFFICES ASSUME NEW i \in 1 .. t - 1, trace.live, <<u, i>> \in said PROVE p.replies[i] = pass
      OBVIOUS
    <3>1. p.replies[i] = text[<<u[1], i>>]
      BY DEF p, Prompt
    <3>2. text[<<u[1], i>>] = pass
      BY DEF KeptInv, TextInv
    <3> QED
      BY <3>1, <3>2
  <2>6. \A k \in SentKeys' : \A i \in 1 .. k[2] - 1 : trace'.live /\ <<k[1], i>> \in said' => seen'[k].replies[i] = pass'
    <3>1. \A k \in SentKeys : \A i \in 1 .. k[2] - 1 : trace.live /\ <<k[1], i>> \in said => seen[k].replies[i] = pass
      BY DEF KeptInv, SentInv
    <3>2. trace' = trace /\ said' = said /\ pass' = pass
      BY <1>1
    <3> HIDE DEF x
    <3> SUFFICES ASSUME NEW k \in SentKeys', NEW i \in 1 .. k[2] - 1, trace.live, <<k[1], i>> \in said
                 PROVE  seen'[k].replies[i] = pass
      BY <3>2
    <3>3. CASE k = x
      BY <1>10, <2>1, <2>5, <3>3
    <3>4. CASE k \in SentKeys
      BY <1>10, <3>1, <3>4
    <3> QED
      BY <1>8, <3>3, <3>4
  <2> QED
    BY <1>10, <2>3, <2>4, <2>6 DEF SentInv
<1>12. PlaysInv'
  <2>1. \A v \in DOMAIN unit' : PlayIs(v)'
    <3> SUFFICES ASSUME NEW v \in DOMAIN unit PROVE PlayIs(v)'
      BY <1>7
    <3>1. PlayIs(v)
      BY DEF KeptInv, PlaysInv
    <3>2. CASE v # u
      BY <1>1, <1>7, <1>9, <3>1, <3>2 DEF PlayIs
    <3>3. CASE v = u
      BY <1>1, <1>3, <1>4, <1>7, <1>9, <3>1, <3>3 DEF PlayIs
    <3> QED
      BY <3>2, <3>3
  <2>2. \A k : PlaysBefore(k)' = PlaysBefore(k)
    BY <1>1 DEF PlaysBefore, PlayAt
  <2> QED
    BY <1>1, <1>7, <2>1, <2>2 DEF KeptInv, PlaysInv
<1>13. SampleInv' /\ TextInv'
  BY <1>1, <1>5 DEF KeptInv, SampleInv, TextInv, Running
<1> QED
  BY <1>1, <1>11, <1>12, <1>13 DEF KeptInv

\* A reply comes after the last prompt of its play, and into the next ones.
LEMMA AnswerKeeps ==
  ASSUME KeptInv, NEW u \in DOMAIN unit, NEW how \in {"text", "empty", "failed"}, Answer(u, how)
  PROVE  KeptInv'
<1> DEFINE n == unit[u].n
           x == <<u, n>>
           l == IF how = "failed" THEN "failed" ELSE "ok"
<1>1. /\ unit[u].last = "sent" /\ unit' = [unit EXCEPT ![u].last = l]
      /\ said' = IF how = "text" THEN said \cup {x} ELSE said
      /\ text' = IF how = "text" /\ trace.live THEN [text EXCEPT ![<<u[1], n>>] = pass] ELSE text
      /\ UNCHANGED <<trace, loaded, sample, frozen, pass, executed, seen, verdict>>
  BY DEF Answer, FedBack
<1>2. PlayIs(u)
  BY DEF KeptInv, PlaysInv
<1>3. u[1] \in DOMAIN trace.pool /\ n \in 1 .. MaxTurns /\ unit[u] \in [n : Nat, last : {"ok", "sent", "failed"}]
  <2>1. u[1] \in DOMAIN trace.pool /\ unit[u] \in [n : Nat, last : {"ok", "sent", "failed"}] /\ n <= TurnsOf(u) /\ n > 0
    BY <1>1, <1>2 DEF PlayIs
  <2>2. trace.pool[u[1]] \in Sessions
    BY <2>1 DEF KeptInv, Traces
  <2>3. TurnsOf(u) \in 0 .. MaxTurns /\ MaxTurns \in Nat
    BY <2>2, FittingIs DEF KeptInv, TurnsOf, Session
  <2> QED
    BY <2>1, <2>3
<1>4. DOMAIN unit' = DOMAIN unit /\ unit'[u] = [n |-> n, last |-> l] /\ \A v \in DOMAIN unit : v # u => unit'[v] = unit[v]
  BY <1>1, <1>3
<1> HIDE DEF n, l
<1>5. \A v \in DOMAIN unit : unit'[v].n = unit[v].n
  BY <1>4 DEF n
<1>6. SentKeys' = SentKeys
  BY <1>4, <1>5 DEF SentKeys
<1>7. verdict # "before" /\ Running
  <2>1. verdict = "before" => unit = <<>>
    BY DEF KeptInv, TextInv
  <2>2. verdict # "before"
    BY <2>1
  <2> QED
    BY <2>2 DEF KeptInv, TextInv
<1>8. /\ \A v, s, y : Planned(v, s)' = Planned(v, s) /\ Prompt(v, s, y)' = Prompt(v, s, y)
      /\ \A v : TurnsOf(v)' = TurnsOf(v)
  BY <1>1 DEF Planned, Prompt, SentDigest, TurnsOf, Session, Fitting
<1>9. SentInv'
  <2>1. SentInv
    BY DEF KeptInv
  <2>2. \A k \in SentKeys : \A i \in 1 .. k[2] - 1 : trace.live /\ <<k[1], i>> \in said' => seen[k].replies[i] = pass
    <3> SUFFICES ASSUME NEW k \in SentKeys, NEW i \in 1 .. k[2] - 1, trace.live, <<k[1], i>> \in said'
                 PROVE  seen[k].replies[i] = pass
      OBVIOUS
    <3>1. <<k[1], i>> # x
      <4>1. k[2] \in Nat /\ k[2] <= unit[k[1]].n /\ i < k[2]
        BY DEF KeptInv, SentKeys
      <4>2. k[1] = u => i < n
        BY <1>3, <4>1 DEF n
      <4> QED
        BY <1>3, <4>2
    <3>2. <<k[1], i>> \in said
      BY <1>1, <3>1
    <3> QED
      BY <2>1, <3>2 DEF SentInv
  <2> QED
    BY <1>1, <1>6, <1>8, <2>1, <2>2 DEF SentInv
<1>10. PlaysInv'
  <2>1. \A v \in DOMAIN unit' : PlayIs(v)'
    <3> SUFFICES ASSUME NEW v \in DOMAIN unit PROVE PlayIs(v)'
      BY <1>4
    <3>1. PlayIs(v)
      BY DEF KeptInv, PlaysInv
    <3>2. CASE v # u
      BY <1>1, <1>4, <1>8, <3>1, <3>2 DEF PlayIs
    <3>3. CASE v = u
      <4>1. unit'[u] \in [n : Nat, last : {"ok", "sent", "failed"}] /\ unit'[u].n = n /\ unit[u].n = n /\ n > 0
        BY <1>3, <1>4 DEF l, n
      <4> QED
        BY <1>1, <1>8, <3>1, <3>3, <4>1 DEF PlayIs
    <3> QED
      BY <3>2, <3>3
  <2>2. \A k : PlaysBefore(k)' = PlaysBefore(k)
    BY <1>1 DEF PlaysBefore, PlayAt
  <2> QED
    BY <1>1, <1>4, <2>1, <2>2 DEF KeptInv, PlaysInv
<1>11. TextInv'
  <2>1. TextInv
    BY DEF KeptInv
  <2>2. DOMAIN text' = DOMAIN text
    BY <1>1
  <2>3. <<u[1], n>> \in DOMAIN text
    BY <1>3, <2>1 DEF TextInv
  <2>4. trace.live => \A k \in said' : text'[<<k[1][1], k[2]>>] = pass
    <3> SUFFICES ASSUME trace.live, NEW k \in said' PROVE text'[<<k[1][1], k[2]>>] = pass
      OBVIOUS
    <3>1. CASE how # "text"
      BY <1>1, <2>1, <3>1 DEF TextInv
    <3>2. CASE how = "text"
      <4>1. text' = [text EXCEPT ![<<u[1], n>>] = pass]
        BY <1>1, <3>2
      <4>2. CASE k = x
        BY <2>3, <4>1, <4>2
      <4>3. CASE k \in said
        <5>1. text[<<k[1][1], k[2]>>] = pass
          BY <2>1, <4>3 DEF TextInv
        <5>2. CASE <<k[1][1], k[2]>> = <<u[1], n>>
          BY <2>3, <4>1, <5>2
        <5>3. CASE <<k[1][1], k[2]>> # <<u[1], n>>
          BY <4>1, <5>1, <5>3
        <5> QED
          BY <5>2, <5>3
      <4> QED
        BY <1>1, <3>2, <4>2, <4>3
    <3> QED
      BY <3>1, <3>2
  <2>5. Running'
    BY <1>1, <1>7 DEF Running
  <2> QED
    BY <1>1, <1>7, <2>1, <2>2, <2>4, <2>5 DEF TextInv
<1>12. SampleInv'
  BY <1>1 DEF KeptInv, SampleInv, Running
<1> QED
  BY <1>1, <1>9, <1>10, <1>11, <1>12 DEF KeptInv

\* A pass that is over sent each planned turn but those behind a failed one, and nothing else.
LEMMA EndKeeps ==
  ASSUME KeptInv, End
  PROVE  KeptInv'
<1>1. /\ \A u \in DOMAIN unit : unit[u].last = "failed" \/ (unit[u].last = "ok" /\ unit[u].n = TurnsOf(u))
      /\ verdict = "none" /\ verdict' = Identity
      /\ UNCHANGED <<trace, loaded, sample, frozen, text, pass, unit, executed, said, seen>>
  BY DEF End
<1>2. ASSUME NEW k \in DOMAIN executed PROVE k \in PlannedKeys /\ executed[k] = Planned(k[1], k[2])
  <2>1. k \in SentKeys /\ executed[k] = Planned(k[1], k[2])
    BY DEF KeptInv, SentInv
  <2>2. k \in (DOMAIN unit) \X (1 .. MaxTurns) /\ k[2] <= unit[k[1]].n /\ k[1] \in DOMAIN unit /\ k[2] \in 1 .. MaxTurns
    BY <2>1 DEF SentKeys
  <2>3. PlayIs(k[1]) /\ MaxTurns \in Nat
    BY <2>2 DEF KeptInv, PlaysInv
  <2>4. unit[k[1]].n \in Nat /\ unit[k[1]].n <= TurnsOf(k[1]) /\ TurnsOf(k[1]) \in Nat
    <3>1. k[1][1] \in DOMAIN trace.pool
      BY <2>3 DEF PlayIs
    <3>2. trace.pool[k[1][1]] \in Sessions
      BY <3>1 DEF KeptInv, Traces
    <3> QED
      BY <2>3, <3>2, FittingIs DEF TurnsOf, Session, PlayIs
  <2>5. k[2] <= TurnsOf(k[1]) /\ unit[k[1]].n > 0
    BY <2>2, <2>3, <2>4
  <2> QED
    BY <2>1, <2>2, <2>5 DEF PlannedKeys
<1>3. PlannedKeys \ NotSent \subseteq DOMAIN executed
  <2> SUFFICES ASSUME NEW k \in PlannedKeys, k \notin DOMAIN executed PROVE k \in NotSent
    OBVIOUS
  <2>1. k \in (DOMAIN unit) \X (1 .. MaxTurns) /\ k[2] <= TurnsOf(k[1]) /\ k[1] \in DOMAIN unit /\ k[2] \in Nat
    BY DEF PlannedKeys, KeptInv
  <2>2. ~(k[2] <= unit[k[1]].n)
    BY <2>1 DEF KeptInv, SentInv, SentKeys
  <2>3. unit[k[1]].n \in Nat
    BY <2>1 DEF KeptInv, PlaysInv, PlayIs
  <2>4. unit[k[1]].last = "failed" /\ k[2] > unit[k[1]].n
    BY <1>1, <2>1, <2>2, <2>3
  <2> QED
    BY <2>4 DEF NotSent
<1>4. Identity = "match"
  BY <1>2, <1>3 DEF Identity
<1>5. SampleInv' /\ TextInv'
  BY <1>1, <1>4 DEF KeptInv, SampleInv, TextInv, Running
<1>6. PlaysInv' /\ SentInv'
  <2>1. /\ \A v, s, y : Planned(v, s)' = Planned(v, s) /\ Prompt(v, s, y)' = Prompt(v, s, y)
        /\ \A v : TurnsOf(v)' = TurnsOf(v) /\ PlaysBefore(v)' = PlaysBefore(v)
    BY <1>1 DEF Planned, Prompt, SentDigest, TurnsOf, Session, Fitting, PlaysBefore, PlayAt
  <2>2. SentKeys' = SentKeys
    BY <1>1, SameKeys
  <2>3. SentInv'
    BY <1>1, <2>1, <2>2 DEF KeptInv, SentInv
  <2>4. PlaysInv'
    <3>1. \A v \in DOMAIN unit : PlayIs(v)'
      BY <1>1, <2>1 DEF KeptInv, PlaysInv, PlayIs
    <3> QED
      BY <1>1, <2>1, <3>1 DEF KeptInv, PlaysInv
  <2> QED
    BY <2>3, <2>4
<1> QED
  BY <1>1, <1>4, <1>5, <1>6 DEF KeptInv

LEMMA RestKeeps ==
  ASSUME KeptInv, UNCHANGED vars
  PROVE  KeptInv'
<1>1. SentKeys' = SentKeys /\ (\A u, t : Planned(u, t)' = Planned(u, t)) /\ \A u, t, x : Prompt(u, t, x)' = Prompt(u, t, x)
  BY DEF vars, SentKeys, Planned, Prompt, SentDigest
<1>2. SentInv'
  BY <1>1 DEF vars, KeptInv, SentInv
<1>3. \A u : TurnsOf(u)' = TurnsOf(u)
  BY DEF vars, TurnsOf, Session, Fitting
<1>4. \A u : PlayIs(u)' <=> PlayIs(u)
  BY <1>3 DEF vars, PlayIs
<1>5. \A k : PlaysBefore(k)' = PlaysBefore(k)
  BY DEF vars, PlaysBefore, PlayAt
<1>6. PlaysInv'
  BY <1>4, <1>5 DEF vars, KeptInv, PlaysInv
<1>7. SampleInv' /\ TextInv'
  BY DEF vars, KeptInv, SampleInv, TextInv, Running
<1> QED
  BY <1>2, <1>6, <1>7 DEF vars, KeptInv

LEMMA KeptNext == KeptInv /\ [Next]_vars => KeptInv'
<1> SUFFICES ASSUME KeptInv, [Next]_vars PROVE KeptInv'
  OBVIOUS
<1>1. CASE Load
  BY <1>1, LoadKeeps
<1>2. CASE Begin
  BY <1>2, BeginKeeps
<1>3. CASE Draw
  BY <1>3, DrawKeeps
<1>4. CASE End
  BY <1>4, EndKeeps
<1>5. ASSUME NEW u \in DOMAIN unit, Send(u) PROVE KeptInv'
  BY <1>5, SendKeeps
<1>6. ASSUME NEW u \in DOMAIN unit, NEW how \in {"text", "empty", "failed"}, Answer(u, how) PROVE KeptInv'
  BY <1>6, AnswerKeeps
<1>7. CASE UNCHANGED vars
  BY <1>7, RestKeeps
<1> QED
  BY <1>1, <1>2, <1>3, <1>4, <1>5, <1>6, <1>7 DEF Next, Over

\* Two prompts of one pass differ: in their turn, their session or their play's tag.
LEMMA PromptsDiffer ==
  ASSUME KeptInv, NEW k \in SentKeys, NEW l \in SentKeys, seen[k] = seen[l]
  PROVE  k = l
<1>1. PICK a, b : seen[k] = Prompt(k[1], k[2], a) /\ seen[l] = Prompt(l[1], l[2], b)
  BY DEF KeptInv, SentInv
<1> DEFINE users(u, t) == [i \in 1 .. t |-> IF i = 1 /\ trace.recycled /\ trace.salt = "text" THEN <<u[1], i, Tag(u)>> ELSE <<u[1], i>>]
           salted(u) == IF trace.recycled /\ trace.salt = "cache_salt" THEN Tag(u) ELSE <<>>
<1>2. users(k[1], k[2]) = users(l[1], l[2]) /\ salted(k[1]) = salted(l[1])
  <2>1. \A u, t, x : Prompt(u, t, x).users = users(u, t) /\ Prompt(u, t, x).salt = salted(u)
    BY DEF Prompt
  <2> HIDE DEF users, salted
  <2>2. seen[k].users = users(k[1], k[2]) /\ seen[k].salt = salted(k[1])
    <3>1. Prompt(k[1], k[2], a).users = users(k[1], k[2]) /\ Prompt(k[1], k[2], a).salt = salted(k[1])
      BY <2>1, Zenon
    <3> QED
      BY <1>1, <3>1
  <2>3. seen[l].users = users(l[1], l[2]) /\ seen[l].salt = salted(l[1])
    <3>1. Prompt(l[1], l[2], b).users = users(l[1], l[2]) /\ Prompt(l[1], l[2], b).salt = salted(l[1])
      BY <2>1, Zenon
    <3> QED
      BY <1>1, <3>1
  <2> QED
    BY <2>2, <2>3, Zenon
<1>3. /\ k[2] \in Nat /\ l[2] \in Nat /\ k[2] > 0 /\ l[2] > 0 /\ k = <<k[1], k[2]>> /\ l = <<l[1], l[2]>>
      /\ k[1] \in DOMAIN unit /\ l[1] \in DOMAIN unit
  BY DEF KeptInv, SentKeys
<1>4. k[2] = l[2]
  <2>1. DOMAIN users(k[1], k[2]) = 1 .. k[2] /\ DOMAIN users(l[1], l[2]) = 1 .. l[2]
    OBVIOUS
  <2>2. 1 .. k[2] = 1 .. l[2]
    BY <1>2, <2>1, Zenon
  <2> QED
    BY <1>3, <2>2
<1>5. users(k[1], k[2])[1] = users(l[1], l[2])[1] /\ 1 \in 1 .. k[2] /\ 1 \in 1 .. l[2]
  <2> HIDE DEF users, salted
  <2> QED
    BY <1>2, <1>3
<1>6. trace.salt \in {"text", "cache_salt"} /\ trace.recycled \in BOOLEAN
  BY DEF KeptInv, Traces
<1>7. /\ k[1] = <<k[1][1], k[1][2]>> /\ l[1] = <<l[1][1], l[1][2]>>
      /\ ~trace.recycled => k[1][2] = 0 /\ l[1][2] = 0
  BY <1>3 DEF KeptInv, PlaysInv, PlayIs
<1>8. k[1][1] = l[1][1] /\ k[1][2] = l[1][2]
  <2>1. CASE trace.recycled /\ trace.salt = "text"
    <3>1. <<k[1][1], 1, Tag(k[1])>> = <<l[1][1], 1, Tag(l[1])>>
      BY <1>5, <2>1
    <3> QED
      BY <3>1 DEF Tag
  <2>2. CASE ~(trace.recycled /\ trace.salt = "text")
    <3>1. <<k[1][1], 1>> = <<l[1][1], 1>>
      BY <1>5, <2>2
    <3>2. trace.recycled => Tag(k[1]) = Tag(l[1])
      BY <1>2, <1>6, <2>2
    <3> QED
      BY <1>7, <3>1, <3>2 DEF Tag
  <2> QED
    BY <2>1, <2>2
<1> QED
  BY <1>3, <1>4, <1>7, <1>8

LEMMA KeptIsPlan == KeptInv => PlanIsKept
<1> SUFFICES ASSUME KeptInv PROVE PlanIsKept
  OBVIOUS
<1>1. DOMAIN seen = SentKeys
  BY DEF KeptInv, SentInv
<1>2. \A k \in DOMAIN seen : \A i \in 1 .. k[2] - 1 : trace.live /\ <<k[1], i>> \in said => seen[k].replies[i] = pass
  BY DEF KeptInv, SentInv
<1>3. \A k, l \in DOMAIN seen : k # l => seen[k] # seen[l]
  BY <1>1, PromptsDiffer
<1>4. verdict \in {"before", "none", "match"}
  BY DEF KeptInv
<1> QED
  BY <1>2, <1>3, <1>4 DEF PlanIsKept

-------------------------------------------------------------------------------
(* The theorems. *)

\* A stratified sample (workloads/sessions.py, stratify and what calls it) is as large as asked for and holds no session
\* twice, each stratum has its share to within one, and two strata are played in turn until one has run out: for every
\* pool of sessions, and every number asked for.
THEOREM SampleFair == PoolsAssumption /\ Spec => []SampleIsFair
  BY FairStart, FairNext, FairIs, PTL DEF Spec

\* The identity check (modes/serve.py, identity; workloads/plan.py, sent_digest) finds nothing where the run sent its plan,
\* whichever turns failed and whatever was replied, a prompt holds the replies of its own pass, and no two prompts of a
\* pass are the same: for every pool, and any number of passes and plays.
THEOREM PlanKept == PoolsAssumption /\ Spec => []PlanIsKept
  BY KeptStart, KeptNext, KeptIsPlan, PTL DEF Spec
================================================================================
