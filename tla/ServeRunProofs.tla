----------------------------- MODULE ServeRunProofs -----------------------------
(***************************************************************************)
(* Proofs about what a serve run concludes (ServeRun): that run.json is    *)
(* true of its pass (RunVerdict), that a sweep brackets the highest        *)
(* passing speed (GoodputSearch), that a grid's cells are each timed in    *)
(* their own cache and judged by a whole fit (GridRun), that a success     *)
(* had its whole answer, timed and counted as it came (HttpStream), and    *)
(* that what was planned is what was asked for and what was sent           *)
(* (SessionPlan, by the proofs of SessionPlanProofs, and DrawnPlan).       *)
(***************************************************************************)
EXTENDS ServeRun, FiniteSetTheorems, WellFoundedInduction, NaturalsInduction, TLAPS

-------------------------------------------------------------------------------
(* The verdict (RunVerdict). *)

\* The requests that succeeded, and those that failed or went unsent, can be counted.
LEMMA Counts ==
  /\ \A m, p : /\ IsFiniteSet(Succeeded(m, p)) /\ IsFiniteSet(Failed(m, p)) /\ Cardinality(Succeeded(m, p)) \in Nat
               /\ Cardinality(Failed(m, p)) \in Nat
               /\ Cardinality(Succeeded(m, p)) = 0 <=> Succeeded(m, p) = {}
<1> SUFFICES ASSUME NEW m, NEW p
             PROVE  /\ IsFiniteSet(Succeeded(m, p)) /\ IsFiniteSet(Failed(m, p)) /\ Cardinality(Succeeded(m, p)) \in Nat
                    /\ Cardinality(Failed(m, p)) \in Nat
                    /\ Cardinality(Succeeded(m, p)) = 0 <=> Succeeded(m, p) = {}
  OBVIOUS
<1>1. IsFiniteSet(Requests)
  BY SizesAssumption, FS_Interval DEF Requests
<1>2. Succeeded(m, p) \subseteq Requests /\ Failed(m, p) \subseteq Requests
  BY DEF Succeeded, Failed, Where
<1>3. IsFiniteSet(Succeeded(m, p)) /\ IsFiniteSet(Failed(m, p))
  BY <1>1, <1>2, FS_Subset
<1> QED
  BY <1>3, FS_CardinalityType, FS_EmptySet

\* The planned requests a report counts are the kept ones: each succeeded, failed or went unsent.
LEMMA KeptSplit ==
  ASSUME NEW m \in Modes, NEW p \in Passes
  PROVE  /\ Kept(m) = Succeeded(m, p) \cup Failed(m, p)
         /\ Cardinality(Kept(m)) = Cardinality(Succeeded(m, p)) + Cardinality(Failed(m, p))
         /\ Failed(m, p) = {} <=> Clean(m, p)
         /\ Succeeded(m, p) = {i \in Kept(m) : p.answer[i] = "ok"}
<1>1. Kept(m) \subseteq Requests
  BY SizesAssumption DEF Kept, Requests, Modes
<1>2. p.answer \in [Requests -> {"ok", "failed", "unsent"}]
  BY DEF Passes
<1>3. /\ Kept(m) = Succeeded(m, p) \cup Failed(m, p) /\ Succeeded(m, p) \cap Failed(m, p) = {}
      /\ Failed(m, p) = {} <=> Clean(m, p)
      /\ Succeeded(m, p) = {i \in Kept(m) : p.answer[i] = "ok"}
  BY <1>1, <1>2 DEF Succeeded, Failed, Where, Clean
<1>4. Cardinality(Kept(m)) = Cardinality(Succeeded(m, p)) + Cardinality(Failed(m, p)) - Cardinality(Succeeded(m, p) \cap Failed(m, p))
  BY <1>3, Counts, FS_Union
<1>5. Cardinality(Succeeded(m, p)) \in Nat /\ Cardinality(Failed(m, p)) \in Nat
  BY Counts
<1>6. Cardinality(Succeeded(m, p) \cap Failed(m, p)) = 0
  BY <1>3, FS_EmptySet
<1>7. Cardinality(Kept(m)) = Cardinality(Succeeded(m, p)) + Cardinality(Failed(m, p))
  BY <1>4, <1>5, <1>6
<1> QED
  BY <1>3, <1>7

\* Whatever the gates decide, the report is true of the pass.
LEMMA ReportTrue ==
  ASSUME NEW m \in Modes, NEW p \in Passes, NEW g \in BOOLEAN, NEW f \in BOOLEAN
  PROVE  Truthful(m, p, Report(m, p, g, f))
<1> DEFINE r == Report(m, p, g, f)
           s == Sections(m, p, g)
<1>1. MinRate \in 0 .. 100 /\ p.match \in BOOLEAN /\ p.stalled \in BOOLEAN /\ p.slow \in BOOLEAN
  BY SizesAssumption DEF Passes
<1>2. BelowFloor(m, p) \/ AtFloor(m, p)
  <2>1. Cardinality(Kept(m)) = Cardinality(Succeeded(m, p)) + Cardinality(Failed(m, p))
        /\ {i \in Kept(m) : p.answer[i] = "ok"} = Succeeded(m, p)
    BY KeptSplit
  <2>2. Cardinality(Succeeded(m, p)) \in Nat /\ Cardinality(Failed(m, p)) \in Nat
    BY Counts
  <2>3. \A a, b \in Nat : (MinRate * b \in Nat /\ 100 * a \in Nat) /\ (~(100 * a < MinRate * b) => 100 * a >= MinRate * b)
    BY <1>1
  <2>4. ~BelowFloor(m, p) => 100 * Cardinality(Succeeded(m, p)) >= MinRate * (Cardinality(Succeeded(m, p)) + Cardinality(Failed(m, p)))
    BY <2>2, <2>3 DEF BelowFloor
  <2> QED
    BY <2>1, <2>4 DEF AtFloor
<1>3. Succeeded(m, p) # {} \/ Failed(m, p) # {} \/ BelowFloor(m, p)
  BY Counts, FS_EmptySet DEF BelowFloor
<1>4. r.status \in {"ok", "partial"} => ~BelowFloor(m, p)
  BY DEF Report, Nothing
<1>5. r.status = "ok" => ~Withheld(m, p) /\ p.match
  BY DEF Report, Nothing
<1>6. r.core \/ r.latencyValid => ~Withheld(m, p)
  BY DEF Report, Nothing
<1>7. r.serve = "latency" \/ r.burst \/ r.steadyTtft => ~Withheld(m, p)
  BY DEF Report, Nothing, Sections
<1>8. r.throughputValid => Failed(m, p) = {}
  BY DEF Report, Nothing
<1>9. r.sla = "PASS" => Succeeded(m, p) # {} /\ Bound(m, p) = {}
  BY DEF Report, Nothing, Sections
<1>10. r.steady = "valid" => Failed(m, p) = {}
  BY DEF Report, Nothing, Sections
<1>11. /\ r.exit = 0 <=> r.status \in {"ok", "partial"}
       /\ r.exit = 3 => ~p.match
       /\ r.identity = "match" \/ r.status # "ok"
  BY DEF Report, Nothing
<1>12. Failed(m, p) = {} <=> Clean(m, p)
  BY KeptSplit
<1> HIDE DEF r
<1>13. ~Withheld(m, p) => Clean(m, p) /\ (p.stalled => Succeeded(m, p) = {})
  BY <1>12 DEF Withheld, Stalls
<1>14. Succeeded(m, p) # {} /\ Bound(m, p) = {} => Clean(m, p) /\ ~p.stalled /\ ~p.slow
  BY <1>12 DEF Bound, Stalls
<1>15. r.status = "ok" => Clean(m, p) /\ p.match /\ ~p.stalled
  BY <1>3, <1>4, <1>5, <1>12, <1>13 DEF Withheld
<1> QED
  BY <1>2, <1>4, <1>6, <1>7, <1>8, <1>9, <1>10, <1>11, <1>12, <1>13, <1>14, <1>15 DEF Truthful, r

-------------------------------------------------------------------------------
(* A sweep (GoodputSearch). *)

\* The passes a probe can be judged as best by: kept requests that all succeeded, as planned.
Best(p) == p \in Passes /\ p.match /\ Succeeded(mode, p) # {} /\ Bound(mode, p) = {}

\* Its report is ok once found.
LEMMA BestIsOk ==
  ASSUME mode \in Modes, NEW p, Best(p)
  PROVE  Report(mode, p, TRUE, TRUE).status = "ok"
<1>1. Failed(mode, p) = {} /\ ~Withheld(mode, p) /\ p.match
  BY DEF Best, Bound, Withheld
<1>2. Cardinality(Failed(mode, p)) = 0 /\ Cardinality(Succeeded(mode, p)) \in Nat \ {0}
  BY <1>1, Counts, FS_EmptySet DEF Best
<1>3. \A a \in Nat \ {0} : ~(a + 0 = 0 \/ 100 * a < MinRate * (a + 0))
  BY SizesAssumption
<1>4. ~BelowFloor(mode, p)
  BY <1>2, <1>3 DEF BelowFloor
<1> QED
  BY <1>1, <1>4 DEF Report, Nothing

\* A sweep without a passing probe is never ok.
LEMMA NotFoundNotOk ==
  ASSUME NEW m, NEW p
  PROVE  Report(m, p, TRUE, FALSE).status # "ok"
BY DEF Report, Nothing

\* The search after n probes: before an end is known the next speed is a doubling or halving of the start; once both are,
\* they are apart by two units of the halvings still to come, so that the next speed lies strictly between.
SearchInv ==
  /\ speed \in Nat /\ lo \in Nat /\ hi \in Nat
  /\ probes \in Seq([speed : Nat, passed : BOOLEAN, rate : 1 .. 2])
  /\ Len(probes) <= MaxIters
  /\ stage = "probing" =>
       /\ Len(probes) < MaxIters
       /\ Sweep!Unit(Len(probes)) \in Nat \ {0} /\ Sweep!Unit(Len(probes)) <= Start
       /\ lo = 0 /\ hi = 0 => speed = Start /\ probes = <<>>
       /\ lo # 0 /\ hi = 0 => speed = 2 * lo /\ Start <= lo
       /\ lo = 0 /\ hi # 0 => hi = 2 * speed /\ speed = Sweep!Unit(Len(probes))
       /\ lo # 0 /\ hi # 0 => speed = (lo + hi) \div 2 /\ hi - lo >= 2 * Sweep!Unit(Len(probes))

\* The ends are the closest two of the speeds probed, each of which was probed once.
EndsInv ==
  /\ IsFiniteSet(Sweep!PassedAt) /\ IsFiniteSet(Sweep!FailedAt)
  /\ Sweep!PassedAt \subseteq 1 .. lo /\ (lo # 0 => lo \in Sweep!PassedAt)
  /\ hi = 0 => Sweep!FailedAt = {}
  /\ hi # 0 => hi \in Sweep!FailedAt /\ \A f \in Sweep!FailedAt : f \in Nat /\ hi <= f
  /\ lo # 0 /\ hi # 0 => lo < hi
  /\ Cardinality(Sweep!PassedAt) + Cardinality(Sweep!FailedAt) = Len(probes)
  /\ stage = "found" /\ Len(probes) < MaxIters => 100 * (hi - lo) <= Tol * hi

\* What is assumed of a sweep.
LEMMA Bounds == Start \in Nat \ {0} /\ MaxIters \in Nat \ {0} /\ Tol \in 0 .. 100
BY PartsAssumption DEF Sweep!SearchAssumption

\* The units of the halvings, each half the one before.
LEMMA Constants ==
  /\ Start \in Nat \ {0} /\ MaxIters \in Nat \ {0} /\ Tol \in 0 .. 100 /\ Sweep!Unit(0) = Start
  /\ \A i \in 1 .. MaxIters : Sweep!Unit(i) \in Nat /\ Sweep!Unit(i - 1) = 2 * Sweep!Unit(i)
<1>1. Sweep!Unit(0) = Start
  BY DEF Sweep!Unit
<1> QED
  BY <1>1, PartsAssumption DEF Sweep!SearchAssumption

\* Before the first probe no end is known.
LEMMA SweepInit == Init => SearchInv /\ EndsInv
<1> SUFFICES ASSUME Sweep!Init PROVE SearchInv /\ EndsInv
  BY DEF Init
<1>1. probes = <<>> /\ DOMAIN probes = {} /\ Len(probes) = 0 /\ Sweep!Passing = {}
  BY DEF Sweep!Init, Sweep!Passing
<1>2. Sweep!PassedAt = {} /\ Sweep!FailedAt = {}
  BY <1>1 DEF Sweep!PassedAt, Sweep!FailedAt
<1>3. IsFiniteSet({}) /\ Cardinality({}) = 0
  BY FS_EmptySet
<1>4. EndsInv
  BY <1>1, <1>2, <1>3, Constants DEF Sweep!Init, EndsInv
<1> QED
  BY <1>1, <1>4, Constants DEF Sweep!Init, SearchInv

\* What a probe adds to the speeds that passed and those that failed.
LEMMA ProbeAdds ==
  ASSUME SearchInv, NEW passed \in BOOLEAN, NEW rate \in 1 .. 2, Sweep!Probe(passed, rate)
  PROVE  /\ probes' \in Seq([speed : Nat, passed : BOOLEAN, rate : 1 .. 2]) /\ Len(probes') = Len(probes) + 1
         /\ Sweep!PassedAt' = Sweep!PassedAt \cup (IF passed THEN {speed} ELSE {})
         /\ Sweep!FailedAt' = Sweep!FailedAt \cup (IF passed THEN {} ELSE {speed})
         /\ Sweep!Passing' = Sweep!Passing \cup (IF passed THEN {Len(probes) + 1} ELSE {})
<1> DEFINE e == [speed |-> speed, passed |-> passed, rate |-> rate]
           n == Len(probes)
<1>1. /\ e \in [speed : Nat, passed : BOOLEAN, rate : 1 .. 2] /\ probes' = Append(probes, e)
      /\ probes \in Seq([speed : Nat, passed : BOOLEAN, rate : 1 .. 2])
  BY DEF Sweep!Probe, SearchInv
<1>2. /\ probes' \in Seq([speed : Nat, passed : BOOLEAN, rate : 1 .. 2]) /\ Len(probes') = n + 1 /\ n \in Nat
      /\ DOMAIN probes' = DOMAIN probes \cup {n + 1} /\ n + 1 \notin DOMAIN probes
      /\ probes'[n + 1] = e /\ \A k \in DOMAIN probes : probes'[k] = probes[k]
  BY <1>1
<1>3. e.speed = speed /\ e.passed = passed
  OBVIOUS
<1> HIDE DEF e
<1>4. Sweep!Passing' = Sweep!Passing \cup (IF passed THEN {n + 1} ELSE {})
  BY <1>2, <1>3 DEF Sweep!Passing
<1>5. DOMAIN probes' \ Sweep!Passing' = (DOMAIN probes \ Sweep!Passing) \cup (IF passed THEN {} ELSE {n + 1})
  BY <1>2, <1>4 DEF Sweep!Passing
<1>6. Sweep!Passing \subseteq DOMAIN probes
  BY DEF Sweep!Passing
<1> QED
  BY <1>2, <1>3, <1>4, <1>5, <1>6 DEF Sweep!PassedAt, Sweep!FailedAt

\* A probe keeps the next speed between the ends.
LEMMA ProbeSearch ==
  ASSUME SearchInv, EndsInv, NEW passed \in BOOLEAN, NEW rate \in 1 .. 2, Sweep!Probe(passed, rate)
  PROVE  SearchInv'
<1> DEFINE n == Len(probes)
           met == lo' # 0 /\ hi' # 0 /\ 100 * (hi' - lo') <= Tol * hi'
<1> USE Bounds
<1>1. /\ stage = "probing" /\ n \in Nat /\ n < MaxIters /\ Sweep!Unit(n) \in Nat \ {0} /\ Sweep!Unit(n) <= Start
      /\ speed \in Nat /\ lo \in Nat /\ hi \in Nat
  BY DEF Sweep!Probe, SearchInv
<1>2. /\ Sweep!Unit(n + 1) \in Nat \ {0} /\ Sweep!Unit(n) = 2 * Sweep!Unit(n + 1) /\ Sweep!Unit(n + 1) <= Start
  <2>1. n + 1 \in 1 .. MaxIters /\ n + 1 - 1 = n
    BY <1>1, Constants
  <2>2. Sweep!Unit(n + 1) \in Nat /\ Sweep!Unit(n) = 2 * Sweep!Unit(n + 1)
    BY <2>1, Constants
  <2> QED
    BY <1>1, <2>2
<1>3. probes' \in Seq([speed : Nat, passed : BOOLEAN, rate : 1 .. 2]) /\ Len(probes') = n + 1
  BY ProbeAdds
<1>4. lo' = (IF passed THEN speed ELSE lo) /\ hi' = (IF passed THEN hi ELSE speed)
  BY DEF Sweep!Probe
<1>5. speed' = IF met THEN speed ELSE Sweep!NextSpeed(lo', hi', passed)
  BY DEF Sweep!Probe
<1>6. speed > lo /\ (hi # 0 => speed < hi)
  BY <1>1 DEF SearchInv
<1>7. speed' \in Nat
  BY <1>1, <1>4, <1>5 DEF Sweep!NextSpeed
<1>8. ASSUME stage' = "probing"
      PROVE  ~met /\ n + 1 # MaxIters
  BY <1>3, <1>8 DEF Sweep!Probe
<1>9. ASSUME stage' = "probing"
      PROVE  /\ ~(lo' = 0 /\ hi' = 0)
             /\ lo' # 0 /\ hi' = 0 => speed' = 2 * lo' /\ Start <= lo'
             /\ lo' = 0 /\ hi' # 0 => hi' = 2 * speed' /\ speed' = Sweep!Unit(n + 1)
             /\ lo' # 0 /\ hi' # 0 => speed' = (lo' + hi') \div 2 /\ hi' - lo' >= 2 * Sweep!Unit(n + 1)
  <2>1. speed' = Sweep!NextSpeed(lo', hi', passed)
    BY <1>5, <1>8, <1>9
  <2>2. CASE lo = 0 /\ hi = 0
    <3>1. speed = Start /\ n = 0
      BY <2>2, <1>1 DEF SearchInv
    <3>2. speed = 2 * Sweep!Unit(n + 1)
      BY <1>2, <3>1, Constants
    <3>3. \A u \in Nat : (2 * u) \div 2 = u
      OBVIOUS
    <3> QED
      BY <1>2, <1>4, <2>1, <2>2, <3>1, <3>2, <3>3 DEF Sweep!NextSpeed
  <2>3. CASE lo # 0 /\ hi = 0
    BY <1>1, <1>2, <1>4, <2>1, <2>3 DEF SearchInv, Sweep!NextSpeed
  <2>4. CASE lo = 0 /\ hi # 0
    <3>1. speed = 2 * Sweep!Unit(n + 1) /\ hi = 2 * speed /\ speed # 0
      BY <1>1, <1>2, <2>4 DEF SearchInv
    <3>2. \A u \in Nat : (2 * u) \div 2 = u
      OBVIOUS
    <3>3. CASE passed
      <4>1. lo' = speed /\ hi' = hi /\ speed' = (lo' + hi') \div 2
        BY <1>4, <2>1, <2>4, <3>1, <3>3 DEF Sweep!NextSpeed
      <4>2. lo' # 0 /\ hi' # 0 /\ hi' - lo' = 2 * Sweep!Unit(n + 1)
        <5>1. PICK u \in Nat \ {0} : u = Sweep!Unit(n + 1)
          BY <1>2
        <5>2. lo' = 2 * u /\ hi' = 4 * u
          BY <3>1, <4>1, <5>1
        <5> QED
          BY <5>1, <5>2
      <4> QED
        BY <1>2, <4>1, <4>2
    <3>4. CASE ~passed
      <4>1. lo' = 0 /\ hi' = speed /\ speed' = speed \div 2
        BY <1>4, <2>1, <2>4, <3>4 DEF Sweep!NextSpeed
      <4> QED
        BY <1>2, <3>1, <3>2, <4>1
    <3> QED
      BY <3>3, <3>4
  <2>5. CASE lo # 0 /\ hi # 0
    BY <1>1, <1>2, <1>4, <1>6, <2>1, <2>5 DEF SearchInv, Sweep!NextSpeed
  <2> QED
    BY <1>1, <2>2, <2>3, <2>4, <2>5
<1>10. lo' \in Nat /\ hi' \in Nat /\ Len(probes') <= MaxIters /\ (stage' = "probing" => Len(probes') < MaxIters)
  BY <1>1, <1>3, <1>4, <1>8
<1> QED
  BY <1>2, <1>3, <1>7, <1>9, <1>10 DEF SearchInv

\* A probe moves one end to its own speed, closer to the other.
LEMMA ProbeEnds ==
  ASSUME SearchInv, EndsInv, NEW passed \in BOOLEAN, NEW rate \in 1 .. 2, Sweep!Probe(passed, rate)
  PROVE  EndsInv'
<1> DEFINE n == Len(probes)
<1> USE Bounds
<1>1. /\ stage = "probing" /\ n \in Nat /\ speed \in Nat /\ lo \in Nat /\ hi \in Nat
      /\ Sweep!Unit(n) \in Nat \ {0}
  BY DEF Sweep!Probe, SearchInv
<1>2. speed > lo /\ (hi # 0 => speed < hi)
  BY <1>1 DEF SearchInv
<1>3. /\ lo' = (IF passed THEN speed ELSE lo) /\ hi' = (IF passed THEN hi ELSE speed) /\ Len(probes') = n + 1
      /\ Sweep!PassedAt' = Sweep!PassedAt \cup (IF passed THEN {speed} ELSE {})
      /\ Sweep!FailedAt' = Sweep!FailedAt \cup (IF passed THEN {} ELSE {speed})
  BY ProbeAdds DEF Sweep!Probe
<1>4. speed \notin Sweep!PassedAt \cup Sweep!FailedAt
  BY <1>1, <1>2 DEF EndsInv
<1>5. /\ IsFiniteSet(Sweep!PassedAt') /\ IsFiniteSet(Sweep!FailedAt')
      /\ Cardinality(Sweep!PassedAt') + Cardinality(Sweep!FailedAt') = Len(probes')
  <2>1. /\ IsFiniteSet(Sweep!PassedAt) /\ IsFiniteSet(Sweep!FailedAt) /\ Cardinality(Sweep!PassedAt) \in Nat /\ Cardinality(Sweep!FailedAt) \in Nat
        /\ Cardinality(Sweep!PassedAt) + Cardinality(Sweep!FailedAt) = n
    BY FS_CardinalityType DEF EndsInv
  <2>2. CASE passed
    <3>1. Sweep!PassedAt' = Sweep!PassedAt \cup {speed} /\ Sweep!FailedAt' = Sweep!FailedAt
      BY <1>3, <2>2
    <3>2. IsFiniteSet(Sweep!PassedAt') /\ Cardinality(Sweep!PassedAt') = Cardinality(Sweep!PassedAt) + 1
      BY <1>4, <2>1, <3>1, FS_AddElement
    <3>3. Cardinality(Sweep!FailedAt') = Cardinality(Sweep!FailedAt) /\ IsFiniteSet(Sweep!FailedAt')
      BY <2>1, <3>1
    <3>4. Len(probes') = n + 1
      BY <1>3
    <3> QED
      BY <1>1, <2>1, <3>2, <3>3, <3>4
  <2>3. CASE ~passed
    <3>1. Sweep!FailedAt' = Sweep!FailedAt \cup {speed} /\ Sweep!PassedAt' = Sweep!PassedAt
      BY <1>3, <2>3
    <3>2. IsFiniteSet(Sweep!FailedAt') /\ Cardinality(Sweep!FailedAt') = Cardinality(Sweep!FailedAt) + 1
      BY <1>4, <2>1, <3>1, FS_AddElement
    <3>3. Cardinality(Sweep!PassedAt') = Cardinality(Sweep!PassedAt) /\ IsFiniteSet(Sweep!PassedAt')
      BY <2>1, <3>1
    <3>4. Len(probes') = n + 1
      BY <1>3
    <3> QED
      BY <1>1, <2>1, <3>2, <3>3, <3>4
  <2> QED
    BY <2>2, <2>3
<1>6. Sweep!PassedAt' \subseteq 1 .. lo' /\ (lo' # 0 => lo' \in Sweep!PassedAt')
  BY <1>1, <1>2, <1>3 DEF EndsInv
<1>7. /\ hi' = 0 => Sweep!FailedAt' = {}
      /\ hi' # 0 => hi' \in Sweep!FailedAt' /\ \A f \in Sweep!FailedAt' : f \in Nat /\ hi' <= f
  BY <1>1, <1>2, <1>3 DEF EndsInv
<1>8. lo' # 0 /\ hi' # 0 => lo' < hi'
  BY <1>1, <1>2, <1>3
<1>9. stage' = "found" /\ Len(probes') < MaxIters => 100 * (hi' - lo') <= Tol * hi'
  <2>1. Len(probes') < MaxIters => Len(probes') # MaxIters
    BY <1>1, <1>3
  <2>2. stage' = "found" => \/ lo' # 0 /\ hi' # 0 /\ 100 * (hi' - lo') <= Tol * hi'
                            \/ Len(probes') = MaxIters
    BY Zenon DEF Sweep!Probe
  <2> QED
    BY <2>1, <2>2, Zenon
<1> QED
  BY <1>5, <1>6, <1>7, <1>8, <1>9 DEF EndsInv

\* The search counts as this module does.
LEMMA SweepCounts == \A S : Sweep!Cardinality(S) = Cardinality(S)
BY DEF Sweep!Cardinality, Cardinality

\* The bracket is right wherever the search stands.
LEMMA Brackets ==
  ASSUME SearchInv, EndsInv
  PROVE  Sweep!BracketIsRight
<1>1. lo \in Nat /\ hi \in Nat /\ speed \in Nat
  BY DEF SearchInv
<1>2. stage = "probing" => speed > lo /\ (hi # 0 => speed < hi)
  <2>1. stage = "probing" => Sweep!Unit(Len(probes)) \in Nat \ {0}
    BY DEF SearchInv
  <2>2. CASE stage = "probing" /\ lo = 0 /\ hi = 0
    BY <1>1, <2>2, Constants DEF SearchInv
  <2>3. CASE stage = "probing" /\ lo # 0 /\ hi = 0
    BY <1>1, <2>3 DEF SearchInv
  <2>4. CASE stage = "probing" /\ lo = 0 /\ hi # 0
    BY <1>1, <2>1, <2>4 DEF SearchInv
  <2>5. CASE stage = "probing" /\ lo # 0 /\ hi # 0
    BY <1>1, <2>1, <2>5 DEF SearchInv
  <2> QED
    BY <2>2, <2>3, <2>4, <2>5
<1>3. Sweep!PassedAt \subseteq 1 .. lo /\ (lo # 0 => lo \in Sweep!PassedAt)
  BY DEF EndsInv
<1>4. Sweep!PassedAt # {} => lo \in Sweep!PassedAt /\ \A p \in Sweep!PassedAt : p <= lo
  <2> SUFFICES ASSUME NEW p \in Sweep!PassedAt PROVE lo \in Sweep!PassedAt /\ p <= lo
    OBVIOUS
  <2> QED
    BY <1>1, <1>3
<1>5. Sweep!FailedAt # {} => hi \in Sweep!FailedAt /\ \A f \in Sweep!FailedAt : f \in Nat /\ hi <= f
  BY DEF EndsInv
<1>6. \A p \in Sweep!PassedAt, f \in Sweep!FailedAt : p < f
  BY <1>1, <1>3, <1>5 DEF EndsInv
<1>7. /\ Cardinality(Sweep!PassedAt) + Cardinality(Sweep!FailedAt) = Len(probes)
      /\ stage = "found" /\ Len(probes) < MaxIters => 100 * (hi - lo) <= Tol * hi
  BY DEF EndsInv
<1>8. Sweep!FailedAt # {} => hi \in Sweep!FailedAt /\ \A f \in Sweep!FailedAt : hi <= f
  BY <1>5
<1> QED
  BY <1>2, <1>4, <1>6, <1>7, <1>8, SweepCounts, Zenon DEF Sweep!BracketIsRight

-------------------------------------------------------------------------------
(* The run. *)

\* Before anything is concluded nothing stands; a sweep's best probe is one whose pass is clean, and exists once one passed.
RunInv ==
  /\ kind \in {"pass", "sweep"} => mode \in Modes
  /\ kind \notin {"pass", "sweep"} => pass = Null
  /\ kind # "sweep" => best = Null
  /\ pass # Null => mode \in Modes /\ pass \in Passes /\ \E g, f \in BOOLEAN : report = Report(mode, pass, g, f)
  /\ best # Null => mode \in Modes /\ Best(best)
  /\ best # Null <=> Sweep!Passing # {}
  /\ stage = "found" => pass \in Passes /\ report = Report(mode, pass, TRUE, best # Null) /\ (best # Null => pass = best)

\* A pass answers every request, so none is no pass.
LEMMA NullIsNoPass == Null \notin Passes
<1> SUFFICES ASSUME Null \in Passes PROVE FALSE
  OBVIOUS
<1>1. Null.answer \in [Requests -> {"ok", "failed", "unsent"}]
  BY DEF Passes
<1>2. DOMAIN Null.answer = Requests /\ Null.answer = <<>> /\ DOMAIN <<>> = {}
  BY <1>1 DEF Null
<1>3. 1 \in Requests
  BY SizesAssumption DEF Requests
<1> QED
  BY <1>2, <1>3

\* Before a run nothing is concluded.
LEMMA RunInit == Init => RunInv
<1> SUFFICES ASSUME Init PROVE RunInv
  OBVIOUS
<1>1. best = Null /\ pass = Null /\ stage = "probing" /\ probes = <<>>
  BY DEF Init, Sweep!Init
<1>2. kind = "pass" => mode \in Modes
  BY Zenon DEF Init
<1>3. kind = "sweep" => mode \in Modes
  BY Zenon DEF Init
<1> QED
  BY <1>1, <1>2, <1>3 DEF RunInv, Sweep!Passing

\* The invariant of passes and sweeps.
IInv == SearchInv /\ EndsInv /\ RunInv

\* A report names its status.
LEMMA ReportIsSome == \A m, p, g, f : Report(m, p, g, f) # Nothing
<1>1. Nothing.status = "none"
  BY DEF Nothing
<1>2. \A m, p, g, f : Report(m, p, g, f).status # "none"
  BY DEF Report, Nothing
<1> QED
  BY <1>1, <1>2

\* Without a report nothing stands for the run, and a sweep has not ended.
LEMMA OpenRun ==
  ASSUME RunInv, report = Nothing
  PROVE  pass = Null /\ stage # "found"
BY ReportIsSome DEF RunInv

\* A sweep whose probes stay has the same ends.
LEMMA ProbesStay ==
  ASSUME SearchInv, EndsInv, UNCHANGED <<speed, lo, hi, probes>>, stage' \in {stage, "aborted", "mismatch", "raised"}
  PROVE  SearchInv' /\ EndsInv' /\ Sweep!Passing' = Sweep!Passing
<1>1. Sweep!Passing' = Sweep!Passing /\ Sweep!PassedAt' = Sweep!PassedAt /\ Sweep!FailedAt' = Sweep!FailedAt
  BY DEF Sweep!PassedAt, Sweep!FailedAt, Sweep!Passing
<1>2. SearchInv'
  BY DEF SearchInv
<1>3. Len(probes') = Len(probes) /\ (stage' = "found" => stage = "found")
  OBVIOUS
<1>4. EndsInv'
  BY <1>1, <1>3, Zenon DEF EndsInv
<1> QED
  BY <1>1, <1>2, <1>4

\* A step that leaves the run and its sweep alone.
LEMMA RunStutter ==
  ASSUME IInv, UNCHANGED <<kind, runVars, sweepVars>>
  PROVE  IInv'
<1>1. SearchInv' /\ EndsInv' /\ Sweep!Passing' = Sweep!Passing
  BY ProbesStay DEF IInv, sweepVars
<1>2. RunInv'
  BY <1>1 DEF IInv, RunInv, Best, runVars, sweepVars
<1> QED
  BY <1>1, <1>2 DEF IInv

\* A sweep that is left keeps its ends.
LEMMA LeaveKeeps ==
  ASSUME SearchInv, EndsInv, NEW how \in {"aborted", "mismatch", "raised"}, Sweep!Leave(how)
  PROVE  SearchInv' /\ EndsInv' /\ Sweep!Passing' = Sweep!Passing /\ stage' # "found"
BY ProbesStay DEF Sweep!Leave

\* An aborted run has no pass to be true of, and leaves its sweep.
LEMMA AbortStep == ASSUME IInv, Abort PROVE IInv'
<1>1. pass = Null /\ stage # "found" /\ pass' = Null
  BY OpenRun DEF Abort, IInv
<1>2. SearchInv' /\ EndsInv' /\ Sweep!Passing' = Sweep!Passing /\ stage' # "found"
  <2>1. CASE kind = "sweep"
    BY <2>1, LeaveKeeps DEF Abort, IInv
  <2>2. CASE kind # "sweep"
    BY <1>1, <2>2, ProbesStay DEF Abort, IInv, sweepVars
  <2> QED
    BY <2>1, <2>2
<1>3. RunInv'
  BY <1>1, <1>2 DEF Abort, IInv, RunInv, Best
<1> QED
  BY <1>2, <1>3 DEF IInv

\* A pass of its own is concluded by run's gates.
LEMMA ConcludeStep == ASSUME IInv, Conclude PROVE IInv'
<1>1. stage # "found" /\ mode \in Modes /\ kind = "pass"
  BY OpenRun DEF Conclude, IInv, RunInv
<1>2. SearchInv' /\ EndsInv' /\ Sweep!Passing' = Sweep!Passing
  BY ProbesStay DEF Conclude, IInv, sweepVars
<1>3. pass' \in Passes /\ report' = Report(mode, pass', FALSE, FALSE)
  BY DEF Conclude
<1>4. RunInv'
  BY <1>1, <1>2, <1>3 DEF Conclude, IInv, RunInv, Best, sweepVars
<1> QED
  BY <1>2, <1>4 DEF IInv

\* A probe without a kept success leaves the sweep with no pass.
LEMMA ProbeRaisesStep == ASSUME IInv, ProbeRaises PROVE IInv'
<1>1. pass = Null /\ pass' = Null
  BY OpenRun DEF ProbeRaises, IInv
<1>2. SearchInv' /\ EndsInv' /\ Sweep!Passing' = Sweep!Passing /\ stage' # "found"
  BY LeaveKeeps DEF ProbeRaises, IInv
<1>3. RunInv'
  BY <1>1, <1>2 DEF ProbeRaises, IInv, RunInv, Best
<1> QED
  BY <1>2, <1>3 DEF IInv

\* A probe that broke identity is the pass that stands, whatever the best one was.
LEMMA ProbeMismatchStep == ASSUME IInv, ProbeMismatch PROVE IInv'
<1>1. mode \in Modes
  BY DEF ProbeMismatch, IInv, RunInv
<1>2. SearchInv' /\ EndsInv' /\ Sweep!Passing' = Sweep!Passing /\ stage' # "found"
  BY LeaveKeeps DEF ProbeMismatch, IInv
<1>3. pass' \in Passes /\ report' = Report(mode, pass', TRUE, FALSE)
  BY DEF ProbeMismatch, ProbePasses
<1>4. RunInv'
  BY <1>1, <1>2, <1>3 DEF ProbeMismatch, IInv, RunInv, Best
<1> QED
  BY <1>2, <1>4 DEF IInv

\* The first probe to pass becomes the best one, and later ones only replace it by another that passed.
LEMMA ProbeStep == ASSUME IInv, Probe PROVE IInv'
<1>1. PICK p \in ProbePasses, rate \in 1 .. 2 :
        /\ ProbeMatches(p) /\ Succeeded(mode, p) # {}
        /\ Sweep!Probe(Bound(mode, p) = {}, rate)
        /\ best' = IF Sweep!Beats(Bound(mode, p) = {}, rate) THEN p ELSE best
        /\ IF stage' = "found" THEN /\ pass' = Standing(p)
                                    /\ report' = Report(mode, pass', TRUE, best' # Null)
           ELSE UNCHANGED <<pass, report>>
  BY DEF Probe
<1> DEFINE passed == Bound(mode, p) = {}
<1>2. passed \in BOOLEAN /\ mode \in Modes /\ mode' = mode /\ kind' = kind /\ kind = "sweep"
  BY DEF Probe, IInv, RunInv
<1>3. p \in Passes /\ p.match /\ p # Null
  BY <1>1, NullIsNoPass DEF ProbePasses, ProbeMatches
<1>4. SearchInv' /\ EndsInv'
  BY <1>1, <1>2, ProbeSearch, ProbeEnds DEF IInv
<1>5. Sweep!Passing' = Sweep!Passing \cup (IF passed THEN {Len(probes) + 1} ELSE {})
  BY <1>1, <1>2, ProbeAdds DEF IInv
<1>6. passed => Best(p)
  BY <1>1, <1>3 DEF Best
<1>7. best' # Null <=> Sweep!Passing' # {}
  <2>1. CASE Sweep!Passing = {}
    <3>1. Sweep!Beats(passed, rate) <=> passed
      BY <2>1 DEF Sweep!Beats
    <3> QED
      BY <1>1, <1>3, <1>5, <2>1, <3>1 DEF IInv, RunInv
  <2>2. CASE Sweep!Passing # {}
    BY <1>1, <1>3, <1>5, <2>2 DEF IInv, RunInv
  <2> QED
    BY <2>1, <2>2
<1>8. best' # Null => Best(best')
  BY <1>1, <1>6 DEF IInv, RunInv, Sweep!Beats
<1>9. pass = Null
  BY OpenRun DEF Probe, IInv
<1>10. stage' = "found" => /\ pass' \in Passes /\ report' = Report(mode, pass', TRUE, best' # Null)
                           /\ best' # Null => pass' = best'
  BY <1>1, <1>3, <1>8 DEF Standing, Best
<1>11. stage' # "found" => pass' = Null
  BY <1>1, <1>9
<1> QED
  BY <1>2, <1>4, <1>7, <1>8, <1>10, <1>11 DEF IInv, RunInv, Best

\* The other parts of a serve run leave a pass or a sweep alone; a stream draws a mode for every request.
LEMMA OthersStep ==
  ASSUME IInv, Grids \/ Windows \/ Replays \/ Streams \/ SentPlans \/ Draws \/ Concluded
  PROVE  IInv'
<1>1. CASE Grids
  BY <1>1, RunStutter DEF Grids
<1>2. CASE Windows
  BY <1>2, RunStutter DEF Windows
<1>3. CASE Replays
  BY <1>3, RunStutter DEF Replays
<1>4. CASE SentPlans
  BY <1>4, RunStutter DEF SentPlans
<1>5. CASE Draws
  BY <1>5, RunStutter DEF Draws
<1>6. CASE Concluded
  BY <1>6, RunStutter DEF Concluded, vars
<1>7. CASE Streams
  <2>1. kind = "stream" /\ UNCHANGED <<kind, best, pass, report, sweepVars>>
    BY <1>7 DEF Streams
  <2>2. SearchInv' /\ EndsInv' /\ Sweep!Passing' = Sweep!Passing /\ stage' = stage
    BY <2>1, ProbesStay DEF IInv, sweepVars
  <2>3. pass = Null /\ best = Null /\ stage # "found"
    BY <2>1, NullIsNoPass DEF IInv, RunInv
  <2>4. RunInv'
    BY <2>1, <2>2, <2>3 DEF IInv, RunInv
  <2> QED
    BY <2>2, <2>4 DEF IInv
<1> QED
  BY <1>1, <1>2, <1>3, <1>4, <1>5, <1>6, <1>7

\* Every step keeps what is concluded true.
LEMMA RunStep == IInv /\ [Next]_vars => IInv'
<1> SUFFICES ASSUME IInv, [Next]_vars PROVE IInv'
  OBVIOUS
<1>1. CASE UNCHANGED vars
  BY <1>1, RunStutter DEF vars
<1>2. CASE Runs
  BY <1>2, AbortStep, ConcludeStep, ProbeStep, ProbeMismatchStep, ProbeRaisesStep DEF Runs
<1>3. CASE Grids \/ Windows \/ Replays \/ Streams \/ SentPlans \/ Draws \/ Concluded
  BY <1>3, OthersStep
<1> QED
  BY <1>1, <1>2, <1>3 DEF Next

\* The invariant of passes and sweeps holds throughout.
LEMMA RunsAlways == Spec => []IInv
<1>1. Init => IInv
  BY SweepInit, RunInit DEF IInv
<1> QED
  BY <1>1, RunStep, PTL DEF Spec

\* Whatever pass stands for a run, of requests or sessions, alone or the one a sweep ends on, run.json is true of it: ok
\* only if all that counts was sent as planned and answered, and no latency beside a failure, of any size (serve.py, run).
THEOREM Verdicts == Spec => []VerdictIsTrue
<1>1. ASSUME IInv PROVE VerdictIsTrue
  <2> SUFFICES ASSUME pass # Null PROVE Truthful(mode, pass, report)
    BY DEF VerdictIsTrue
  <2>1. mode \in Modes /\ pass \in Passes /\ \E g, f \in BOOLEAN : report = Report(mode, pass, g, f)
    BY <1>1 DEF IInv, RunInv
  <2> QED
    BY <2>1, ReportTrue
<1> QED
  BY <1>1, RunsAlways, PTL

\* Whatever the order of the verdicts and however many the probes, a sweep brackets the highest passing speed, and it ends
\* ok, on its best probe's pass, just when a probe passed (serve.py, goodput_search and sweep).
THEOREM Sweeps == Spec => []SweepIsRight
<1>1. ASSUME IInv PROVE SweepIsRight
  <2>1. Sweep!BracketIsRight
    BY <1>1, Brackets DEF IInv
  <2>2. ASSUME stage = "found"
        PROVE  /\ report.status = "ok" <=> Sweep!Passing # {}
               /\ best # Null <=> Sweep!Passing # {}
               /\ best # Null => pass = best
    <3>1. pass \in Passes /\ report = Report(mode, pass, TRUE, best # Null) /\ (best # Null => pass = best)
      BY <1>1, <2>2 DEF IInv, RunInv
    <3>2. best # Null <=> Sweep!Passing # {}
      BY <1>1 DEF IInv, RunInv
    <3>3. CASE best = Null
      BY <3>1, <3>2, <3>3, NotFoundNotOk
    <3>4. CASE best # Null
      <4>1. report = Report(mode, best, TRUE, TRUE) /\ mode \in Modes /\ Best(best)
        BY <1>1, <3>1, <3>4 DEF IInv, RunInv
      <4> QED
        BY <3>1, <3>2, <3>4, <4>1, BestIsOk
    <3> QED
      BY <3>3, <3>4
  <2> QED
    BY <2>1, <2>2 DEF SweepIsRight
<1> QED
  BY <1>1, RunsAlways, PTL

-------------------------------------------------------------------------------
(* A grid (GridRun). *)

\* The events of the cells behind the one at work.
GridEvents ==
  /\ \A k \in DOMAIN events : events[k].cell = k
  /\ events \in Seq([kind : {"skip_maxlen", "skip_kv", "result"}, cell : Nat, of : Nat])
  /\ Len(events) = IF outcome = "done" THEN Len(Cells) ELSE cell - 1

\* Whose prompts the cache holds: those of the last cell measured.
GridCache ==
  /\ phase = "warmup" => lastKey = Grid!NoCell /\ cell = 1
  /\ phase = "cell" => \/ lastKey = Grid!NoCell /\ \A j \in 1 .. cell - 1 : Grid!Skipped(j)
                       \/ \E k \in 1 .. cell - 1 : /\ ~Grid!Skipped(k) /\ lastKey = Cells[k] /\ cache = {Cells[k]}
                                                  /\ \A j \in k + 1 .. cell - 1 : Grid!Skipped(j)
  /\ phase = "fit" => ~Grid!Skipped(cell) /\ lastKey = Cells[cell] /\ cache = {Cells[cell]}

\* The first attempt of the highest grade.
FirstBest(g, k) == k \in DOMAIN g /\ \A j \in DOMAIN g : g[j] < g[k] \/ (g[j] = g[k] /\ k <= j)

\* The rows of a fit attempt up to a step.
HasRows(c, a, s) == \E r \in rows : r.cell = c /\ r.phase = "fit" /\ r.attempt = a /\ r.step = s

\* A cell's attempts: those that ended are whole and graded under the stop, the one under way has its rows so far.
GridFits ==
  /\ grades \in [DOMAIN Cells -> Seq(Grid!Grades)]
  /\ attempt \in 1 .. Attempts /\ step \in 1 .. Steps
  /\ outcome # "done" => /\ \A c \in DOMAIN Cells : c > cell \/ (c = cell /\ phase # "fit") => grades[c] = <<>>
                         /\ phase = "fit" => /\ Len(grades[cell]) = attempt - 1
                                             /\ \A j \in DOMAIN grades[cell] : grades[cell][j] < Grid!Stop
                                             /\ grades[cell] # <<>> => \E k \in DOMAIN grades[cell] : FirstBest(grades[cell], k)
                                             /\ \A a \in 1 .. attempt - 1, s \in 1 .. Steps : HasRows(cell, a, s)
                                             /\ \A s \in 1 .. step - 1 : HasRows(cell, attempt, s)
  /\ \A k \in DOMAIN events : events[k].kind = "result" =>
       /\ \A s \in 1 .. Steps : HasRows(k, events[k].of, s)
       /\ FirstBest(grades[k], events[k].of)
       /\ \A j \in DOMAIN grades[k] : grades[k][j] >= Grid!Stop => j = Len(grades[k])

\* A bench's log holds the cells it ran, and only those of this run once it began.
GridBench ==
  /\ phase = "cell" => cell = 1 /\ outcome = "running"
  /\ phase = "bench" /\ outcome = "running" => log = {Cells[c] : c \in {k \in 1 .. cell - 1 : ~Grid!Skipped(k)}}
  /\ outcome = "done" => rows = {Cells[c] : c \in {k \in DOMAIN Cells : ~Grid!Skipped(k)}}

\* The invariant of a grid, by driver.
GridInv ==
  /\ driver \in {"http", "bench", "score"} /\ outcome \in {"running", "done", "raised", "missing"}
  /\ driver = "http" => /\ phase \in {"warmup", "cell", "fit"} /\ cell \in DOMAIN Cells
                        /\ outcome = "done" => cell = Len(Cells)
                        /\ GridEvents /\ Grid!OwnCache /\ GridCache /\ GridFits
  /\ driver = "score" => phase = "cell"
  /\ driver = "bench" => phase \in {"cell", "bench"} /\ cell \in 1 .. Len(Cells) + 1 /\ GridBench

\* What is assumed of a grid.
LEMMA GridBounds ==
  /\ Cells \in Seq([ctx : Nat \ {0}, bs : Nat \ {0}]) /\ Len(Cells) \in Nat \ {0} /\ DOMAIN Cells = 1 .. Len(Cells)
  /\ Steps \in Nat \ {0, 1} /\ Attempts \in Nat \ {0}
  /\ \A c \in DOMAIN Cells : Cells[c] # Grid!NoCell
BY PartsAssumption DEF Grid!GridAssumption, Grid!NoCell

\* A grid has a cell, and its cells are counted from one.
LEMMA CellCount == Len(Cells) \in Nat \ {0} /\ DOMAIN Cells = 1 .. Len(Cells)
BY GridBounds

\* Before the warmup nothing is written.
LEMMA GridStart == Grid!Init => GridInv
<1> USE GridBounds
<1>1. CASE \E held \in {{}, {Grid!Other}} : Grid!At("http", held, {})
  <2>1. /\ driver = "http" /\ phase = "warmup" /\ outcome = "running" /\ cell = 1 /\ events = <<>> /\ rows = {}
        /\ attempt = 1 /\ step = 1 /\ lastKey = Grid!NoCell /\ grades = [c \in DOMAIN Cells |-> <<>>]
    BY <1>1 DEF Grid!At
  <2>2. GridEvents /\ Grid!OwnCache /\ GridCache
    BY <2>1 DEF GridEvents, Grid!OwnCache, GridCache
  <2>3. GridFits
    BY <2>1 DEF GridFits
  <2> QED
    BY <2>1, <2>2, <2>3 DEF GridInv
<1>2. CASE \E logged \in {{}, {Grid!Other}} : Grid!At("bench", {}, logged)
  BY <1>2 DEF Grid!At, GridInv, GridBench
<1>3. CASE Grid!At("score", {}, {})
  BY <1>3 DEF Grid!At, GridInv
<1> QED
  BY <1>1, <1>2, <1>3 DEF Grid!Init

\* A batch of a cell with the cells before it skipped or not: what it meets is its like's prompts or nothing.
LEMMA MetIs ==
  ASSUME GridInv, driver = "http", outcome = "running", phase = "cell", ~Grid!Skipped(cell)
  PROVE  Grid!Met(cell) = IF Grid!SameAsLast(cell) THEN {Cells[cell]} ELSE {}
<1> USE GridBounds
<1>1. cell \in 1 .. Len(Cells) /\ GridCache
  BY DEF GridInv
<1>2. \A k \in 1 .. cell - 1 : Cells[k] = Cells[cell] => ~Grid!Skipped(k)
  BY DEF Grid!Skipped, Grid!OverMaxLen, Grid!OverKv
<1>3. CASE lastKey = Grid!NoCell /\ \A j \in 1 .. cell - 1 : Grid!Skipped(j)
  <2>1. ~Grid!SameAsLast(cell)
    BY <1>2, <1>3 DEF Grid!SameAsLast
  <2> QED
    BY <1>1, <1>3, <2>1 DEF Grid!Met
<1>4. CASE \E k \in 1 .. cell - 1 : /\ ~Grid!Skipped(k) /\ lastKey = Cells[k] /\ cache = {Cells[k]}
                                   /\ \A j \in k + 1 .. cell - 1 : Grid!Skipped(j)
  <2>1. PICK k \in 1 .. cell - 1 : /\ ~Grid!Skipped(k) /\ lastKey = Cells[k] /\ cache = {Cells[k]}
                                   /\ \A j \in k + 1 .. cell - 1 : Grid!Skipped(j)
    BY <1>4
  <2>2. CASE Cells[k] = Cells[cell]
    <3>1. Grid!SameAsLast(cell)
      BY <2>1, <2>2 DEF Grid!SameAsLast
    <3> QED
      BY <2>1, <2>2, <3>1 DEF Grid!Met
  <2>3. CASE Cells[k] # Cells[cell]
    <3>1. ASSUME NEW i \in 1 .. cell - 1, Cells[i] = Cells[cell], \A j \in i + 1 .. cell - 1 : Grid!Skipped(j)
          PROVE  FALSE
      <4>1. ~Grid!Skipped(i) /\ i # k
        BY <1>2, <2>3, <3>1
      <4>2. i \in k + 1 .. cell - 1 \/ k \in i + 1 .. cell - 1
        BY <1>1, <4>1
      <4> QED
        BY <2>1, <3>1, <4>1, <4>2
    <3>2. ~Grid!SameAsLast(cell)
      BY <3>1 DEF Grid!SameAsLast
    <3> QED
      BY <2>1, <2>3, <3>2 DEF Grid!Met
  <2> QED
    BY <2>2, <2>3
<1> QED
  BY <1>1, <1>3, <1>4 DEF GridCache

\* What holds of a cell's fit whatever is written after it.
LEMMA RowsStay == ASSUME NEW c, NEW a, NEW s, rows \subseteq rows', HasRows(c, a, s) PROVE HasRows(c, a, s)'
BY DEF HasRows

\* A step that writes no row, grade or event keeps what they say.
LEMMA FitsStay ==
  ASSUME GridFits, UNCHANGED <<rows, grades, events, attempt, step, cell>>, outcome' # "done" => outcome # "done",
         phase' = phase \/ (phase # "fit" /\ phase' # "fit")
  PROVE  GridFits'
<1>1. \A c, a, s : HasRows(c, a, s)' <=> HasRows(c, a, s)
  BY DEF HasRows
<1> QED
  BY <1>1 DEF GridFits

\* The warmup leaves prompts of no cell in the cache, and no batch after it keeps them.
LEMMA WarmupStep == ASSUME GridInv, Grid!Warmup PROVE GridInv'
<1>1. driver = "http" /\ driver' = "http" /\ UNCHANGED <<rows, grades, events, attempt, step, cell, outcome, lastKey>>
  BY DEF Grid!Warmup, GridInv
<1>2. GridEvents'
  BY <1>1 DEF GridInv, GridEvents
<1>3. Grid!OwnCache'
  BY <1>1 DEF GridInv, Grid!OwnCache, Grid!SameAsLast, Grid!Skipped, Grid!OverMaxLen, Grid!OverKv
<1>4. GridFits'
  BY <1>1, FitsStay DEF GridInv, Grid!Warmup
<1>5. GridCache'
  BY <1>1 DEF Grid!Warmup, GridInv, GridCache
<1> QED
  BY <1>1, <1>2, <1>3, <1>4, <1>5 DEF Grid!Warmup, GridInv

\* The rows written so far stay judged as they were: the grid and its driver do not change.
LEMMA JudgedStay ==
  ASSUME driver' = driver
  PROVE  \A c : (Grid!Skipped(c)' <=> Grid!Skipped(c)) /\ (Grid!SameAsLast(c)' <=> Grid!SameAsLast(c))
BY DEF Grid!SameAsLast, Grid!Skipped, Grid!OverMaxLen, Grid!OverKv

\* A batch that fails ends the run with what it had.
LEMMA BatchFailsStep == ASSUME GridInv, Grid!BatchFails PROVE GridInv'
<1>1. /\ driver = "http" /\ driver' = "http" /\ outcome' = "raised" /\ outcome = "running"
      /\ UNCHANGED <<rows, grades, events, attempt, step, cell, lastKey, cache, phase>>
  BY DEF Grid!BatchFails
<1>2. GridEvents'
  BY <1>1 DEF GridInv, GridEvents
<1>3. Grid!OwnCache'
  BY <1>1, JudgedStay DEF GridInv, Grid!OwnCache
<1>4. GridFits'
  BY <1>1, FitsStay DEF GridInv
<1>5. GridCache'
  BY <1>1, JudgedStay DEF GridInv, GridCache
<1> QED
  BY <1>1, <1>2, <1>3, <1>4, <1>5 DEF GridInv

\* The cell at work ends with an event of its own.
LEMMA EventAdds ==
  ASSUME GridInv, driver = "http", driver' = driver, outcome = "running", Grid!NextCell,
         NEW e \in [kind : {"skip_maxlen", "skip_kv", "result"}, cell : Nat, of : Nat],
         e.cell = cell, events' = Append(events, e)
  PROVE  /\ GridEvents' /\ DOMAIN events' = DOMAIN events \cup {cell} /\ cell \notin DOMAIN events
         /\ events'[cell] = e /\ \A k \in DOMAIN events : events'[k] = events[k]
         /\ DOMAIN events = 1 .. cell - 1
<1> USE CellCount
<1>1. cell \in 1 .. Len(Cells) /\ GridEvents
  BY DEF GridInv
<1>2. /\ events \in Seq([kind : {"skip_maxlen", "skip_kv", "result"}, cell : Nat, of : Nat])
      /\ Len(events) = cell - 1
  BY <1>1 DEF GridEvents
<1>3. /\ events' \in Seq([kind : {"skip_maxlen", "skip_kv", "result"}, cell : Nat, of : Nat])
      /\ Len(events') = cell /\ DOMAIN events' = DOMAIN events \cup {cell} /\ cell \notin DOMAIN events
      /\ events'[cell] = e /\ \A k \in DOMAIN events : events'[k] = events[k]
      /\ DOMAIN events = 1 .. cell - 1
  <2>1. cell \in Nat \ {0} /\ Len(events) \in Nat /\ Len(events) + 1 = cell
    BY <1>1, <1>2
  <2>2. /\ events' \in Seq([kind : {"skip_maxlen", "skip_kv", "result"}, cell : Nat, of : Nat])
        /\ Len(events') = Len(events) + 1
        /\ DOMAIN events' = DOMAIN events \cup {Len(events) + 1} /\ Len(events) + 1 \notin DOMAIN events
        /\ events'[Len(events) + 1] = e /\ \A k \in DOMAIN events : events'[k] = events[k]
        /\ DOMAIN events = 1 .. Len(events)
    BY <1>2
  <2> QED
    BY <1>2, <2>1, <2>2
<1>4. \A k \in DOMAIN events' : events'[k].cell = k
  BY <1>1, <1>3 DEF GridEvents
<1>5. Len(events') = IF outcome' = "done" THEN Len(Cells) ELSE cell' - 1
  <2>1. CASE cell = Len(Cells)
    BY <1>3, <2>1 DEF Grid!NextCell
  <2>2. CASE cell # Len(Cells)
    <3>1. outcome' = "running" /\ cell' = cell + 1
      BY <2>2 DEF Grid!NextCell
    <3>2. cell \in Nat
      BY <1>1
    <3>3. cell' - 1 = cell
      BY <3>1, <3>2
    <3> QED
      BY <1>3, <3>1, <3>3
  <2> QED
    BY <2>1, <2>2
<1> QED
  BY <1>3, <1>4, <1>5 DEF GridEvents

\* A skipped cell ends in its event, and the cache stays the last measured one's.
LEMMA SkipStep == ASSUME GridInv, Grid!Skip PROVE GridInv'
<1>1. CASE driver = "http"
  <2>0. /\ cell \in Nat \ {0} /\ Grid!Skipped(cell)
        /\ (outcome' # "done" => cell' = cell + 1) /\ (cell' = cell \/ cell' = cell + 1)
    <3>1. cell \in Nat \ {0}
      BY <1>1, CellCount DEF GridInv
    <3> QED
      BY <3>1 DEF Grid!Skip, Grid!NextCell
  <2>1. /\ driver' = "http" /\ outcome = "running" /\ phase = "cell" /\ Grid!Skipped(cell) /\ cell \in 1 .. Len(Cells)
        /\ Grid!NextCell /\ UNCHANGED <<rows, grades, attempt, step, lastKey, cache>>
        /\ events' = Append(events, Grid!SkipEvent(cell))
        /\ phase' = "cell" /\ outcome' \in {"running", "done"} /\ (outcome' = "done" => cell' = cell /\ cell = Len(Cells))
        /\ (outcome' # "done" => cell' = cell + 1 /\ cell + 1 \in 1 .. Len(Cells))
    BY <1>1, CellCount DEF Grid!Skip, Grid!NextCell, GridInv
  <2>2. /\ Grid!SkipEvent(cell) \in [kind : {"skip_maxlen", "skip_kv", "result"}, cell : Nat, of : Nat]
        /\ Grid!SkipEvent(cell).cell = cell /\ Grid!SkipEvent(cell).kind # "result"
    BY <2>0 DEF Grid!SkipEvent
  <2>3. /\ GridEvents' /\ DOMAIN events' = DOMAIN events \cup {cell} /\ cell \notin DOMAIN events
        /\ events'[cell] = Grid!SkipEvent(cell) /\ \A k \in DOMAIN events : events'[k] = events[k]
    BY <1>1, <2>1, <2>2, EventAdds
  <2>4. Grid!OwnCache'
    BY <1>1, <2>1, JudgedStay DEF GridInv, Grid!OwnCache
  <2>5. GridCache'
    <3>1. CASE lastKey = Grid!NoCell /\ \A j \in 1 .. cell - 1 : Grid!Skipped(j)
      <4>1. outcome' # "done" => \A j \in 1 .. cell' - 1 : Grid!Skipped(j)
        <5>1. \A j \in 1 .. cell : j \in 1 .. cell - 1 \/ j = cell
          BY <2>0
        <5> QED
          BY <2>0, <3>1, <5>1
      <4> QED
        BY <1>1, <2>1, <3>1, <4>1, JudgedStay DEF GridCache
    <3>2. CASE \E k \in 1 .. cell - 1 : /\ ~Grid!Skipped(k) /\ lastKey = Cells[k] /\ cache = {Cells[k]}
                                       /\ \A j \in k + 1 .. cell - 1 : Grid!Skipped(j)
      <4>1. PICK k \in 1 .. cell - 1 : /\ ~Grid!Skipped(k) /\ lastKey = Cells[k] /\ cache = {Cells[k]}
                                       /\ \A j \in k + 1 .. cell - 1 : Grid!Skipped(j)
        BY <3>2
      <4>2. k \in 1 .. cell' - 1 /\ \A j \in k + 1 .. cell' - 1 : Grid!Skipped(j)
        <5>1. \A j \in k + 1 .. cell : j \in k + 1 .. cell - 1 \/ j = cell
          BY <2>0, <4>1
        <5>2. k \in 1 .. cell' - 1
          BY <2>0, <4>1
        <5>3. CASE cell' = cell
          BY <4>1, <5>2, <5>3
        <5>4. CASE cell' = cell + 1
          <6>1. cell' - 1 = cell
            BY <2>0, <5>4
          <6> QED
            BY <2>0, <4>1, <5>1, <5>2, <6>1
        <5> QED
          BY <2>0, <5>3, <5>4
      <4> QED
        BY <1>1, <2>1, <4>1, <4>2, JudgedStay DEF GridCache
    <3> QED
      BY <1>1, <2>1, <3>1, <3>2 DEF GridInv, GridCache
  <2>6. GridFits'
    <3>1. \A c, a, s : HasRows(c, a, s)' <=> HasRows(c, a, s)
      BY <2>1 DEF HasRows
    <3>2. GridFits
      BY <1>1 DEF GridInv
    <3>3. \A k \in DOMAIN events' : events'[k].kind = "result" => k \in DOMAIN events /\ events'[k] = events[k]
      BY <2>2, <2>3
    <3>4. outcome' # "done" => \A c \in DOMAIN Cells : c > cell' \/ (c = cell' /\ phase' # "fit") => grades[c] = <<>>
      <4>1. \A c \in DOMAIN Cells : c > cell \/ (c = cell /\ phase # "fit") => grades[c] = <<>>
        BY <2>1, <3>2 DEF GridFits
      <4>2. DOMAIN Cells \subseteq Nat
        BY GridBounds
      <4> QED
        BY <2>0, <4>1, <4>2
    <3> QED
      BY <2>1, <3>1, <3>2, <3>3, <3>4 DEF GridFits
  <2> QED
    BY <2>1, <2>3, <2>4, <2>5, <2>6 DEF GridInv
<1>2. CASE driver = "score"
  BY <1>2 DEF Grid!Skip, Grid!NextCell, GridInv
<1> QED
  BY <1>1, <1>2 DEF Grid!Skip, GridInv

\* The row a batch writes is one whose cache is its cell's.
LEMMA RowJudged ==
  ASSUME GridInv, driver = "http", driver' = driver, NEW r, rows' = rows \cup {r},
         r.met = IF r.phase = "warm" /\ ~Grid!SameAsLast(r.cell) THEN {} ELSE {Cells[r.cell]}
  PROVE  Grid!OwnCache'
<1>1. \A q \in rows : q.met = IF q.phase = "warm" /\ ~Grid!SameAsLast(q.cell) THEN {} ELSE {Cells[q.cell]}
  BY DEF GridInv, Grid!OwnCache
<1> QED
  BY <1>1, JudgedStay DEF Grid!OwnCache

\* A warm batch fills the cache with its cell's prompts.
LEMMA WarmStep == ASSUME GridInv, Grid!Warm PROVE GridInv'
<1> DEFINE r == [cell |-> cell, phase |-> "warm", attempt |-> 0, step |-> 0, met |-> Grid!Met(cell)]
<1>1. /\ driver = "http" /\ driver' = "http" /\ outcome = "running" /\ outcome' = "running" /\ phase = "cell" /\ phase' = "fit"
      /\ ~Grid!Skipped(cell) /\ attempt' = 1 /\ step' = 1 /\ rows' = rows \cup {r} /\ UNCHANGED <<cell, grades, events>>
      /\ lastKey' = Cells[cell] /\ cache' = Grid!Met(cell) \cup {Cells[cell]}
  BY DEF Grid!Warm, Grid!Batch
<1>2. Grid!Met(cell) = IF Grid!SameAsLast(cell) THEN {Cells[cell]} ELSE {}
  BY <1>1, MetIs
<1>3. r.cell = cell /\ r.phase = "warm" /\ r.met = Grid!Met(cell)
  OBVIOUS
<1> HIDE DEF r
<1>4. Grid!OwnCache'
  BY <1>1, <1>2, <1>3, RowJudged
<1>5. GridCache'
  BY <1>1, <1>2, JudgedStay DEF GridCache
<1>6. GridEvents'
  BY <1>1 DEF GridInv, GridEvents
<1>7. GridFits'
  <2>1. GridFits /\ cell \in DOMAIN Cells /\ Steps \in Nat \ {0, 1} /\ Attempts \in Nat \ {0}
    BY <1>1, GridBounds DEF GridInv
  <2>2. \A c, a, s : HasRows(c, a, s) => HasRows(c, a, s)'
    BY <1>1 DEF HasRows
  <2>3. cell \in Nat /\ grades[cell] = <<>>
    BY <1>1, <2>1, GridBounds DEF GridFits
  <2>4. \A c \in DOMAIN Cells : c > cell => grades[c] = <<>>
    BY <1>1, <2>1 DEF GridFits
  <2>5. /\ grades \in [DOMAIN Cells -> Seq(Grid!Grades)]
        /\ \A k \in DOMAIN events : events[k].kind = "result" =>
             /\ \A s \in 1 .. Steps : HasRows(k, events[k].of, s)
             /\ FirstBest(grades[k], events[k].of)
             /\ \A j \in DOMAIN grades[k] : grades[k][j] >= Grid!Stop => j = Len(grades[k])
    BY <2>1 DEF GridFits
  <2>6. Len(grades[cell]) = attempt' - 1 /\ DOMAIN grades[cell] = {} /\ 1 .. attempt' - 1 = {} /\ 1 .. step' - 1 = {}
    BY <1>1, <2>3
  <2>7. attempt' \in 1 .. Attempts /\ step' \in 1 .. Steps
    BY <1>1, <2>1
  <2> QED
    BY <1>1, <2>2, <2>3, <2>4, <2>5, <2>6, <2>7 DEF GridFits
<1> QED
  BY <1>1, <1>4, <1>5, <1>6, <1>7 DEF GridInv

\* A fit's batch meets its own cell's prompts and is the attempt's next row.
LEMMA FitBatchStep == ASSUME GridInv, Grid!FitBatch PROVE GridInv'
<1> DEFINE r == [cell |-> cell, phase |-> "fit", attempt |-> attempt, step |-> step, met |-> Grid!Met(cell)]
<1>1. /\ driver = "http" /\ driver' = "http" /\ outcome = "running" /\ outcome' = "running" /\ phase = "fit" /\ phase' = "fit"
      /\ step < Steps /\ step' = step + 1 /\ rows' = rows \cup {r} /\ UNCHANGED <<cell, attempt, grades, events>>
      /\ lastKey' = Cells[cell] /\ cache' = Grid!Met(cell) \cup {Cells[cell]}
  BY DEF Grid!FitBatch, Grid!Batch, GridInv
<1>2. Grid!Met(cell) = {Cells[cell]} /\ ~Grid!Skipped(cell)
  BY <1>1 DEF GridInv, GridCache, Grid!Met
<1>3. r.cell = cell /\ r.phase = "fit" /\ r.attempt = attempt /\ r.step = step /\ r.met = Grid!Met(cell)
  OBVIOUS
<1> HIDE DEF r
<1>4. Grid!OwnCache'
  BY <1>1, <1>2, <1>3, RowJudged
<1>5. GridCache'
  BY <1>1, <1>2, JudgedStay DEF GridCache
<1>6. GridEvents'
  BY <1>1 DEF GridInv, GridEvents
<1>7. GridFits'
  <2>1. GridFits /\ Steps \in Nat \ {0, 1}
    BY <1>1, GridBounds DEF GridInv
  <2>2. \A c, a, s : HasRows(c, a, s) => HasRows(c, a, s)'
    BY <1>1 DEF HasRows
  <2>3. \A s : s = step => HasRows(cell, attempt, s)'
    BY <1>1, <1>3 DEF HasRows
  <2>4. step \in 1 .. Steps /\ \A s \in 1 .. step - 1 : HasRows(cell, attempt, s)
    BY <1>1, <2>1 DEF GridFits
  <2>5. step' \in 1 .. Steps /\ \A s \in 1 .. step' - 1 : s \in 1 .. step - 1 \/ s = step
    BY <1>1, <2>1, <2>4
  <2>6. \A s \in 1 .. step' - 1 : HasRows(cell, attempt, s)'
    BY <1>1, <2>2, <2>3, <2>4, <2>5
  <2>7. /\ Len(grades[cell]) = attempt - 1
        /\ \A j \in DOMAIN grades[cell] : grades[cell][j] < Grid!Stop
        /\ grades[cell] # <<>> => \E k \in DOMAIN grades[cell] : FirstBest(grades[cell], k)
        /\ \A a \in 1 .. attempt - 1, s \in 1 .. Steps : HasRows(cell, a, s)'
        /\ \A c \in DOMAIN Cells : c > cell => grades[c] = <<>>
    BY <1>1, <2>1, <2>2 DEF GridFits
  <2>8. /\ grades \in [DOMAIN Cells -> Seq(Grid!Grades)] /\ attempt \in 1 .. Attempts
        /\ \A k \in DOMAIN events : events[k].kind = "result" =>
             /\ \A s \in 1 .. Steps : HasRows(k, events[k].of, s)'
             /\ FirstBest(grades[k], events[k].of)
             /\ \A j \in DOMAIN grades[k] : grades[k][j] >= Grid!Stop => j = Len(grades[k])
    <3>1. /\ grades \in [DOMAIN Cells -> Seq(Grid!Grades)] /\ attempt \in 1 .. Attempts
          /\ \A k \in DOMAIN events : events[k].kind = "result" =>
               /\ \A s \in 1 .. Steps : HasRows(k, events[k].of, s)
               /\ FirstBest(grades[k], events[k].of)
               /\ \A j \in DOMAIN grades[k] : grades[k][j] >= Grid!Stop => j = Len(grades[k])
      BY <2>1 DEF GridFits
    <3>2. \A c, a, s : HasRows(c, a, s) => HasRows(c, a, s)'
      BY <2>2
    <3>3. \A k \in DOMAIN events : events[k].kind = "result" => \A s \in 1 .. Steps : HasRows(k, events[k].of, s)'
      BY <1>1, <3>1, <3>2
    <3> QED
      BY <3>1, <3>3
  <2>9. cell \in Nat /\ DOMAIN Cells \subseteq Nat
    BY <1>1, GridBounds DEF GridInv
  <2> QED
    BY <1>1, <2>5, <2>6, <2>7, <2>8, <2>9 DEF GridFits
<1> QED
  BY <1>1, <1>4, <1>5, <1>6, <1>7 DEF GridInv

\* Scoring times nothing.
LEMMA ScoreStep == ASSUME GridInv, Grid!Score PROVE GridInv'
BY DEF GridInv, Grid!Score, Grid!NextCell

\* A bench's log grows by the kept cell that printed its result.
LEMMA BenchSteps == ASSUME GridInv, Grid!BenchBegins \/ Grid!Bench \/ Grid!BenchEnds PROVE GridInv'
<1>1. CASE Grid!BenchBegins
  <2>1. driver = "bench" /\ cell = 1
    BY <1>1 DEF Grid!BenchBegins, GridInv, GridBench
  <2>2. {Cells[c] : c \in {k \in 1 .. cell - 1 : ~Grid!Skipped(k)}} = {}
    BY <2>1
  <2>3. log' = {} /\ driver' = driver /\ phase' = "bench" /\ outcome' = "running" /\ cell' = cell
    BY <1>1 DEF Grid!BenchBegins, Grid!BenchPlan
  <2>4. GridBench'
    BY <2>1, <2>2, <2>3, JudgedStay DEF GridBench
  <2> QED
    BY <2>1, <2>3, <2>4 DEF GridInv
<1>2. CASE Grid!Bench
  <2>1. driver = "bench" /\ cell \in 1 .. Len(Cells) /\ phase = "bench" /\ outcome # "done" /\ GridBench
    BY <1>2, GridBounds DEF Grid!Bench, GridInv
  <2>2. driver' = driver /\ phase' = phase /\ cell' = cell + 1 /\ outcome' \in {"running", "raised", "missing"}
    BY <1>2, <2>1 DEF Grid!Bench
  <2>3. ASSUME outcome' = "running"
        PROVE  outcome = "running" /\ log' = IF Grid!Skipped(cell) THEN log ELSE log \cup {Cells[cell]}
    BY <1>2, <2>1, <2>3 DEF Grid!Bench
  <2>4. cell \in Nat /\ \A k : k \in 1 .. cell' - 1 <=> k \in 1 .. cell - 1 \/ k = cell
    BY <2>1, <2>2
  <2>5. outcome' = "running" => log' = {Cells[c] : c \in {k \in 1 .. cell' - 1 : ~Grid!Skipped(k)}}
    BY <2>1, <2>3, <2>4 DEF GridBench
  <2>6. cell' \in 1 .. Len(Cells) + 1
    BY <2>1, <2>2, GridBounds
  <2>7. GridBench'
    BY <2>1, <2>2, <2>5, JudgedStay DEF GridBench
  <2> QED
    BY <2>1, <2>2, <2>6, <2>7 DEF GridInv
<1>3. CASE Grid!BenchEnds
  <2>1. /\ driver = "bench" /\ cell = Len(Cells) + 1 /\ phase = "bench" /\ GridBench
        /\ driver' = driver /\ phase' = phase /\ cell' = cell /\ outcome' \in {"done", "raised"}
    BY <1>3, GridBounds DEF Grid!BenchEnds, GridInv
  <2>2. outcome' = "done" => outcome = "running" /\ rows' = log
    BY <1>3 DEF Grid!BenchEnds
  <2>3. DOMAIN Cells = 1 .. cell - 1
    BY <2>1, GridBounds
  <2>4. GridBench'
    BY <2>1, <2>2, <2>3, JudgedStay DEF GridBench
  <2> QED
    BY <2>1, <2>4, GridBounds DEF GridInv
<1> QED
  BY <1>1, <1>2, <1>3

\* One more attempt is the first best one, or leaves it.
LEMMA AppendBest ==
  ASSUME NEW g \in Seq(Grid!Grades), NEW r \in Grid!Grades, g # <<>> => \E k \in DOMAIN g : FirstBest(g, k)
  PROVE  \E k \in DOMAIN Append(g, r) : FirstBest(Append(g, r), k)
<1> DEFINE h == Append(g, r)
           n == Len(g) + 1
<1>1. /\ n \in Nat /\ DOMAIN h = 1 .. n /\ DOMAIN g = 1 .. n - 1 /\ h[n] = r /\ \A j \in 1 .. n - 1 : h[j] = g[j] /\ g[j] \in Int
      /\ r \in Int
  BY DEF Grid!Grades
<1> HIDE DEF h, n
<1>2. CASE g = <<>>
  <2>1. n = 1
    BY <1>2 DEF n
  <2>2. FirstBest(h, 1)
    BY <1>1, <2>1 DEF FirstBest
  <2> QED
    BY <1>1, <2>1, <2>2 DEF h
<1>3. CASE g # <<>>
  <2>1. PICK k \in 1 .. n - 1 : \A j \in 1 .. n - 1 : g[j] < g[k] \/ (g[j] = g[k] /\ k <= j)
    BY <1>1, <1>3 DEF FirstBest
  <2>2. CASE r > g[k]
    <3>1. \A j \in 1 .. n - 1 : h[j] < h[n]
      BY <1>1, <2>1, <2>2
    <3>2. \A j \in 1 .. n : h[j] < h[n] \/ (h[j] = h[n] /\ n <= j)
      BY <1>1, <3>1
    <3>3. n \in DOMAIN h /\ FirstBest(h, n)
      BY <1>1, <3>2 DEF FirstBest, n
    <3> QED
      BY <3>3 DEF h
  <2>3. CASE ~(r > g[k])
    <3>1. h[n] < h[k] \/ (h[n] = h[k] /\ k <= n)
      BY <1>1, <2>1, <2>3
    <3>2. \A j \in 1 .. n : h[j] < h[k] \/ (h[j] = h[k] /\ k <= j)
      BY <1>1, <2>1, <3>1
    <3>3. k \in DOMAIN h
      BY <1>1, <2>1
    <3>4. FirstBest(h, k)
      BY <1>1, <3>2, <3>3 DEF FirstBest
    <3> QED
      BY <3>3, <3>4 DEF h
  <2> QED
    BY <2>2, <2>3
<1> QED
  BY <1>2, <1>3

\* An attempt that ends is whole; it ends the cell with the best one, or the next begins.
LEMMA FitEndsStep == ASSUME GridInv, Grid!FitEnds PROVE GridInv'
<1> DEFINE r == [cell |-> cell, phase |-> "fit", attempt |-> attempt, step |-> step, met |-> Grid!Met(cell)]
           e == [kind |-> "result", cell |-> cell, of |-> Grid!BestAttempt(cell)]
<1>1. /\ driver = "http" /\ driver' = "http" /\ outcome = "running" /\ phase = "fit"
      /\ step = Steps /\ step' = 1 /\ rows' = rows \cup {r}
      /\ lastKey' = Cells[cell] /\ cache' = Grid!Met(cell) \cup {Cells[cell]}
  BY DEF Grid!FitEnds, Grid!Batch, GridInv
<1>2. PICK r2 \in Grid!Grades :
        /\ grades' = [grades EXCEPT ![cell] = Append(@, r2)]
        /\ IF r2 >= Grid!Stop \/ attempt = Attempts
           THEN events' = Append(events, e) /\ Grid!NextCell /\ UNCHANGED attempt
           ELSE attempt' = attempt + 1 /\ UNCHANGED <<cell, phase, events, outcome>>
  BY DEF Grid!FitEnds
<1>3. Grid!Met(cell) = {Cells[cell]} /\ ~Grid!Skipped(cell)
  BY <1>1 DEF GridInv, GridCache, Grid!Met
<1>4. r.cell = cell /\ r.phase = "fit" /\ r.attempt = attempt /\ r.step = step /\ r.met = Grid!Met(cell)
  OBVIOUS
<1> HIDE DEF r
<1>5. Grid!OwnCache'
  BY <1>1, <1>3, <1>4, RowJudged
<1>6. /\ cell \in Nat \ {0} /\ cell \in DOMAIN Cells /\ DOMAIN Cells = 1 .. Len(Cells) /\ Len(Cells) \in Nat
      /\ Steps \in Nat \ {0, 1} /\ Attempts \in Nat \ {0} /\ attempt \in 1 .. Attempts
  <2>1. cell \in DOMAIN Cells /\ attempt \in 1 .. Attempts
    BY <1>1 DEF GridInv, GridFits
  <2> QED
    BY <2>1, GridBounds
<1> DEFINE g == grades[cell]
           h == Append(g, r2)
<1>7. /\ grades \in [DOMAIN Cells -> Seq(Grid!Grades)]
      /\ g \in Seq(Grid!Grades) /\ Len(g) = attempt - 1 /\ \A j \in DOMAIN g : g[j] < Grid!Stop
      /\ g # <<>> => \E k \in DOMAIN g : FirstBest(g, k)
      /\ \A c \in DOMAIN Cells : c > cell => grades[c] = <<>>
      /\ \A a \in 1 .. attempt - 1, s \in 1 .. Steps : HasRows(cell, a, s)
      /\ \A s \in 1 .. Steps - 1 : HasRows(cell, attempt, s)
      /\ \A k \in DOMAIN events : events[k].kind = "result" =>
           /\ \A s \in 1 .. Steps : HasRows(k, events[k].of, s)
           /\ FirstBest(grades[k], events[k].of)
           /\ \A j \in DOMAIN grades[k] : grades[k][j] >= Grid!Stop => j = Len(grades[k])
  BY <1>1, <1>6 DEF GridInv, GridFits
<1>8. /\ h \in Seq(Grid!Grades) /\ Len(h) = attempt /\ DOMAIN h = 1 .. attempt
      /\ h[attempt] = r2 /\ \A j \in 1 .. attempt - 1 : h[j] = g[j] /\ h[j] < Grid!Stop
  BY <1>6, <1>7
<1>9. grades' \in [DOMAIN Cells -> Seq(Grid!Grades)] /\ grades'[cell] = h /\ \A c \in DOMAIN Cells : c # cell => grades'[c] = grades[c]
  BY <1>2, <1>6, <1>7, <1>8
<1>10. \E k \in DOMAIN h : FirstBest(h, k)
  BY <1>7, AppendBest
<1> HIDE DEF g, h
<1>11. \A c, a, s : HasRows(c, a, s) => HasRows(c, a, s)'
  BY <1>1 DEF HasRows
<1>12. \A c, a, s : c = cell /\ a \in 1 .. attempt /\ s \in 1 .. Steps => HasRows(c, a, s)'
  <2>1. \A c, a, s : c = cell /\ a = attempt /\ s = Steps => HasRows(c, a, s)'
    BY <1>1, <1>4 DEF HasRows
  <2>2. \A a \in 1 .. attempt, s \in 1 .. Steps : a \in 1 .. attempt - 1 \/ (a = attempt /\ (s \in 1 .. Steps - 1 \/ s = Steps))
    BY <1>6
  <2> QED
    BY <1>7, <1>11, <2>1, <2>2
<1>13. CASE ~(r2 >= Grid!Stop \/ attempt = Attempts)
  <2>1. attempt' = attempt + 1 /\ UNCHANGED <<cell, phase, events, outcome>>
    BY <1>2, <1>13
  <2>2. GridEvents'
    BY <1>1, <2>1 DEF GridInv, GridEvents
  <2>3. GridCache'
    BY <1>1, <1>3, <2>1, JudgedStay DEF GridCache
  <2>4. r2 < Grid!Stop /\ attempt' \in 1 .. Attempts /\ Len(h) = attempt' - 1
    BY <1>6, <1>8, <1>13, <2>1 DEF Grid!Grades, Grid!Stop
  <2>5. \A j \in DOMAIN h : h[j] < Grid!Stop
    <3>1. \A j \in 1 .. attempt : j \in 1 .. attempt - 1 \/ j = attempt
      BY <1>6
    <3> QED
      BY <1>8, <2>4, <3>1
  <2>6. \A c \in DOMAIN Cells : c > cell => grades'[c] = <<>>
    BY <1>6, <1>7, <1>9
  <2>7. \A a, s : a \in 1 .. attempt' - 1 /\ s \in 1 .. Steps => HasRows(cell, a, s)'
    BY <1>6, <1>12, <2>1
  <2>8. \A k \in DOMAIN events : k # cell /\ k \in DOMAIN Cells
    BY <1>1, <1>6 DEF GridInv, GridEvents
  <2>9. \A k \in DOMAIN events : events[k].kind = "result" =>
           /\ \A s \in 1 .. Steps : HasRows(k, events[k].of, s)'
           /\ FirstBest(grades'[k], events[k].of)
           /\ \A j \in DOMAIN grades'[k] : grades'[k][j] >= Grid!Stop => j = Len(grades'[k])
    BY <1>7, <1>9, <1>11, <2>1, <2>8
  <2>10. step' \in 1 .. Steps /\ 1 .. step' - 1 = {}
    BY <1>1, <1>6
  <2>11. GridFits'
    BY <1>1, <1>6, <1>9, <1>10, <2>1, <2>4, <2>5, <2>6, <2>7, <2>9, <2>10 DEF GridFits
  <2> QED
    BY <1>1, <1>5, <2>1, <2>2, <2>3, <2>11 DEF GridInv
<1>14. CASE r2 >= Grid!Stop \/ attempt = Attempts
  <2>1. events' = Append(events, e) /\ Grid!NextCell /\ attempt' = attempt
    BY <1>2, <1>14
  <2>2. Grid!BestAttempt(cell) \in 1 .. attempt /\ FirstBest(h, Grid!BestAttempt(cell))
    BY <1>8, <1>9, <1>10 DEF Grid!BestAttempt, FirstBest
  <2>3. /\ e \in [kind : {"skip_maxlen", "skip_kv", "result"}, cell : Nat, of : Nat]
        /\ e.cell = cell /\ e.of = Grid!BestAttempt(cell)
    BY <1>6, <2>2
  <2> HIDE DEF e
  <2>4. /\ GridEvents' /\ DOMAIN events' = DOMAIN events \cup {cell} /\ cell \notin DOMAIN events
        /\ events'[cell] = e /\ \A k \in DOMAIN events : events'[k] = events[k]
        /\ DOMAIN events = 1 .. cell - 1
    BY <1>1, <2>1, <2>3, EventAdds
  <2>5. /\ outcome' # "done" => cell' = cell + 1 /\ phase' = "cell" /\ outcome' = "running"
        /\ outcome' = "done" => cell' = cell /\ phase' = "fit" /\ cell = Len(Cells)
        /\ outcome' \in {"running", "done"} /\ cell' \in DOMAIN Cells
    <3>1. CASE cell = Len(Cells)
      BY <1>1, <1>6, <2>1, <3>1 DEF Grid!NextCell
    <3>2. CASE cell # Len(Cells)
      <4>1. cell' = cell + 1 /\ phase' = "cell" /\ outcome' = "running"
        BY <1>1, <2>1, <3>2 DEF Grid!NextCell
      <4>2. cell + 1 \in DOMAIN Cells
        <5>1. cell \in 1 .. Len(Cells) /\ Len(Cells) \in Nat
          BY <1>6
        <5>2. cell + 1 \in 1 .. Len(Cells)
          BY <3>2, <5>1
        <5> QED
          BY <1>6, <5>2
      <4> QED
        BY <4>1, <4>2
    <3> QED
      BY <3>1, <3>2
  <2>6. GridCache'
    <3>1. CASE outcome' = "done"
      BY <1>1, <1>3, <2>5, <3>1, JudgedStay DEF GridCache
    <3>2. CASE outcome' # "done"
      <4>1. cell \in 1 .. cell' - 1 /\ cell + 1 .. cell' - 1 = {} /\ lastKey' = Cells[cell] /\ cache' = {Cells[cell]}
        BY <1>1, <1>3, <1>6, <2>5, <3>2
      <4> QED
        BY <1>1, <1>3, <2>5, <3>2, <4>1, JudgedStay DEF GridCache
    <3> QED
      BY <3>1, <3>2
  <2>7. outcome' # "done" => \A c \in DOMAIN Cells : c > cell' \/ c = cell' => grades'[c] = <<>>
    <3>1. \A c \in DOMAIN Cells : c > cell + 1 \/ c = cell + 1 => c > cell /\ c # cell
      BY <1>6
    <3> QED
      BY <1>7, <1>9, <2>5, <3>1
  <2>8. step' \in 1 .. Steps /\ attempt' \in 1 .. Attempts
    BY <1>1, <1>6, <2>1
  <2>9. \A k \in DOMAIN events : k # cell /\ k \in DOMAIN Cells
    BY <1>6, <2>4
  <2>10. ASSUME NEW k \in DOMAIN events', events'[k].kind = "result"
         PROVE  /\ \A s \in 1 .. Steps : HasRows(k, events[k].of, s)'
                /\ FirstBest(grades'[k], events'[k].of)
                /\ \A j \in DOMAIN grades'[k] : grades'[k][j] >= Grid!Stop => j = Len(grades'[k])
    <3>1. CASE k = cell
      <4>1. events'[k].of = Grid!BestAttempt(cell) /\ grades'[k] = h
        BY <1>9, <2>3, <2>4, <3>1
      <4>2. \A a, s : a = events'[k].of /\ s \in 1 .. Steps => HasRows(k, a, s)'
        BY <1>12, <2>2, <3>1, <4>1
      <4>3. \A j \in 1 .. attempt : j \in 1 .. attempt - 1 \/ j = attempt
        BY <1>6
      <4>4. \A j \in DOMAIN h : h[j] >= Grid!Stop => j = Len(h)
        BY <1>8, <4>3 DEF Grid!Stop, Grid!Grades
      <4> QED
        BY <2>2, <4>1, <4>2, <4>4
    <3>2. CASE k # cell
      <4>1. k \in DOMAIN events /\ events'[k] = events[k] /\ grades'[k] = grades[k]
        BY <1>9, <2>4, <2>9, <3>2
      <4> QED
        BY <1>7, <1>11, <2>10, <4>1
    <3> QED
      BY <3>1, <3>2
  <2>11. GridFits'
    BY <1>1, <1>6, <1>9, <2>5, <2>7, <2>8, <2>10, ZenonT(40) DEF GridFits
  <2> QED
    BY <1>1, <1>5, <2>4, <2>5, <2>6, <2>11 DEF GridInv
<1> QED
  BY <1>13, <1>14

\* A step that leaves the grid alone.
LEMMA GridStutter == ASSUME GridInv, UNCHANGED gridVars PROVE GridInv'
<1> USE DEF gridVars
<1>1. CASE driver = "http"
  <2>1. GridEvents'
    BY <1>1 DEF GridInv, GridEvents
  <2>2. Grid!OwnCache'
    BY <1>1, JudgedStay DEF GridInv, Grid!OwnCache
  <2>3. GridFits'
    BY <1>1, FitsStay DEF GridInv
  <2>4. GridCache'
    BY <1>1, JudgedStay DEF GridInv, GridCache
  <2> QED
    BY <1>1, <2>1, <2>2, <2>3, <2>4 DEF GridInv
<1>2. CASE driver = "bench"
  <2>1. GridBench'
    BY <1>2, JudgedStay DEF GridInv, GridBench
  <2> QED
    BY <1>2, <2>1 DEF GridInv
<1>3. CASE driver = "score"
  BY <1>3 DEF GridInv
<1> QED
  BY <1>1, <1>2, <1>3 DEF GridInv

\* Every step of a grid keeps its invariant.
LEMMA GridStep == ASSUME GridInv, Grid!Next PROVE GridInv'
<1>1. CASE Grid!Over
  BY <1>1, GridStutter DEF Grid!Over, Grid!vars, gridVars
<1> QED
  BY <1>1, WarmupStep, SkipStep, WarmStep, FitBatchStep, FitEndsStep, BatchFailsStep, ScoreStep, BenchSteps DEF Grid!Next

\* The invariant says what the properties do.
LEMMA GridRight == ASSUME GridInv PROVE Grid!CellsRight
<1>1. Grid!OneEventPerCell
  BY DEF GridInv, GridEvents, Grid!OneEventPerCell
<1>2. Grid!OwnCache
  BY DEF GridInv, Grid!OwnCache
<1>3. Grid!FitIsWhole
  <2> SUFFICES ASSUME driver = "http", NEW k \in DOMAIN events, events[k].kind = "result"
               PROVE  LET c == events[k].cell IN
                      /\ \A s \in 1 .. Steps : \E r \in rows : r.cell = c /\ r.phase = "fit" /\ r.attempt = events[k].of /\ r.step = s
                      /\ \A j \in DOMAIN grades[c] : grades[c][j] <= grades[c][events[k].of]
                      /\ \A j \in DOMAIN grades[c] : grades[c][j] >= Grid!Stop => j = Len(grades[c])
    BY DEF Grid!FitIsWhole
  <2>1. events[k].cell = k /\ k \in DOMAIN Cells
    <3>1. cell \in 1 .. Len(Cells) /\ GridEvents
      BY CellCount DEF GridInv
    <3>2. events \in Seq([kind : {"skip_maxlen", "skip_kv", "result"}, cell : Nat, of : Nat]) /\ events[k].cell = k
      BY <3>1 DEF GridEvents
    <3>3. k \in 1 .. Len(events) /\ Len(events) \in Nat
      BY <3>2
    <3>4. Len(events) = Len(Cells) \/ Len(events) = cell - 1
      BY <3>1 DEF GridEvents
    <3>5. k \in 1 .. Len(Cells)
      BY <3>1, <3>3, <3>4, CellCount
    <3> QED
      BY <3>2, <3>5, CellCount
  <2>2. /\ \A s \in 1 .. Steps : HasRows(k, events[k].of, s)
        /\ FirstBest(grades[k], events[k].of)
        /\ \A j \in DOMAIN grades[k] : grades[k][j] >= Grid!Stop => j = Len(grades[k])
        /\ grades \in [DOMAIN Cells -> Seq(Grid!Grades)]
    BY DEF GridInv, GridFits
  <2>3. \A j \in DOMAIN grades[k] : grades[k][j] \in Int
    BY <2>1, <2>2 DEF Grid!Grades
  <2>4. \A j \in DOMAIN grades[k] : grades[k][j] <= grades[k][events[k].of]
    BY <2>2, <2>3 DEF FirstBest
  <2> QED
    BY <2>1, <2>2, <2>4 DEF HasRows
<1>4. Grid!BenchIsOwn
  BY DEF GridInv, GridBench, Grid!BenchIsOwn
<1> QED
  BY <1>1, <1>2, <1>3, <1>4 DEF Grid!CellsRight

\* Whatever cells a grid has, in whatever order and however often, each ends in one event of its own, is timed in a cache
\* with none but its own prompts, and is judged by the best whole fit; a bench's rows are its own run's (serve.py,
\* run_grid, measure_cell and run_bench).
THEOREM GridCells == Spec => []CellsRight
<1> DEFINE GInv == kind = "grid" => GridInv
<1>1. Init => GInv
  BY GridStart DEF Init
<1>2. GInv /\ [Next]_vars => GInv'
  <2> SUFFICES ASSUME GInv, [Next]_vars, kind' = "grid" PROVE GridInv'
    OBVIOUS
  <2>1. CASE Grids
    BY <2>1, GridStep DEF Grids
  <2>2. CASE Runs \/ Windows \/ Replays \/ Streams \/ SentPlans \/ Draws \/ Concluded \/ UNCHANGED vars
    <3>1. kind' = kind /\ UNCHANGED gridVars
      BY <2>2 DEF Runs, Abort, Conclude, Probe, ProbeMismatch, ProbeRaises, Windows, Replays, Streams, SentPlans, Draws,
                  Concluded, vars
    <3> QED
      BY <3>1, GridStutter
  <2> QED
    BY <2>1, <2>2 DEF Next
<1>3. GInv => CellsRight
  BY GridRight DEF CellsRight
<1> QED
  BY <1>1, <1>2, <1>3, PTL DEF Spec

-------------------------------------------------------------------------------
(* A streamed request (HttpStream). *)

\* The coroutine's variables, and what it keeps of its chunks: an entry for each time.
Locals == [ttft : Nat \cup {Stream!NoTime}, itl : Seq(Nat), lastToken : Nat, lastChoices : Nat, output : Nat,
           reported : BOOLEAN, done : BOOLEAN, bad : BOOLEAN, read : Nat, chars : Seq(Nat),
           counts : Seq(Nat \cup {Stream!NoCount})]
Sayings == [lines : 0 .. MaxLines, chars : Nat, tokens : Nat, done : BOOLEAN]

Matched(l) ==
  /\ l.ttft = Stream!NoTime => l.itl = <<>> /\ l.chars = <<>> /\ l.counts = <<>>
  /\ l.ttft # Stream!NoTime => Len(l.chars) = Len(l.itl) + 1 /\ Len(l.counts) = Len(l.itl) + 1

\* While the stream is on: a chunk's entry for each time, every character read unless a line was lost, [DONE] read if sent.
\* Once it is over: what its result says.
StreamInv ==
  /\ Stream!TypeOK
  /\ said.done = local.done
  /\ ~local.bad => local.read = said.chars
  /\ local.lastToken <= now /\ Matched(local)
  /\ Stream!SuccessIsWhole
  /\ Stream!ChunksMatch

LEMMA StreamBounds == MaxLines \in Nat /\ MaxTokens \in Nat /\ MaxPlanned \in Nat
BY PartsAssumption DEF Stream!BoundsAssumption

\* A result has one time for each gap and one for the first chunk.
LEMMA TimesCounted ==
  ASSUME NEW r, r.itl \in Seq(Nat)
  PROVE  Len(Stream!ChunkTimes(r)) = IF r.ttft = Stream!NoTime THEN 0 ELSE Len(r.itl) + 1
BY DEF Stream!ChunkTimes

LEMMA StreamStart == Init /\ kind = "stream" => StreamInv
<1> SUFFICES ASSUME Init, kind = "stream" PROVE StreamInv
  OBVIOUS
<1>1. Stream!Init /\ mode \in [allowMissingUsage : BOOLEAN, exactOutputLength : BOOLEAN]
  BY DEF Init
<1>2. said \in Sayings
  BY <1>1, StreamBounds DEF Stream!Init, Sayings
<1>3. local \in Locals
  BY <1>1 DEF Stream!Init, Locals
<1>4. Stream!TypeOK
  BY <1>1, <1>2, <1>3 DEF Stream!Init, Stream!TypeOK, Stream!Times, Stream!None, Locals, Sayings
<1> QED
  BY <1>1, <1>4 DEF StreamInv, Matched, Stream!Init, Stream!Succeeded, Stream!SuccessIsWhole, Stream!ChunksMatch, Stream!Timed, Stream!None, Stream!NoTime


\* The assignments of the coroutine keep its variables' types.
LEMMA LocalIs ==
  ASSUME NEW l \in Locals
  PROVE  /\ l.ttft \in Nat \cup {Stream!NoTime} /\ l.itl \in Seq(Nat) /\ l.lastToken \in Nat /\ l.lastChoices \in Nat
         /\ l.output \in Nat /\ l.read \in Nat /\ l.chars \in Seq(Nat) /\ l.counts \in Seq(Nat \cup {Stream!NoCount})
BY DEF Locals

LEMMA SetUsage ==
  ASSUME NEW l \in Locals, NEW o \in Nat, NEW b \in BOOLEAN
  PROVE  [l EXCEPT !.output = o, !.reported = b] \in Locals
BY Zenon DEF Locals

LEMMA SetChoices ==
  ASSUME NEW l \in Locals, NEW t \in Nat, NEW n \in Nat
  PROVE  [l EXCEPT !.lastChoices = t, !.read = n] \in Locals
BY Zenon DEF Locals

LEMMA SetKept ==
  ASSUME NEW l \in Locals, NEW s \in Seq(Nat), NEW t \in Seq(Nat \cup {Stream!NoCount}), NEW n \in Nat
  PROVE  [l EXCEPT !.chars = s, !.counts = t, !.lastToken = n] \in Locals
BY Zenon DEF Locals

LEMMA SetTime ==
  ASSUME NEW l \in Locals, NEW t \in Nat, NEW s \in Seq(Nat)
  PROVE  [l EXCEPT !.ttft = t] \in Locals /\ [l EXCEPT !.itl = s] \in Locals
BY Zenon DEF Locals

LEMMA SetFlags ==
  ASSUME NEW l \in Locals
  PROVE  [l EXCEPT !.done = TRUE] \in Locals /\ [l EXCEPT !.bad = TRUE] \in Locals
BY Zenon DEF Locals

LEMMA SetSaid ==
  ASSUME NEW s \in Sayings, NEW n \in 0 .. MaxLines, NEW c \in Nat, NEW t \in Nat
  PROVE  [s EXCEPT !.lines = n, !.chars = c, !.tokens = t] \in Sayings
BY Zenon DEF Sayings

\* A usage block changes the counts alone.
LEMMA UsageRead ==
  ASSUME NEW l \in Locals, NEW usage, NEW total \in Nat
  PROVE  LET m == Stream!ReadUsage(l, usage, total)
         IN  /\ m \in Locals /\ m.ttft = l.ttft /\ m.itl = l.itl /\ m.lastToken = l.lastToken /\ m.done = l.done
             /\ m.bad = l.bad /\ m.read = l.read /\ m.chars = l.chars /\ m.counts = l.counts
<1>1. CASE usage = "none"
  BY <1>1 DEF Stream!ReadUsage
<1>2. CASE usage # "none"
  <2> DEFINE o == IF usage = "noCompletion" THEN 0 ELSE total
             b == usage = "both"
  <2>1. Stream!ReadUsage(l, usage, total) = [l EXCEPT !.output = o, !.reported = b]
    BY <1>2 DEF Stream!ReadUsage
  <2>2. o \in Nat /\ b \in BOOLEAN
    OBVIOUS
  <2> HIDE DEF o, b
  <2>3. [l EXCEPT !.output = o, !.reported = b] \in Locals
    BY <2>2, SetUsage
  <2> QED
    BY <2>1, <2>3 DEF Locals
<1> QED
  BY <1>1, <1>2

\* A token event adds a time and what is kept beside it.
LEMMA EventKept ==
  ASSUME NEW l \in Locals, NEW chars \in Nat, NEW count \in Nat \cup {Stream!NoCount}, NEW at \in Nat, l.lastToken <= at,
         Matched(l)
  PROVE  LET m == Stream!TokenEvent(l, chars, count, at)
         IN  m \in Locals /\ Matched(m) /\ m.lastToken <= at /\ m.read = l.read /\ m.done = l.done /\ m.bad = l.bad
<1> DEFINE known == Append(l.chars, chars)
           counted == Append(l.counts, count)
           kept == [l EXCEPT !.chars = known, !.counts = counted, !.lastToken = at]
<1>1. known \in Seq(Nat) /\ counted \in Seq(Nat \cup {Stream!NoCount}) /\ Len(known) = Len(l.chars) + 1
      /\ Len(counted) = Len(l.counts) + 1
  BY LocalIs
<1>2. Stream!TokenEvent(l, chars, count, at) =
        IF l.ttft = Stream!NoTime THEN [kept EXCEPT !.ttft = at] ELSE [kept EXCEPT !.itl = Append(@, at - l.lastToken)]
  BY DEF Stream!TokenEvent
<1> HIDE DEF known, counted
<1>3. kept \in Locals
  BY <1>1, SetKept
<1>4. /\ kept.lastToken = at /\ kept.read = l.read /\ kept.done = l.done /\ kept.bad = l.bad
      /\ kept.ttft = l.ttft /\ kept.itl = l.itl /\ kept.chars = known /\ kept.counts = counted
  BY DEF Locals
<1> HIDE DEF kept
<1>5. CASE l.ttft = Stream!NoTime
  <2> DEFINE m == [kept EXCEPT !.ttft = at]
  <2>1. m \in Locals
    BY <1>3, SetTime, LocalIs
  <2>2. /\ m.ttft = at /\ m.lastToken = at /\ m.read = l.read /\ m.done = l.done /\ m.bad = l.bad /\ m.itl = l.itl
        /\ m.chars = known /\ m.counts = counted
    BY <1>3, <1>4 DEF Locals
  <2>3. Len(l.chars) = 0 /\ Len(l.counts) = 0 /\ Len(l.itl) = 0 /\ at # Stream!NoTime
    BY <1>5 DEF Matched, Stream!NoTime
  <2> HIDE DEF m
  <2>4. Matched(m)
    BY <1>1, <2>2, <2>3 DEF Matched
  <2> QED
    BY <1>2, <1>5, <2>1, <2>2, <2>4 DEF m
<1>6. CASE l.ttft # Stream!NoTime
  <2> DEFINE gaps == Append(l.itl, at - l.lastToken)
             m == [kept EXCEPT !.itl = gaps]
  <2>1. at - l.lastToken \in Nat
    BY LocalIs
  <2>2. gaps \in Seq(Nat) /\ Len(gaps) = Len(l.itl) + 1
    BY <2>1, LocalIs
  <2>3. Stream!TokenEvent(l, chars, count, at) = m
    BY <1>2, <1>4, <1>6
  <2> HIDE DEF gaps
  <2>4. m \in Locals
    BY <1>3, <2>2, SetTime
  <2>5. /\ m.ttft = l.ttft /\ m.lastToken = at /\ m.read = l.read /\ m.done = l.done /\ m.bad = l.bad /\ m.itl = gaps
        /\ m.chars = known /\ m.counts = counted
    BY <1>3, <1>4 DEF Locals
  <2> HIDE DEF m
  <2>6. Len(l.chars) = Len(l.itl) + 1 /\ Len(l.counts) = Len(l.itl) + 1
    BY <1>6 DEF Matched
  <2>7. Matched(m)
    BY <1>1, <1>6, <2>2, <2>5, <2>6 DEF Matched
  <2> QED
    BY <2>3, <2>4, <2>5, <2>7
<1> QED
  BY <1>5, <1>6

\* A chunk's choices are read whole.
LEMMA ChoicesRead ==
  ASSUME NEW l \in Locals, NEW chars \in Nat, NEW count \in Nat \cup {Stream!NoCount}, NEW at \in Nat, l.lastToken <= at,
         Matched(l)
  PROVE  LET m == Stream!ReadChoices(l, chars, count, at)
         IN  m \in Locals /\ Matched(m) /\ m.lastToken <= at /\ m.read = l.read + chars /\ m.done = l.done /\ m.bad = l.bad
<1> DEFINE n == l.read + chars
           first == [l EXCEPT !.lastChoices = at, !.read = n]
<1>1. \/ Stream!ReadChoices(l, chars, count, at) = first
      \/ Stream!ReadChoices(l, chars, count, at) = Stream!TokenEvent(first, chars, count, at)
  BY DEF Stream!ReadChoices
<1>2. n \in Nat
  BY LocalIs
<1> HIDE DEF n
<1>3. first \in Locals
  BY <1>2, SetChoices
<1>4. /\ first.lastToken = l.lastToken /\ first.read = n /\ first.done = l.done /\ first.bad = l.bad
      /\ first.ttft = l.ttft /\ first.itl = l.itl /\ first.chars = l.chars /\ first.counts = l.counts
  BY DEF Locals
<1> HIDE DEF first
<1>5. Matched(first)
  BY <1>4 DEF Matched
<1>6. CASE Stream!ReadChoices(l, chars, count, at) = first
  BY <1>3, <1>4, <1>5, <1>6 DEF n
<1>7. CASE Stream!ReadChoices(l, chars, count, at) = Stream!TokenEvent(first, chars, count, at)
  <2> DEFINE m == Stream!TokenEvent(first, chars, count, at)
  <2>1. first.lastToken <= at
    BY <1>4
  <2>2. m \in Locals /\ Matched(m) /\ m.lastToken <= at /\ m.read = first.read /\ m.done = first.done /\ m.bad = first.bad
    BY <1>3, <1>5, <2>1, EventKept
  <2> HIDE DEF m
  <2>3. Stream!ReadChoices(l, chars, count, at) = m
    BY <1>7 DEF m
  <2> QED
    BY <1>4, <2>2, <2>3 DEF n
<1> QED
  BY <1>1, <1>6, <1>7

\* The kinds a result may have.
ResultKinds == {"none", "ok", "incomplete_stream", "malformed_stream", "empty_reply", "missing_usage", "short_output",
                "http_error", "server_error", "raised", "client_error", "cancelled"}

\* A stream that is on has no result to be right about; one that ended before its [DONE] or by an exception is no success.
LEMMA StillOn ==
  ASSUME StreamInv, said' \in Sayings, local' \in Locals, now' \in Nat, UNCHANGED <<endpoint, planned, mode, result>>,
         Stream!Streaming, said'.done = local'.done, ~local'.bad => local'.read = said'.chars,
         local'.lastToken <= now', Matched(local')
  PROVE  StreamInv'
<1>1. result' = Stream!None /\ Stream!None.kind = "none"
  BY DEF Stream!Streaming, Stream!None
<1>2. Stream!SuccessIsWhole' /\ Stream!ChunksMatch'
  BY <1>1 DEF Stream!SuccessIsWhole, Stream!Succeeded, Stream!ChunksMatch, Stream!Timed
<1>3. Stream!TypeOK'
  BY <1>1 DEF StreamInv, Stream!TypeOK, Stream!Times, Locals, Sayings
<1>4. Matched(local)'
  BY DEF Matched
<1> QED
  BY <1>2, <1>3, <1>4 DEF StreamInv

LEMMA NowOver ==
  ASSUME StreamInv, said' \in Sayings, now' \in Nat, now <= now', said'.done = said.done, said'.chars = said.chars,
         UNCHANGED <<endpoint, planned, mode, local>>, result'.kind \in ResultKinds, Stream!SuccessIsWhole', Stream!ChunksMatch'
  PROVE  StreamInv'
<1>1. local \in Locals /\ now \in Nat /\ local.lastToken <= now /\ local.lastToken \in Nat
  BY LocalIs DEF StreamInv, Stream!TypeOK, Locals, Stream!Times
<1>2. Stream!TypeOK'
  BY DEF StreamInv, Stream!TypeOK, Stream!Times, Sayings, ResultKinds
<1>3. local'.lastToken <= now' /\ Matched(local)'
  BY <1>1 DEF StreamInv, Matched
<1> QED
  BY <1>2, <1>3 DEF StreamInv

\* What a result says of its chunks matches its times.
LEMMA ResultMatches ==
  ASSUME StreamInv, NEW z, z.ttft = local.ttft, z.itl = local.itl, z.chars \in {local.chars, <<>>},
         z.counts \in {local.counts, <<>>}
  PROVE  /\ z.chars # <<>> => Len(z.chars) = Len(Stream!ChunkTimes(z))
         /\ z.counts # <<>> => Len(z.counts) = Len(Stream!ChunkTimes(z))
<1>1. local \in Locals /\ Matched(local)
  BY DEF StreamInv, Stream!TypeOK, Locals, Stream!Times
<1>2. Len(Stream!ChunkTimes(z)) = IF z.ttft = Stream!NoTime THEN 0 ELSE Len(z.itl) + 1
  BY <1>1, TimesCounted, LocalIs
<1> QED
  BY <1>1, <1>2 DEF Matched

\* What a stream read to its end results in, with [DONE] or without: its figures, and a kind that is right of them.
LEMMA EndsAs ==
  ASSUME StreamInv, Stream!StreamEnds
  PROVE  LET r == Stream!Result(Stream!StreamFailure, Stream!E2el, TRUE)
         IN  /\ UNCHANGED <<endpoint, planned, mode, said, local>> /\ now' \in Nat /\ now <= now'
             /\ result'.ttft = local.ttft /\ result'.itl = local.itl /\ result'.chars = local.chars
             /\ result'.counts \in {local.counts, <<>>} /\ result'.reported = local.reported /\ result'.output = local.output
             /\ result'.e2el = Stream!E2el /\ result'.kind \in ResultKinds
             /\ result'.kind = "ok" => /\ local.done /\ ~local.bad /\ result'.ttft # Stream!NoTime
                                       /\ (result'.reported \/ mode.allowMissingUsage)
                                       /\ (mode.exactOutputLength => result'.output = planned)
<1> DEFINE r == Stream!Result(Stream!StreamFailure, Stream!E2el, TRUE)
<1>1. /\ r.kind = Stream!StreamFailure /\ r.ttft = local.ttft /\ r.reported = local.reported /\ r.output = local.output
      /\ r = [kind |-> r.kind, ttft |-> r.ttft, itl |-> r.itl, e2el |-> r.e2el, output |-> r.output,
              reported |-> r.reported, chars |-> r.chars, counts |-> r.counts]
  BY DEF Stream!Result
<1>2. /\ result' = Stream!Enforced(r) /\ UNCHANGED <<endpoint, planned, mode, said, local>> /\ now' \in Nat /\ now <= now'
  <2>1. now \in Nat
    BY DEF StreamInv, Stream!TypeOK
  <2> QED
    BY <2>1 DEF Stream!StreamEnds, Stream!Clock, Stream!given
<1>3. said \in Sayings /\ local.reported \in BOOLEAN /\ mode.allowMissingUsage \in BOOLEAN
  BY DEF StreamInv, Stream!TypeOK, Sayings
<1>4. r.kind \in {"ok", "incomplete_stream", "malformed_stream"}
      /\ (r.kind = "ok" => local.done /\ ~local.bad)
  BY <1>1 DEF Stream!StreamFailure
<1>5. r = Stream!Result(Stream!StreamFailure, Stream!E2el, TRUE)
  OBVIOUS
<1> HIDE DEF r
<1>6. /\ result' = r \/ \E k \in ResultKinds \ {"ok"} : result' = [r EXCEPT !.kind = k]
      /\ result' = r /\ r.kind = "ok" => /\ r.ttft # Stream!NoTime /\ (r.reported \/ mode.allowMissingUsage)
                                         /\ (mode.exactOutputLength => r.output = planned)
  <2>1. CASE r.kind # "ok"
    BY <1>2, <2>1 DEF Stream!Enforced
  <2>2. CASE r.kind = "ok" /\ r.ttft = Stream!NoTime
    <3>1. result' = [r EXCEPT !.kind = "empty_reply"]
      BY <1>2, <2>2 DEF Stream!Enforced
    <3>2. result'.kind = "empty_reply"
      BY <1>1, <3>1
    <3> QED
      BY <2>2, <3>1, <3>2 DEF ResultKinds
  <2>3. CASE r.kind = "ok" /\ r.ttft # Stream!NoTime /\ ~r.reported /\ ~mode.allowMissingUsage
    <3>1. result' = [r EXCEPT !.kind = "missing_usage"]
      BY <1>2, <2>3 DEF Stream!Enforced
    <3>2. result'.kind = "missing_usage"
      BY <1>1, <3>1
    <3> QED
      BY <2>3, <3>1, <3>2 DEF ResultKinds
  <2>4. CASE r.kind = "ok" /\ r.ttft # Stream!NoTime /\ (r.reported \/ mode.allowMissingUsage)
    <3>1. result' = IF mode.exactOutputLength /\ r.output # planned THEN [r EXCEPT !.kind = "short_output"] ELSE r
      BY <1>2, <2>4 DEF Stream!Enforced
    <3>2. CASE mode.exactOutputLength /\ r.output # planned
      <4>1. result' = [r EXCEPT !.kind = "short_output"] /\ result'.kind = "short_output"
        BY <1>1, <3>1, <3>2
      <4> QED
        BY <2>4, <4>1 DEF ResultKinds
    <3>3. CASE ~(mode.exactOutputLength /\ r.output # planned)
      BY <2>4, <3>1, <3>3
    <3> QED
      BY <3>2, <3>3
  <2> QED
    BY <1>1, <1>3, <2>1, <2>2, <2>3, <2>4
<1>7. /\ result'.ttft = r.ttft /\ result'.itl = r.itl /\ result'.chars = r.chars /\ result'.counts = r.counts
      /\ result'.reported = r.reported /\ result'.output = r.output /\ result'.e2el = r.e2el /\ result'.kind \in ResultKinds
      /\ (result'.kind = "ok" => result' = r)
  BY <1>1, <1>4, <1>6 DEF ResultKinds
<1>8. /\ r.itl = local.itl /\ r.chars = local.chars /\ r.counts \in {local.counts, <<>>} /\ r.e2el = Stream!E2el
  BY <1>5 DEF Stream!Result
<1> QED
  BY <1>1, <1>2, <1>4, <1>6, <1>7, <1>8

\* A stream read to its end.
LEMMA EndsWhole ==
  ASSUME StreamInv, Stream!StreamEnds
  PROVE  StreamInv'
<1>1. /\ UNCHANGED <<endpoint, planned, mode, said, local>> /\ now' \in Nat /\ now <= now'
      /\ result'.ttft = local.ttft /\ result'.itl = local.itl /\ result'.chars = local.chars
      /\ result'.counts \in {local.counts, <<>>} /\ result'.kind \in ResultKinds
      /\ result'.kind = "ok" => /\ local.done /\ ~local.bad /\ result'.ttft # Stream!NoTime
                                /\ (result'.reported \/ mode.allowMissingUsage)
                                /\ (mode.exactOutputLength => result'.output = planned)
  BY EndsAs
<1>2. Stream!ChunksMatch'
  <2>1. /\ result'.chars # <<>> => Len(result'.chars) = Len(Stream!ChunkTimes(result'))
        /\ result'.counts # <<>> => Len(result'.counts) = Len(Stream!ChunkTimes(result'))
    BY <1>1, ResultMatches
  <2>2. Stream!ChunkTimes(result)' = Stream!ChunkTimes(result')
    OBVIOUS
  <2> QED
    BY <2>1, <2>2 DEF Stream!ChunksMatch
<1>3. Stream!SuccessIsWhole'
  <2> SUFFICES ASSUME result'.kind = "ok" PROVE Stream!SuccessIsWhole'
    BY DEF Stream!SuccessIsWhole, Stream!Succeeded
  <2>1. local.done /\ ~local.bad /\ said.done = local.done /\ local.read = said.chars
    BY <1>1 DEF StreamInv
  <2> QED
    BY <1>1, <2>1 DEF Stream!SuccessIsWhole
<1>4. said \in Sayings
  BY DEF StreamInv, Stream!TypeOK, Sayings
<1> QED
  BY <1>1, <1>2, <1>3, <1>4, NowOver

\* A step that leaves the request alone.
LEMMA StreamRests ==
  ASSUME StreamInv, UNCHANGED <<endpoint, planned, mode, now, said, local, result>>
  PROVE  StreamInv'
<1>1. Stream!TypeOK'
  BY DEF StreamInv, Stream!TypeOK
<1>2. Stream!SuccessIsWhole' /\ Matched(local)'
  BY DEF StreamInv, Matched, Stream!SuccessIsWhole, Stream!Succeeded
<1>3. Stream!ChunksMatch'
  BY DEF StreamInv, Stream!ChunksMatch, Stream!Timed
<1> QED
  BY <1>1, <1>2, <1>3 DEF StreamInv

\* A stream that ended otherwise is no success, and keeps nothing of its chunks.
LEMMA FailsWhole ==
  ASSUME StreamInv, NEW k \in ResultKinds \ {"ok", "none", "cancelled"}, NEW e, result' = Stream!Result(k, e, FALSE),
         said' \in Sayings, now' \in Nat, now <= now', said'.done = said.done, said'.chars = said.chars,
         UNCHANGED <<endpoint, planned, mode, local>>
  PROVE  StreamInv'
<1>1. result'.kind = k /\ result'.chars = <<>> /\ result'.counts = <<>>
  BY DEF Stream!Result
<1>2. Stream!SuccessIsWhole' /\ Stream!ChunksMatch'
  BY <1>1 DEF Stream!SuccessIsWhole, Stream!Succeeded, Stream!ChunksMatch
<1> QED
  BY <1>1, <1>2, NowOver

\* A data line counts, with its characters and tokens.
LEMMA LineSaid ==
  ASSUME StreamInv, NEW chars \in Nat, NEW tokens \in Nat, Stream!Says(chars, tokens)
  PROVE  /\ said' \in Sayings /\ said'.chars = said.chars + chars /\ said'.done = said.done
<1>1. said \in Sayings /\ said.lines < MaxLines
  BY DEF StreamInv, Stream!TypeOK, Sayings, Stream!Says
<1>2. said' = [said EXCEPT !.lines = @ + 1, !.chars = @ + chars, !.tokens = @ + tokens]
  BY DEF Stream!Says
<1> DEFINE n == said.lines + 1
           c == said.chars + chars
           t == said.tokens + tokens
<1>3. n \in 0 .. MaxLines /\ c \in Nat /\ t \in Nat
  BY <1>1, StreamBounds DEF Sayings
<1>4. said' = [said EXCEPT !.lines = n, !.chars = c, !.tokens = t]
  BY <1>2
<1> HIDE DEF n, t
<1>5. said' \in Sayings
  BY <1>1, <1>3, <1>4, SetSaid
<1> QED
  BY <1>1, <1>4, <1>5 DEF Sayings

\* Every line, and whatever ends a stream, keeps the invariant.
LEMMA StreamNext ==
  ASSUME StreamInv, Stream!Next
  PROVE  StreamInv'
<1>1. now \in Nat /\ said \in Sayings /\ local \in Locals /\ Matched(local) /\ local.lastToken <= now /\ local.lastToken \in Nat
  BY LocalIs DEF StreamInv, Stream!TypeOK, Stream!Times, Locals, Sayings
<1>2. Stream!Clock => now' \in Nat /\ now <= now'
  BY <1>1 DEF Stream!Clock
<1>3. CASE Stream!Chunk
  <2>1. PICK chars \in 0 .. 1, tokens \in 0 .. MaxTokens, usage \in Stream!Usages, choices \in BOOLEAN :
          /\ ~choices => chars = 0 /\ tokens = 0
          /\ Stream!Says(chars, tokens)
          /\ LET l == Stream!ReadUsage(local, usage, said'.tokens)
             IN  local' = IF choices THEN Stream!ReadChoices(l, chars, Stream!ChunkCount(usage, said'.tokens), now') ELSE l
    BY <1>3 DEF Stream!Chunk
  <2>2. /\ Stream!Streaming /\ ~local.done /\ now' \in Nat /\ now <= now' /\ UNCHANGED <<endpoint, planned, mode, result>>
    BY <1>2, <1>3 DEF Stream!Chunk, Stream!given
  <2>3. chars \in Nat /\ tokens \in Nat
    BY StreamBounds
  <2>4. said' \in Sayings /\ said'.chars = said.chars + chars /\ said'.done = said.done /\ said'.tokens \in Nat
    BY <2>1, <2>3, LineSaid DEF Sayings
  <2> DEFINE l == Stream!ReadUsage(local, usage, said'.tokens)
             count == Stream!ChunkCount(usage, said'.tokens)
  <2>5. /\ l \in Locals /\ Matched(l) /\ l.lastToken = local.lastToken /\ l.done = local.done /\ l.bad = local.bad
        /\ l.read = local.read
    <3>1. /\ l \in Locals /\ l.ttft = local.ttft /\ l.itl = local.itl /\ l.chars = local.chars /\ l.counts = local.counts
          /\ l.lastToken = local.lastToken /\ l.done = local.done /\ l.bad = local.bad /\ l.read = local.read
      BY <1>1, <2>4, UsageRead
    <3> HIDE DEF l
    <3> QED
      BY <1>1, <3>1 DEF Matched
  <2>6. count \in Nat \cup {Stream!NoCount}
    BY <2>4 DEF Stream!ChunkCount
  <2>7. local' = IF choices THEN Stream!ReadChoices(l, chars, count, now') ELSE l
    BY <2>1
  <2> HIDE DEF l, count
  <2>8. l.lastToken <= now' /\ l.read \in Nat
    BY <1>1, <2>2, <2>5, LocalIs
  <2>9. /\ local' \in Locals /\ Matched(local') /\ local'.lastToken <= now' /\ local'.done = local.done
        /\ local'.bad = local.bad /\ local'.read = local.read + chars
    <3>1. CASE choices
      <4> DEFINE m == Stream!ReadChoices(l, chars, count, now')
      <4>1. m \in Locals /\ Matched(m) /\ m.lastToken <= now' /\ m.read = l.read + chars /\ m.done = l.done /\ m.bad = l.bad
        BY <2>2, <2>3, <2>5, <2>6, <2>8, ChoicesRead
      <4>2. local' = m
        BY <2>7, <3>1
      <4> HIDE DEF m
      <4> QED
        BY <2>5, <4>1, <4>2
    <3>2. CASE ~choices
      BY <2>1, <2>5, <2>7, <2>8, <3>2
    <3> QED
      BY <3>1, <3>2
  <2>10. said'.done = local'.done /\ (~local'.bad => local'.read = said'.chars)
    BY <2>4, <2>9 DEF StreamInv
  <2> QED
    BY <2>2, <2>4, <2>9, <2>10, StillOn
<1>4. CASE Stream!BadLine
  <2>1. PICK tokens \in 0 .. MaxTokens : Stream!Says(1, tokens)
    BY <1>4 DEF Stream!BadLine
  <2>2. /\ Stream!Streaming /\ ~local.done /\ now' \in Nat /\ now <= now' /\ UNCHANGED <<endpoint, planned, mode, result>>
        /\ local' = [local EXCEPT !.bad = TRUE]
    BY <1>2, <1>4 DEF Stream!BadLine, Stream!given
  <2>3. said' \in Sayings /\ said'.done = said.done
    <3>1. tokens \in Nat /\ 1 \in Nat
      BY StreamBounds
    <3> QED
      BY <2>1, <3>1, LineSaid
  <2>4. local' \in Locals
    BY <1>1, <2>2, SetFlags
  <2>5. /\ local'.bad = TRUE /\ local'.done = local.done /\ local'.lastToken = local.lastToken /\ Matched(local')
    BY <1>1, <2>2 DEF Locals, Matched
  <2>6. said'.done = local'.done /\ local'.lastToken <= now'
    BY <1>1, <2>2, <2>3, <2>5 DEF StreamInv
  <2> QED
    BY <2>2, <2>3, <2>4, <2>5, <2>6, StillOn
<1>5. CASE Stream!DoneLine
  <2>1. /\ Stream!Streaming /\ now' \in Nat /\ now <= now' /\ UNCHANGED <<endpoint, planned, mode, result>>
        /\ local' = [local EXCEPT !.done = TRUE] /\ said' = [said EXCEPT !.done = TRUE]
    BY <1>2, <1>5 DEF Stream!DoneLine, Stream!given
  <2>2. said' \in Sayings /\ said'.done = TRUE /\ said'.chars = said.chars
    BY <1>1, <2>1 DEF Sayings
  <2>3. local' \in Locals
    BY <1>1, <2>1, SetFlags
  <2>4. /\ local'.done = TRUE /\ local'.bad = local.bad /\ local'.read = local.read /\ local'.lastToken = local.lastToken
        /\ Matched(local')
    BY <1>1, <2>1 DEF Locals, Matched
  <2>5. (~local'.bad => local'.read = said'.chars) /\ local'.lastToken <= now'
    BY <1>1, <2>1, <2>2, <2>4 DEF StreamInv
  <2> QED
    BY <2>1, <2>2, <2>3, <2>4, <2>5, StillOn
<1>6. CASE Stream!StreamEnds
  BY <1>6, EndsWhole
<1>7. CASE Stream!Refused
  <2>1. result' = Stream!Result("client_error", 0, FALSE) /\ UNCHANGED <<endpoint, planned, mode, now, said, local>>
    BY <1>7 DEF Stream!Refused, Stream!given
  <2>2. now' \in Nat /\ now <= now' /\ said' \in Sayings /\ said'.done = said.done /\ said'.chars = said.chars
    BY <1>1, <2>1
  <2>3. "client_error" \in ResultKinds \ {"ok", "none", "cancelled"}
    BY DEF ResultKinds
  <2> QED
    BY <2>1, <2>2, <2>3, FailsWhole
<1>8. CASE Stream!HttpError
  BY <1>1, <1>2, <1>8, FailsWhole DEF Stream!HttpError, Stream!given, ResultKinds
<1>9. CASE Stream!ErrorChunk
  <2>1. Stream!Says(0, 0) /\ result' = Stream!Result("server_error", now', FALSE) /\ UNCHANGED <<endpoint, planned, mode, local>>
        /\ now' \in Nat /\ now <= now'
    BY <1>2, <1>9 DEF Stream!ErrorChunk, Stream!given
  <2>2. said' \in Sayings /\ said'.chars = said.chars /\ said'.done = said.done
    BY <1>1, <2>1, LineSaid DEF Sayings
  <2> QED
    BY <2>1, <2>2, FailsWhole DEF ResultKinds
<1>10. CASE Stream!StreamRaises
  <2>1. result' = Stream!Result("raised", now', FALSE)
    BY <1>10 DEF Stream!StreamRaises
  <2>2. now' \in Nat /\ now <= now' /\ UNCHANGED <<endpoint, planned, mode, said, local>>
    BY <1>2, <1>10 DEF Stream!StreamRaises, Stream!given
  <2> QED
    BY <1>1, <2>1, <2>2, FailsWhole DEF ResultKinds
<1>11. CASE Stream!Cancelled
  <2>1. result'.kind = "cancelled" /\ UNCHANGED <<endpoint, planned, mode, now, said, local>>
    BY <1>11 DEF Stream!Cancelled, Stream!given
  <2>2. Stream!SuccessIsWhole' /\ Stream!ChunksMatch'
    BY <2>1 DEF Stream!SuccessIsWhole, Stream!Succeeded, Stream!ChunksMatch, Stream!Timed
  <2> QED
    BY <1>1, <2>1, <2>2, NowOver DEF ResultKinds
<1>12. CASE Stream!Over
  <2>1. UNCHANGED <<endpoint, planned, mode, now, said, local, result>>
    BY <1>12 DEF Stream!Over, Stream!vars, Stream!given
  <2> QED
    BY <2>1, StreamRests
<1> QED
  BY <1>3, <1>4, <1>5, <1>6, <1>7, <1>8, <1>9, <1>10, <1>11, <1>12 DEF Stream!Next

\* Whatever lines a stream has, and whatever ends it: a success had its [DONE], every character before it, a chunk that timed
\* it, and the server's count unless the mode spares it; what is kept of any request's chunks has an entry for each of their
\* times (drivers.py, _stream_chat and _stream_completions; serve.py, enforce_usage), for any number of lines and tokens.
THEOREM Streamed == Spec => []SuccessIsWhole
<1> DEFINE I == kind = "stream" => StreamInv
<1>1. Init => I
  BY StreamStart
<1>2. I /\ [Next]_vars => I'
  <2> SUFFICES ASSUME I, [Next]_vars, kind' = "stream" PROVE StreamInv'
    OBVIOUS
  <2>1. kind = "stream" /\ StreamInv
    BY DEF Next, Runs, Grids, Windows, Replays, Streams, SentPlans, Draws, Concluded, vars, Abort, Conclude, Probe,
       ProbeMismatch, ProbeRaises
  <2>2. CASE Streams
    BY <2>1, <2>2, StreamNext DEF Streams
  <2>3. CASE Concluded \/ UNCHANGED vars
    BY <2>1, <2>3, StreamRests DEF Concluded, vars, runVars, windowVars, streamVars
  <2>4. CASE Runs
    BY <2>1, <2>4 DEF Runs, Abort, Conclude, Probe, ProbeMismatch, ProbeRaises
  <2> QED
    BY <2>1, <2>2, <2>3, <2>4 DEF Next, Grids, Windows, Replays, SentPlans, Draws
<1>3. I => SuccessIsWhole
  BY DEF StreamInv, SuccessIsWhole
<1> QED
  BY <1>1, <1>2, <1>3, PTL DEF Spec

-------------------------------------------------------------------------------
(* The sum of a sequence: FoldLeft's value, and the totals the stream's figures are made of. *)

\* A set of naturals has a least member.
LEMMA Least ==
  ASSUME NEW T \in SUBSET Nat, T # {}
  PROVE  \E k \in T : \A j \in T : k <= j
<1>1. PICK x \in T : \A y \in T : ~ (<<y, x>> \in OpToRel(<, Nat))
  BY NatLessThanWellFounded, WFMin
<1>2. \A y \in T : ~ (y < x)
  BY <1>1 DEF OpToRel
<1> QED
  BY <1>2

\* What holds of 0 and, if of k, of k + 1, holds up to n.
LEMMA Upwards ==
  ASSUME NEW n \in Nat, NEW T \in SUBSET (0 .. n), 0 \in T, \A k \in T : k < n => k + 1 \in T
  PROVE  T = 0 .. n
<1> SUFFICES ASSUME (0 .. n) \ T # {} PROVE FALSE
  OBVIOUS
<1> DEFINE U == (0 .. n) \ T
<1>1. U \in SUBSET Nat /\ U # {}
  OBVIOUS
<1>2. PICK k \in U : \A j \in U : k <= j
  <2> HIDE DEF U
  <2> QED
    BY <1>1, Least
<1>3. k \in Nat /\ k # 0 /\ k <= n
  BY <1>2
<1>4. k - 1 \in 0 .. n /\ k - 1 \notin U /\ k - 1 < n /\ (k - 1) + 1 = k
  BY <1>2, <1>3
<1> QED
  BY <1>2, <1>4

\* The least upper member of a set of places.
LEMMA Top ==
  ASSUME NEW n \in Nat, NEW S \in SUBSET (1 .. n), n \in S
  PROVE  Stream!Max(S) = n
<1>1. n \in S /\ \A y \in S : n >= y
  OBVIOUS
<1>2. Stream!Max(S) \in S /\ \A y \in S : Stream!Max(S) >= y
  BY <1>1 DEF Stream!Max
<1>3. \A m \in S : m >= n => m = n
  OBVIOUS
<1> QED
  BY <1>1, <1>2, <1>3, Zenon

LEMMA TopIn ==
  ASSUME NEW n \in Nat, NEW S \in SUBSET (1 .. n), S # {}
  PROVE  Stream!Max(S) \in S
<1> DEFINE U == {n - x : x \in S}
<1>1. U \in SUBSET Nat /\ U # {}
  <2>1. \A x \in S : n - x \in Nat
    OBVIOUS
  <2> QED
    BY <2>1, Zenon
<1>2. PICK u \in U : \A j \in U : u <= j
  <2> HIDE DEF U
  <2> QED
    BY <1>1, Least
<1>3. PICK x \in S : u = n - x
  OBVIOUS
<1>4. \A y \in S : n - x <= n - y
  BY <1>2, <1>3
<1>5. \A y \in S : x >= y
  <2>1. \A y \in S : y \in Nat
    OBVIOUS
  <2> QED
    BY <1>4, <2>1
<1> QED
  BY <1>5 DEF Stream!Max

\* A fold of a sequence is a running sum.
LEMMA Running ==
  ASSUME NEW s \in Seq(Int)
  PROVE  \E g \in [0 .. Len(s) -> Int] :
           g[0] = 0 /\ (\A k \in 1 .. Len(s) : g[k] = g[k - 1] + s[k]) /\ Stream!Total(s) = g[Len(s)]
<1> DEFINE n == Len(s)
           D == DOMAIN s
           F(f) == [S \in SUBSET D |-> IF S = {} THEN 0 ELSE f[S \ {Stream!Max(S)}] + s[Stream!Max(S)]]
           Unfolds(f, k) == \A S \in SUBSET (1 .. k) : f[S] = IF S = {} THEN 0 ELSE f[S \ {Stream!Max(S)}] + s[Stream!Max(S)]
           u == CHOOSE f : f = F(f)
<1>1. n \in Nat /\ D = 1 .. n /\ \A k \in 1 .. n : s[k] \in Int
  OBVIOUS
<1>2. Stream!Total(s) = u[D]
  BY DEF Stream!Total, Stream!FoldLeft, Stream!MapThenFoldSet
<1>3. \E f : f = F(f)
  <2> DEFINE T == {k \in 0 .. n : \E f : Unfolds(f, k)}
  <2> HIDE DEF n, D
  <2>1. 0 \in T
    <3> DEFINE f == [S \in {{}} |-> 0]
    <3>1. f[{}] = 0 /\ \A S \in SUBSET (1 .. 0) : S = {}
      OBVIOUS
    <3> HIDE DEF f
    <3>2. Unfolds(f, 0)
      BY <3>1
    <3> HIDE DEF Unfolds
    <3> QED
      BY <1>1, <3>2
  <2>2. ASSUME NEW k \in T, k < n PROVE k + 1 \in T
    <3>1. PICK f : Unfolds(f, k)
      OBVIOUS
    <3>2. k \in Nat /\ k + 1 \in 0 .. n /\ k + 1 \in Nat
      BY <1>1, <2>2
    <3> DEFINE g == [S \in SUBSET (1 .. (k + 1)) |-> IF k + 1 \in S THEN f[S \ {k + 1}] + s[k + 1] ELSE f[S]]
    <3>3. ASSUME NEW S \in SUBSET (1 .. (k + 1)), k + 1 \in S
          PROVE  g[S] = g[S \ {Stream!Max(S)}] + s[Stream!Max(S)]
      <4>1. Stream!Max(S) = k + 1
        BY <3>2, <3>3, Top
      <4>2. S \ {k + 1} \in SUBSET (1 .. (k + 1)) /\ k + 1 \notin S \ {k + 1}
        OBVIOUS
      <4> QED
        BY <3>3, <4>1, <4>2
    <3>4. ASSUME NEW S \in SUBSET (1 .. (k + 1)), k + 1 \notin S
          PROVE  g[S] = IF S = {} THEN 0 ELSE g[S \ {Stream!Max(S)}] + s[Stream!Max(S)]
      <4>1. S \in SUBSET (1 .. k) /\ g[S] = f[S]
        BY <3>2, <3>4
      <4>2. S \ {Stream!Max(S)} \in SUBSET (1 .. (k + 1)) /\ k + 1 \notin S \ {Stream!Max(S)}
        BY <3>4
      <4>3. g[S \ {Stream!Max(S)}] = f[S \ {Stream!Max(S)}]
        BY <4>2
      <4> HIDE DEF g
      <4> QED
        BY <3>1, <4>1, <4>3
    <3> HIDE DEF g
    <3>5. Unfolds(g, k + 1)
      BY <3>3, <3>4
    <3> HIDE DEF Unfolds
    <3> QED
      BY <3>2, <3>5
  <2>3. n \in 0 .. n /\ T \in SUBSET (0 .. n)
    BY <1>1
  <2> HIDE DEF T
  <2>4. n \in T
    BY <1>1, <2>1, <2>2, <2>3, Upwards, Zenon
  <2>5. PICK f : Unfolds(f, n)
    BY <2>4 DEF T
  <2> DEFINE h == [S \in SUBSET D |-> f[S]]
  <2>6. \A S \in SUBSET D : h[S] = IF S = {} THEN 0 ELSE h[S \ {Stream!Max(S)}] + s[Stream!Max(S)]
    BY <1>1, <2>5
  <2>7. h = F(h)
    <3>1. h = [S \in SUBSET D |-> h[S]]
      OBVIOUS
    <3> HIDE DEF h
    <3> QED
      BY <2>6, <3>1
  <2> QED
    BY <2>7
<1>4. u = F(u)
  BY <1>3
<1> HIDE DEF u
<1>5. \A S \in SUBSET D : u[S] = IF S = {} THEN 0 ELSE u[S \ {Stream!Max(S)}] + s[Stream!Max(S)]
  BY <1>4
<1> DEFINE g == [k \in 0 .. n |-> u[1 .. k]]
<1>6. g[0] = 0
  <2>1. 1 .. 0 = {} /\ 1 .. 0 \in SUBSET D /\ 0 \in 0 .. n
    BY <1>1
  <2> QED
    BY <1>5, <2>1
<1>7. ASSUME NEW k \in 1 .. n PROVE g[k] = g[k - 1] + s[k]
  <2> HIDE DEF n, D
  <2>1. k \in Nat /\ k > 0 /\ k <= n /\ k \in 0 .. n /\ k - 1 \in 0 .. n
    BY <1>1
  <2>2. 1 .. k \in SUBSET D /\ k \in 1 .. k /\ (1 .. k) \ {k} = 1 .. (k - 1)
    BY <1>1, <2>1
  <2>3. Stream!Max(1 .. k) = k
    BY <2>1, <2>2, Top
  <2>4. u[1 .. k] = u[1 .. (k - 1)] + s[k]
    BY <1>5, <2>2, <2>3
  <2> QED
    BY <2>1, <2>4
<1>8. g \in [0 .. n -> Int]
  <2> DEFINE T == {k \in 0 .. n : g[k] \in Int}
  <2> HIDE DEF g, n
  <2>1. 0 \in T
    BY <1>1, <1>6
  <2>2. ASSUME NEW k \in T, k < n PROVE k + 1 \in T
    <3>1. k + 1 \in 1 .. n /\ (k + 1) - 1 = k
      BY <1>1, <2>2
    <3>2. g[k + 1] = g[k] + s[k + 1] /\ g[k] \in Int /\ s[k + 1] \in Int
      BY <1>1, <1>7, <3>1
    <3> QED
      BY <1>1, <3>1, <3>2
  <2>3. T \in SUBSET (0 .. n)
    OBVIOUS
  <2>4. T = 0 .. n
    <3> HIDE DEF T
    <3> QED
      BY <1>1, <2>1, <2>2, <2>3, Upwards, Zenon
  <2>5. g = [k \in 0 .. n |-> g[k]]
    BY DEF g
  <2> QED
    BY <2>4, <2>5
<1>9. Stream!Total(s) = g[n]
  BY <1>1, <1>2
<1> QED
  BY <1>6, <1>7, <1>8, <1>9


LEMMA TotalInt == ASSUME NEW s \in Seq(Int) PROVE Stream!Total(s) \in Int
<1>1. PICK g \in [0 .. Len(s) -> Int] : Stream!Total(s) = g[Len(s)]
  BY Running
<1> QED
  BY <1>1

\* Sequences with a running sum in common have the same total.
LEMMA TotalIs ==
  ASSUME NEW s \in Seq(Int), NEW h \in [0 .. Len(s) -> Int], h[0] = 0, \A k \in 1 .. Len(s) : h[k] = h[k - 1] + s[k]
  PROVE  Stream!Total(s) = h[Len(s)]
<1>1. PICK g \in [0 .. Len(s) -> Int] : g[0] = 0 /\ (\A k \in 1 .. Len(s) : g[k] = g[k - 1] + s[k]) /\ Stream!Total(s) = g[Len(s)]
  BY Running
<1> DEFINE n == Len(s)
           T == {k \in 0 .. n : g[k] = h[k]}
<1>2. n \in Nat
  OBVIOUS
<1>3. ASSUME NEW k \in T, k < n PROVE k + 1 \in T
  <2>1. k + 1 \in 1 .. n /\ k + 1 \in 0 .. n /\ (k + 1) - 1 = k /\ k \in 0 .. n /\ g[k] = h[k]
    BY <1>2, <1>3
  <2>2. g[k + 1] = h[k + 1]
    BY <1>1, <2>1
  <2> QED
    BY <2>1, <2>2
<1>4. 0 \in T /\ T \in SUBSET (0 .. n)
  BY <1>1, <1>2
<1> HIDE DEF T
<1>5. T = 0 .. n
  BY <1>2, <1>3, <1>4, Upwards, Zenon
<1>6. n \in T
  BY <1>2, <1>5
<1> QED
  BY <1>1, <1>6 DEF T

LEMMA TotalEmpty == Stream!Total(<<>>) = 0
<1>1. <<>> \in Seq(Int) /\ Len(<<>>) = 0
  OBVIOUS
<1> QED
  BY <1>1, Running

LEMMA TotalAppend ==
  ASSUME NEW s \in Seq(Int), NEW x \in Int
  PROVE  Stream!Total(Append(s, x)) = Stream!Total(s) + x
<1> DEFINE n == Len(s)
           a == Append(s, x)
<1>1. PICK g \in [0 .. n -> Int] : g[0] = 0 /\ (\A k \in 1 .. n : g[k] = g[k - 1] + s[k]) /\ Stream!Total(s) = g[n]
  BY Running
<1>2. n \in Nat /\ a \in Seq(Int) /\ Len(a) = n + 1 /\ a[n + 1] = x /\ \A k \in 1 .. n : a[k] = s[k]
  OBVIOUS
<1> DEFINE h == [k \in 0 .. (n + 1) |-> IF k = n + 1 THEN g[n] + x ELSE g[k]]
<1> HIDE DEF n, a
<1>3. h \in [0 .. (n + 1) -> Int] /\ h[0] = 0 /\ h[n + 1] = g[n] + x
  BY <1>1, <1>2
<1>4. ASSUME NEW k \in 1 .. (n + 1) PROVE h[k] = h[k - 1] + a[k]
  <2>1. CASE k = n + 1
    BY <1>1, <1>2, <2>1
  <2>2. CASE k # n + 1
    <3>1. k \in 1 .. n /\ k - 1 \in 0 .. n /\ k \in 0 .. (n + 1) /\ k - 1 \in 0 .. (n + 1) /\ k - 1 # n + 1
      BY <1>2, <2>2
    <3> QED
      BY <1>1, <1>2, <2>2, <3>1
  <2> QED
    BY <2>1, <2>2
<1> HIDE DEF h
<1>5. Stream!Total(a) = h[n + 1]
  BY <1>2, <1>3, <1>4, TotalIs
<1> QED
  BY <1>1, <1>3, <1>5 DEF a

\* A function on 1 .. n is a sequence.
LEMMA TotalOf ==
  ASSUME NEW n \in Nat, NEW s \in [1 .. n -> Int], NEW h \in [0 .. n -> Int], h[0] = 0,
         \A k \in 1 .. n : h[k] = h[k - 1] + s[k]
  PROVE  Stream!Total(s) = h[n]
<1>1. s \in Seq(Int) /\ Len(s) = n
  OBVIOUS
<1> QED
  BY <1>1, TotalIs

LEMMA NatSeq == ASSUME NEW s \in Seq(Nat) PROVE s \in Seq(Int) /\ Len(s) \in Nat /\ \A i \in 1 .. Len(s) : s[i] \in Nat
<1>1. Len(s) \in Nat /\ \A i \in 1 .. Len(s) : s[i] \in Nat
  OBVIOUS
<1> QED
  BY <1>1

\* A running sum of naturals does not fall: a part's total is at most the whole's.
LEMMA PrefixTotal ==
  ASSUME NEW s \in Seq(Nat), NEW k \in 0 .. Len(s)
  PROVE  /\ Stream!Total(SubSeq(s, 1, k)) \in Int /\ Stream!Total(s) \in Int
         /\ Stream!Total(SubSeq(s, 1, k)) <= Stream!Total(s)
         /\ k = Len(s) => Stream!Total(SubSeq(s, 1, k)) = Stream!Total(s)
<1> DEFINE n == Len(s)
           p == SubSeq(s, 1, k)
<1>1. n \in Nat /\ k \in Nat /\ k <= n /\ s \in Seq(Int) /\ \A i \in 1 .. n : s[i] \in Nat
  BY NatSeq
<1>2. p \in [1 .. k -> Int] /\ \A i \in 1 .. k : p[i] = s[i]
  <2>1. p = [i \in 1 .. k |-> s[i]]
    BY <1>1
  <2>2. \A i \in 1 .. k : s[i] \in Int
    BY <1>1
  <2> HIDE DEF p
  <2> QED
    BY <2>1, <2>2, Zenon
<1>3. PICK g \in [0 .. n -> Int] : g[0] = 0 /\ (\A i \in 1 .. n : g[i] = g[i - 1] + s[i]) /\ Stream!Total(s) = g[n]
  BY <1>1, Running
<1> HIDE DEF n, p
<1> DEFINE h == [i \in 0 .. k |-> g[i]]
<1>4. h \in [0 .. k -> Int] /\ h[0] = 0 /\ h[k] = g[k] /\ \A i \in 1 .. k : h[i] = h[i - 1] + p[i]
  <2>1. h \in [0 .. k -> Int] /\ h[0] = 0 /\ h[k] = g[k]
    BY <1>1, <1>3
  <2>2. ASSUME NEW i \in 1 .. k PROVE h[i] = h[i - 1] + p[i]
    <3>1. i \in 1 .. n /\ i \in 0 .. k /\ i - 1 \in 0 .. k
      BY <1>1
    <3>2. g[i] = g[i - 1] + s[i] /\ p[i] = s[i]
      BY <1>2, <1>3, <3>1
    <3>3. h[i] = g[i] /\ h[i - 1] = g[i - 1]
      BY <3>1
    <3> QED
      BY <3>2, <3>3
  <2> QED
    BY <2>1, <2>2
<1> HIDE DEF h
<1>5. Stream!Total(p) = g[k]
  BY <1>1, <1>2, <1>4, TotalOf
<1> DEFINE T == {j \in 0 .. (n - k) : g[k] <= g[k + j]}
<1>6. n - k \in Nat /\ 0 \in T /\ T \in SUBSET (0 .. (n - k))
  BY <1>1, <1>3
<1>7. ASSUME NEW j \in T, j < n - k PROVE j + 1 \in T
  <2>1. j \in Nat /\ k + j + 1 \in 1 .. n /\ (k + j + 1) - 1 = k + j /\ k + j \in 0 .. n /\ j + 1 \in 0 .. (n - k)
        /\ k + (j + 1) = k + j + 1 /\ g[k] <= g[k + j]
    BY <1>1, <1>7
  <2>2. g[k + j + 1] = g[k + j] + s[k + j + 1] /\ s[k + j + 1] \in Nat /\ g[k + j] \in Int /\ g[k] \in Int
    BY <1>1, <1>3, <2>1
  <2>0. \A x \in Int, y \in Int, z \in Nat : x <= y => x <= y + z
    OBVIOUS
  <2>3. g[k] <= g[k + j + 1]
    BY <2>0, <2>1, <2>2, Zenon
  <2>4. j + 1 \in 0 .. (n - k) /\ g[k] <= g[k + (j + 1)]
    BY <2>1, <2>3
  <2> QED
    BY <2>4
<1> HIDE DEF T
<1>8. T = 0 .. (n - k)
  BY <1>6, <1>7, Upwards, Zenon
<1>9. g[k] <= g[n] /\ g[k] \in Int /\ g[n] \in Int
  <2>1. n - k \in T /\ k + (n - k) = n
    BY <1>1, <1>6, <1>8
  <2> QED
    BY <1>1, <1>3, <2>1 DEF T
<1> QED
  BY <1>3, <1>5, <1>9 DEF n, p

\* The growths of a count that does not fall add up to the last count.
LEMMA GrowthsTotal ==
  ASSUME NEW n \in Nat \ {0}, NEW c, \A i \in 1 .. n : c[i] \in Nat, \A i \in 2 .. n : c[i - 1] <= c[i],
         NEW s, s = [i \in 1 .. n |-> IF c[i] - (IF i = 1 THEN 0 ELSE c[i - 1]) > 0
                                      THEN c[i] - (IF i = 1 THEN 0 ELSE c[i - 1]) ELSE 0]
  PROVE  Stream!Total(s) = c[n]
<1> DEFINE h == [k \in 0 .. n |-> IF k = 0 THEN 0 ELSE c[k]]
<1>1. ASSUME NEW k \in 1 .. n PROVE s[k] \in Int /\ h[k] = h[k - 1] + s[k]
  <2>1. CASE k = 1
    BY <2>1
  <2>2. CASE k # 1
    <3>1. k \in 2 .. n /\ k - 1 \in 1 .. n /\ k - 1 \in 0 .. n /\ k \in 0 .. n /\ k # 0 /\ k - 1 # 0
      BY <2>2
    <3>2. c[k] \in Nat /\ c[k - 1] \in Nat /\ c[k - 1] <= c[k]
      BY <3>1
    <3>3. s[k] = IF c[k] - c[k - 1] > 0 THEN c[k] - c[k - 1] ELSE 0
      BY <2>2
    <3>4. s[k] = c[k] - c[k - 1]
      BY <3>2, <3>3
    <3> QED
      BY <3>1, <3>2, <3>4
  <2> QED
    BY <2>1, <2>2
<1>2. h \in [0 .. n -> Int] /\ h[0] = 0 /\ h[n] = c[n] /\ n \in Nat
  OBVIOUS
<1>3. s \in [1 .. n -> Int]
  BY <1>1
<1> HIDE DEF h
<1> QED
  BY <1>1, <1>2, <1>3, TotalOf

LEMMA StreamCounts == \A S : Stream!Cardinality(S) = Cardinality(S)
BY DEF Stream!Cardinality, Cardinality

\* One for each positive entry adds up to how many there are.
LEMMA OnesTotal ==
  ASSUME NEW n \in Nat, NEW c, NEW s, s = [i \in 1 .. n |-> IF c[i] > 0 THEN 1 ELSE 0]
  PROVE  Stream!Total(s) = Cardinality({i \in 1 .. n : c[i] > 0})
<1> DEFINE P(k) == {i \in 1 .. k : c[i] > 0}
           h == [k \in 0 .. n |-> Cardinality(P(k))]
<1>1. ASSUME NEW k \in 0 .. n PROVE IsFiniteSet(P(k)) /\ Cardinality(P(k)) \in Nat
  <2>1. IsFiniteSet(1 .. k) /\ P(k) \subseteq 1 .. k
    BY FS_Interval
  <2> QED
    BY <2>1, FS_Subset, FS_CardinalityType
<1>2. P(0) = {} /\ Cardinality(P(0)) = 0
  BY FS_EmptySet
<1>3. ASSUME NEW k \in 1 .. n PROVE h[k] = h[k - 1] + s[k]
  <2>1. k \in Nat /\ k \in 0 .. n /\ k - 1 \in 0 .. n /\ k \notin P(k - 1)
    OBVIOUS
  <2>2. CASE c[k] > 0
    <3>1. P(k) = P(k - 1) \cup {k}
      BY <2>1, <2>2
    <3>2. Cardinality(P(k - 1) \cup {k}) = Cardinality(P(k - 1)) + 1
      <4>1. IsFiniteSet(P(k - 1)) /\ k \notin P(k - 1)
        BY <1>1, <2>1
      <4> HIDE DEF P
      <4> QED
        BY <4>1, FS_AddElement
    <3>3. s[k] = 1
      BY <2>2
    <3>4. h[k] = Cardinality(P(k)) /\ h[k - 1] = Cardinality(P(k - 1))
      BY <2>1
    <3>5. Cardinality(P(k)) = Cardinality(P(k - 1)) + 1
      <4> HIDE DEF P
      <4> QED
        BY <3>1, <3>2, Zenon
    <3> HIDE DEF P, h
    <3> QED
      BY <3>3, <3>4, <3>5, Zenon
  <2>3. CASE ~(c[k] > 0)
    <3>1. P(k) = P(k - 1)
      BY <2>1, <2>3
    <3>2. s[k] = 0
      BY <2>3
    <3>3. Cardinality(P(k - 1)) \in Nat
      BY <1>1, <2>1
    <3>4. h[k] = Cardinality(P(k)) /\ h[k - 1] = Cardinality(P(k - 1))
      BY <2>1
    <3>5. Cardinality(P(k)) = Cardinality(P(k - 1)) + 0
      <4> HIDE DEF P
      <4> QED
        BY <3>1, <3>3
    <3> HIDE DEF P, h
    <3> QED
      BY <3>2, <3>4, <3>5, Zenon
  <2> QED
    BY <2>2, <2>3
<1> HIDE DEF P
<1>4. h \in [0 .. n -> Int] /\ h[0] = 0 /\ h[n] = Cardinality(P(n))
  BY <1>1, <1>2
<1>5. s \in [1 .. n -> Int]
  OBVIOUS
<1> HIDE DEF h
<1>6. Stream!Total(s) = h[n]
  BY <1>3, <1>4, <1>5, TotalOf
<1> QED
  BY <1>4, <1>6 DEF P

\* Every entry times one factor adds up to the factor times the total.
LEMMA ScaledTotal ==
  ASSUME NEW n \in Nat, NEW c \in Seq(Nat), Len(c) = n, NEW o \in Nat, NEW s, s = [i \in 1 .. n |-> o * c[i]]
  PROVE  Stream!Total(s) = o * Stream!Total(c)
<1>1. c \in Seq(Int) /\ \A i \in 1 .. n : c[i] \in Nat
  BY NatSeq, Zenon
<1>2. PICK g \in [0 .. n -> Int] : g[0] = 0 /\ (\A i \in 1 .. n : g[i] = g[i - 1] + c[i]) /\ Stream!Total(c) = g[n]
  BY <1>1, Running
<1> DEFINE h == [k \in 0 .. n |-> o * g[k]]
<1>3. \A a \in Int, b \in Int : o * (a + b) = o * a + o * b /\ o * a \in Int /\ o * 0 = 0
  OBVIOUS
<1>4. ASSUME NEW k \in 1 .. n PROVE h[k] = h[k - 1] + s[k] /\ s[k] \in Int
  <2>1. k \in 0 .. n /\ k - 1 \in 0 .. n /\ g[k - 1] \in Int /\ c[k] \in Int /\ g[k] = g[k - 1] + c[k]
    BY <1>1, <1>2
  <2>2. o * (g[k - 1] + c[k]) = o * g[k - 1] + o * c[k] /\ o * c[k] \in Int
    BY <1>3, <2>1, Zenon
  <2>3. h[k] = o * g[k] /\ h[k - 1] = o * g[k - 1] /\ s[k] = o * c[k]
    BY <2>1, Zenon
  <2> QED
    BY <2>1, <2>2, <2>3, Zenon
<1>5. h \in [0 .. n -> Int]
  BY <1>3, Zenon
<1>6. h[0] = 0 /\ h[n] = o * g[n]
  <2>1. 0 \in 0 .. n /\ n \in 0 .. n
    OBVIOUS
  <2>2. h[0] = o * g[0] /\ h[n] = o * g[n]
    BY <2>1, Zenon
  <2>3. o * 0 = 0
    BY <1>3
  <2> QED
    BY <1>2, <2>2, <2>3, Zenon
<1>7. s \in [1 .. n -> Int]
  <2> HIDE DEF h
  <2>1. \A k \in 1 .. n : o * c[k] \in Int
    BY <1>1, <1>3
  <2> QED
    BY <2>1, Zenon
<1> HIDE DEF h
<1>8. Stream!Total(s) = h[n]
  BY <1>4, <1>5, <1>6, <1>7, TotalOf
<1> QED
  BY <1>2, <1>6, <1>8, Zenon

\* All on the last adds up to it.
LEMMA LastTotal ==
  ASSUME NEW n \in Nat \ {0}, NEW o \in Nat, NEW s, s = [i \in 1 .. n |-> IF i = n THEN o ELSE 0]
  PROVE  Stream!Total(s) = o
<1> DEFINE h == [k \in 0 .. n |-> IF k = n THEN o ELSE 0]
<1>1. h \in [0 .. n -> Int] /\ h[0] = 0 /\ h[n] = o /\ n \in Nat /\ s \in [1 .. n -> Int]
  OBVIOUS
<1>2. \A k \in 1 .. n : h[k] = h[k - 1] + s[k]
  OBVIOUS
<1> HIDE DEF h
<1> QED
  BY <1>1, <1>2, TotalOf

\* Whichever rule shares a reply's tokens out, they are its last count if every chunk carried one, and its output otherwise.
LEMMA SharesTotal ==
  ASSUME NEW r, NEW n \in Nat \ {0}, r.output \in Nat, r.chars \in Seq(Nat), Len(r.chars) = n,
         \A i \in DOMAIN r.counts : r.counts[i] \in Nat \cup {Stream!NoCount},
         r.counts \in Seq(Nat \cup {Stream!NoCount}),
         \A i \in DOMAIN r.counts : i > 1 /\ r.counts[i] # Stream!NoCount => r.counts[i - 1] <= r.counts[i]
  PROVE  LET shares == Stream!Shares(r, n)
         IN  /\ Stream!Counted(r, n) => shares.of = 1 /\ Stream!Total(shares.num) = r.counts[n] /\ r.counts[n] # Stream!NoCount
                                        /\ n \in DOMAIN r.counts /\ r.counts # <<>> /\ Len(r.counts) = n
             /\ ~Stream!Counted(r, n) => shares.of \in Int /\ Stream!Total(shares.num) = shares.of * r.output
<1> DEFINE grown(i) == r.counts[i] - (IF i = 1 THEN 0 ELSE r.counts[i - 1])
           chars == r.chars
           texts == Stream!Cardinality({i \in 1 .. n : chars[i] > 0})
           total == Stream!Total(chars)
           byCount == [i \in 1 .. n |-> IF grown(i) > 0 THEN grown(i) ELSE 0]
           byText == [i \in 1 .. n |-> IF chars[i] > 0 THEN 1 ELSE 0]
           byChars == [i \in 1 .. n |-> r.output * chars[i]]
           atLast == [i \in 1 .. n |-> IF i = n THEN r.output ELSE 0]
           shares == Stream!Shares(r, n)
<1>1. shares = IF Stream!Counted(r, n) THEN [of |-> 1, num |-> byCount]
               ELSE IF Len(r.chars) = n /\ n > 0 /\ texts = r.output THEN [of |-> 1, num |-> byText]
               ELSE IF total > 0 THEN [of |-> total, num |-> byChars]
               ELSE [of |-> 1, num |-> atLast]
  <2>1. Stream!Shares(r, n) =
          LET g(i) == r.counts[i] - (IF i = 1 THEN 0 ELSE r.counts[i - 1])
              cs == IF Len(r.chars) = n THEN r.chars ELSE [i \in 1 .. n |-> 0]
          IN  IF Stream!Counted(r, n) THEN [of |-> 1, num |-> [i \in 1 .. n |-> IF g(i) > 0 THEN g(i) ELSE 0]]
              ELSE IF Len(r.chars) = n /\ n > 0 /\ Stream!Cardinality({i \in 1 .. n : cs[i] > 0}) = r.output
              THEN [of |-> 1, num |-> [i \in 1 .. n |-> IF cs[i] > 0 THEN 1 ELSE 0]]
              ELSE IF Stream!Total(cs) > 0 THEN [of |-> Stream!Total(cs), num |-> [i \in 1 .. n |-> r.output * cs[i]]]
              ELSE [of |-> 1, num |-> [i \in 1 .. n |-> IF i = n THEN r.output ELSE 0]]
    BY Zenon DEF Stream!Shares
  <2>2. (IF Len(r.chars) = n THEN r.chars ELSE [i \in 1 .. n |-> 0]) = r.chars
    OBVIOUS
  <2> QED
    BY <2>1, <2>2, Zenon
<1>2. Stream!Counted(r, n) => /\ Stream!Total(byCount) = r.counts[n] /\ r.counts[n] # Stream!NoCount
                              /\ n \in DOMAIN r.counts /\ r.counts # <<>> /\ Len(r.counts) = n
  <2> SUFFICES ASSUME Stream!Counted(r, n)
               PROVE  /\ Stream!Total(byCount) = r.counts[n] /\ r.counts[n] # Stream!NoCount
                      /\ n \in DOMAIN r.counts /\ r.counts # <<>> /\ Len(r.counts) = n
    OBVIOUS
  <2>1. r.counts # <<>> /\ Len(r.counts) = n /\ \A i \in 1 .. n : r.counts[i] # Stream!NoCount
    BY DEF Stream!Counted
  <2>2. DOMAIN r.counts = 1 .. n
    BY <2>1
  <2>3. \A i \in 1 .. n : r.counts[i] \in Nat
    BY <2>1, <2>2
  <2>4. \A i \in 2 .. n : r.counts[i - 1] <= r.counts[i]
    <3>1. \A i \in 2 .. n : i \in DOMAIN r.counts /\ i > 1 /\ i \in 1 .. n
      BY <2>2
    <3> QED
      BY <2>1, <3>1, Zenon
  <2> DEFINE c == r.counts
  <2>5. byCount = [i \in 1 .. n |-> IF c[i] - (IF i = 1 THEN 0 ELSE c[i - 1]) > 0
                                    THEN c[i] - (IF i = 1 THEN 0 ELSE c[i - 1]) ELSE 0]
    OBVIOUS
  <2> HIDE DEF byCount
  <2>6. Stream!Total(byCount) = c[n]
    BY <2>3, <2>4, <2>5, GrowthsTotal
  <2> QED
    BY <2>1, <2>2, <2>6
<1>3. Stream!Total(byText) = texts
  BY OnesTotal, StreamCounts
<1>4. Stream!Total(byChars) = r.output * total
  <2> DEFINE c == r.chars
             o == r.output
  <2>1. n \in Nat /\ c \in Seq(Nat) /\ Len(c) = n /\ o \in Nat /\ byChars = [i \in 1 .. n |-> o * c[i]]
    OBVIOUS
  <2>2. Stream!Total(byChars) = o * Stream!Total(c)
    <3> HIDE DEF c, o, byChars
    <3> QED
      BY <2>1, ScaledTotal
  <2> QED
    BY <2>2
<1>5. Stream!Total(atLast) = r.output
  BY LastTotal
<1>6. total \in Int
  BY TotalInt
<1> HIDE DEF byCount, byText, byChars, atLast, texts, total, shares
<1>7. CASE Stream!Counted(r, n)
  BY <1>1, <1>2, <1>7 DEF shares
<1>8. CASE ~Stream!Counted(r, n)
  <2>1. CASE texts = r.output
    <3>1. shares.of = 1 /\ shares.num = byText
      BY <1>1, <1>8, <2>1
    <3> QED
      BY <1>3, <1>8, <2>1, <3>1 DEF shares
  <2>2. CASE texts # r.output /\ total > 0
    <3>1. shares.of = total /\ shares.num = byChars
      BY <1>1, <1>8, <2>2
    <3>2. r.output * total = total * r.output
      BY <1>6
    <3> QED
      BY <1>4, <1>6, <1>8, <3>1, <3>2 DEF shares
  <2>3. CASE texts # r.output /\ ~(total > 0)
    <3>1. shares.of = 1 /\ shares.num = atLast
      BY <1>1, <1>8, <2>3
    <3> QED
      BY <1>5, <1>8, <3>1 DEF shares
  <2> QED
    BY <2>1, <2>2, <2>3
<1> QED
  BY <1>7, <1>8

-------------------------------------------------------------------------------
(* The times and tokens of a streamed request (HttpStream, chunk_times and chunk_shares). *)

\* The times of a request's chunks end at the last that timed it.
LEMMA TimesWithin ==
  ASSUME NEW l \in Locals, l.ttft # Stream!NoTime => l.lastToken = l.ttft + Stream!Total(l.itl), NEW z, z.ttft = l.ttft,
         z.itl = l.itl
  PROVE  /\ \A i \in DOMAIN Stream!ChunkTimes(z) : Stream!ChunkTimes(z)[i] \in Int /\ Stream!ChunkTimes(z)[i] <= l.lastToken
         /\ l.ttft # Stream!NoTime => Stream!Last(Stream!ChunkTimes(z)) = l.lastToken
<1> DEFINE times == Stream!ChunkTimes(z)
<1>1. CASE l.ttft = Stream!NoTime
  <2>1. times = <<>>
    BY <1>1 DEF Stream!ChunkTimes
  <2> QED
    BY <1>1, <2>1
<1>2. CASE l.ttft # Stream!NoTime
  <2> DEFINE s == l.itl
             n == Len(s)
  <2>1. s \in Seq(Nat) /\ n \in Nat /\ l.ttft \in Nat /\ l.lastToken = l.ttft + Stream!Total(s)
    BY <1>2, LocalIs DEF Stream!NoTime
  <2>2. times = [i \in 1 .. n + 1 |-> l.ttft + Stream!Total(SubSeq(s, 1, i - 1))]
    BY <1>2 DEF Stream!ChunkTimes, Stream!TimeOf
  <2> HIDE DEF s, n, times
  <2>3. DOMAIN times = 1 .. n + 1 /\ \A i \in 1 .. n + 1 : times[i] = l.ttft + Stream!Total(SubSeq(s, 1, i - 1))
    BY <2>2
  <2>4. ASSUME NEW i \in 1 .. n + 1
        PROVE  times[i] \in Int /\ times[i] <= l.lastToken /\ (i = n + 1 => times[i] = l.lastToken)
    <3>1. i - 1 \in 0 .. Len(s) /\ (i = n + 1 => i - 1 = Len(s))
      BY <2>1 DEF n
    <3>2. /\ Stream!Total(SubSeq(s, 1, i - 1)) \in Int /\ Stream!Total(s) \in Int
          /\ Stream!Total(SubSeq(s, 1, i - 1)) <= Stream!Total(s)
          /\ i - 1 = Len(s) => Stream!Total(SubSeq(s, 1, i - 1)) = Stream!Total(s)
      BY <2>1, <3>1, PrefixTotal
    <3> QED
      BY <2>1, <2>3, <3>1, <3>2
  <2>5. times \in Seq(Int) /\ Len(times) = n + 1 /\ n + 1 \in 1 .. n + 1
    <3>1. \A i \in 1 .. n + 1 : l.ttft + Stream!Total(SubSeq(s, 1, i - 1)) \in Int
      <4> SUFFICES ASSUME NEW i \in 1 .. n + 1 PROVE l.ttft + Stream!Total(SubSeq(s, 1, i - 1)) \in Int
        OBVIOUS
      <4>1. i - 1 \in 0 .. Len(s)
        BY <2>1 DEF n
      <4>2. Stream!Total(SubSeq(s, 1, i - 1)) \in Int
        BY <2>1, <4>1, PrefixTotal
      <4> QED
        BY <2>1, <4>2
    <3> QED
      BY <2>1, <2>2, <3>1
  <2>6. Stream!Last(times) = times[n + 1]
    BY <2>5 DEF Stream!Last
  <2> QED
    BY <2>3, <2>4, <2>5, <2>6 DEF times
<1> QED
  BY <1>1, <1>2

\* What the coroutine's variables add up to: the last time is the first and the gaps; a chunk's count is no less than the
\* last one's and no more than what was said, and a chat's last count, if none was lost, is all of it.
Added(l, tokens) ==
  /\ l.ttft # Stream!NoTime => l.lastToken = l.ttft + Stream!Total(l.itl)
  /\ l.lastToken <= l.lastChoices
  /\ \A i \in DOMAIN l.counts : l.counts[i] <= tokens
  /\ \A i \in DOMAIN l.counts : i > 1 /\ l.counts[i] # Stream!NoCount => l.counts[i - 1] <= l.counts[i]
  /\ endpoint = "chat" /\ ~l.bad /\ l.counts # <<>> /\ l.counts[Len(l.counts)] # Stream!NoCount =>
       l.counts[Len(l.counts)] = tokens

SumInv ==
  /\ local.lastChoices <= now /\ Added(local, said.tokens)
  /\ Stream!TimesAddUp /\ Stream!TokensByArrival

LEMMA Appended ==
  ASSUME NEW X, NEW q \in Seq(X), NEW c \in X
  PROVE  /\ Len(Append(q, c)) = Len(q) + 1 /\ Append(q, c)[Len(q) + 1] = c /\ DOMAIN Append(q, c) = 1 .. (Len(q) + 1)
         /\ Len(q) \in Nat /\ DOMAIN q = 1 .. Len(q)
         /\ \A i \in 1 .. Len(q) : Append(q, c)[i] = q[i] /\ q[i] \in X
<1>1. /\ Append(q, c) \in Seq(X) /\ Len(Append(q, c)) = Len(q) + 1 /\ Append(q, c)[Len(q) + 1] = c
      /\ Len(q) \in Nat /\ DOMAIN q = 1 .. Len(q) /\ \A i \in 1 .. Len(q) : Append(q, c)[i] = q[i] /\ q[i] \in X
  OBVIOUS
<1> DEFINE a == Append(q, c)
<1> HIDE DEF a
<1>2. a \in Seq(X) /\ Len(a) = Len(q) + 1
  BY <1>1 DEF a
<1>3. DOMAIN a = 1 .. Len(a)
  BY <1>2
<1> QED
  BY <1>1, <1>2, <1>3 DEF a

\* A token event keeps them so, its count what the server has said of it, if anything.
LEMMA EventAdded ==
  ASSUME NEW l \in Locals, NEW chars \in Nat, NEW t \in Nat, NEW u \in Nat, u <= t, NEW count \in {t, Stream!NoCount},
         NEW at \in Nat, l.lastToken <= at, l.lastChoices = at, Matched(l),
         l.ttft # Stream!NoTime => l.lastToken = l.ttft + Stream!Total(l.itl),
         \A i \in DOMAIN l.counts : l.counts[i] <= u,
         \A i \in DOMAIN l.counts : i > 1 /\ l.counts[i] # Stream!NoCount => l.counts[i - 1] <= l.counts[i]
  PROVE  LET m == Stream!TokenEvent(l, chars, count, at)
         IN  Added(m, t) /\ m.lastChoices = at
<1> DEFINE known == Append(l.chars, chars)
           counted == Append(l.counts, count)
           kept == [l EXCEPT !.chars = known, !.counts = counted, !.lastToken = at]
           m == Stream!TokenEvent(l, chars, count, at)
<1>1. m = IF l.ttft = Stream!NoTime THEN [kept EXCEPT !.ttft = at] ELSE [kept EXCEPT !.itl = Append(@, at - l.lastToken)]
  BY DEF Stream!TokenEvent
<1>2. /\ m.lastToken = at /\ m.lastChoices = at /\ m.counts = counted
      /\ l.ttft = Stream!NoTime => m.ttft = at /\ m.itl = l.itl
      /\ l.ttft # Stream!NoTime => m.ttft = l.ttft /\ m.itl = Append(l.itl, at - l.lastToken)
  <2> HIDE DEF known, counted
  <2>1. /\ kept.lastToken = at /\ kept.lastChoices = l.lastChoices /\ kept.counts = counted /\ kept.ttft = l.ttft
        /\ kept.itl = l.itl
        /\ kept = [ttft |-> kept.ttft, itl |-> kept.itl, lastToken |-> kept.lastToken, lastChoices |-> kept.lastChoices,
                   output |-> kept.output, reported |-> kept.reported, done |-> kept.done, bad |-> kept.bad,
                   read |-> kept.read, chars |-> kept.chars, counts |-> kept.counts]
    <3>1. known \in Seq(Nat) /\ counted \in Seq(Nat \cup {Stream!NoCount})
      BY LocalIs DEF known, counted
    <3>2. kept \in Locals
      BY <3>1, SetKept
    <3>3. kept.lastToken = at /\ kept.lastChoices = l.lastChoices /\ kept.counts = counted /\ kept.ttft = l.ttft /\ kept.itl = l.itl
      BY DEF Locals
    <3> HIDE DEF kept
    <3> QED
      BY <3>2, <3>3 DEF Locals
  <2> HIDE DEF kept, m
  <2> QED
    BY <1>1, <2>1
<1> DEFINE s == l.counts
           n == Len(s)
<1>3. n \in Nat /\ Len(counted) = n + 1 /\ DOMAIN counted = 1 .. n + 1 /\ counted[n + 1] = count
      /\ DOMAIN s = 1 .. n
      /\ \A i \in 1 .. n : counted[i] = s[i] /\ s[i] \in Nat \cup {Stream!NoCount}
  <2>1. PICK X : X = Nat \cup {Stream!NoCount} /\ l.counts \in Seq(X) /\ count \in X
    <3>1. l.counts \in Seq(Nat \cup {Stream!NoCount}) /\ count \in Nat \cup {Stream!NoCount}
      BY LocalIs
    <3> QED
      BY <3>1, Zenon
  <2>2. PICK q : q = l.counts
    OBVIOUS
  <2>3. /\ Len(Append(q, count)) = Len(q) + 1 /\ Append(q, count)[Len(q) + 1] = count
        /\ DOMAIN Append(q, count) = 1 .. (Len(q) + 1)
        /\ Len(q) \in Nat /\ DOMAIN q = 1 .. Len(q)
        /\ \A i \in 1 .. Len(q) : Append(q, count)[i] = q[i] /\ q[i] \in X
    BY <2>1, <2>2, Appended
  <2> QED
    BY <2>1, <2>2, <2>3, Zenon
<1>4. \A i \in 1 .. n : s[i] <= u /\ (i > 1 /\ s[i] # Stream!NoCount => s[i - 1] <= s[i])
  BY <1>3
<1>5. m.ttft # Stream!NoTime => m.lastToken = m.ttft + Stream!Total(m.itl)
  <2>1. CASE l.ttft = Stream!NoTime
    <3>1. l.itl = <<>>
      BY <2>1 DEF Matched
    <3> HIDE DEF m
    <3> QED
      BY <1>2, <2>1, <3>1, TotalEmpty
  <2>2. CASE l.ttft # Stream!NoTime
    <3>1. /\ l.itl \in Seq(Int) /\ at - l.lastToken \in Int /\ l.ttft \in Int /\ l.lastToken \in Int
          /\ l.lastToken = l.ttft + Stream!Total(l.itl)
      BY <2>2, LocalIs DEF Stream!NoTime
    <3>2. Stream!Total(Append(l.itl, at - l.lastToken)) = Stream!Total(l.itl) + (at - l.lastToken) /\ Stream!Total(l.itl) \in Int
      BY <3>1, TotalAppend, TotalInt
    <3>3. m.lastToken = at /\ m.ttft = l.ttft /\ m.itl = Append(l.itl, at - l.lastToken)
      BY <1>2, <2>2
    <3>4. Stream!Total(m.itl) = Stream!Total(l.itl) + (at - l.lastToken)
      BY <3>2, <3>3, Zenon
    <3> HIDE DEF m
    <3> QED
      BY <3>1, <3>2, <3>3, <3>4
  <2> QED
    BY <2>1, <2>2
<1> HIDE DEF counted, s, n, m
<1>6. ASSUME NEW i \in 1 .. n + 1 PROVE counted[i] <= t
  <2>1. CASE i = n + 1
    <3>1. counted[i] = count
      BY <1>3, <2>1
    <3> QED
      BY <3>1 DEF Stream!NoCount
  <2>2. CASE i # n + 1
    <3>1. i \in 1 .. n /\ u <= t
      BY <1>3, <2>2
    <3>2. counted[i] = s[i] /\ s[i] \in Nat \cup {Stream!NoCount} /\ s[i] <= u
      BY <1>3, <1>4, <3>1
    <3> QED
      BY <3>1, <3>2 DEF Stream!NoCount
  <2> QED
    BY <2>1, <2>2
<1>7. ASSUME NEW i \in 1 .. n + 1, i > 1, counted[i] # Stream!NoCount PROVE counted[i - 1] <= counted[i]
  <2>1. CASE i = n + 1
    <3>1. i - 1 \in 1 .. n /\ counted[i] = t
      BY <1>3, <1>7, <2>1
    <3> QED
      BY <1>3, <1>4, <3>1 DEF Stream!NoCount
  <2>2. CASE i # n + 1
    <3>1. i \in 1 .. n /\ i - 1 \in 1 .. n
      BY <1>3, <1>7, <2>2
    <3> QED
      BY <1>3, <1>4, <1>7, <3>1
  <2> QED
    BY <2>1, <2>2
<1>8. counted[Len(counted)] # Stream!NoCount => counted[Len(counted)] = t
  BY <1>3
<1>9. m.lastToken <= m.lastChoices
  BY <1>2
<1> QED
  BY <1>2, <1>3, <1>5, <1>6, <1>7, <1>8, <1>9 DEF Added, m

\* A chunk's choices keep them so; what a chunk says without choices is nothing.
LEMMA ChoicesAdded ==
  ASSUME NEW l \in Locals, NEW chars \in Nat, NEW t \in Nat, NEW u \in Nat, u <= t, NEW count \in {t, Stream!NoCount},
         NEW at \in Nat, l.lastToken <= at, l.lastChoices <= at, Matched(l), Added(l, u)
  PROVE  LET m == Stream!ReadChoices(l, chars, count, at)
         IN  Added(m, t) /\ m.lastChoices = at
<1> DEFINE n == l.read + chars
           first == [l EXCEPT !.lastChoices = at, !.read = n]
           m == Stream!ReadChoices(l, chars, count, at)
<1>1. /\ endpoint = "chat" \/ chars > 0 => m = Stream!TokenEvent(first, chars, count, at)
      /\ ~(endpoint = "chat" \/ chars > 0) => m = first
  BY DEF Stream!ReadChoices
<1>2. n \in Nat
  BY LocalIs
<1> HIDE DEF n, m
<1>3. first \in Locals
  BY <1>2, SetChoices
<1>4. /\ first.lastToken = l.lastToken /\ first.lastChoices = at /\ first.ttft = l.ttft /\ first.itl = l.itl
      /\ first.chars = l.chars /\ first.counts = l.counts /\ first.bad = l.bad
  BY DEF Locals
<1> HIDE DEF first
<1>5. Matched(first)
  BY <1>4 DEF Matched
<1>6. CASE endpoint = "chat" \/ chars > 0
  <2>1. /\ first.lastToken <= at /\ first.lastChoices = at
        /\ first.ttft # Stream!NoTime => first.lastToken = first.ttft + Stream!Total(first.itl)
        /\ \A i \in DOMAIN first.counts : first.counts[i] <= u
        /\ \A i \in DOMAIN first.counts : i > 1 /\ first.counts[i] # Stream!NoCount => first.counts[i - 1] <= first.counts[i]
    BY <1>4 DEF Added
  <2>2. Added(Stream!TokenEvent(first, chars, count, at), t) /\ Stream!TokenEvent(first, chars, count, at).lastChoices = at
    BY <1>3, <1>5, <2>1, EventAdded
  <2> QED
    BY <1>1, <1>6, <2>2 DEF m
<1>7. CASE ~(endpoint = "chat" \/ chars > 0)
  <2>1. \A i \in DOMAIN l.counts : l.counts[i] <= t
    <3>1. \A i \in DOMAIN l.counts : l.counts[i] \in Int /\ l.counts[i] <= u
      BY LocalIs DEF Added, Stream!NoCount
    <3> QED
      BY <3>1
  <2>2. Added(first, t)
    BY <1>4, <1>7, <2>1 DEF Added
  <2> QED
    BY <1>1, <1>4, <1>7, <2>2 DEF m
<1> QED
  BY <1>6, <1>7

\* A stream that is on has no figures to be right about.
LEMMA SumsOn ==
  ASSUME Stream!Streaming, result' = result, endpoint' = endpoint, local'.lastChoices <= now', Added(local', said'.tokens)
  PROVE  SumInv'
<1>1. result' = Stream!None /\ Stream!None.kind = "none"
  BY DEF Stream!Streaming, Stream!None
<1>2. Stream!TimesAddUp' /\ Stream!TokensByArrival'
  BY <1>1 DEF Stream!TimesAddUp, Stream!TokensByArrival, Stream!Succeeded, Stream!Timed
<1>3. Added(local, said.tokens)'
  BY DEF Added
<1> QED
  BY <1>2, <1>3 DEF SumInv

\* A step that leaves the request alone.
LEMMA SumsRest ==
  ASSUME SumInv, UNCHANGED <<endpoint, now, said, local, result>>
  PROVE  SumInv'
<1>1. Added(local, said.tokens)' /\ local'.lastChoices <= now'
  BY DEF SumInv, Added
<1>2. Stream!TimesAddUp'
  BY DEF SumInv, Stream!TimesAddUp, Stream!Succeeded, Stream!Timed
<1>3. Stream!TokensByArrival'
  BY DEF SumInv, Stream!TokensByArrival, Stream!Succeeded
<1> QED
  BY <1>1, <1>2, <1>3 DEF SumInv

\* A result's figures are its variables': right, if its times end in its duration and, of a success, its tokens are whole.
LEMMA SumsOver ==
  ASSUME StreamInv, SumInv, UNCHANGED <<endpoint, local>>, said'.tokens = said.tokens, now' \in Nat, now <= now',
         result'.ttft = local.ttft, result'.itl = local.itl,
         local.ttft # Stream!NoTime => result'.e2el \in Int /\ local.lastToken <= result'.e2el,
         result'.kind = "ok" => /\ result'.ttft # Stream!NoTime /\ ~local.bad
                                /\ result'.chars = local.chars /\ result'.counts \in {local.counts, <<>>}
                                /\ result'.output = local.output
                                /\ (endpoint = "chat" => result'.e2el = local.lastToken)
  PROVE  SumInv'
<1>1. now \in Nat /\ local \in Locals /\ Matched(local) /\ Added(local, said.tokens) /\ local.lastChoices <= now
      /\ local.lastChoices \in Nat /\ local.lastToken \in Nat /\ said \in Sayings
  BY LocalIs DEF StreamInv, SumInv, Stream!TypeOK, Stream!Times, Locals, Sayings
<1>2. local'.lastChoices <= now' /\ Added(local, said.tokens)'
  <2>1. local'.lastChoices <= now'
    BY <1>1
  <2> QED
    BY <1>1, <2>1 DEF Added
<1> DEFINE z == result'
           times == Stream!ChunkTimes(z)
<1>3. /\ \A i \in DOMAIN times : times[i] \in Int /\ times[i] <= local.lastToken
      /\ local.ttft # Stream!NoTime => Stream!Last(times) = local.lastToken
  BY <1>1, TimesWithin DEF Added
<1>4. Stream!ChunkTimes(result)' = times
  OBVIOUS
<1>5. local.ttft = Stream!NoTime => times = <<>>
  BY DEF Stream!ChunkTimes
<1> HIDE DEF z, times
<1>6. Stream!TimesAddUp'
  <2>1. \A i \in DOMAIN times : times[i] <= result'.e2el
    <3>1. CASE local.ttft = Stream!NoTime
      BY <1>5, <3>1
    <3>2. CASE local.ttft # Stream!NoTime
      BY <1>1, <1>3, <3>2
    <3> QED
      BY <3>1, <3>2
  <2>2. endpoint = "chat" /\ result'.kind = "ok" => result'.e2el = Stream!Last(times)
    BY <1>3
  <2> QED
    BY <1>4, <2>1, <2>2 DEF Stream!TimesAddUp, Stream!Succeeded
<1>7. ASSUME result'.kind = "ok", result'.output = said'.tokens
      PROVE  LET shares == Stream!Shares(z, Len(times))
             IN  /\ Stream!Total(shares.num) <= shares.of * said'.tokens
                 /\ endpoint = "chat" => Stream!Total(shares.num) = shares.of * said'.tokens
  <2> DEFINE n == Len(local.itl) + 1
             shares == Stream!Shares(z, n)
             t == said.tokens
  <2>1. /\ z.ttft # Stream!NoTime /\ ~local.bad /\ z.chars = local.chars /\ z.counts \in {local.counts, <<>>}
        /\ z.output = t /\ z.itl = local.itl /\ local.ttft # Stream!NoTime
    BY <1>7 DEF z
  <2>2. Len(times) = n
    BY <1>1, <2>1, TimesCounted, LocalIs DEF times
  <2>3. n \in Nat \ {0} /\ t \in Nat /\ local.chars \in Seq(Nat) /\ Len(local.chars) = n
        /\ local.counts \in Seq(Nat \cup {Stream!NoCount})
    <3>1. local.itl \in Seq(Nat) /\ local.chars \in Seq(Nat) /\ local.counts \in Seq(Nat \cup {Stream!NoCount})
      BY <1>1, LocalIs
    <3>2. Len(local.chars) = Len(local.itl) + 1
      BY <1>1, <2>1 DEF Matched
    <3>3. t \in Nat
      BY <1>1 DEF Sayings
    <3>4. Len(local.itl) \in Nat
      BY <3>1
    <3> QED
      BY <3>1, <3>2, <3>3, <3>4
  <2>4. \A i \in DOMAIN local.counts : /\ local.counts[i] \in Nat \cup {Stream!NoCount} /\ local.counts[i] <= t
                                      /\ (i > 1 /\ local.counts[i] # Stream!NoCount => local.counts[i - 1] <= local.counts[i])
    BY <1>1, <2>3 DEF Added
  <2>5. /\ z.counts \in Seq(Nat \cup {Stream!NoCount})
        /\ \A i \in DOMAIN z.counts : /\ z.counts[i] \in Nat \cup {Stream!NoCount}
                                       /\ (i > 1 /\ z.counts[i] # Stream!NoCount => z.counts[i - 1] <= z.counts[i])
    <3>1. CASE z.counts = local.counts
      BY <2>3, <2>4, <3>1
    <3>2. CASE z.counts = <<>>
      BY <3>2
    <3> QED
      BY <2>1, <3>1, <3>2
  <2> HIDE DEF n, t
  <2>6. /\ Stream!Counted(z, n) => shares.of = 1 /\ Stream!Total(shares.num) = z.counts[n] /\ z.counts[n] # Stream!NoCount
                                  /\ n \in DOMAIN z.counts /\ z.counts # <<>> /\ Len(z.counts) = n
        /\ ~Stream!Counted(z, n) => shares.of \in Int /\ Stream!Total(shares.num) = shares.of * z.output
    <3>1. z.output \in Nat /\ z.chars \in Seq(Nat) /\ Len(z.chars) = n
      BY <2>1, <2>3
    <3> HIDE DEF z
    <3> QED
      BY <2>3, <2>5, <3>1, SharesTotal
  <2> HIDE DEF shares
  <2>7. CASE Stream!Counted(z, n)
    <3>1. z.counts = local.counts
      BY <2>1, <2>6, <2>7
    <3>2. local.counts[n] \in Int /\ local.counts[n] <= t /\ local.counts # <<>> /\ Len(local.counts) = n
          /\ local.counts[n] # Stream!NoCount
      <4>1. n \in DOMAIN local.counts /\ local.counts # <<>> /\ Len(local.counts) = n /\ local.counts[n] # Stream!NoCount
        BY <2>6, <2>7, <3>1
      <4>2. local.counts[n] \in Nat \cup {Stream!NoCount} /\ local.counts[n] <= t
        BY <2>4, <4>1
      <4> QED
        BY <4>1, <4>2 DEF Stream!NoCount
    <3>3. endpoint = "chat" => local.counts[n] = t
      BY <1>1, <2>1, <3>2 DEF Added, t
    <3> QED
      BY <2>2, <2>3, <2>6, <2>7, <3>1, <3>2, <3>3 DEF shares, t
  <2>8. CASE ~Stream!Counted(z, n)
    <3>1. shares.of * t \in Int /\ Stream!Total(shares.num) = shares.of * t
      BY <2>1, <2>3, <2>6, <2>8
    <3> QED
      BY <2>2, <3>1 DEF shares, t
  <2> QED
    BY <2>7, <2>8
<1>8. Stream!TokensByArrival'
  BY <1>4, <1>7 DEF Stream!TokensByArrival, Stream!Succeeded, z
<1> QED
  BY <1>2, <1>6, <1>8 DEF SumInv

\* Every line, and whatever ends a stream, keeps its figures right.
LEMMA SumNext ==
  ASSUME StreamInv, SumInv, Stream!Next
  PROVE  SumInv'
<1>1. now \in Nat /\ said \in Sayings /\ local \in Locals /\ Matched(local) /\ local.lastToken <= now /\ local.lastToken \in Nat
      /\ local.lastChoices \in Nat /\ local.lastChoices <= now /\ local.lastToken <= local.lastChoices
      /\ Added(local, said.tokens) /\ said.tokens \in Nat
  BY LocalIs DEF StreamInv, SumInv, Added, Stream!TypeOK, Stream!Times, Locals, Sayings
<1>2. Stream!Clock => now' \in Nat /\ now <= now'
  BY <1>1 DEF Stream!Clock
<1>3. CASE Stream!Chunk
  <2>1. PICK chars \in 0 .. 1, tokens \in 0 .. MaxTokens, usage \in Stream!Usages, choices \in BOOLEAN :
          /\ ~choices => chars = 0 /\ tokens = 0
          /\ Stream!Says(chars, tokens)
          /\ LET l == Stream!ReadUsage(local, usage, said'.tokens)
             IN  local' = IF choices THEN Stream!ReadChoices(l, chars, Stream!ChunkCount(usage, said'.tokens), now') ELSE l
    BY <1>3 DEF Stream!Chunk
  <2>2. /\ Stream!Streaming /\ now' \in Nat /\ now <= now' /\ UNCHANGED <<endpoint, result>>
    BY <1>2, <1>3 DEF Stream!Chunk, Stream!given
  <2>3. chars \in Nat /\ tokens \in Nat
    BY StreamBounds
  <2>4. said'.tokens = said.tokens + tokens /\ said'.tokens \in Nat /\ said.tokens <= said'.tokens
    BY <1>1, <2>1, <2>3 DEF Stream!Says, Sayings
  <2> DEFINE l == Stream!ReadUsage(local, usage, said'.tokens)
             count == Stream!ChunkCount(usage, said'.tokens)
  <2>5. /\ l \in Locals /\ l.ttft = local.ttft /\ l.itl = local.itl /\ l.chars = local.chars /\ l.counts = local.counts
        /\ l.lastToken = local.lastToken /\ l.bad = local.bad /\ l.lastChoices = local.lastChoices
    <3>1. l.lastChoices = local.lastChoices
      BY <1>1 DEF Stream!ReadUsage, Locals
    <3> QED
      BY <1>1, <2>4, <3>1, UsageRead
  <2>6. count \in {said'.tokens, Stream!NoCount}
    BY DEF Stream!ChunkCount
  <2>7. local' = IF choices THEN Stream!ReadChoices(l, chars, count, now') ELSE l
    BY <2>1
  <2> HIDE DEF l, count
  <2>8. Matched(l) /\ Added(l, said.tokens) /\ l.lastToken <= now' /\ l.lastChoices <= now'
    <3>1. Matched(l)
      BY <1>1, <2>5 DEF Matched
    <3>2. Added(l, said.tokens)
      BY <1>1, <2>5 DEF Added
    <3> QED
      BY <1>1, <2>2, <2>5, <3>1, <3>2
  <2>9. local'.lastChoices <= now' /\ Added(local', said'.tokens)
    <3>1. CASE choices
      <4> DEFINE m == Stream!ReadChoices(l, chars, count, now')
      <4>1. Added(m, said'.tokens) /\ m.lastChoices = now'
        <5>1. said.tokens \in Nat /\ now' \in Nat /\ l \in Locals
          BY <1>1, <2>2, <2>5
        <5> QED
          BY <2>3, <2>4, <2>6, <2>8, <5>1, ChoicesAdded, SMTT(30)
      <4>2. local' = m
        BY <2>7, <3>1
      <4> HIDE DEF m
      <4> QED
        BY <2>2, <4>1, <4>2
    <3>2. CASE ~choices
      <4>1. local' = l /\ said'.tokens = said.tokens
        BY <1>1, <2>1, <2>4, <2>7, <3>2
      <4> QED
        BY <2>8, <4>1
    <3> QED
      BY <3>1, <3>2
  <2> QED
    BY <2>2, <2>9, SumsOn
<1>4. CASE Stream!BadLine
  <2>1. PICK tokens \in 0 .. MaxTokens : Stream!Says(1, tokens)
    BY <1>4 DEF Stream!BadLine
  <2>2. /\ Stream!Streaming /\ now' \in Nat /\ now <= now' /\ UNCHANGED <<endpoint, result>>
        /\ local' = [local EXCEPT !.bad = TRUE]
    BY <1>2, <1>4 DEF Stream!BadLine, Stream!given
  <2>3. tokens \in Nat
    BY StreamBounds
  <2>4. said'.tokens = said.tokens + tokens /\ said'.tokens \in Nat /\ said.tokens <= said'.tokens
    BY <1>1, <2>1, <2>3 DEF Stream!Says, Sayings
  <2>5. /\ local'.bad = TRUE /\ local'.ttft = local.ttft /\ local'.itl = local.itl /\ local'.counts = local.counts
        /\ local'.lastToken = local.lastToken /\ local'.lastChoices = local.lastChoices
    BY <1>1, <2>2 DEF Locals
  <2>6. \A i \in DOMAIN local.counts : local.counts[i] <= said'.tokens
    <3>1. \A i \in DOMAIN local.counts : local.counts[i] \in Int /\ local.counts[i] <= said.tokens
      BY <1>1, LocalIs DEF Added, Stream!NoCount
    <3> QED
      BY <1>1, <2>4, <3>1
  <2>7. Added(local', said'.tokens)
    BY <1>1, <2>5, <2>6 DEF Added
  <2>8. local'.lastChoices <= now'
    BY <1>1, <2>2, <2>5
  <2> QED
    BY <2>2, <2>7, <2>8, SumsOn
<1>5. CASE Stream!DoneLine
  <2>1. /\ Stream!Streaming /\ now' \in Nat /\ now <= now' /\ UNCHANGED <<endpoint, result>>
        /\ local' = [local EXCEPT !.done = TRUE] /\ said' = [said EXCEPT !.done = TRUE]
    BY <1>2, <1>5 DEF Stream!DoneLine, Stream!given
  <2>2. /\ local'.bad = local.bad /\ local'.ttft = local.ttft /\ local'.itl = local.itl /\ local'.counts = local.counts
        /\ local'.lastToken = local.lastToken /\ local'.lastChoices = local.lastChoices /\ said'.tokens = said.tokens
    BY <1>1, <2>1 DEF Locals, Sayings
  <2>3. Added(local', said'.tokens)
    BY <1>1, <2>2 DEF Added
  <2>4. local'.lastChoices <= now'
    BY <1>1, <2>1, <2>2
  <2> QED
    BY <2>1, <2>3, <2>4, SumsOn
<1>6. CASE Stream!StreamEnds
  <2>1. /\ UNCHANGED <<endpoint, said, local>> /\ now' \in Nat /\ now <= now'
        /\ result'.ttft = local.ttft /\ result'.itl = local.itl /\ result'.chars = local.chars
        /\ result'.counts \in {local.counts, <<>>} /\ result'.output = local.output
        /\ result'.e2el = Stream!E2el
        /\ result'.kind = "ok" => ~local.bad /\ result'.ttft # Stream!NoTime
    BY <1>6, EndsAs
  <2>2. local.ttft # Stream!NoTime => /\ Stream!E2el \in Int /\ local.lastToken <= Stream!E2el
                                     /\ (endpoint = "chat" => Stream!E2el = local.lastToken)
    BY <1>1 DEF Stream!E2el
  <2>3. local.ttft # Stream!NoTime => result'.e2el \in Int /\ local.lastToken <= result'.e2el
    BY <2>1, <2>2, Zenon
  <2>4. result'.kind = "ok" => /\ result'.ttft # Stream!NoTime /\ ~local.bad
                              /\ result'.chars = local.chars /\ result'.counts \in {local.counts, <<>>}
                              /\ result'.output = local.output
                              /\ (endpoint = "chat" => result'.e2el = local.lastToken)
    BY <2>1, <2>2, Zenon
  <2>5. said'.tokens = said.tokens
    BY <2>1
  <2> QED
    BY <2>1, <2>3, <2>4, <2>5, SumsOver
<1>7. CASE Stream!Refused
  <2>1. result' = Stream!Result("client_error", 0, FALSE) /\ UNCHANGED <<endpoint, now, said, local>> /\ now = 0
    BY <1>7 DEF Stream!Refused, Stream!given
  <2>2. result'.ttft = local.ttft /\ result'.itl = local.itl /\ result'.e2el = 0 /\ result'.kind = "client_error"
    BY <2>1 DEF Stream!Result
  <2>3. /\ now' \in Nat /\ now <= now' /\ said'.tokens = said.tokens
        /\ (local.ttft # Stream!NoTime => result'.e2el \in Int /\ local.lastToken <= result'.e2el)
    <3>1. local.lastToken <= 0 /\ now' = now /\ said' = said /\ now = 0
      BY <1>1, <2>1
    <3> QED
      BY <2>2, <3>1
  <2>4. result'.kind # "ok"
    BY <2>2
  <2> QED
    BY <2>1, <2>2, <2>3, <2>4, SumsOver
<1>8. CASE Stream!HttpError \/ Stream!ErrorChunk \/ Stream!StreamRaises
  <2>1. PICK k \in ResultKinds \ {"ok"} : result' = Stream!Result(k, now', FALSE)
    BY <1>8 DEF Stream!HttpError, Stream!ErrorChunk, Stream!StreamRaises, ResultKinds
  <2>2. UNCHANGED <<endpoint, local>> /\ now' \in Nat /\ now <= now'
    BY <1>2, <1>8 DEF Stream!HttpError, Stream!ErrorChunk, Stream!StreamRaises, Stream!given
  <2>3. said'.tokens = said.tokens
    <3>1. CASE Stream!ErrorChunk
      BY <1>1, <3>1 DEF Stream!ErrorChunk, Stream!Says, Sayings
    <3>2. CASE Stream!HttpError \/ Stream!StreamRaises
      BY <3>2 DEF Stream!HttpError, Stream!StreamRaises
    <3> QED
      BY <1>8, <3>1, <3>2
  <2>4. result'.ttft = local.ttft /\ result'.itl = local.itl /\ result'.e2el = now' /\ result'.kind # "ok"
    BY <2>1 DEF Stream!Result
  <2>5. now' \in Int /\ local.lastToken <= now'
    BY <1>1, <2>2
  <2> QED
    BY <2>2, <2>3, <2>4, <2>5, SumsOver
<1>9. CASE Stream!Cancelled
  <2>1. result'.kind = "cancelled" /\ UNCHANGED <<endpoint, now, said, local>>
    BY <1>9 DEF Stream!Cancelled, Stream!given
  <2>2. Stream!TimesAddUp' /\ Stream!TokensByArrival'
    BY <2>1 DEF Stream!TimesAddUp, Stream!TokensByArrival, Stream!Succeeded, Stream!Timed
  <2>3. local'.lastChoices <= now' /\ Added(local, said.tokens)'
    BY <1>1, <2>1 DEF Added
  <2> QED
    BY <2>2, <2>3 DEF SumInv
<1>10. CASE Stream!Over
  <2>1. UNCHANGED <<endpoint, now, said, local, result>>
    BY <1>10 DEF Stream!Over, Stream!vars, Stream!given
  <2> QED
    BY <2>1, SumsRest
<1> QED
  BY <1>3, <1>4, <1>5, <1>6, <1>7, <1>8, <1>9, <1>10 DEF Stream!Next

\* Whatever lines a stream has and whatever ends it: its chunks' times lie in its duration, a whole chat reply ends at its
\* last, and the tokens counted by arrival over a success are its output, by every rule that counts them (drivers.py,
\* _stream_chat and _stream_completions; summary.py, chunk_times and chunk_shares), for any number of lines and tokens.
THEOREM StreamSums == Spec => []StreamsRight
<1> DEFINE I == kind = "stream" => StreamInv /\ SumInv
<1>1. Init => I
  <2> SUFFICES ASSUME Init, kind = "stream" PROVE SumInv
    BY StreamStart
  <2>1. /\ now = 0 /\ said.tokens = 0 /\ result = Stream!None /\ Stream!None.kind = "none"
        /\ local.ttft = Stream!NoTime /\ local.lastToken = 0 /\ local.lastChoices = 0 /\ local.counts = <<>>
    BY DEF Init, Stream!Init, Stream!None
  <2> QED
    BY <2>1 DEF SumInv, Added, Stream!TimesAddUp, Stream!TokensByArrival, Stream!Succeeded, Stream!Timed
<1>2. I /\ [Next]_vars => I'
  <2> SUFFICES ASSUME I, [Next]_vars, kind' = "stream" PROVE (StreamInv /\ SumInv)'
    OBVIOUS
  <2>1. kind = "stream" /\ StreamInv /\ SumInv
    BY DEF Next, Runs, Grids, Windows, Replays, Streams, SentPlans, Draws, Concluded, vars, Abort, Conclude, Probe,
       ProbeMismatch, ProbeRaises
  <2>2. CASE Streams
    BY <2>1, <2>2, StreamNext, SumNext DEF Streams
  <2>3. CASE Concluded \/ UNCHANGED vars
    <3>1. UNCHANGED <<endpoint, planned, mode, now, said, local, result>>
      BY <2>3 DEF Concluded, vars, runVars, windowVars, streamVars
    <3> QED
      BY <2>1, <3>1, StreamRests, SumsRest
  <2>4. CASE Runs
    BY <2>1, <2>4 DEF Runs, Abort, Conclude, Probe, ProbeMismatch, ProbeRaises
  <2> QED
    BY <2>1, <2>2, <2>3, <2>4 DEF Next, Grids, Windows, Replays, SentPlans, Draws
<1>3. I => StreamsRight
  BY DEF StreamInv, SumInv, StreamsRight, Stream!Inv
<1> QED
  BY <1>1, <1>2, <1>3, PTL DEF Spec

-------------------------------------------------------------------------------
(* The rows of a single-turn run (DrawnPlan). *)

\* The place in the source, laps counted, of the k-th row drawn: a trace starts over after warmup.
Place(k) == IF source.kind = "mooncake" /\ k > source.warm THEN k - source.warm - 1 ELSE k - 1

\* When each measured request is sent.
SentAt(arrival, size, parts, lap, stamps, m) ==
  CASE arrival = "trace" -> Drawn!Rebase([k \in 1 .. Len(m) |-> IF stamps[m[k].row] = Drawn!NoTime THEN Drawn!NoTime
                                                                ELSE parts * stamps[m[k].row] + m[k].lap * lap])
    [] arrival = "steady" -> [k \in 1 .. Len(m) |-> 0]
    [] arrival = "burst" -> [k \in 1 .. Len(m) |-> parts * ((k - 1) \div size)]

\* What source is, always: some rows, counts above zero, and no time in a source that is sampled.
SourceInv ==
  /\ source \in [kind : {"sampled", "mooncake", "file"}, stamps : Seq(Int), warm : Nat, asked : Nat \ {0},
                 arrival : {"trace", "steady", "burst"}, size : Nat \ {0}]
  /\ Drawn!Rows \in Nat \ {0}
  /\ source.kind = "sampled" => \A i \in 1 .. Drawn!Rows : source.stamps[i] = Drawn!NoTime

\* The k-th row drawn is the one at the k-th place, the cursor is at the next one's, and a plan that is ready has what was
\* asked for, at the times SentAt says.
DrawnInv ==
  /\ SourceInv
  /\ drawn \in Seq([row : Nat, lap : Nat])
  /\ \A k \in 1 .. Len(drawn) : drawn[k].row = 1 + (Place(k) % Drawn!Rows) /\ drawn[k].lap = Place(k) \div Drawn!Rows
  /\ ready \in {"no", "yes", "refused"}
  /\ ready = "no" => cursor = Place(Len(drawn) + 1)
  /\ ready = "yes" =>
       /\ ~Drawn!Refuses /\ Len(drawn) = Drawn!Wanted
       /\ offsets = SentAt(source.arrival, source.size, Drawn!Parts, Drawn!Lap, source.stamps, Drawn!Measured)

\* What \div and % give.
LEMMA Quotient ==
  ASSUME NEW a \in Nat, NEW b \in Nat \ {0}
  PROVE  a \div b \in Nat /\ a % b \in 0 .. b - 1 /\ a = b * (a \div b) + (a % b)
  OBVIOUS

\* DrawnInv at the start, where the source has not been read, and by each step.
LEMMA DrawnStart == Drawn!BoundsAssumption /\ Drawn!Init => DrawnInv
<1> SUFFICES ASSUME Drawn!BoundsAssumption, Drawn!Init PROVE DrawnInv
  OBVIOUS
<1>1. drawn = <<>> /\ cursor = 0 /\ ready = "no"
  BY DEF Drawn!Init
<1>2. SourceInv
  <2>1. PICK n \in 1 .. MaxSource : source.stamps \in [1 .. n -> Drawn!NoTime .. LastStamp]
    BY DEF Drawn!Init
  <2>2. source.stamps \in Seq(Int) /\ Drawn!Rows = n /\ n \in Nat \ {0} /\ DOMAIN source.stamps = 1 .. n
    BY <2>1 DEF Drawn!BoundsAssumption, Drawn!NoTime, Drawn!Rows
  <2>3. /\ source.kind \in {"sampled", "mooncake", "file"} /\ source.warm \in Nat /\ source.asked \in Nat \ {0}
        /\ source.arrival \in {"trace", "steady", "burst"} /\ source.size \in Nat \ {0}
        /\ source = [kind |-> source.kind, stamps |-> source.stamps, warm |-> source.warm, asked |-> source.asked,
                     arrival |-> source.arrival, size |-> source.size]
    BY DEF Drawn!Init, Drawn!BoundsAssumption
  <2>4. source.kind = "sampled" => \A i \in 1 .. n : source.stamps[i] = Drawn!NoTime
    BY <2>2 DEF Drawn!Init
  <2> QED
    BY <2>2, <2>3, <2>4 DEF SourceInv
<1>3. source.warm \in Nat
  BY <1>2 DEF SourceInv
<1>4. cursor = Place(Len(drawn) + 1)
  <2>1. Len(drawn) = 0
    BY <1>1
  <2> QED
    BY <1>1, <1>3, <2>1 DEF Place
<1> QED
  BY <1>1, <1>2, <1>4 DEF DrawnInv

\* While the source is the same, so is all that is computed from it alone.
LEMMA SameSource ==
  ASSUME source' = source
  PROVE  /\ SourceInv => SourceInv'
         /\ Drawn!Rows' = Drawn!Rows /\ Drawn!Parts' = Drawn!Parts /\ Drawn!Lap' = Drawn!Lap /\ Drawn!Wanted' = Drawn!Wanted
         /\ Drawn!Warmed' = Drawn!Warmed /\ Drawn!Refuses' = Drawn!Refuses /\ \A k : Place(k)' = Place(k)
<1>1. Drawn!Rows' = Drawn!Rows /\ Drawn!Warmed' = Drawn!Warmed /\ \A k : Place(k)' = Place(k)
  BY DEF Drawn!Rows, Drawn!Warmed, Place
<1>2. Drawn!Stamped' = Drawn!Stamped
  BY DEF Drawn!Stamped
<1>3. Drawn!Span' = Drawn!Span
  <2>1. {source'.stamps[i] : i \in Drawn!Stamped'} = {source.stamps[i] : i \in Drawn!Stamped}
    BY <1>2
  <2> QED
    BY <1>2, <2>1 DEF Drawn!Span
<1>4. Drawn!Parts' = Drawn!Parts /\ Drawn!Lap' = Drawn!Lap /\ Drawn!Wanted' = Drawn!Wanted
  BY <1>1, <1>2, <1>3 DEF Drawn!Parts, Drawn!Lap, Drawn!Wanted
<1>5. Drawn!Refuses' = Drawn!Refuses
  BY <1>1, <1>4 DEF Drawn!Refuses
<1>6. SourceInv => SourceInv'
  BY <1>1 DEF SourceInv
<1> QED
  BY <1>1, <1>4, <1>5, <1>6

\* A row is drawn at the cursor, which goes on to the next place; the plan is ready once enough are drawn.
LEMMA DrawnNext == DrawnInv /\ (Drawn!Next \/ UNCHANGED Drawn!vars) => DrawnInv'
<1> SUFFICES ASSUME DrawnInv, Drawn!Next \/ UNCHANGED Drawn!vars PROVE DrawnInv'
  OBVIOUS
<1>0. source' = source
  BY DEF Drawn!Next, Drawn!vars, Drawn!Refuse, Drawn!Draw, Drawn!Schedule, Drawn!Over
<1>1. /\ SourceInv' /\ Drawn!Rows' = Drawn!Rows /\ Drawn!Parts' = Drawn!Parts /\ Drawn!Lap' = Drawn!Lap
      /\ Drawn!Wanted' = Drawn!Wanted /\ Drawn!Warmed' = Drawn!Warmed /\ Drawn!Refuses' = Drawn!Refuses
      /\ \A k : Place(k)' = Place(k)
  BY <1>0, SameSource DEF DrawnInv
<1>2. Drawn!Rows \in Nat \ {0} /\ source.warm \in Nat /\ Len(drawn) \in Nat
  BY DEF DrawnInv, SourceInv
<1>3. drawn' = drawn => Drawn!Measured' = Drawn!Measured /\ Place(Len(drawn) + 1)' = Place(Len(drawn) + 1)
  <2> SUFFICES ASSUME drawn' = drawn
               PROVE  Drawn!Measured' = Drawn!Measured /\ Place(Len(drawn) + 1)' = Place(Len(drawn) + 1)
    OBVIOUS
  <2> QED
    BY <1>0, <1>1 DEF Drawn!Measured, Place
<1>4. CASE Drawn!Refuse
  <2>1. drawn' = drawn /\ ready' = "refused"
    BY <1>4 DEF Drawn!Refuse
  <2> QED
    BY <1>1, <1>3, <2>1 DEF DrawnInv
<1>5. CASE Drawn!Draw
  <2> DEFINE n == Len(drawn) + 1
             p == Place(n)
             d == [row |-> 1 + (cursor % Drawn!Rows), lap |-> cursor \div Drawn!Rows]
  <2>1. cursor = p /\ drawn' = Append(drawn, d) /\ ready = "no" /\ ready' = "no"
    BY <1>5 DEF Drawn!Draw, DrawnInv
  <2>2. n \in Nat \ {0} /\ p \in Nat
    BY <1>2 DEF Place
  <2> HIDE DEF p
  <2>3. cursor \div Drawn!Rows \in Nat /\ 1 + (cursor % Drawn!Rows) \in Nat
    <3> DEFINE R == Drawn!Rows
    <3> HIDE DEF R
    <3>1. R \in Nat \ {0} /\ p \in Nat
      BY <1>2, <2>2 DEF R
    <3>2. p \div R \in Nat /\ p % R \in 0 .. R - 1
      BY <3>1, Quotient
    <3>3. 1 + (p % R) \in Nat
      BY <3>1, <3>2
    <3> QED
      BY <2>1, <3>2, <3>3, Zenon DEF R
  <2>4. d \in [row : Nat, lap : Nat]
    BY <2>3
  <2>5. drawn' \in Seq([row : Nat, lap : Nat]) /\ Len(drawn') = n /\ drawn'[n] = d /\ \A k \in 1 .. Len(drawn) : drawn'[k] = drawn[k]
    BY <2>1, <2>4 DEF DrawnInv
  <2>6. d.row = 1 + (p % Drawn!Rows) /\ d.lap = p \div Drawn!Rows
    BY <2>1
  <2> HIDE DEF d
  <2>7. \A k \in 1 .. n : drawn'[k].row = 1 + (Place(k) % Drawn!Rows) /\ drawn'[k].lap = Place(k) \div Drawn!Rows
    <3> TAKE k \in 1 .. n
    <3>1. CASE k = n
      BY <2>5, <2>6, <3>1 DEF p
    <3>2. CASE k # n
      <4>1. k \in 1 .. Len(drawn)
        BY <1>2, <3>2
      <4> QED
        BY <2>5, <4>1 DEF DrawnInv
    <3> QED
      BY <3>1, <3>2
  <2>8. cursor' = Place(n + 1)
    <3>1. cursor' = IF source.kind = "mooncake" /\ n = source.warm THEN 0 ELSE cursor + 1
      BY <1>5, <2>5 DEF Drawn!Draw
    <3> QED
      BY <1>2, <2>1, <2>2, <3>1 DEF p, Place
  <2>9. \A k \in 1 .. Len(drawn') : drawn'[k].row = 1 + (Place(k)' % Drawn!Rows') /\ drawn'[k].lap = Place(k)' \div Drawn!Rows'
    BY <1>1, <2>5, <2>7
  <2>10. cursor' = Place(Len(drawn) + 1)'
    BY <1>0, <2>5, <2>8 DEF Place
  <2> QED
    BY <1>1, <2>1, <2>5, <2>9, <2>10 DEF DrawnInv
<1>6. CASE Drawn!Schedule
  <2>1. drawn' = drawn /\ ready' \in {"yes", "refused"} /\ ~Drawn!Refuses /\ Len(drawn) = Drawn!Wanted
    BY <1>6 DEF Drawn!Schedule
  <2>2. ready' = "yes" =>
          offsets' = SentAt(source.arrival, source.size, Drawn!Parts, Drawn!Lap, source.stamps, Drawn!Measured)
    BY <1>6 DEF Drawn!Schedule, SentAt, Drawn!Burst, Drawn!Time
  <2> QED
    BY <1>0, <1>1, <1>3, <2>1, <2>2 DEF DrawnInv
<1>7. CASE UNCHANGED Drawn!vars
  BY <1>0, <1>1, <1>3, <1>7 DEF DrawnInv, Drawn!vars
<1> QED
  BY <1>4, <1>5, <1>6, <1>7 DEF Drawn!Next, Drawn!Over

\* DrawnPlan's Cardinality is this module's.
LEMMA DrawnCounts == \A S : Drawn!Cardinality(S) = Cardinality(S)
  BY DEF Drawn!Cardinality, Cardinality

\* Of some entries of a sequence one is the largest, and one the least.
LEMMA Largest ==
  ASSUME NEW n \in Nat, NEW f \in [1 .. n -> Int], NEW S \in SUBSET (1 .. n), S # {}
  PROVE  \E i \in S : \A j \in S : f[j] <= f[i]
<1> DEFINE P(k) == {j \in S : j <= k}
           T == {k \in 0 .. n : P(k) = {} \/ \E i \in P(k) : \A j \in P(k) : f[j] <= f[i]}
<1>1. \A j \in S : j \in 1 .. n /\ f[j] \in Int
  OBVIOUS
<1>8. \A j \in S : j \in Nat /\ ~(j <= 0) /\ j <= n
  OBVIOUS
<1>2. 0 \in T
  <2>1. P(0) = {}
    BY <1>8
  <2> QED
    BY <2>1
<1>3. ASSUME NEW k \in T, k < n PROVE k + 1 \in T
  <2>1. k + 1 \in 0 .. n /\ \A j \in P(k + 1) : j \in P(k) \/ j = k + 1
    BY <1>3
  <2>2. \A j \in P(k) : j \in P(k + 1)
    BY <1>3
  <2>3. \A j \in P(k + 1) : f[j] \in Int
    BY <1>1
  <2>4. k + 1 \in S => k + 1 \in P(k + 1)
    BY <1>3
  <2>5. k + 1 \notin S => P(k + 1) = P(k)
    BY <2>1, <2>2
  <2>6. P(k) = {} \/ \E i \in P(k) : \A j \in P(k) : f[j] <= f[i]
    OBVIOUS
  <2>7. P(k + 1) = {} \/ \E i \in P(k + 1) : \A j \in P(k + 1) : f[j] <= f[i]
    <3>1. CASE k + 1 \notin S
      BY <2>5, <2>6, <3>1, Zenon
    <3> HIDE DEF P
    <3>2. CASE k + 1 \in S /\ P(k) = {}
      <4>1. \A j \in P(k + 1) : j = k + 1
        BY <2>1, <3>2
      <4> QED
        BY <2>3, <2>4, <3>2, <4>1
    <3>3. CASE k + 1 \in S /\ P(k) # {}
      <4>1. PICK i \in P(k) : \A j \in P(k) : f[j] <= f[i]
        BY <2>6, <3>3
      <4>2. i \in P(k + 1) /\ f[i] \in Int /\ k + 1 \in P(k + 1) /\ f[k + 1] \in Int
        BY <2>2, <2>3, <2>4, <3>3
      <4>3. CASE f[k + 1] <= f[i]
        <5>1. \A j \in P(k + 1) : f[j] <= f[i]
          BY <2>1, <4>1, <4>3
        <5> QED
          BY <4>2, <5>1
      <4>4. CASE ~(f[k + 1] <= f[i])
        <5>1. \A j \in P(k + 1) : f[j] <= f[k + 1]
          <6> TAKE j \in P(k + 1)
          <6>1. CASE j = k + 1
            BY <4>2, <6>1
          <6>2. CASE j \in P(k)
            BY <2>3, <4>1, <4>2, <4>4, <6>2
          <6> QED
            BY <2>1, <6>1, <6>2
        <5> QED
          BY <4>2, <5>1
      <4> QED
        BY <4>3, <4>4
    <3> QED
      BY <3>1, <3>2, <3>3
  <2> QED
    BY <2>1, <2>7
<1>4. T \in SUBSET (0 .. n)
  OBVIOUS
<1>7. P(n) = S
  BY <1>8
<1> HIDE DEF T
<1>5. T = 0 .. n
  BY <1>2, <1>3, <1>4, Upwards
<1>6. n \in T
  BY <1>5
<1> QED
  BY <1>6, <1>7 DEF T

\* The values at some entries.
Values(f, S) == {f[i] : i \in S}

\* So Max and Min of the values at some entries are values there.
LEMMA Extremes ==
  ASSUME NEW n \in Nat, NEW f \in [1 .. n -> Int], NEW S \in SUBSET (1 .. n), S # {}
  PROVE  /\ Drawn!Max(Values(f, S)) \in Values(f, S) /\ \A t \in Values(f, S) : t <= Drawn!Max(Values(f, S))
         /\ Drawn!Min(Values(f, S)) \in Values(f, S) /\ \A t \in Values(f, S) : Drawn!Min(Values(f, S)) <= t
<1> DEFINE g == [i \in 1 .. n |-> 0 - f[i]]
           T == Values(f, S)
<1>1. PICK i \in S : \A j \in S : f[j] <= f[i]
  BY Largest
<1>2. g \in [1 .. n -> Int] /\ \A j \in 1 .. n : g[j] = 0 - f[j] /\ f[j] \in Int
  OBVIOUS
<1> HIDE DEF g
<1>3. PICK k \in S : \A j \in S : g[j] <= g[k]
  BY <1>2, Largest
<1>4. \A j \in S : f[k] <= f[j]
  BY <1>2, <1>3
<1>5. \E x \in T : \A y \in T : y <= x
  BY <1>1 DEF Values
<1>6. \E x \in T : \A y \in T : x <= y
  BY <1>4 DEF Values
<1> HIDE DEF T
<1>7. Drawn!Max(T) \in T /\ (\A t \in T : t <= Drawn!Max(T)) /\ Drawn!Min(T) \in T /\ \A t \in T : Drawn!Min(T) <= t
  BY <1>5, <1>6 DEF Drawn!Max, Drawn!Min
<1> QED
  BY <1>7 DEF T

\* Stamps lie no further apart than the span, and a lap is longer than its parts of the span unless that is nothing.
LEMMA LapIs ==
  ASSUME SourceInv
  PROVE  /\ Drawn!Parts \in Nat \ {0} /\ Drawn!Span \in Nat /\ Drawn!Lap \in Nat
         /\ \A i, j \in Drawn!Stamped : source.stamps[i] - source.stamps[j] <= Drawn!Span
         /\ \A i \in 1 .. Drawn!Rows : source.stamps[i] \in Int
         /\ Drawn!Lap # 0 => Drawn!Parts * Drawn!Span < Drawn!Lap
<1> DEFINE S == Drawn!Stamped
           T == {source.stamps[i] : i \in S}
           s == Cardinality(S)
           span == Drawn!Span
<1>1. /\ source.stamps \in Seq(Int) /\ Drawn!Rows = Len(source.stamps) /\ Drawn!Rows \in Nat \ {0}
      /\ DOMAIN source.stamps = 1 .. Drawn!Rows
  BY DEF SourceInv, Drawn!Rows
<1>2. \A i \in 1 .. Drawn!Rows : source.stamps[i] \in Int
  BY <1>1
<1>3. S \subseteq 1 .. Drawn!Rows
  BY <1>1 DEF Drawn!Stamped
<1>4. IsFiniteSet(S) /\ s \in Nat /\ (s = 0 <=> S = {})
  <2>1. IsFiniteSet(1 .. Drawn!Rows)
    <3>1. 1 \in Int /\ Drawn!Rows \in Int
      BY <1>1
    <3> QED
      BY <3>1, FS_Interval, Zenon
  <2>2. IsFiniteSet(S)
    BY <1>3, <2>1, FS_Subset
  <2> QED
    BY <2>2, FS_CardinalityType, FS_EmptySet
<1>5. T \subseteq Int
  BY <1>2, <1>3
<1>6. T # {} => /\ Drawn!Max(T) \in T /\ \A t \in T : t <= Drawn!Max(T)
                /\ Drawn!Min(T) \in T /\ \A t \in T : Drawn!Min(T) <= t
  <2> DEFINE n == Drawn!Rows
             f == source.stamps
  <2>1. n \in Nat /\ f \in [1 .. n -> Int] /\ S \in SUBSET (1 .. n) /\ (T # {} => S # {})
    BY <1>1, <1>3
  <2>2. T = Values(f, S)
    BY Zenon DEF Values
  <2> HIDE DEF n, f, T, S
  <2>3. T # {} => /\ Drawn!Max(Values(f, S)) \in Values(f, S) /\ \A t \in Values(f, S) : t <= Drawn!Max(Values(f, S))
                  /\ Drawn!Min(Values(f, S)) \in Values(f, S) /\ \A t \in Values(f, S) : Drawn!Min(Values(f, S)) <= t
    BY <2>1, Extremes, Zenon
  <2> QED
    BY <2>2, <2>3, Zenon
<1>7. span \in Nat /\ \A i, j \in S : source.stamps[i] - source.stamps[j] <= span
  <2>1. CASE S = {}
    BY <2>1 DEF Drawn!Span
  <2>2. CASE S # {}
    <3>1. T # {}
      BY <2>2
    <3>2. span = Drawn!Max(T) - Drawn!Min(T)
      BY <2>2 DEF Drawn!Span
    <3>3. \A i \in S : source.stamps[i] \in T
      OBVIOUS
    <3> HIDE DEF T, span, S
    <3>4. Drawn!Max(T) \in Int /\ Drawn!Min(T) \in Int /\ Drawn!Min(T) <= Drawn!Max(T)
      BY <1>5, <1>6, <3>1
    <3>5. \A t, u \in T : t - u <= Drawn!Max(T) - Drawn!Min(T)
      BY <1>5, <1>6, <3>1, <3>4
    <3> QED
      BY <3>2, <3>3, <3>4, <3>5
  <2> QED
    BY <2>1, <2>2
<1>8. Drawn!Parts \in Nat \ {0} /\ Drawn!Parts = IF s > 1 THEN s - 1 ELSE 1
  <2> DEFINE P == {1, s - 1}
  <2>1. \E x \in P : \A y \in P : y <= x
    <3> HIDE DEF s
    <3> QED
      BY <1>4
  <2>2. Drawn!Max(P) \in P /\ \A t \in P : t <= Drawn!Max(P)
    <3> HIDE DEF P
    <3> QED
      BY <2>1 DEF Drawn!Max
  <2>3. Drawn!Parts = Drawn!Max(P)
    BY DrawnCounts DEF Drawn!Parts
  <2>4. 1 \in P /\ s - 1 \in P /\ \A t \in P : t = 1 \/ t = s - 1
    OBVIOUS
  <2> HIDE DEF P, s
  <2> QED
    BY <1>4, <2>2, <2>3, <2>4
<1>9. s <= 1 => span = 0
  <2> SUFFICES ASSUME s <= 1, S # {} PROVE span = 0
    BY DEF Drawn!Span
  <2>1. PICK i \in S : TRUE
    OBVIOUS
  <2>2. \A j \in S : j = i
    <3> SUFFICES ASSUME NEW j \in S, j # i PROVE FALSE
      OBVIOUS
    <3>1. IsFiniteSet({i}) /\ Cardinality({i}) = 1 /\ IsFiniteSet({i} \cup {j}) /\ Cardinality({i} \cup {j}) = 2
      <4>1. IsFiniteSet({i}) /\ Cardinality({i}) = 1
        BY FS_Singleton
      <4>2. j \notin {i}
        OBVIOUS
      <4>3. IsFiniteSet({i} \cup {j}) /\ Cardinality({i} \cup {j}) = Cardinality({i}) + 1
        BY <4>1, <4>2, FS_AddElement, Zenon
      <4> QED
        BY <4>1, <4>3
    <3>2. {i} \cup {j} \subseteq S
      OBVIOUS
    <3>3. Cardinality({i} \cup {j}) <= s
      BY <1>4, <3>2, FS_Subset, Zenon
    <3> QED
      BY <1>4, <3>1, <3>3
  <2>3. T = {source.stamps[i]}
    BY <2>1, <2>2
  <2>4. Drawn!Span = Drawn!Max(T) - Drawn!Min(T)
    BY DEF Drawn!Span
  <2>5. Drawn!Max(T) = source.stamps[i] /\ Drawn!Min(T) = source.stamps[i] /\ source.stamps[i] \in Int
    <3>1. T # {}
      BY <2>3
    <3> QED
      BY <1>2, <1>3, <1>6, <2>1, <2>3, <3>1
  <2> HIDE DEF T
  <2> QED
    BY <2>4, <2>5
<1>10. Drawn!Lap = span * (IF s > 1 THEN s ELSE 1)
  BY DrawnCounts DEF Drawn!Lap
<1> HIDE DEF s, span, S
<1>11. Drawn!Lap \in Nat
  BY <1>4, <1>7, <1>10
<1>12. Drawn!Lap # 0 => Drawn!Parts * span < Drawn!Lap
  <2> SUFFICES ASSUME Drawn!Lap # 0 PROVE Drawn!Parts * span < Drawn!Lap
    OBVIOUS
  <2>1. s > 1 /\ Drawn!Lap = span * s /\ Drawn!Parts = s - 1
    <3>1. CASE s > 1
      BY <1>8, <1>10, <3>1
    <3>2. CASE ~(s > 1)
      <4>1. span = 0 /\ Drawn!Lap = span * 1
        BY <1>4, <1>9, <1>10, <3>2
      <4> QED
        BY <4>1
    <3> QED
      BY <3>1, <3>2
  <2>2. (s - 1) * span = span * s - span /\ span * s \in Nat
    BY <1>4, <1>7
  <2>3. span # 0
    <3>1. 0 * s = 0
      BY <1>4
    <3> QED
      BY <2>1, <3>1
  <2> QED
    BY <1>7, <2>1, <2>2, <2>3
<1> QED
  BY <1>2, <1>7, <1>8, <1>11, <1>12 DEF span, S

\* A place within the first lap, and what a place's row and lap are.
LEMMA LapRow ==
  ASSUME NEW R \in Nat \ {0}, NEW p \in Nat
  PROVE  /\ 1 + (p % R) \in 1 .. R /\ p \div R \in Nat /\ (p \div R) * R + (1 + (p % R)) = p + 1
         /\ p < R => p % R = p /\ p \div R = 0
<1> DEFINE d == p \div R
           e == p % R
<1>1. d \in Nat /\ e \in 0 .. R - 1 /\ p = R * d + e
  BY Quotient
<1> HIDE DEF d, e
<1>2. R * d = d * R /\ d * R \in Nat
  BY <1>1
<1>3. p < R => d = 0
  <2> SUFFICES ASSUME p < R, d # 0 PROVE FALSE
    OBVIOUS
  <2>1. PICK f \in Nat : d = f + 1
    <3>1. d - 1 \in Nat /\ d = (d - 1) + 1
      BY <1>1
    <3> QED
      BY <3>1
  <2>2. R * (f + 1) = R * f + R /\ R * f \in Nat
    OBVIOUS
  <2> QED
    BY <1>1, <2>1, <2>2
<1>4. p < R => e = p
  <2>1. R * 0 = 0
    OBVIOUS
  <2> QED
    BY <1>1, <1>3, <2>1
<1>5. 1 + e \in 1 .. R /\ d * R + (1 + e) = p + 1
  BY <1>1, <1>2
<1> QED
  BY <1>1, <1>3, <1>4, <1>5 DEF d, e

\* The measured rows.
LEMMA MeasuredIs ==
  ASSUME DrawnInv, ready = "yes"
  PROVE  LET m == Drawn!Measured IN
         /\ Len(m) \in Nat \ {0} /\ DOMAIN m = 1 .. Len(m)
         /\ \A k \in 1 .. Len(m) : m[k].row \in 1 .. Drawn!Rows /\ m[k].lap \in Nat
         /\ source.kind # "sampled" => \A k \in 1 .. Len(m) : m[k].lap * Drawn!Rows + m[k].row = k
         /\ source.kind = "sampled" => \A j, k \in DOMAIN drawn : drawn[j].row = drawn[k].row => j = k
         /\ (Drawn!Lap = 0 /\ source.arrival = "trace") \/ source.kind # "mooncake" => \A k \in 1 .. Len(m) : m[k].lap = 0
<1> DEFINE m == Drawn!Measured
           w == Drawn!Warmed
           R == Drawn!Rows
           d == Len(drawn)
<1>1. /\ R \in Nat \ {0} /\ source.warm \in Nat /\ source.asked \in Nat \ {0} /\ source.kind \in {"sampled", "mooncake", "file"}
      /\ drawn \in Seq([row : Nat, lap : Nat]) /\ d = Drawn!Wanted /\ ~Drawn!Refuses /\ d \in Nat /\ DOMAIN drawn = 1 .. d
  BY DEF DrawnInv, SourceInv
<1>2. \A k \in 1 .. d : drawn[k].row = 1 + (Place(k) % R) /\ drawn[k].lap = Place(k) \div R
  BY DEF DrawnInv
<1>3. \A k \in 1 .. d : Place(k) \in Nat
  BY <1>1 DEF Place
<1>4. w \in Nat /\ w < d /\ d - w = IF source.kind = "file" THEN R ELSE source.asked
  BY <1>1 DEF Drawn!Warmed, Drawn!Wanted
<1>5. m = SubSeq(drawn, w + 1, d)
  BY DEF Drawn!Measured
<1> HIDE DEF m, R, d
<1>6. Len(m) = d - w /\ DOMAIN m = 1 .. Len(m) /\ Len(m) \in Nat \ {0} /\ \A k \in 1 .. Len(m) : m[k] = drawn[w + k]
  <2> HIDE DEF w
  <2>1. m = [k \in 1 .. d - w |-> drawn[w + k]]
    BY <1>1, <1>4, <1>5
  <2>3. Len(m) = d - w /\ DOMAIN m = 1 .. d - w
    <3> DEFINE e == d - w
               X == [row : Nat, lap : Nat]
    <3>1. e \in Nat /\ \A k \in 1 .. e : w + k \in 1 .. d
      BY <1>1, <1>4
    <3>2. drawn \in Seq(X) /\ DOMAIN drawn = 1 .. d
      BY <1>1
    <3> HIDE DEF X, e
    <3>3. \A k \in 1 .. e : drawn[w + k] \in X
      <4>1. \A j \in 1 .. d : drawn[j] \in X
        BY <3>2 DEF d
      <4> QED
        BY <3>1, <4>1, Zenon
    <3>4. m = [k \in 1 .. e |-> drawn[w + k]]
      BY <2>1 DEF e
    <3>5. m \in [1 .. e -> X]
      BY <3>3, <3>4
    <3>6. Len(m) = e /\ DOMAIN m = 1 .. e
      BY <3>1, <3>5
    <3> QED
      BY <3>6 DEF e
  <2> QED
    BY <1>1, <1>4, <2>1, <2>3
<1>7. source.kind # "sampled" => \A k \in 1 .. Len(m) : Place(w + k) = k - 1
  <2> SUFFICES ASSUME source.kind # "sampled", NEW k \in 1 .. Len(m) PROVE Place(w + k) = k - 1
    OBVIOUS
  <2>1. k \in Nat /\ k > 0
    BY <1>6
  <2>2. CASE source.kind = "file"
    <3>1. w = 0
      BY <2>2 DEF Drawn!Warmed
    <3> QED
      BY <2>1, <2>2, <3>1 DEF Place
  <2>3. CASE source.kind = "mooncake"
    <3>1. w = source.warm
      BY <2>3 DEF Drawn!Warmed
    <3> HIDE DEF w
    <3>2. w + k > w /\ (w + k) - w - 1 = k - 1
      BY <1>4, <2>1
    <3> QED
      BY <2>3, <3>1, <3>2 DEF Place
  <2> QED
    BY <1>1, <2>2, <2>3
<1>8. source.kind = "sampled" => \A k \in 1 .. d : Place(k) = k - 1 /\ Place(k) < R
  BY <1>1 DEF Place, Drawn!Wanted, Drawn!Refuses, R
<1>9. ASSUME NEW k \in 1 .. Len(m)
      PROVE  /\ w + k \in 1 .. d /\ m[k].row = 1 + (Place(w + k) % R) /\ m[k].lap = Place(w + k) \div R /\ Place(w + k) \in Nat
             /\ m[k].row \in 1 .. R /\ m[k].lap \in Nat /\ m[k].lap * R + m[k].row = Place(w + k) + 1
             /\ Place(w + k) < R => m[k].lap = 0
  <2> HIDE DEF w
  <2>1. w + k \in 1 .. d
    BY <1>1, <1>4, <1>6
  <2>2. m[k].row = 1 + (Place(w + k) % R) /\ m[k].lap = Place(w + k) \div R /\ Place(w + k) \in Nat
    BY <1>2, <1>3, <1>6, <2>1
  <2>3. /\ 1 + (Place(w + k) % R) \in 1 .. R /\ Place(w + k) \div R \in Nat
        /\ (Place(w + k) \div R) * R + (1 + (Place(w + k) % R)) = Place(w + k) + 1
        /\ Place(w + k) < R => Place(w + k) % R = Place(w + k) /\ Place(w + k) \div R = 0
    BY <1>1, <2>2, LapRow
  <2> QED
    BY <2>1, <2>2, <2>3, Zenon
<1>10. source.kind # "sampled" => \A k \in 1 .. Len(m) : m[k].lap * R + m[k].row = k
  <2> SUFFICES ASSUME source.kind # "sampled", NEW k \in 1 .. Len(m) PROVE m[k].lap * R + m[k].row = k
    OBVIOUS
  <2>1. Place(w + k) = k - 1 /\ m[k].lap * R + m[k].row = Place(w + k) + 1
    BY <1>7, <1>9
  <2>2. (k - 1) + 1 = k
    BY <1>6
  <2> QED
    BY <2>1, <2>2
<1>11. source.kind = "sampled" => \A j, k \in 1 .. d : drawn[j].row = drawn[k].row => j = k
  <2> SUFFICES ASSUME source.kind = "sampled" PROVE \A j, k \in 1 .. d : drawn[j].row = drawn[k].row => j = k
    OBVIOUS
  <2>1. \A k \in 1 .. d : drawn[k].row = k
    <3> TAKE k \in 1 .. d
    <3>1. Place(k) = k - 1 /\ Place(k) < R /\ Place(k) \in Nat
      BY <1>3, <1>8
    <3>2. Place(k) % R = Place(k)
      BY <1>1, <3>1, LapRow
    <3>3. drawn[k].row = 1 + (k - 1)
      BY <1>2, <3>1, <3>2
    <3> QED
      BY <1>1, <3>3
  <2> QED
    BY <2>1
<1>12. (Drawn!Lap = 0 /\ source.arrival = "trace") \/ source.kind # "mooncake" => \A k \in 1 .. Len(m) : m[k].lap = 0
  <2> SUFFICES ASSUME (Drawn!Lap = 0 /\ source.arrival = "trace") \/ source.kind # "mooncake", NEW k \in 1 .. Len(m)
               PROVE  m[k].lap = 0
    OBVIOUS
  <2>1. CASE source.kind = "sampled"
    BY <1>8, <1>9, <2>1
  <2>2. CASE source.kind = "file"
    <3>1. Place(w + k) = k - 1 /\ Len(m) = R
      BY <1>4, <1>6, <1>7, <2>2
    <3>2. Place(w + k) < R
      BY <1>1, <3>1
    <3> QED
      BY <1>9, <3>2
  <2>3. CASE source.kind = "mooncake"
    <3>1. Place(w + k) = k - 1 /\ Len(m) = source.asked
      BY <1>4, <1>6, <1>7, <2>3
    <3>2. ~(source.asked > R)
      BY <1>1, <2>3 DEF Drawn!Refuses, R
    <3>3. Place(w + k) < R
      BY <1>1, <3>1, <3>2
    <3> QED
      BY <1>9, <3>3
  <2> QED
    BY <1>1, <2>1, <2>2, <2>3
<1> QED
  BY <1>1, <1>6, <1>9, <1>10, <1>11, <1>12 DEF m, R, d

\* Times taken from the least of them keep their distances, and one of them is 0.
LEMMA Rebased ==
  ASSUME NEW n \in Nat \ {0}, NEW t \in [1 .. n -> Int]
  PROVE  LET o == Drawn!Rebase(t) IN
         /\ o \in [1 .. n -> Nat] /\ \E k \in 1 .. n : o[k] = 0
         /\ \A j, k \in 1 .. n : t[j] # Drawn!NoTime /\ t[k] # Drawn!NoTime => o[j] - o[k] = t[j] - t[k]
<1> DEFINE u == [k \in 1 .. n |-> IF t[k] = Drawn!NoTime THEN 0 ELSE t[k]]
           S == {u[k] : k \in 1 .. n}
           first == Drawn!Min(S)
           o == Drawn!Rebase(t)
<1>1. u \in [1 .. n -> Int] /\ 1 .. n \in SUBSET (1 .. n) /\ 1 .. n # {}
  OBVIOUS
<1>2. S = {IF t[k] = Drawn!NoTime THEN 0 ELSE t[k] : k \in 1 .. n} /\ DOMAIN t = 1 .. n
  OBVIOUS
<1>3. o = [k \in 1 .. n |-> IF t[k] = Drawn!NoTime THEN 0 ELSE t[k] - first]
  BY <1>2 DEF Drawn!Rebase
<1>4. first \in S /\ \A x \in S : first <= x
  <2> HIDE DEF u
  <2>1. S = Values(u, 1 .. n)
    BY Zenon DEF Values
  <2> HIDE DEF S
  <2>2. n \in Nat
    OBVIOUS
  <2>3. Drawn!Min(Values(u, 1 .. n)) \in Values(u, 1 .. n) /\ \A x \in Values(u, 1 .. n) : Drawn!Min(Values(u, 1 .. n)) <= x
    BY <1>1, <2>2, Extremes, Zenon
  <2> QED
    BY <2>1, <2>3, Zenon
<1>5. \A k \in 1 .. n : u[k] \in S /\ u[k] \in Int /\ t[k] \in Int /\ u[k] = IF t[k] = Drawn!NoTime THEN 0 ELSE t[k]
  OBVIOUS
<1>6. PICK k0 \in 1 .. n : first = u[k0]
  BY <1>4
<1> HIDE DEF first, S, u, o
<1>7. \A k \in 1 .. n : o[k] \in Nat
  <2> TAKE k \in 1 .. n
  <2>1. first <= u[k] /\ first \in Int
    BY <1>4, <1>5, <1>6
  <2> QED
    BY <1>3, <1>5, <2>1
<1>8. o[k0] = 0
  BY <1>3, <1>5, <1>6
<1>9. o \in [1 .. n -> Nat]
  BY <1>3, <1>7
<1>10. \A j, k \in 1 .. n : t[j] # Drawn!NoTime /\ t[k] # Drawn!NoTime => o[j] - o[k] = t[j] - t[k]
  BY <1>3, <1>5, <1>6
<1> QED
  BY <1>8, <1>9, <1>10 DEF o

\* A later lap's times are later.
LEMMA LapsApart ==
  ASSUME SourceInv, NEW i \in Drawn!Stamped, NEW j \in Drawn!Stamped, NEW a \in Nat, NEW b \in Nat, a < b, Drawn!Lap # 0
  PROVE  Drawn!Parts * source.stamps[i] + a * Drawn!Lap < Drawn!Parts * source.stamps[j] + b * Drawn!Lap
<1>1. PICK P \in Nat \ {0}, s \in Nat, l \in Nat, x \in Int, y \in Int :
        P = Drawn!Parts /\ s = Drawn!Span /\ l = Drawn!Lap /\ x = source.stamps[i] /\ y = source.stamps[j]
  <2>1. i \in 1 .. Drawn!Rows /\ j \in 1 .. Drawn!Rows
    BY DEF SourceInv, Drawn!Stamped, Drawn!Rows
  <2> QED
    BY <2>1, LapIs, Zenon
<1>2. x - y <= s /\ P * s < l
  BY <1>1, LapIs
<1>3. P * x <= P * y + P * s
  <2>1. PICK e \in Nat : y + s = x + e
    <3>1. y + s - x \in Nat /\ y + s = x + (y + s - x)
      BY <1>2
    <3> QED
      BY <3>1
  <2>2. P * (y + s) = P * y + P * s /\ P * (x + e) = P * x + P * e /\ P * e \in Nat /\ P * y \in Int /\ P * s \in Int /\ P * x \in Int
    OBVIOUS
  <2> QED
    BY <2>1, <2>2
<1>4. a * l + l <= b * l
  <2>1. PICK e \in Nat : b = a + 1 + e
    <3>1. b - a - 1 \in Nat /\ b = a + 1 + (b - a - 1)
      OBVIOUS
    <3> QED
      BY <3>1
  <2>2. (a + 1 + e) * l = a * l + l + e * l /\ e * l \in Nat /\ a * l \in Nat
    OBVIOUS
  <2> QED
    BY <2>1, <2>2
<1>5. P * x \in Int /\ P * y \in Int /\ P * s \in Int /\ a * l \in Int /\ b * l \in Int
  OBVIOUS
<1>6. P * x + a * l < P * y + b * l
  BY <1>2, <1>3, <1>4, <1>5
<1> QED
  BY <1>1, <1>6

\* As many places share a quotient as the divisor says.
LEMMA Shared ==
  ASSUME NEW n \in Nat, NEW z \in Nat \ {0}, NEW q \in Nat
  PROVE  Cardinality({j \in 1 .. n : (j - 1) \div z = q}) <= z
<1> DEFINE S == {j \in 1 .. n : (j - 1) \div z = q}
           begin == z * q + 1
           end == z * q + z
<1>1. z * q \in Nat
  OBVIOUS
<1>2. ASSUME NEW j \in S PROVE j \in begin .. end
  <2>1. j - 1 \in Nat /\ (j - 1) \div z = q
    OBVIOUS
  <2>2. (j - 1) % z \in 0 .. z - 1 /\ j - 1 = z * ((j - 1) \div z) + ((j - 1) % z)
    BY <2>1, Quotient
  <2>3. PICK r \in 0 .. z - 1 : j - 1 = z * q + r
    BY <2>1, <2>2
  <2> QED
    BY <1>1, <2>3
<1>3. begin \in Int /\ end \in Int /\ end - begin + 1 = z /\ begin <= end
  BY <1>1
<1> HIDE DEF begin, end
<1>4. IsFiniteSet(begin .. end) /\ Cardinality(begin .. end) = z
  <2>1. ~(begin > end)
    BY <1>3
  <2>2. IsFiniteSet(begin .. end) /\ Cardinality(begin .. end) = end - begin + 1
    BY <1>3, <2>1, FS_Interval, Zenon
  <2> QED
    BY <1>3, <2>2
<1> HIDE DEF S
<1>5. S \subseteq begin .. end
  BY <1>2
<1>6. Cardinality(S) <= z
  BY <1>4, <1>5, FS_Subset
<1> QED
  BY <1>6 DEF S

\* The plan drawn is as asked.
LEMMA DrawnRight == DrawnInv => Drawn!DrawnAsAsked
<1> SUFFICES ASSUME DrawnInv, ready = "yes" PROVE Drawn!DrawnAsAsked
  BY DEF Drawn!DrawnAsAsked
<1> DEFINE m == Drawn!Measured
           n == Len(m)
           R == Drawn!Rows
           lap == Drawn!Lap
           parts == Drawn!Parts
           stamps == source.stamps
           time(d) == IF stamps[d.row] = Drawn!NoTime THEN Drawn!NoTime ELSE parts * stamps[d.row] + d.lap * lap
           t == [k \in 1 .. n |-> time(m[k])]
<1>1. /\ n \in Nat \ {0} /\ DOMAIN m = 1 .. n
      /\ \A k \in 1 .. n : m[k].row \in 1 .. R /\ m[k].lap \in Nat
      /\ source.kind # "sampled" => \A k \in 1 .. n : m[k].lap * R + m[k].row = k
      /\ source.kind = "sampled" => \A j, k \in DOMAIN drawn : drawn[j].row = drawn[k].row => j = k
      /\ (lap = 0 /\ source.arrival = "trace") \/ source.kind # "mooncake" => \A k \in 1 .. n : m[k].lap = 0
  BY MeasuredIs
<1>2. SourceInv /\ offsets = SentAt(source.arrival, source.size, parts, lap, stamps, m)
  BY DEF DrawnInv
<1>3. parts \in Nat \ {0} /\ lap \in Nat /\ \A i \in 1 .. R : stamps[i] \in Int
  BY <1>2, LapIs
<1>4. source.arrival \in {"trace", "steady", "burst"} /\ source.size \in Nat \ {0} /\ R = Len(stamps) /\ DOMAIN stamps = 1 .. R
  BY <1>2 DEF SourceInv, Drawn!Rows
<1>5. \A d : Drawn!Time(d) = time(d)
  BY DEF Drawn!Time
<1>6. \A i \in 1 .. R : stamps[i] # Drawn!NoTime => i \in Drawn!Stamped
  BY <1>4 DEF Drawn!Stamped
<1>7. \A i, j \in Drawn!Stamped : \A a, b \in Nat : a < b /\ lap # 0 => parts * stamps[i] + a * lap < parts * stamps[j] + b * lap
  BY <1>2, LapsApart
<1> HIDE DEF m, n, R, lap, parts, stamps
<1>8. \A k \in 1 .. n : time(m[k]) \in Int
  <2> TAKE k \in 1 .. n
  <2> DEFINE x == stamps[m[k].row]
             a == m[k].lap
  <2>1. x \in Int /\ a \in Nat
    BY <1>1, <1>3
  <2> HIDE DEF x, a
  <2>2. parts * x + a * lap \in Int
    BY <1>3, <2>1
  <2>3. time(m[k]) = IF x = Drawn!NoTime THEN Drawn!NoTime ELSE parts * x + a * lap
    BY DEF x, a
  <2> HIDE DEF time
  <2>4. Drawn!NoTime \in Int
    BY DEF Drawn!NoTime
  <2> QED
    BY <2>2, <2>3, <2>4
<1>9. t \in [1 .. n -> Int] /\ \A k \in 1 .. n : t[k] = time(m[k])
  <2> HIDE DEF time
  <2> QED
    BY <1>8
<1>10. /\ offsets \in [1 .. n -> Nat] /\ \E k \in 1 .. n : offsets[k] = 0
       /\ source.arrival = "trace" =>
            \A j, k \in 1 .. n : t[j] # Drawn!NoTime /\ t[k] # Drawn!NoTime => offsets[j] - offsets[k] = t[j] - t[k]
       /\ source.arrival = "burst" => \A k \in 1 .. n : offsets[k] = parts * ((k - 1) \div source.size)
  <2>1. CASE source.arrival = "trace"
    <3>1. offsets = Drawn!Rebase(t)
      BY <1>2, <2>1 DEF SentAt, n
    <3> HIDE DEF t
    <3>2. /\ Drawn!Rebase(t) \in [1 .. n -> Nat] /\ \E k \in 1 .. n : Drawn!Rebase(t)[k] = 0
          /\ \A j, k \in 1 .. n : t[j] # Drawn!NoTime /\ t[k] # Drawn!NoTime =>
               Drawn!Rebase(t)[j] - Drawn!Rebase(t)[k] = t[j] - t[k]
      BY <1>1, <1>9, Rebased
    <3> QED
      BY <2>1, <3>1, <3>2
  <2>2. CASE source.arrival = "steady"
    <3>1. offsets = [k \in 1 .. n |-> 0]
      BY <1>2, <2>2 DEF SentAt, n
    <3> QED
      BY <1>1, <2>2, <3>1
  <2>3. CASE source.arrival = "burst"
    <3> DEFINE z == source.size
    <3>1. offsets = [k \in 1 .. n |-> parts * ((k - 1) \div z)]
      BY <1>2, <2>3 DEF SentAt, n
    <3>0. z \in Nat \ {0}
      BY <1>4
    <3> HIDE DEF z
    <3>2. \A k \in 1 .. n : parts * ((k - 1) \div z) \in Nat
      <4> TAKE k \in 1 .. n
      <4>1. k - 1 \in Nat
        BY <1>1
      <4>2. (k - 1) \div z \in Nat
        BY <3>0, <4>1, Quotient
      <4>3. \A x \in Nat : parts * x \in Nat
        BY <1>3
      <4> QED
        BY <4>2, <4>3
    <3>3. (1 - 1) \div z = 0 /\ parts * 0 = 0
      BY <1>3, <3>0
    <3>4. offsets \in [1 .. n -> Nat]
      BY <3>1, <3>2
    <3>5. offsets[1] = 0 /\ 1 \in 1 .. n
      BY <1>1, <3>1, <3>3
    <3> QED
      BY <2>3, <3>1, <3>4, <3>5 DEF z
  <2> QED
    BY <1>4, <2>1, <2>2, <2>3
<1>11. Drawn!Min({offsets[k] : k \in 1 .. n}) = 0
  <2> DEFINE S == {offsets[k] : k \in 1 .. n}
  <2>1. 0 \in S /\ \A x \in S : x \in Nat
    BY <1>10
  <2>2. \E x \in S : \A y \in S : x <= y
    BY <2>1
  <2> HIDE DEF S
  <2>3. Drawn!Min(S) \in S /\ \A y \in S : Drawn!Min(S) <= y
    BY <2>2 DEF Drawn!Min
  <2>4. Drawn!Min(S) = 0
    BY <2>1, <2>3
  <2> QED
    BY <2>4 DEF S
<1>12. ASSUME NEW j \in 1 .. n, NEW k \in 1 .. n, source.arrival = "trace", time(m[j]) # Drawn!NoTime, time(m[k]) # Drawn!NoTime
       PROVE  /\ offsets[j] - offsets[k] = time(m[j]) - time(m[k])
              /\ m[j].lap < m[k].lap => offsets[j] < offsets[k]
  <2>1. offsets[j] - offsets[k] = time(m[j]) - time(m[k])
    <3> HIDE DEF time, t
    <3> QED
      BY <1>9, <1>10, <1>12
  <2>2. ASSUME m[j].lap < m[k].lap PROVE offsets[j] < offsets[k]
    <3>1. stamps[m[j].row] # Drawn!NoTime /\ stamps[m[k].row] # Drawn!NoTime
      BY <1>12
    <3>2. time(m[j]) = parts * stamps[m[j].row] + m[j].lap * lap /\ time(m[k]) = parts * stamps[m[k].row] + m[k].lap * lap
      BY <3>1
    <3>3. m[j].row \in Drawn!Stamped /\ m[k].row \in Drawn!Stamped /\ m[j].lap \in Nat /\ m[k].lap \in Nat
      BY <1>1, <1>6, <3>1
    <3>4. lap # 0
      <4> SUFFICES ASSUME lap = 0 PROVE FALSE
        OBVIOUS
      <4>1. m[j].lap = 0 /\ m[k].lap = 0
        BY <1>1, <1>12
      <4> QED
        BY <2>2, <4>1
    <3>5. parts * stamps[m[j].row] + m[j].lap * lap < parts * stamps[m[k].row] + m[k].lap * lap
      BY <1>7, <2>2, <3>3, <3>4
    <3>6. time(m[j]) < time(m[k])
      BY <3>2, <3>5
    <3>7. time(m[j]) \in Int /\ time(m[k]) \in Int /\ offsets[j] \in Nat /\ offsets[k] \in Nat
      BY <1>8, <1>10
    <3> HIDE DEF time
    <3> QED
      BY <2>1, <3>6, <3>7
  <2> QED
    BY <2>1, <2>2
<1>13. ASSUME source.arrival = "burst", NEW k \in 1 .. n
       PROVE  Drawn!Cardinality({j \in 1 .. n : offsets[j] = offsets[k]}) <= source.size
  <2> DEFINE z == source.size
             q(j) == (j - 1) \div z
  <2>1. \A j \in 1 .. n : offsets[j] = parts * q(j)
    BY <1>10, <1>13
  <2>2. z \in Nat \ {0}
    BY <1>4
  <2>3. \A j \in 1 .. n : q(j) \in Nat
    <3> TAKE j \in 1 .. n
    <3>1. j - 1 \in Nat
      BY <1>1
    <3> QED
      BY <2>2, <3>1, Quotient
  <2> HIDE DEF z
  <2>4. {j \in 1 .. n : offsets[j] = offsets[k]} = {j \in 1 .. n : q(j) = q(k)}
    <3>1. \A a, b \in Nat : parts * a = parts * b => a = b
      BY <1>3
    <3> HIDE DEF q
    <3> QED
      BY <2>1, <2>3, <3>1
  <2>5. Cardinality({j \in 1 .. n : (j - 1) \div z = q(k)}) <= z
    <3> DEFINE v == q(k)
    <3>1. v \in Nat /\ n \in Nat
      BY <1>1, <2>3
    <3> HIDE DEF v
    <3>2. Cardinality({j \in 1 .. n : (j - 1) \div z = v}) <= z
      BY <2>2, <3>1, Shared
    <3> QED
      BY <3>2 DEF v
  <2> QED
    BY <2>4, <2>5, DrawnCounts DEF z
<1>14. source.arrival = "burst" => \A k \in DOMAIN m : Drawn!Cardinality({j \in DOMAIN m : offsets[j] = offsets[k]}) <= source.size
  BY <1>1, <1>13
<1>15. \A j, k \in DOMAIN m :
         source.arrival = "trace" /\ Drawn!NoTime \notin {Drawn!Time(m[j]), Drawn!Time(m[k])} =>
           /\ offsets[j] - offsets[k] = Drawn!Time(m[j]) - Drawn!Time(m[k])
           /\ m[j].lap < m[k].lap => offsets[j] < offsets[k]
  <2> HIDE DEF time
  <2> QED
    BY <1>1, <1>5, <1>12
<1>16. /\ source.kind = "sampled" => \A j, k \in DOMAIN drawn : drawn[j].row = drawn[k].row => j = k
       /\ source.kind # "sampled" => \A k \in DOMAIN m : m[k].lap * R + m[k].row = k
       /\ Drawn!Min({offsets[k] : k \in DOMAIN m}) = 0
  BY <1>1, <1>11
<1> QED
  BY <1>14, <1>15, <1>16 DEF Drawn!DrawnAsAsked, m, R

-------------------------------------------------------------------------------
(* The plan of a replay (SessionPlan), from the proofs about it. *)

Proved == INSTANCE SessionPlanProofs WITH pass <- sent, said <- heard

\* Here and there the operators of a plan are the same.
LEMMA SampleSame ==
  Plan!Shuffled = Proved!Shuffled /\ Plan!Strata = Proved!Strata /\ Plan!Stratified = Proved!Stratified
<1>1. Plan!Shuffled = Proved!ShuffledOf(trace)
  BY DEF Plan!Shuffled, Proved!ShuffledOf, Plan!Eligible, Plan!Session, Plan!Fitting, Proved!Fitting, Plan!Min, Proved!Min,
         Plan!Ascending, Proved!Ascending, Plan!Cardinality, Proved!Cardinality
<1>2. Plan!Strata = Proved!StrataOf(trace, Plan!Shuffled)
  <2> DEFINE list == Plan!Shuffled
             of == [k \in DOMAIN list |-> Plan!Stratum(list[k])]
  <2>1. \A s : Plan!Fitting(s) = Proved!Fitting(s)
    BY DEF Plan!Fitting, Proved!Fitting, Plan!Min, Proved!Min
  <2>2. \A v, x : Plan!Quartile(v, x) = Proved!Quartile(v, x)
    BY DEF Plan!Quartile, Proved!Quartile, Plan!Min, Proved!Min, Plan!Cardinality, Proved!Cardinality
  <2>3. \A i : Plan!Stratum(i) = Proved!StratumOf(trace, list, i)
    <3> TAKE i
    <3>1. [k \in DOMAIN list |-> Plan!Fitting(trace.pool[list[k]])] = [k \in DOMAIN list |-> Proved!Fitting(trace.pool[list[k]])]
      BY <2>1
    <3>2. Plan!Stratum(i) = <<Plan!Quartile([k \in DOMAIN list |-> Plan!Fitting(trace.pool[list[k]])], Plan!Fitting(trace.pool[i])),
                              Plan!Quartile([k \in DOMAIN list |-> trace.pool[list[k]].size], trace.pool[i].size)>>
      BY DEF Plan!Stratum, Plan!Session
    <3> QED
      BY <2>1, <2>2, <3>1, <3>2, Zenon DEF Proved!StratumOf
  <2>4. of = [k \in DOMAIN list |-> Proved!StratumOf(trace, list, list[k])]
    BY <2>3
  <2>5. Plan!Strata = Proved!Grouped(of, list)
    BY DEF Plan!Strata, Proved!Grouped, Plan!Ascending, Proved!Ascending, Plan!Cardinality, Proved!Cardinality
  <2> QED
    BY <2>4, <2>5, Zenon DEF Proved!StrataOf
<1>3. Plan!Stratified = Proved!StratifiedOf(trace, Len(Plan!Shuffled), Plan!Strata)
  BY DEF Plan!Stratified, Proved!StratifiedOf, Plan!RoundRobin, Plan!RowOf, Plan!ColumnOf, Plan!Count, Plan!Rest,
         Plan!Ascending, Proved!Ascending, Plan!Cardinality, Proved!Cardinality, Plan!FoldLeft, Proved!FoldLeft,
         Plan!MapThenFoldSet, Proved!MapThenFoldSet, Plan!Max, Proved!Max
<1>4. /\ Proved!Shuffled = Proved!ShuffledOf(trace) /\ Proved!Strata = Proved!StrataOf(trace, Proved!Shuffled)
      /\ Proved!Stratified = Proved!StratifiedOf(trace, Len(Proved!Shuffled), Proved!Strata)
  BY Proved!SampleOperators
<1> QED
  BY <1>1, <1>2, <1>3, <1>4, Zenon

\* A step of the plan there is a step of it here.
LEMMA PlanSteps ==
  /\ Plan!PoolsAssumption => Proved!PoolsAssumption
  /\ Plan!Init => Proved!Init
  /\ Plan!Next => Proved!Next
  /\ UNCHANGED planVars => UNCHANGED Proved!vars
<1>1. Plan!PoolsAssumption => Proved!PoolsAssumption
  BY DEF Plan!PoolsAssumption, Proved!PoolsAssumption
<1>2. Plan!Init => Proved!Init
  BY DEF Plan!Init, Proved!Init
<1>3. UNCHANGED planVars => UNCHANGED Proved!vars
  BY DEF planVars, Proved!vars
<1>4. \A s : Plan!Fitting(s) = Proved!Fitting(s)
  BY DEF Plan!Fitting, Proved!Fitting, Plan!Min, Proved!Min
<1>5. Plan!Running = Proved!Running
  BY DEF Plan!Running, Proved!Running
<1>6. \A u : Plan!TurnsOf(u) = Proved!TurnsOf(u)
  BY <1>4 DEF Plan!TurnsOf, Proved!TurnsOf, Plan!Session, Proved!Session
<1>7. \A u, t, texts : Plan!Prompt(u, t, texts) = Proved!Prompt(u, t, texts)
  BY DEF Plan!Prompt, Proved!Prompt, Plan!Tag, Proved!Tag
<1>8. \A p : Plan!SentDigest(p) = Proved!SentDigest(p)
  BY DEF Plan!SentDigest, Proved!SentDigest
<1>9. \A d, k, v : Plan!Put(d, k, v) = Proved!Put(d, k, v)
  BY DEF Plan!Put, Proved!Put
<1>10. Plan!Load => Proved!Load
  BY SampleSame DEF Plan!Load, Proved!Load
<1>11. Plan!Begin => Proved!Begin
  BY <1>5 DEF Plan!Begin, Proved!Begin, Plan!ToSet, Proved!ToSet
<1>12. Plan!Draw => Proved!Draw
  BY <1>5, <1>9 DEF Plan!Draw, Proved!Draw, Plan!Cardinality, Proved!Cardinality
<1>13. ASSUME NEW u, Plan!Send(u) PROVE Proved!Send(u)
  BY <1>6, <1>7, <1>8, <1>9, <1>13 DEF Plan!Send, Proved!Send
<1>14. ASSUME NEW u, NEW how, Plan!Answer(u, how) PROVE Proved!Answer(u, how)
  BY <1>14 DEF Plan!Answer, Proved!Answer, Plan!FedBack, Proved!FedBack
<1>15. Plan!Identity = Proved!Identity
  <2>1. Plan!PlannedKeys = Proved!PlannedKeys
    BY <1>6 DEF Plan!PlannedKeys, Proved!PlannedKeys
  <2>2. Plan!NotSent = Proved!NotSent
    BY <2>1 DEF Plan!NotSent, Proved!NotSent
  <2>3. \A u, t : Plan!Planned(u, t) = Proved!Planned(u, t)
    BY <1>7, <1>8 DEF Plan!Planned, Proved!Planned
  <2> QED
    BY <2>1, <2>2, <2>3 DEF Plan!Identity, Proved!Identity
<1>16. Plan!End => Proved!End
  BY <1>5, <1>6, <1>15 DEF Plan!End, Proved!End
<1>17. Plan!Over => Proved!Over
  BY <1>5 DEF Plan!Over, Proved!Over, Plan!vars, Proved!vars
<1>18. Plan!Next => Proved!Next
  BY <1>10, <1>11, <1>12, <1>13, <1>14, <1>16, <1>17 DEF Plan!Next, Proved!Next
<1> QED
  BY <1>1, <1>2, <1>3, <1>18

\* What the proofs about SessionPlan keep invariant implies its promises as they are stated here.
LEMMA PlanPromises ==
  /\ Proved!KeptInv => Plan!PlanIsKept
  /\ Proved!FairInv => Plan!SampleIsFair
<1>1. Proved!PlanIsKept => Plan!PlanIsKept
  BY DEF Plan!PlanIsKept, Proved!PlanIsKept
<1>2. Plan!SampleIsFair <=> (loaded = "yes" /\ sent = 0 /\ trace.stratified =>
                              Proved!FairOf(Plan!Strata, Len(Plan!Shuffled), trace.take, sample))
  BY DEF Plan!SampleIsFair, Proved!FairOf, Plan!IsInjective, Proved!IsInjective, Plan!ToSet, Proved!ToSet,
         Plan!Cardinality, Proved!Cardinality
<1>3. Proved!FairInv => (loaded = "yes" /\ trace.stratified =>
                           Proved!FairOf(Plan!Strata, Len(Plan!Shuffled), trace.take, sample))
  BY SampleSame DEF Proved!FairInv
<1> QED
  BY <1>1, <1>2, <1>3, Proved!KeptIsPlan

-------------------------------------------------------------------------------
(* What is planned, and what is sent of it. *)

\* A run sends what it planned (modes/serve.py, identity; workloads/plan.py): a stratified sample is fair, the check finds
\* nothing where the plan was sent, and a single-turn plan has the rows asked for, each at the time its arrivals say.
\* The plan of a replay is invariant by the proofs about SessionPlan; that of a single-turn run by DrawnInv.
THEOREM PlansKept == Spec => []PlanIsKept
<1> DEFINE I == /\ kind = "plan" => Proved!KeptInv /\ Proved!FairInv
                /\ kind = "drawn" => DrawnInv
<1>1. Init => I
  <2>1. Plan!PoolsAssumption /\ Drawn!BoundsAssumption
    BY PartsAssumption
  <2> QED
    BY <2>1, PlanSteps, DrawnStart, Proved!KeptStart, Proved!FairStart DEF Init
<1>2. I /\ [Next]_vars => I'
  <2> SUFFICES ASSUME I, [Next]_vars PROVE I'
    OBVIOUS
  <2>1. kind' = kind
    BY DEF Next, Runs, Grids, Windows, Replays, Streams, SentPlans, Draws, Concluded, vars, Abort, Conclude, Probe,
       ProbeMismatch, ProbeRaises
  <2>2. CASE kind = "plan"
    <3>1. Plan!Next \/ UNCHANGED planVars
      BY <2>2 DEF Next, Runs, Grids, Windows, Replays, Streams, SentPlans, Draws, Concluded, vars, Abort, Conclude, Probe,
         ProbeMismatch, ProbeRaises
    <3>2. [Proved!Next]_(Proved!vars)
      BY <3>1, PlanSteps
    <3> QED
      BY <2>1, <2>2, <3>2, Proved!KeptNext, Proved!FairNext
  <2>3. CASE kind = "drawn"
    <3>1. Drawn!Next \/ UNCHANGED Drawn!vars
      BY <2>3 DEF Next, Runs, Grids, Windows, Replays, Streams, SentPlans, Draws, Concluded, vars, drawnVars, Drawn!vars,
         Abort, Conclude, Probe, ProbeMismatch, ProbeRaises
    <3> QED
      BY <2>1, <2>3, <3>1, DrawnNext
  <2> QED
    BY <2>1, <2>2, <2>3
<1>3. I => PlanIsKept
  BY PlanPromises, DrawnRight DEF PlanIsKept
<1> QED
  BY <1>1, <1>2, <1>3, PTL DEF Spec
================================================================================
