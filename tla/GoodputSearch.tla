----------------------------- MODULE GoodputSearch -----------------------------
(***************************************************************************)
(* The goodput sweep (quettabench/modes/serve.py, sweep driving the        *)
(* generator goodput_search): probes at one speed after another, doubling  *)
(* or halving until one passed and one failed, then bisecting.  Speeds are *)
(* whole multiples of a unit small enough for the halvings of MaxIters.    *)
(***************************************************************************)
EXTENDS Integers, Sequences, FiniteSets

CONSTANTS Start,     \* workload.speed, in units
          MaxIters,  \* probes at most
          Tol        \* tolerance in percent of the failing end

\* Start after i halvings.
Unit(i) == IF i = 0 THEN Start ELSE Start \div 2^i

\* Every halving is exact, as the program's floats are halved.
SearchAssumption ==
  /\ Start \in Nat \ {0} /\ MaxIters \in Nat \ {0} /\ Tol \in 0 .. 100
  /\ \A i \in 1 .. MaxIters : Unit(i) \in Nat /\ Unit(i - 1) = 2 * Unit(i)

VARIABLES speed,   \* of the next probe
          lo, hi,  \* the last speed that passed, and the last that failed; 0 before one did
          probes,  \* the probes so far: speed, verdict, rate
          stage    \* "probing", or how the sweep ended

vars == <<speed, lo, hi, probes, stage>>

Init == speed = Start /\ lo = 0 /\ hi = 0 /\ probes = <<>> /\ stage = "probing"

\* Mutant: the verdict of the probe before.
NextSpeedOfLast(l, h, passed) ==
  IF l # 0 /\ h # 0 THEN (IF passed THEN h ELSE l) ELSE IF passed THEN speed * 2 ELSE speed \div 2

NextSpeed(l, h, passed) ==
  IF l # 0 /\ h # 0 THEN (l + h) \div 2 ELSE IF passed THEN speed * 2 ELSE speed \div 2

\* One probe's verdict moves an end; the search stops within the tolerance or after MaxIters probes.
Probe(passed, rate) ==
  /\ stage = "probing"
  /\ probes' = Append(probes, [speed |-> speed, passed |-> passed, rate |-> rate])
  /\ lo' = IF passed THEN speed ELSE lo
  /\ hi' = IF passed THEN hi ELSE speed
  /\ LET met == lo' # 0 /\ hi' # 0 /\ 100 * (hi' - lo') <= Tol * hi' IN
     /\ stage' = IF met \/ Len(probes') = MaxIters THEN "found" ELSE "probing"
     /\ speed' = IF met THEN speed ELSE NextSpeed(lo', hi', passed)

\* The sweep is left at once: by a probe whose identity check fails, one that raises or one without a kept success.
Leave(how) ==
  /\ stage = "probing"
  /\ stage' = how
  /\ UNCHANGED <<speed, lo, hi, probes>>

Passing == {k \in DOMAIN probes : probes[k].passed}

\* Whether a probe of this rate becomes the best one: the first of the highest rate among those that passed.
Beats(passed, rate) == passed /\ \A k \in Passing : probes[k].rate < rate

\* The speeds that passed, and those that failed.
PassedAt == {probes[k].speed : k \in Passing}
FailedAt == {probes[k].speed : k \in DOMAIN probes \ Passing}

\* Whatever order the verdicts come in: every speed that passed is below every speed that failed, lo and hi are the
\* closest two, no speed is probed twice, and a sweep that stopped early has them within the tolerance.
BracketIsRight ==
  /\ \A p \in PassedAt, f \in FailedAt : p < f
  /\ PassedAt # {} => lo \in PassedAt /\ \A p \in PassedAt : p <= lo
  /\ FailedAt # {} => hi \in FailedAt /\ \A f \in FailedAt : hi <= f
  /\ Cardinality(PassedAt) + Cardinality(FailedAt) = Len(probes)
  /\ stage = "probing" => speed > lo /\ (hi # 0 => speed < hi)
  /\ stage = "found" /\ Len(probes) < MaxIters => 100 * (hi - lo) <= Tol * hi
================================================================================
