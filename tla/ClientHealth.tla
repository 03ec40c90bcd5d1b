------------------------------ MODULE ClientHealth ------------------------------
(***************************************************************************)
(* ClientHealth (quettabench/modes/serve.py): a task that sleeps Interval  *)
(* ticks and measures how late it wakes, and gc callbacks, from which      *)
(* stall_s says how much of a request's time the client was stalled.       *)
(*                                                                         *)
(* An action is a callback of the event loop, which blocks it for as many  *)
(* ticks as it runs; gc may pause it anywhere inside.                      *)
(***************************************************************************)
EXTENDS Integers, Sequences, FiniteSets, SequencesExt

CONSTANTS Interval,  \* LOOP_LAG_INTERVAL_S
          Limit,     \* LOOP_LAG_LIMIT_MS
          MaxTime    \* bound of the model's clock

TimesAssumption == Interval \in Nat \ {0} /\ Limit \in Nat /\ MaxTime \in Nat

VARIABLES time,        \* perf_counter
          asleepSince, \* when the sampler went to sleep
          stalls,      \* the stalls recorded, by their end
          spells       \* the callbacks that took time, as <<start, end>>

vars == <<time, asleepSince, stalls, spells>>

TypeOK ==
  /\ time \in 0 .. MaxTime /\ asleepSince \in 0 .. time
  /\ stalls \in Seq((0 .. time) \X (0 .. time))
  /\ spells \subseteq (0 .. time) \X (0 .. time)

\* start(): the sampler's first sleep.
Init == time = 0 /\ asleepSince = 0 /\ stalls = <<>> /\ spells = {}

WakesAt == asleepSince + Interval

\* The recorded stalls once the spans are: one above the limit is kept.
Recorded(from, to) == IF to - from > Limit THEN Append(stalls, <<from, to>>) ELSE stalls

\* The loop has nothing to run; it sleeps no further than the sampler's timer.
Idle ==
  /\ time < WakesAt
  /\ time' = time + 1
  /\ time' <= MaxTime
  /\ UNCHANGED <<asleepSince, stalls, spells>>

\* A callback runs, and a gc pass inside it leaves its pause.
Run ==
  \E end \in time + 1 .. MaxTime : \E from \in time .. end, to \in time .. end :
    /\ from <= to
    /\ time' = end
    /\ spells' = spells \cup {<<time, end>>}
    /\ stalls' = Recorded(from, to)
    /\ UNCHANGED asleepSince

\* The sampler wakes, late by what ran before it, and goes back to sleep.
Sample ==
  /\ time >= WakesAt
  /\ stalls' = Recorded(WakesAt, time)
  /\ asleepSince' = time
  /\ UNCHANGED <<time, spells>>

Over == time = MaxTime /\ UNCHANGED vars

Next == Idle \/ Run \/ Sample \/ Over

Spec == Init /\ [][Next]_vars

-------------------------------------------------------------------------------
(* stall_s *)

\* Mutant: the spell the sampler has not woken from is not there yet.
SpansRecorded(a) ==
  LET recent == {k \in DOMAIN stalls : \A l \in k .. Len(stalls) : stalls[l][2] > a}
  IN  {stalls[k] : k \in recent}

\* The open spell, and the recorded ones back to the first that ended by a.
Spans(a) ==
  LET recent == {k \in DOMAIN stalls : \A l \in k .. Len(stalls) : stalls[l][2] > a}
  IN  {stalls[k] : k \in recent} \cup (IF time - WakesAt > Limit THEN {<<WakesAt, time>>} ELSE {})

\* The seconds of a .. b stalled: the spans cut to it, joined where they overlap.
StallS(a, b) ==
  LET Cut(v) == <<IF v[1] > a THEN v[1] ELSE a, IF v[2] < b THEN v[2] ELSE b>>
      cut == {c \in {Cut(v) : v \in Spans(a)} : c[1] < c[2]}
      line == SetToSortSeq(cut, LAMBDA c, d : c[1] < d[1] \/ (c[1] = d[1] /\ c[2] < d[2]))
      Step(acc, c) == LET from == IF c[1] > acc.reach THEN c[1] ELSE acc.reach IN
                      [total |-> acc.total + (IF c[2] > from THEN c[2] - from ELSE 0),
                       reach |-> IF c[2] > acc.reach THEN c[2] ELSE acc.reach]
  IN  FoldLeft(Step, [total |-> 0, reach |-> a], line).total

\* What a request is told to have lost to the client, whenever it asks and whether or not the sampler has woken: never
\* more than the loop was blocked in its time, and short of any one callback's block by at most Interval + Limit.
Blocked(a, b) == UNION {(v[1] .. v[2] - 1) \cap (a .. b - 1) : v \in spells}
StallsBounded ==
  \A a \in 0 .. time, b \in 0 .. time :
    LET s == StallS(a, b) IN
    /\ s <= Cardinality(Blocked(a, b))
    /\ \A v \in spells : Cardinality((v[1] .. v[2] - 1) \cap (a .. b - 1)) <= s + Interval + Limit

Inv == TypeOK
================================================================================
