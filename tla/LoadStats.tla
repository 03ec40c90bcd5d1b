------------------------------- MODULE LoadStats -------------------------------
(***************************************************************************)
(* The load figures of a summary (quettabench/metrics/summary.py): busy    *)
(* time, requests in flight, and requests in flight by bin, computed from  *)
(* the intervals between each request's send and completion.  Times are    *)
(* whole ticks; an interval is <<request, sent, completed>>.               *)
(***************************************************************************)
EXTENDS Integers, Sequences, FiniteSets, SequencesExt

LOCAL Lower(a, b) == IF a < b THEN a ELSE b
LOCAL Higher(a, b) == IF a > b THEN a ELSE b

Begin(v) == v[2]
End(v) == v[3]
Total(S, f(_)) == FoldSet(LAMBDA v, sum : f(v) + sum, 0, S)
FirstSend(S) == CHOOSE t \in {Begin(v) : v \in S} : \A v \in S : t <= Begin(v)
LastEnd(S) == CHOOSE t \in {End(v) : v \in S} : \A v \in S : t >= End(v)

\* Mutant: an interval that ends before the stretch does cuts it short.
BusyTimeLastEnd(S) ==
  LET line == SetToSortSeq(S, LAMBDA v, w : Begin(v) < Begin(w) \/ (Begin(v) = Begin(w) /\ End(v) < End(w)))
      Step(acc, v) == IF Begin(v) > acc.end
                      THEN [busy |-> acc.busy + acc.end - acc.start, start |-> Begin(v), end |-> End(v)]
                      ELSE [acc EXCEPT !.end = End(v)]
      swept == FoldLeft(Step, [busy |-> 0, start |-> Begin(line[1]), end |-> End(line[1])], Tail(line))
  IN  IF S = {} THEN 0 ELSE swept.busy + swept.end - swept.start

\* _busy_time_and_load: the sweep joins intervals that overlap or touch.
BusyTime(S) ==
  LET line == SetToSortSeq(S, LAMBDA v, w : Begin(v) < Begin(w) \/ (Begin(v) = Begin(w) /\ End(v) < End(w)))
      Step(acc, v) == IF Begin(v) > acc.end
                      THEN [busy |-> acc.busy + acc.end - acc.start, start |-> Begin(v), end |-> End(v)]
                      ELSE [acc EXCEPT !.end = Higher(@, End(v))]
      swept == FoldLeft(Step, [busy |-> 0, start |-> Begin(line[1]), end |-> End(line[1])], Tail(line))
  IN  IF S = {} THEN 0 ELSE swept.busy + swept.end - swept.start

\* The most in flight, at one of the events; an end counts before a start at the same instant.
MaxInflight(S) ==
  LET At(t) == Cardinality({v \in S : Begin(v) <= t}) - Cardinality({v \in S : End(v) <= t})
      peaks == {At(Begin(v)) : v \in S}
  IN  IF S = {} THEN 0 ELSE CHOOSE m \in peaks : \A p \in peaks : p <= m

\* What the intervals have in common with a .. b, in the unit of a and b; scale is that unit's ticks inverted.
Area(S, a, b, scale) == Total(S, LAMBDA v : Higher(0, Lower(scale * End(v), b) - Higher(scale * Begin(v), a)))

\* _inflight_halves, in half ticks: the request time in each half of the span; one request has no halves.
Halves(S) ==
  LET mid == FirstSend(S) + LastEnd(S)
  IN  IF Cardinality(S) < 2 THEN <<0, 0>> ELSE <<Area(S, 2 * FirstSend(S), mid, 2), Area(S, mid, 2 * LastEnd(S), 2)>>

-------------------------------------------------------------------------------
\* bin_widths: bins of b ticks over the span; a last bin shorter than half of b joins the one before it.
Widths(span, b) ==
  LET n == Higher(1, (span + b - 1) \div b)
      widths == [i \in 1 .. n |-> Lower(b, span - (i - 1) * b)]
  IN  IF n > 1 /\ 2 * widths[n] < b
      THEN [i \in 1 .. n - 1 |-> IF i = n - 1 THEN widths[i] + widths[n] ELSE widths[i]]
      ELSE widths

\* Mutant: the folded last bin is taken for a whole one.
InFlightByBinOfOneWidth(S, start, widths) ==
  LET b == widths[1]
      Bin(v, i) == LET lo == start + (i - 1) * b
                       a == Higher(Begin(v), start)
                       from == Lower(Len(widths), Higher(1, 1 + (a - start) \div b))
                       to == Lower(Len(widths), 1 + (End(v) - start) \div b)
                   IN  IF i \in from .. to THEN Higher(0, Lower(End(v), lo + b) - Higher(a, lo)) ELSE 0
  IN  [i \in DOMAIN widths |-> Total(S, LAMBDA v : Bin(v, i))]

\* in_flight_by_bin, before the division by the bin's width: only the bins between a request's first and last are visited.
InFlightByBin(S, start, widths) ==
  LET b == widths[1]
      Bin(v, i) == LET lo == start + (i - 1) * b
                       a == Higher(Begin(v), start)
                       from == Lower(Len(widths), Higher(1, 1 + (a - start) \div b))
                       to == Lower(Len(widths), 1 + (End(v) - start) \div b)
                   IN  IF i \in from .. to THEN Higher(0, Lower(End(v), lo + widths[i]) - Higher(a, lo)) ELSE 0
  IN  [i \in DOMAIN widths |-> Total(S, LAMBDA v : Bin(v, i))]

-------------------------------------------------------------------------------
(* The same figures tick by tick. *)

OutAt(S, t) == Cardinality({v \in S : Begin(v) <= t /\ t < End(v)})
Ticks(S, from, to) == FoldSet(LAMBDA t, sum : OutAt(S, t) + sum, 0, from .. to - 1)

\* Busy time, the peak and, of more than one request, the halves are what counting the intervals tick by tick gives.
LoadOf(S) ==
  S # {} => LET all == FirstSend(S) .. LastEnd(S) - 1 IN
    /\ BusyTime(S) = Cardinality({t \in all : OutAt(S, t) > 0})
    /\ \A t \in all : OutAt(S, t) <= MaxInflight(S)
    /\ \E t \in all : OutAt(S, t) = MaxInflight(S)
    /\ Cardinality(S) > 1 => Halves(S)[1] + Halves(S)[2] = 2 * Ticks(S, FirstSend(S), LastEnd(S))
    /\ Cardinality(S) > 1 /\ (FirstSend(S) + LastEnd(S)) % 2 = 0 =>
         Halves(S)[1] = 2 * Ticks(S, FirstSend(S), (FirstSend(S) + LastEnd(S)) \div 2)

\* The bins of a window cover it, and each holds the request time its ticks hold.
BinsOf(S, start, end, b) ==
  LET widths == Widths(end - start, b)
      bins == InFlightByBin(S, start, widths)
      Edge(i) == IF i > Len(widths) THEN end ELSE start + (i - 1) * b
  IN  /\ FoldLeft(LAMBDA sum, w : sum + w, 0, widths) = end - start
      /\ \A i \in DOMAIN widths : bins[i] = Ticks(S, Edge(i), Edge(i + 1))
================================================================================
