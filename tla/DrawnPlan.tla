------------------------------- MODULE DrawnPlan -------------------------------
(***************************************************************************)
(* The plan of a single-turn run (quettabench/workloads/live.py, base.py   *)
(* and arrival.py): which rows of a source are warmed up with and which    *)
(* are measured, and when an open loop sends each of them.  A row is its   *)
(* place in the source, a sampled source's after its shuffle.  Times are   *)
(* in parts of a time stamp, so that a lap's length is whole.              *)
(***************************************************************************)
EXTENDS Integers, Sequences, FiniteSets, FiniteSetsExt, SequencesExt

CONSTANTS
  MaxSource,  \* bound: rows of a source
  MaxDrawn,   \* bound: requests asked for
  LastStamp   \* bound: time stamps

BoundsAssumption == MaxSource \in Nat /\ MaxDrawn \in Nat /\ LastStamp \in Nat

NoTime == -1

VARIABLES
  source,   \* kind, the rows' time stamps, warmup and measured requests asked for, workload.arrival
  cursor,   \* rows drawn since the source began or was rewound
  drawn,    \* the rows drawn, warmup's first, each with its lap
  offsets,  \* when each measured request is sent, in an open loop
  ready     \* "no", "yes" or "refused"

vars == <<source, cursor, drawn, offsets, ready>>

Rows == Len(source.stamps)
Stamped == {i \in DOMAIN source.stamps : source.stamps[i] # NoTime}
Span == IF Stamped = {} THEN 0
        ELSE Max({source.stamps[i] : i \in Stamped}) - Min({source.stamps[i] : i \in Stamped})

\* A lap is the file's span and one mean gap; in these parts of a stamp it is whole.
Parts == Max({1, Cardinality(Stamped) - 1})
Lap == Span * (IF Cardinality(Stamped) > 1 THEN Cardinality(Stamped) ELSE 1)

Warmed == IF source.kind = "file" THEN 0 ELSE source.warm
Measured == SubSeq(drawn, Warmed + 1, Len(drawn))
Wanted == IF source.kind = "file" THEN Rows ELSE source.warm + source.asked

Init ==
  /\ source \in [kind : {"sampled", "mooncake", "file"}, stamps : UNION {[1 .. n -> NoTime .. LastStamp] : n \in 1 .. MaxSource},
                 warm : 0 .. 1, asked : 1 .. MaxDrawn, arrival : {"trace", "steady", "burst"}, size : 1 .. 2]
  /\ source.kind = "sampled" => \A i \in DOMAIN source.stamps : source.stamps[i] = NoTime
  /\ source.arrival = "burst" \/ source.size = 1
  /\ cursor = 0 /\ drawn = <<>> /\ offsets = <<>> /\ ready = "no"

\* Mutant: warmup's draws are not counted.
RefusesMeasured ==
  \/ source.kind = "sampled" /\ source.asked > Rows
  \/ source.kind = "mooncake" /\ source.arrival = "trace" /\ Lap = 0 /\ source.asked > Rows

\* A sampled source that would repeat a row, and a trace that would wrap with no lap length.
Refuses ==
  \/ source.kind = "sampled" /\ source.warm + source.asked > Rows
  \/ source.kind = "mooncake" /\ source.arrival = "trace" /\ Lap = 0 /\ source.asked > Rows

Refuse == ready = "no" /\ Refuses /\ ready' = "refused" /\ UNCHANGED <<source, cursor, drawn, offsets>>

\* draw: a trace that rewinds starts over after warmup's.
Draw ==
  /\ ready = "no" /\ ~Refuses /\ Len(drawn) < Wanted
  /\ drawn' = Append(drawn, [row |-> 1 + (cursor % Rows), lap |-> cursor \div Rows])
  /\ cursor' = IF source.kind = "mooncake" /\ Len(drawn') = source.warm THEN 0 ELSE cursor + 1
  /\ UNCHANGED <<source, offsets, ready>>

Time(d) == IF source.stamps[d.row] = NoTime THEN NoTime ELSE Parts * source.stamps[d.row] + d.lap * Lap

\* Mutant: the times are taken as they are.
RebaseNot(times) == [k \in DOMAIN times |-> IF times[k] = NoTime THEN 0 ELSE times[k]]

\* rebase_arrivals: a missing time counts as 0.
Rebase(times) ==
  LET first == Min({IF times[k] = NoTime THEN 0 ELSE times[k] : k \in DOMAIN times})
  IN  [k \in DOMAIN times |-> IF times[k] = NoTime THEN 0 ELSE times[k] - first]

\* burst: three bursts, a stamp apart.
Burst(n) == [k \in 1 .. n |-> Parts * ((k - 1) \div source.size)]

\* arrival_offsets; a burst spec of fewer requests than there are is refused.
Schedule ==
  /\ ready = "no" /\ ~Refuses /\ Len(drawn) = Wanted
  /\ LET n == Len(Measured)
         short == source.arrival = "burst" /\ n > 3 * source.size
     IN  /\ ready' = IF short THEN "refused" ELSE "yes"
         /\ offsets' = IF short THEN <<>>
                       ELSE CASE source.arrival = "trace" -> Rebase([k \in 1 .. n |-> Time(Measured[k])])
                              [] source.arrival = "steady" -> [k \in 1 .. n |-> 0]
                              [] source.arrival = "burst" -> Burst(n)
  /\ UNCHANGED <<source, cursor, drawn>>

Over == ready # "no" /\ UNCHANGED vars

Next == Refuse \/ Draw \/ Schedule \/ Over

Spec == Init /\ [][Next]_vars

-------------------------------------------------------------------------------
(* Properties. *)

\* No row of a sampled source is sent twice, not in warmup either, and a trace is measured from its first row, row after
\* row; a lap's requests are all sent before the next lap's, and those of one trace as far apart as they were recorded; no
\* more requests share a time of a burst than its size; and the first of them all is sent at once.
DrawnAsAsked ==
  ready = "yes" =>
    LET m == Measured
    IN  /\ source.kind = "sampled" => \A j, k \in DOMAIN drawn : drawn[j].row = drawn[k].row => j = k
        /\ source.kind # "sampled" => \A k \in DOMAIN m : m[k].lap * Rows + m[k].row = k
        /\ Min({offsets[k] : k \in DOMAIN m}) = 0
        /\ \A j, k \in DOMAIN m :
             source.arrival = "trace" /\ NoTime \notin {Time(m[j]), Time(m[k])} =>
               /\ offsets[j] - offsets[k] = Time(m[j]) - Time(m[k])
               /\ m[j].lap < m[k].lap => offsets[j] < offsets[k]
        /\ source.arrival = "burst" => \A k \in DOMAIN m : Cardinality({j \in DOMAIN m : offsets[j] = offsets[k]}) <= source.size
================================================================================
