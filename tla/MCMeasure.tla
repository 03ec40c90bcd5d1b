------------------------------- MODULE MCMeasure -------------------------------
(* Instances of Measure: sessions of one, two and three turns, arrivals out of file order, two of them together; *)
(* a single-turn trace out of order, and one with a time missing. *)
EXTENDS Measure

MCTurns == [s \in 1 .. N |-> 1 + (s % 3)]
MCArrival == [s \in 1 .. N |-> IF s = 4 THEN 1 ELSE (2 * s) % 4]
MCOffsets == {<<3, 1, 1>>, <<NoTime, 2, 1>>}
================================================================================
