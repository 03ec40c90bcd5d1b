------------------------------ MODULE MCServeRun ------------------------------
(* ServeRun on a small instance: a grid with a cell over maxlen, one over  *)
(* the KV capacity and one repeated beside its like and after it, and      *)
(* the pools a plan is drawn from.                                         *)
EXTENDS ServeRun

MCCells == << [ctx |-> 10, bs |-> 1], [ctx |-> 10, bs |-> 1], [ctx |-> 90, bs |-> 1], [ctx |-> 10, bs |-> 1],
              [ctx |-> 10, bs |-> 9], [ctx |-> 20, bs |-> 2] >>

\* Sessions as a file holds them: with and without recorded waits, cut by the window, too short; two to follow, six
\* and seven to stratify.
S(n, size, waits) == [fits |-> [i \in 1 .. n |-> TRUE], size |-> size, waits |-> waits]
Cut(n, size) == [fits |-> [i \in 1 .. n + 1 |-> i <= n], size |-> size, waits |-> TRUE]
MCPools == { <<S(2, 1, TRUE), S(3, 2, FALSE)>>, <<Cut(2, 3), S(2, 2, TRUE)>>, <<S(1, 1, TRUE)>>,
   <<S(1, 1, TRUE), S(2, 2, TRUE), S(2, 1, TRUE), Cut(3, 2), S(3, 3, TRUE), S(2, 1, TRUE)>>,
   <<S(2, 1, TRUE), S(2, 1, TRUE), S(2, 1, TRUE), S(3, 9, TRUE), Cut(1, 2), S(2, 1, FALSE), S(4, 5, TRUE)>> }
===============================================================================
