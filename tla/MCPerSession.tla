----------------------------- MODULE MCPerSession -----------------------------
(* Instances of PerSession: five sessions for two agents. *)
EXTENDS PerSession

\* Sessions of one and two turns, so that a later session can finish before an earlier one.
MCTurns == [s \in 1 .. N |-> IF s % 2 = 1 THEN 2 ELSE 1]

\* The stagger of a run without recorded arrivals, in file order: those from the C-th on sleep equally long, each from its
\* own start, and the tasks start one after the other.
MCStagger == [s \in 1 .. N |-> s]

\* Recorded arrivals, out of file order and some at one time.
MCDue == [s \in 1 .. N |-> (2 * s) % 3]
===============================================================================
