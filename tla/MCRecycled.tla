------------------------------ MODULE MCRecycled ------------------------------
(* Instances of Recycled: two sessions, of two turns and of one, in a      *)
(* cycle, with the history of the answers.                                 *)
EXTENDS Recycled, Sequences

MCSessionTurns == [i \in 0 .. N - 1 |-> IF i % 2 = 0 THEN 2 ELSE 1]


VARIABLE answers  \* the last StreakLimit results recorded, the newest last

Latest(seq) == IF Len(seq) > StreakLimit THEN Tail(seq) ELSE seq

HistoryInit == Init /\ answers = <<>>

HistoryNext ==
  /\ Next
  /\ answers' = Latest(answers \o (IF succeeded' # succeeded THEN <<TRUE>> ELSE <<>>)
                              \o (IF failed' # failed THEN <<FALSE>> ELSE <<>>))

HistorySpec == HistoryInit /\ [][HistoryNext]_<<vars, answers>> /\ LoopFairness

\* An agent ends the run exactly when its answer completes StreakLimit failures across the agents with no success
\* between them (docs/session-replay.md:31).
Dead(seq) == Len(seq) = StreakLimit /\ \A i \in DOMAIN seq : ~seq[i]
AbortsOnStreak ==
  [][failed' # failed => ((\E a \in Agents : phase[a] # "aborted" /\ phase'[a] = "aborted") <=> Dead(answers'))]_<<vars, answers>>

===============================================================================
