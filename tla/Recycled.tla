------------------------------- MODULE Recycled -------------------------------
(***************************************************************************)
(* SessionDispatcher's recycled replay (quettabench/modes/serve.py,        *)
(* _recycled with _turns, _dispatch and _record): each agent draws the     *)
(* next session of a cycle, plays it to its end and draws again until the  *)
(* deadline.  A streak of failures across the agents aborts the run; the   *)
(* first abort cancels the other agents.                                   *)
(*                                                                         *)
(* One action is one callback of the event loop, from one await to the     *)
(* next.                                                                   *)
(***************************************************************************)
EXTENDS Integers, FiniteSets

CONSTANTS N,             \* number of sessions
          C,             \* mode.concurrency, the number of agents
          SessionTurns,  \* SessionTurns[i]: turns of session i, counted from 0
          Streak,        \* DEAD_SERVER_STREAK
          MaxPlays       \* bound: the deadline has passed by the time this many plays are drawn

Agents == 0 .. C - 1
Plays == 0 .. MaxPlays - 1

ASSUME CountsAssumption == N \in Nat \ {0} /\ C \in Nat \ {0} /\ Streak \in Nat \ {0} /\ MaxPlays \in Nat
ASSUME TurnsAssumption == SessionTurns \in [0 .. N - 1 -> Nat \ {0}]

\* Draw k plays session k % n, for the (k \div n)th time.
SessionOf(k) == k % N
NumberOf(k) == k \div N
Turns == [k \in Plays |-> SessionTurns[SessionOf(k)]]
Keys == UNION {{k} \X (1 .. Turns[k]) : k \in Plays}

StreakLimit == IF C > Streak THEN C ELSE Streak

NoPlay == -1

VARIABLES
  phase,      \* where agent a's task is suspended, or how it ended
  play,       \* the play agent a is at, or was last at
  turn,       \* the turn agent a is at
  draws,      \* itertools.count: the plays drawn, and the length of self.plays
  past,       \* elapsed() has reached the deadline
  streak,     \* failed_in_a_row
  executed,   \* the keys sent
  succeeded,  \* the keys recorded with success
  failed,     \* the keys recorded without
  agentOf,    \* agent_of, and the plays session_times holds
  rowError,   \* the writer holds a row's write error
  outcome     \* of the run

plan == <<executed, succeeded, failed>>
vars == <<phase, play, turn, draws, past, streak, plan, agentOf, rowError, outcome>>

TypeOK ==
  /\ phase \in [Agents -> {"asleep", "sending", "waiting", "done", "aborted", "raised", "cancelled"}]
  /\ play \in [Agents -> Plays \cup {NoPlay}]
  /\ turn \in [Agents -> Nat]
  /\ draws \in Nat
  /\ past \in BOOLEAN
  /\ streak \in Nat
  /\ executed \subseteq Keys /\ succeeded \subseteq executed /\ failed \subseteq executed
  /\ agentOf \in [Plays -> Agents \cup {NoPlay}]
  /\ rowError \in BOOLEAN
  /\ outcome \in {"running", "ok", "aborted", "raised"}

Init ==
  /\ phase = [a \in Agents |-> "asleep"]
  /\ play = [a \in Agents |-> NoPlay]
  /\ turn = [a \in Agents |-> 1]
  /\ draws = 0
  /\ past = FALSE
  /\ streak = 0
  /\ executed = {} /\ succeeded = {} /\ failed = {}
  /\ agentOf = [k \in Plays |-> NoPlay]
  /\ rowError = FALSE
  /\ outcome = "running"

Running == outcome = "running"

-------------------------------------------------------------------------------
(* One request. *)

Send(a, k, t) ==
  /\ phase' = [phase EXCEPT ![a] = "sending"]
  /\ play' = [play EXCEPT ![a] = k]
  /\ turn' = [turn EXCEPT ![a] = t]
  /\ executed' = executed \cup {<<k, t>>}

\* Mutant: a success leaves the streak alone.
RecordNoReset(a, ok) ==
  /\ ~rowError
  /\ succeeded' = IF ok THEN succeeded \cup {<<play[a], turn[a]>>} ELSE succeeded
  /\ failed' = IF ok THEN failed ELSE failed \cup {<<play[a], turn[a]>>}
  /\ streak' = IF ok THEN streak ELSE streak + 1

\* _record, after a row the writer took.
Record(a, ok) ==
  /\ ~rowError
  /\ succeeded' = IF ok THEN succeeded \cup {<<play[a], turn[a]>>} ELSE succeeded
  /\ failed' = IF ok THEN failed ELSE failed \cup {<<play[a], turn[a]>>}
  /\ streak' = IF ok THEN 0 ELSE streak + 1

-------------------------------------------------------------------------------
(* The agents' loop. *)

\* Mutant: the counter moves on only when it is read again, after the first answer.
DrawUncounted(a) ==
  /\ ~past
  /\ draws < MaxPlays
  /\ draws' = Cardinality({k[1] : k \in succeeded \cup failed})
  /\ Send(a, draws, 1)

\* The deadline is ahead: the next play of the cycle, its first turn sent at once.
Draw(a) ==
  /\ ~past
  /\ draws < MaxPlays
  /\ draws' = draws + 1
  /\ Send(a, draws, 1)

\* The deadline has passed.
Retire(a) ==
  /\ past
  /\ phase' = [phase EXCEPT ![a] = "done"]
  /\ UNCHANGED <<play, turn, draws, executed>>

\* The agents' first starts are staggered, agent 0 first.
Start(a) ==
  /\ Running
  /\ phase[a] = "asleep"
  /\ \A b \in Agents : b < a => phase[b] # "asleep"
  /\ Draw(a) \/ Retire(a)
  /\ UNCHANGED <<past, streak, succeeded, failed, agentOf, rowError, outcome>>

AwaitsAnswer(a) == Running /\ phase[a] = "sending"

\* Mutant: a failure does not stop the play.
AnswerNextWhateverCame(a) ==
  /\ AwaitsAnswer(a)
  /\ \E ok \in BOOLEAN : Record(a, ok)
  /\ turn[a] < Turns[play[a]]
  /\ Send(a, play[a], turn[a] + 1)
  /\ UNCHANGED <<draws, past, agentOf, rowError, outcome>>

\* Success before the last turn: the next turn goes out at once, or after the recorded wait.
AnswerNext(a) ==
  /\ AwaitsAnswer(a)
  /\ Record(a, TRUE)
  /\ turn[a] < Turns[play[a]]
  /\ \/ Send(a, play[a], turn[a] + 1)
     \/ /\ phase' = [phase EXCEPT ![a] = "waiting"]
        /\ UNCHANGED <<play, turn, executed>>
  /\ UNCHANGED <<draws, past, agentOf, rowError, outcome>>

\* Mutants: an abort is looked for on the exact count, which another agent's failure may step over; a play stops at
\* the deadline.
AnswerLastExactly(a) ==
  /\ AwaitsAnswer(a)
  /\ \/ Record(a, TRUE) /\ turn[a] = Turns[play[a]]
     \/ Record(a, FALSE)
  /\ agentOf' = [agentOf EXCEPT ![play[a]] = a]
  /\ \/ /\ streak' = StreakLimit
        /\ phase' = [phase EXCEPT ![a] = "aborted"]
        /\ UNCHANGED <<play, turn, draws, executed>>
     \/ streak' # StreakLimit /\ (Draw(a) \/ Retire(a))
  /\ UNCHANGED <<past, rowError, outcome>>

AnswerLastAtDeadline(a) ==
  /\ AwaitsAnswer(a)
  /\ past
  /\ \E ok \in BOOLEAN : Record(a, ok)
  /\ agentOf' = [agentOf EXCEPT ![play[a]] = a]
  /\ Retire(a)
  /\ UNCHANGED <<past, rowError, outcome>>

\* The last turn's success, or any turn's failure, ends the play; then the streak is looked at, then the clock.
AnswerLast(a) ==
  /\ AwaitsAnswer(a)
  /\ \/ Record(a, TRUE) /\ turn[a] = Turns[play[a]]
     \/ Record(a, FALSE)
  /\ agentOf' = [agentOf EXCEPT ![play[a]] = a]
  /\ \/ /\ streak' >= StreakLimit
        /\ phase' = [phase EXCEPT ![a] = "aborted"]
        /\ UNCHANGED <<play, turn, draws, executed>>
     \/ streak' < StreakLimit /\ (Draw(a) \/ Retire(a))
  /\ UNCHANGED <<past, rowError, outcome>>

\* emit raises the writer's row error.
AnswerRaises(a) ==
  /\ AwaitsAnswer(a)
  /\ rowError
  /\ phase' = [phase EXCEPT ![a] = "raised"]
  /\ UNCHANGED <<play, turn, draws, past, streak, plan, agentOf, rowError, outcome>>

\* The inter-turn wait is over.
WaitOver(a) ==
  /\ Running
  /\ phase[a] = "waiting"
  /\ Send(a, play[a], turn[a] + 1)
  /\ UNCHANGED <<draws, past, streak, succeeded, failed, agentOf, rowError, outcome>>

-------------------------------------------------------------------------------
(* The run. *)

Deadline ==
  /\ Running
  /\ ~past
  /\ past' = TRUE
  /\ UNCHANGED <<phase, play, turn, draws, streak, plan, agentOf, rowError, outcome>>

\* The writer's thread could not write a row; the next append raises it.
RowWriteFails ==
  /\ Running
  /\ ~rowError
  /\ rowError' = TRUE
  /\ UNCHANGED <<phase, play, turn, draws, past, streak, plan, agentOf, outcome>>

Ended(a) == phase[a] \in {"done", "aborted", "raised"}

\* Mutant: gather in the place of wait, which leaves the agents that did not raise to their requests.
ReturnWhenAll ==
  /\ Running
  /\ \A a \in Agents : Ended(a)
  /\ \/ \E a \in Agents : phase[a] \in {"aborted", "raised"} /\ outcome' = phase[a]
     \/ (\A a \in Agents : phase[a] = "done") /\ outcome' = "ok"
  /\ UNCHANGED <<phase, play, turn, draws, past, streak, plan, agentOf, rowError>>

\* asyncio.wait returns at the first exception or once every agent is done.  The agents still at work are cancelled;
\* of those that raised, the first in the set raises.
Return ==
  /\ Running
  /\ \/ \E a \in Agents : phase[a] \in {"aborted", "raised"} /\ outcome' = phase[a]
     \/ (\A a \in Agents : phase[a] = "done") /\ outcome' = "ok"
  /\ phase' = [a \in Agents |-> IF Ended(a) THEN phase[a] ELSE "cancelled"]
  /\ UNCHANGED <<play, turn, draws, past, streak, plan, agentOf, rowError>>

Over == ~Running /\ UNCHANGED vars

\* The steps that wait on the server, and those that do not.
Answered(a) == AnswerNext(a) \/ AnswerLast(a) \/ AnswerRaises(a)
Timed(a) == Start(a) \/ WaitOver(a)

Next == (\E a \in Agents : Answered(a) \/ Timed(a)) \/ Deadline \/ RowWriteFails \/ Return \/ Over

Spec == Init /\ [][Next]_vars

\* The loop runs whatever can run: timers fire, the deadline comes, wait returns.  The server owes nothing.
LoopFairness == (\A a \in Agents : WF_vars(Timed(a))) /\ WF_vars(Deadline) /\ WF_vars(Return)

-------------------------------------------------------------------------------
(* Properties. *)

\* At most one failure per agent follows the one that ends the run: between the abort and the cancellation the agents
\* cannot pile up failed plays on a dead server.
Aborted == {a \in Agents : phase[a] = "aborted"}
StreakBounded == streak < StreakLimit + Cardinality(Aborted)
FailuresInARowBounded == streak < StreakLimit + C

\* No two agents are ever at one play: the cycle is drawn and counted in one step.
AtPlay(a) == phase[a] \in {"sending", "waiting"}
PlaysDistinct == \A a, b \in Agents : a # b /\ AtPlay(a) /\ AtPlay(b) => play[a] # play[b]

\* The types, and what the properties here rest on.
Inv == TypeOK /\ StreakBounded /\ PlaysDistinct

\* A run that reaches its checks has played every started play to its end: each has its times, and each turn of it
\* was sent or follows a failed one (identity over planned_keys).
EveryPlayWhole ==
  outcome = "ok" => \A k \in {q[1] : q \in executed} :
    /\ agentOf[k] # NoPlay
    /\ \A t \in 1 .. Turns[k] : <<k, t>> \in succeeded \/ \E u \in 1 .. t : <<k, u>> \in failed

\* The promise of every replay, a play standing for a session.
Of(keys, k) == {t \in 1 .. Turns[k] : <<k, t>> \in keys}
SR == INSTANCE SessionReplay WITH
        Sessions <- Plays,
        sent <- [k \in Plays |-> Cardinality(Of(executed, k))],
        answered <- [k \in Plays |-> Cardinality(Of(succeeded \cup failed, k))],
        broken <- [k \in Plays |-> Of(failed, k) # {}]
ReplaysSessions == SR!Spec

\* Once an agent aborts the run ends, though no request in flight is ever answered.
AbortEndsRun == (Aborted # {}) ~> ~Running

===============================================================================
