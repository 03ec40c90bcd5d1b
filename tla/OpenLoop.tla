------------------------------- MODULE OpenLoop -------------------------------
(***************************************************************************)
(* SessionDispatcher under an open loop (quettabench/modes/serve.py, _open *)
(* with _turns, _dispatch and _record): each session starts at its arrival *)
(* time, however many are open, and plays its turns one after the other.   *)
(*                                                                         *)
(* One action is one callback of the event loop, from one await to the     *)
(* next.                                                                   *)
(***************************************************************************)
EXTENDS Naturals, FiniteSets

CONSTANTS N,       \* number of sessions
          Turns,   \* Turns[s]: turns of session s
          Arrival  \* Arrival[s]: when session s arrives, recorded or drawn

Sessions == 1 .. N
Planned == UNION {{s} \X (1 .. Turns[s]) : s \in Sessions}

CountAssumption == N \in Nat
TurnsAssumption == Turns \in [Sessions -> Nat \ {0}]
ArrivalAssumption == Arrival \in [Sessions -> Nat]

VARIABLES
  phase,      \* where session s's coroutine is suspended
  turn,       \* the turn session s is at
  counter,    \* the requests numbered so far
  index,      \* the request index of each key sent
  succeeded,  \* the keys recorded with success
  failed,     \* the keys recorded without
  rowError,   \* the writer holds a row's write error
  outcome     \* of the run

vars == <<phase, turn, counter, index, succeeded, failed, rowError, outcome>>

executed == DOMAIN index

TypeOK ==
  /\ phase \in [Sessions -> {"asleep", "sending", "waiting", "done", "raised"}]
  /\ turn \in [Sessions -> Nat]
  /\ counter \in Nat
  /\ executed \subseteq Planned /\ \A k \in executed : index[k] \in Nat
  /\ succeeded \subseteq executed /\ failed \subseteq executed
  /\ rowError \in BOOLEAN
  /\ outcome \in {"running", "raised", "ok", "aborted", "cancelled"}

Init ==
  /\ phase = [s \in Sessions |-> "asleep"]
  /\ turn = [s \in Sessions |-> 1]
  /\ counter = 0
  /\ index = [k \in {} |-> 0]
  /\ succeeded = {} /\ failed = {}
  /\ rowError = FALSE
  /\ outcome = "running"

\* The event loop still runs the sessions: gather waits for them, or an exception is on its way out.
Looping == outcome \in {"running", "raised"}

\* Mutant: a request takes the number of the answers before it.
SendAfterAnswers(s, t) ==
  /\ phase' = [phase EXCEPT ![s] = "sending"]
  /\ turn' = [turn EXCEPT ![s] = t]
  /\ index' = [k \in executed \cup {<<s, t>>} |-> IF k = <<s, t>> THEN Cardinality(succeeded' \cup failed') ELSE index[k]]
  /\ counter' = counter + 1

\* _dispatch up to its await: the next number, the digest, the request.
Send(s, t) ==
  /\ phase' = [phase EXCEPT ![s] = "sending"]
  /\ turn' = [turn EXCEPT ![s] = t]
  /\ index' = [k \in executed \cup {<<s, t>>} |-> IF k = <<s, t>> THEN counter ELSE index[k]]
  /\ counter' = counter + 1

\* _record, after a row the writer took.
Record(s, ok) ==
  /\ ~rowError
  /\ succeeded' = IF ok THEN succeeded \cup {<<s, turn[s]>>} ELSE succeeded
  /\ failed' = IF ok THEN failed ELSE failed \cup {<<s, turn[s]>>}

\* Mutant: an arrival waits for the sessions before it to end.
ArriveInTurn(s) ==
  /\ Looping
  /\ phase[s] = "asleep"
  /\ \A r \in Sessions : Arrival[r] < Arrival[s] => phase[r] \in {"done", "raised"}
  /\ succeeded' = succeeded /\ failed' = failed
  /\ Send(s, 1)
  /\ UNCHANGED <<rowError, outcome>>

\* The timers fire in the order of the arrivals; two that are due together, in either order (sleep_until_elapsed).
Arrive(s) ==
  /\ Looping
  /\ phase[s] = "asleep"
  /\ \A r \in Sessions : Arrival[r] < Arrival[s] => phase[r] # "asleep"
  /\ succeeded' = succeeded /\ failed' = failed
  /\ Send(s, 1)
  /\ UNCHANGED <<rowError, outcome>>

AwaitsAnswer(s) == Looping /\ phase[s] = "sending"

\* Mutant: a failure does not stop the session.
AnswerNextWhateverCame(s) ==
  /\ AwaitsAnswer(s)
  /\ \E ok \in BOOLEAN : Record(s, ok)
  /\ turn[s] < Turns[s]
  /\ Send(s, turn[s] + 1)
  /\ UNCHANGED <<rowError, outcome>>

\* Success before the last turn: the next turn goes out at once, or after the recorded wait.
AnswerNext(s) ==
  /\ AwaitsAnswer(s)
  /\ Record(s, TRUE)
  /\ turn[s] < Turns[s]
  /\ \/ Send(s, turn[s] + 1)
     \/ phase' = [phase EXCEPT ![s] = "waiting"] /\ UNCHANGED <<turn, counter, index>>
  /\ UNCHANGED <<rowError, outcome>>

\* The last turn's success, or any turn's failure, ends the session.
AnswerLast(s) ==
  /\ AwaitsAnswer(s)
  /\ \/ Record(s, TRUE) /\ turn[s] = Turns[s]
     \/ Record(s, FALSE)
  /\ phase' = [phase EXCEPT ![s] = "done"]
  /\ UNCHANGED <<turn, counter, index, rowError, outcome>>

\* emit raises the writer's row error: gather raises it, the other sessions go on.
AnswerRaises(s) ==
  /\ AwaitsAnswer(s)
  /\ rowError
  /\ phase' = [phase EXCEPT ![s] = "raised"]
  /\ outcome' = "raised"
  /\ UNCHANGED <<turn, counter, index, succeeded, failed, rowError>>

\* The inter-turn wait is over.
WaitOver(s) ==
  /\ Looping
  /\ phase[s] = "waiting"
  /\ succeeded' = succeeded /\ failed' = failed
  /\ Send(s, turn[s] + 1)
  /\ UNCHANGED <<rowError, outcome>>

RowWriteFails ==
  /\ Looping
  /\ ~rowError
  /\ rowError' = TRUE
  /\ UNCHANGED <<phase, turn, counter, index, succeeded, failed, outcome>>

\* gather returns once every session is done; a run without a success aborts.
Gathered ==
  /\ outcome = "running"
  /\ \A s \in Sessions : phase[s] = "done"
  /\ outcome' = IF succeeded = {} /\ failed # {} THEN "aborted" ELSE "ok"
  /\ UNCHANGED <<phase, turn, counter, index, succeeded, failed, rowError>>

\* The exception left asyncio.run, which cancels the sessions still at work.
Cancel ==
  /\ outcome = "raised"
  /\ outcome' = "cancelled"
  /\ UNCHANGED <<phase, turn, counter, index, succeeded, failed, rowError>>

Over == ~Looping /\ UNCHANGED vars

Answered(s) == AnswerNext(s) \/ AnswerLast(s) \/ AnswerRaises(s)

Next == (\E s \in Sessions : Arrive(s) \/ WaitOver(s) \/ Answered(s)) \/ RowWriteFails \/ Gathered \/ Cancel \/ Over

Spec == Init /\ [][Next]_vars

\* Timers fire; the server owes nothing.
TimerFairSpec == Spec /\ \A s \in Sessions : WF_vars(Arrive(s))

-------------------------------------------------------------------------------
(* Properties. *)

\* The load is offered, not admitted: every session's first turn goes out at its arrival though no answer ever comes.
EverySessionArrives == <>(~Looping \/ outcome = "raised" \/ \A s \in Sessions : <<s, 1>> \in executed)

\* The requests are numbered in the order they are sent, none twice.
IndexesContiguous ==
  /\ {index[k] : k \in executed} = 0 .. counter - 1
  /\ \A j, k \in executed : j[1] = k[1] /\ j[2] < k[2] => index[j] < index[k]

\* identity's verdict for a run that reached its checks.
IdentityHolds ==
  outcome = "ok" => \A k \in Planned \ executed : \E u \in 1 .. k[2] - 1 : <<k[1], u>> \in failed

\* The types, and what every step keeps.
Inv == TypeOK /\ IndexesContiguous /\ IdentityHolds

\* The promise of every replay.
Of(keys, s) == {t \in 1 .. Turns[s] : <<s, t>> \in keys}
SR == INSTANCE SessionReplay WITH
        sent <- [s \in Sessions |-> Cardinality(Of(executed, s))],
        answered <- [s \in Sessions |-> Cardinality(Of(succeeded \cup failed, s))],
        broken <- [s \in Sessions |-> Of(failed, s) # {}]
ReplaysSessions == SR!Spec
===============================================================================
