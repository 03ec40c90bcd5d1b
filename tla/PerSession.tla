------------------------------ MODULE PerSession ------------------------------
(***************************************************************************)
(* SessionDispatcher under per-session pacing, closed loop                 *)
(* (quettabench/modes/serve.py, _per_session with _turns, _dispatch and    *)
(* _record).  C agents play N sessions; an agent plays a session's turns   *)
(* back to back, the recorded waits included, and is then free for the     *)
(* next session.                                                           *)
(*                                                                         *)
(* One action is one callback of the event loop, from one await to the     *)
(* next.  Time is abstracted to its order: `clock' advances at every       *)
(* reading the code stores in session_times.                               *)
(***************************************************************************)
EXTENDS Integers, Sequences, FiniteSets, AsyncSemaphore

CONSTANTS N,       \* number of sessions
          C,       \* mode.concurrency, the number of agents
          Turns,   \* Turns[s]: turns of session s
          Due      \* Due[s]: when session s's timer is due, set by its recorded arrival or its stagger

Sessions == 1 .. N
Agents == 0 .. C - 1
Planned == UNION {{s} \X (1 .. Turns[s]) : s \in Sessions}

ASSUME CountsAssumption == N \in Nat /\ C \in Nat \ {0}
ASSUME TurnsAssumption == Turns \in [Sessions -> Nat \ {0}]
ASSUME DueAssumption == Due \in [Sessions -> Nat]

NoAgent == -1

VARIABLES
  phase,        \* where session s's coroutine is suspended
  turn,         \* the turn session s is at
  sem,          \* the agents semaphore
  freeAgents,   \* free_agents, the agents no session holds
  agent,        \* the agent session s took; agent_of once s is finished
  executed,     \* the keys sent
  succeeded,    \* the keys recorded with success
  failed,       \* the keys recorded without
  admitted,     \* session_times[s]'s admission, 0 before
  finished,     \* session_times[s]'s end, 0 before
  clock,        \* perf_counter, as far as session_times orders its readings
  rowError,     \* the writer holds a row's write error
  outcome       \* of the run: gather's result

plan == <<executed, succeeded, failed>>
times == <<admitted, finished, clock>>
vars == <<phase, turn, sem, freeAgents, agent, plan, times, rowError, outcome>>

Open == {s \in Sessions : phase[s] \in {"sending", "waiting"}}

TypeOK ==
  /\ phase \in [Sessions -> {"asleep", "queued", "sending", "waiting", "done", "raised"}]
  /\ turn \in [Sessions -> Nat]
  /\ sem \in Semaphore(Sessions)
  /\ freeAgents \in Seq(Agents)
  /\ agent \in [Sessions -> Agents \cup {NoAgent}]
  /\ executed \subseteq Planned /\ succeeded \subseteq executed /\ failed \subseteq executed
  /\ admitted \in [Sessions -> Nat] /\ finished \in [Sessions -> Nat] /\ clock \in Nat
  /\ rowError \in BOOLEAN
  /\ outcome \in {"running", "raised", "ok", "aborted", "cancelled"}

Init ==
  /\ phase = [s \in Sessions |-> "asleep"]
  /\ turn = [s \in Sessions |-> 1]
  /\ sem = NewSemaphore(C)
  /\ freeAgents = [i \in 1 .. C |-> i - 1]
  /\ agent = [s \in Sessions |-> NoAgent]
  /\ executed = {} /\ succeeded = {} /\ failed = {}
  /\ admitted = [s \in Sessions |-> 0]
  /\ finished = [s \in Sessions |-> 0]
  /\ clock = 0
  /\ rowError = FALSE
  /\ outcome = "running"

\* The event loop still runs the sessions: gather waits for them, or an exception is on its way out.
Looping == outcome \in {"running", "raised"}

-------------------------------------------------------------------------------
(* One request. *)

\* _dispatch up to its await: turn t of s is digested and goes out.
Send(s, t) ==
  /\ phase' = [phase EXCEPT ![s] = "sending"]
  /\ turn' = [turn EXCEPT ![s] = t]
  /\ executed' = executed \cup {<<s, t>>}

\* _record, after a row the writer took.
Record(s, ok) ==
  /\ ~rowError
  /\ succeeded' = IF ok THEN succeeded \cup {<<s, turn[s]>>} ELSE succeeded
  /\ failed' = IF ok THEN failed ELSE failed \cup {<<s, turn[s]>>}

-------------------------------------------------------------------------------
(* A session's start and end. *)

\* Mutant: the agent stays in the list.
AdmitPeeks(s) ==
  /\ freeAgents # <<>>
  /\ agent' = [agent EXCEPT ![s] = Head(freeAgents)]
  /\ freeAgents' = freeAgents
  /\ clock' = clock + 1
  /\ admitted' = [admitted EXCEPT ![s] = clock']
  /\ Send(s, 1)

\* The body of `async with agents', up to the first turn's await.
Admit(s) ==
  /\ freeAgents # <<>>
  /\ agent' = [agent EXCEPT ![s] = Head(freeAgents)]
  /\ freeAgents' = Tail(freeAgents)
  /\ clock' = clock + 1
  /\ admitted' = [admitted EXCEPT ![s] = clock']
  /\ Send(s, 1)

\* A task of the gather raises: the first exception is the run's, the other sessions go on.
Raise(s) ==
  /\ phase' = [phase EXCEPT ![s] = "raised"]
  /\ outcome' = "raised"

\* free_agents.pop(0) on an empty list.
PopFails(s) ==
  /\ freeAgents = <<>>
  /\ Raise(s)
  /\ UNCHANGED <<turn, freeAgents, agent, executed, admitted, clock>>

\* The timers fire in due order.  Sessions due together start in either order: each takes its delay from its own reading
\* of the clock (sleep_until_elapsed).  Times closer than gather's start of its tasks count as one.
StartsBefore(r, s) == Due[r] < Due[s]

InTurnToStart(s) ==
  /\ Looping
  /\ phase[s] = "asleep"
  /\ \A r \in Sessions : StartsBefore(r, s) => phase[r] # "asleep"

StartAdmitted(s) ==
  /\ InTurnToStart(s)
  /\ ~Locked(sem)
  /\ \/ sem' = Take(sem) /\ Admit(s) /\ UNCHANGED outcome
     \/ sem' = Release(Take(sem)) /\ PopFails(s)
  /\ UNCHANGED <<succeeded, failed, finished, rowError>>

StartQueued(s) ==
  /\ InTurnToStart(s)
  /\ Locked(sem)
  /\ sem' = Enqueue(sem, s)
  /\ phase' = [phase EXCEPT ![s] = "queued"]
  /\ UNCHANGED <<turn, freeAgents, agent, plan, times, rowError, outcome>>

\* The first waiter, handed a slot, runs.
AdmitQueued(s) ==
  /\ Looping
  /\ Runnable(sem)
  /\ s = Head(sem.waiters)
  /\ \/ sem' = Resume(sem) /\ Admit(s) /\ UNCHANGED outcome
     \/ sem' = Release(Resume(sem)) /\ PopFails(s)
  /\ UNCHANGED <<succeeded, failed, finished, rowError>>

\* Mutants: the agent is not returned; it is returned to the front; the slot is not released.
FinishKeepsAgent(s) ==
  /\ phase' = [phase EXCEPT ![s] = "done"]
  /\ clock' = clock + 1
  /\ finished' = [finished EXCEPT ![s] = clock']
  /\ freeAgents' = freeAgents
  /\ sem' = Release(sem)

FinishFront(s) ==
  /\ phase' = [phase EXCEPT ![s] = "done"]
  /\ clock' = clock + 1
  /\ finished' = [finished EXCEPT ![s] = clock']
  /\ freeAgents' = <<agent[s]>> \o freeAgents
  /\ sem' = Release(sem)

FinishKeepsSlot(s) ==
  /\ phase' = [phase EXCEPT ![s] = "done"]
  /\ clock' = clock + 1
  /\ finished' = [finished EXCEPT ![s] = clock']
  /\ freeAgents' = Append(freeAgents, agent[s])
  /\ sem' = sem

\* The end of `async with agents': the session's times, its agent's return, the slot's release.
Finish(s) ==
  /\ phase' = [phase EXCEPT ![s] = "done"]
  /\ clock' = clock + 1
  /\ finished' = [finished EXCEPT ![s] = clock']
  /\ freeAgents' = Append(freeAgents, agent[s])
  /\ sem' = Release(sem)

-------------------------------------------------------------------------------
(* A request's answer, and what the session does next, up to its next await. *)

AwaitsAnswer(s) == Looping /\ phase[s] = "sending"

\* Mutants: a failure does not stop the session; the agent is given back for the wait.
AnswerNextWhateverCame(s) ==
  /\ AwaitsAnswer(s)
  /\ \E ok \in BOOLEAN : Record(s, ok)
  /\ turn[s] < Turns[s]
  /\ Send(s, turn[s] + 1)
  /\ UNCHANGED <<sem, freeAgents, agent, times, rowError, outcome>>

AnswerNextFreesAgent(s) ==
  /\ AwaitsAnswer(s)
  /\ Record(s, TRUE)
  /\ turn[s] < Turns[s]
  /\ phase' = [phase EXCEPT ![s] = "waiting"]
  /\ freeAgents' = Append(freeAgents, agent[s])
  /\ sem' = Release(sem)
  /\ UNCHANGED <<turn, executed, agent, times, rowError, outcome>>

\* Success before the last turn: the next turn goes out at once, or after the recorded wait.
AnswerNext(s) ==
  /\ AwaitsAnswer(s)
  /\ Record(s, TRUE)
  /\ turn[s] < Turns[s]
  /\ \/ Send(s, turn[s] + 1)
     \/ /\ phase' = [phase EXCEPT ![s] = "waiting"]
        /\ UNCHANGED <<turn, executed>>
  /\ UNCHANGED <<sem, freeAgents, agent, times, rowError, outcome>>

\* Mutant: a session may end on any success.
AnswerLastEarly(s) ==
  /\ AwaitsAnswer(s)
  /\ \E ok \in BOOLEAN : Record(s, ok)
  /\ Finish(s)
  /\ UNCHANGED <<turn, agent, executed, admitted, rowError, outcome>>

\* The last turn's success, or any turn's failure, ends the play.
AnswerLast(s) ==
  /\ AwaitsAnswer(s)
  /\ \/ Record(s, TRUE) /\ turn[s] = Turns[s]
     \/ Record(s, FALSE)
  /\ Finish(s)
  /\ UNCHANGED <<turn, agent, executed, admitted, rowError, outcome>>

\* emit raises the writer's row error: the slot is released, the agent is not returned.
AnswerRaises(s) ==
  /\ AwaitsAnswer(s)
  /\ rowError
  /\ Raise(s)
  /\ sem' = Release(sem)
  /\ UNCHANGED <<turn, freeAgents, agent, plan, times, rowError>>

\* The inter-turn wait is over.
WaitOver(s) ==
  /\ Looping
  /\ phase[s] = "waiting"
  /\ Send(s, turn[s] + 1)
  /\ UNCHANGED <<sem, freeAgents, agent, succeeded, failed, times, rowError, outcome>>

-------------------------------------------------------------------------------
(* The run. *)

\* The writer's thread could not write a row; the next append raises it.
RowWriteFails ==
  /\ Looping
  /\ ~rowError
  /\ rowError' = TRUE
  /\ UNCHANGED <<phase, turn, sem, freeAgents, agent, plan, times, outcome>>

\* gather returns once every session is done; a run without a success aborts.
Gathered ==
  /\ outcome = "running"
  /\ \A s \in Sessions : phase[s] = "done"
  /\ outcome' = IF succeeded = {} /\ failed # {} THEN "aborted" ELSE "ok"
  /\ UNCHANGED <<phase, turn, sem, freeAgents, agent, plan, times, rowError>>

\* The exception left asyncio.run, which cancels the sessions still at work.
Cancel ==
  /\ outcome = "raised"
  /\ outcome' = "cancelled"
  /\ UNCHANGED <<phase, turn, sem, freeAgents, agent, plan, times, rowError>>

Over == ~Looping /\ UNCHANGED vars

Step(s) ==
  \/ StartAdmitted(s) \/ StartQueued(s) \/ AdmitQueued(s)
  \/ AnswerNext(s) \/ AnswerLast(s) \/ AnswerRaises(s)
  \/ WaitOver(s)

Next == (\E s \in Sessions : Step(s)) \/ RowWriteFails \/ Gathered \/ Cancel \/ Over

Spec == Init /\ [][Next]_vars

\* Every timer fires, every request is answered (a driver bounds each one with a timeout), every task that can run
\* does.  Nothing makes a write fail.
FairSpec == Spec /\ (\A s \in Sessions : WF_vars(Step(s))) /\ WF_vars(Gathered) /\ WF_vars(Cancel)

-------------------------------------------------------------------------------
(* Properties. *)

Raised == \E s \in Sessions : phase[s] = "raised"
FreeAgents == {freeAgents[i] : i \in DOMAIN freeAgents}

\* No two open sessions hold one agent and no open session's agent is free: the plays agent_of gives one agent never
\* overlap, which is what the steady window's opening rule reads it for.
AgentExclusive ==
  /\ \A r, s \in Open : r # s => agent[r] # agent[s]
  /\ \A s \in Open : agent[s] \notin FreeAgents
  /\ \A i, j \in DOMAIN freeAgents : i # j => freeAgents[i] # freeAgents[j]

\* An agent keeps its session through the waits, so never more than C sessions are open (docs/session-replay.md:16).
OpenBounded == Cardinality(Open) <= C

\* Until a task raises, every agent is free or held: no path through a session loses one.
AgentsReturn == ~Raised => Agents = FreeAgents \cup {agent[s] : s \in Open}

\* Until a task raises, there is an agent in the list for every slot granted or grantable; so free_agents.pop(0)
\* fails only in the wake of a row's write error.
SlotsMatchAgents == ~Raised => Len(freeAgents) = Slots(sem)
PopNeverFails == Raised => rowError

\* A slot is never free beside a sleeping waiter: no agent idles while a session waits for one.
NoLostWakeup == NoneForgotten(sem)

\* The types and the bookkeeping behind the properties below, none of which a path through a session may disturb.
Inv == TypeOK /\ NoLostWakeup /\ AgentsReturn /\ SlotsMatchAgents

\* Of two sessions the one due earlier is admitted earlier, whatever order they finish in.
AdmittedInOrder ==
  \A r, s \in Sessions : StartsBefore(r, s) /\ admitted[s] > 0 =>
    (0 < admitted[r] /\ admitted[r] < admitted[s]) \/ phase[r] = "raised"

\* The first C admissions are the agents' first plays, as first_plays assumes of a run without agent_of.
AmongFirst(s) == admitted[s] > 0 /\ Cardinality({r \in Sessions : admitted[r] \in 1 .. admitted[s]}) <= C
FirstAdmissionsAreFirstPlays ==
  \A r, s \in Sessions : AmongFirst(r) /\ AmongFirst(s) /\ r # s => agent[r] # agent[s]

\* turns_not_sent: the planned turns after a session's failed one.
NotSent == {k \in Planned \ executed : \E u \in 1 .. k[2] - 1 : <<k[1], u>> \in failed}

\* identity's verdict for a run that reached its checks: nothing sent that was not planned, nothing planned that was
\* neither sent nor ruled out by a failed turn.
IdentityHolds == outcome = "ok" => executed \subseteq Planned /\ Planned \subseteq executed \cup NotSent

\* The promise of every replay.
Of(keys, s) == {t \in 1 .. Turns[s] : <<s, t>> \in keys}
SR == INSTANCE SessionReplay WITH
        sent <- [s \in Sessions |-> Cardinality(Of(executed, s))],
        answered <- [s \in Sessions |-> Cardinality(Of(succeeded \cup failed, s))],
        broken <- [s \in Sessions |-> Of(failed, s) # {}]
ReplaysSessions == SR!Spec

\* With every request answered the run ends: no session waits forever for an agent.
RunEnds == <>(outcome \in {"ok", "aborted", "cancelled"})

\* The comment in _per_session: "a session that finishes early frees its agent for the next session instead of a
\* fresh one".
Used == {agent[s] : s \in {r \in Sessions : finished[r] > 0}}
EarlyAgentGoesFirst ==
  [][\A s \in Sessions : admitted[s] = 0 /\ admitted'[s] > 0 /\ FreeAgents \cap Used # {} => agent'[s] \in Used]_vars
===============================================================================
