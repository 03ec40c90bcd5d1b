--------------------------- MODULE PerSessionProofs ---------------------------
(***************************************************************************)
(* Proofs about PerSession, for every number of sessions, agents and turns *)
(* and every order of starts.                                              *)
(***************************************************************************)
EXTENDS PerSession, AsyncSemaphoreProofs, FiniteSetTheorems

\* A session stays within its turns, one in a wait has a turn left, and an open one holds an agent.
InTurns ==
  \A s \in Sessions :
    /\ turn[s] \in 1 .. Turns[s]
    /\ phase[s] = "waiting" => turn[s] < Turns[s]
    /\ phase[s] = "sending" => <<s, turn[s]>> \in executed
    /\ phase[s] \in {"sending", "waiting"} => agent[s] \in Agents

\* The type invariant with what makes it inductive.
TInv == TypeOK /\ Sound(sem) /\ InTurns

\* A planned key is a session and one of its turns.
LEMMA PlannedKey ==
  ASSUME NEW s \in Sessions, NEW t \in 1 .. Turns[s]
  PROVE  <<s, t>> \in Planned
BY DEF Planned

\* A request goes out: the plan's keys and the phases keep their types.
LEMMA SendType ==
  ASSUME TInv, NEW s \in Sessions, NEW t \in 1 .. Turns[s], Send(s, t),
         agent' \in [Sessions -> Agents \cup {NoAgent}], agent'[s] \in Agents,
         \A r \in Sessions : r # s => agent'[r] = agent[r]
  PROVE  /\ phase' \in [Sessions -> {"asleep", "queued", "sending", "waiting", "done", "raised"}]
         /\ turn' \in [Sessions -> Nat]
         /\ executed' \subseteq Planned /\ executed \subseteq executed'
         /\ InTurns'
<1>1. Turns[s] \in Nat
  BY TurnsAssumption
<1>2. executed' \subseteq Planned
  BY PlannedKey DEF Send, TInv, TypeOK
<1>3. QED
  BY <1>1, <1>2 DEF Send, TInv, TypeOK, InTurns

\* A session takes an agent.
LEMMA AdmitType ==
  ASSUME TInv, NEW s \in Sessions, Admit(s)
  PROVE  /\ phase' \in [Sessions -> {"asleep", "queued", "sending", "waiting", "done", "raised"}]
         /\ turn' \in [Sessions -> Nat]
         /\ executed' \subseteq Planned /\ executed \subseteq executed'
         /\ InTurns'
         /\ freeAgents' \in Seq(Agents)
         /\ agent' \in [Sessions -> Agents \cup {NoAgent}]
         /\ admitted' \in [Sessions -> Nat] /\ clock' \in Nat
<1>1. Turns[s] \in Nat \ {0}
  BY TurnsAssumption
<1>2. 1 \in 1 .. Turns[s]
  BY <1>1
<1>3. Send(s, 1)
  BY DEF Admit
<1>4. Head(freeAgents) \in Agents /\ Tail(freeAgents) \in Seq(Agents)
  BY HeadTailProperties DEF Admit, TInv, TypeOK
<1>5. /\ freeAgents' \in Seq(Agents)
      /\ agent' \in [Sessions -> Agents \cup {NoAgent}]
      /\ admitted' \in [Sessions -> Nat] /\ clock' \in Nat
  BY <1>4 DEF Admit, TInv, TypeOK
<1>6. QED
  BY <1>2, <1>3, <1>4, <1>5, SendType DEF Admit, TInv, TypeOK

\* Recording an answer keeps the types of what is recorded.
LEMMA RecordType ==
  ASSUME TInv, NEW s \in Sessions, NEW ok \in BOOLEAN, phase[s] = "sending", Record(s, ok)
  PROVE  succeeded' \subseteq executed /\ failed' \subseteq executed
BY DEF Record, TInv, TypeOK, InTurns

\* A turn before the last is followed by one of the plan.
LEMMA NextTurn ==
  ASSUME TInv, NEW s \in Sessions, turn[s] < Turns[s]
  PROVE  turn[s] + 1 \in 1 .. Turns[s]
<1>1. Turns[s] \in Nat /\ turn[s] \in Nat
  BY TurnsAssumption DEF TInv, TypeOK
<1>2. turn[s] \in 1 .. Turns[s]
  BY DEF TInv, InTurns
<1>3. QED
  BY <1>1, <1>2

LEMMA InitTInv == Init => TInv
<1> SUFFICES ASSUME Init PROVE TInv
  OBVIOUS
<1>1. sem \in Semaphore(Sessions) /\ Sound(sem)
  BY CountsAssumption, NewSound DEF Init
<1>2. freeAgents \in Seq(Agents)
  <2>1. freeAgents \in [1 .. C -> Agents]
    BY CountsAssumption DEF Init, Agents
  <2>2. QED
    BY <2>1, CountsAssumption, SeqDef
<1>3. \A s \in Sessions : 1 \in 1 .. Turns[s]
  BY TurnsAssumption
<1>4. TypeOK /\ InTurns
  BY <1>1, <1>2, <1>3 DEF Init, TypeOK, InTurns
<1>5. QED
  BY <1>1, <1>4 DEF TInv

LEMMA NextTInv == TInv /\ [Next]_vars => TInv'
<1> SUFFICES ASSUME TInv, [Next]_vars PROVE TInv'
  OBVIOUS
<1> USE DEF TInv
<1>1. ASSUME NEW s \in Sessions, StartAdmitted(s)
      PROVE  TInv'
  <2>1. /\ Take(sem) \in Semaphore(Sessions) /\ Sound(Take(sem))
        /\ Release(Take(sem)) \in Semaphore(Sessions) /\ Sound(Release(Take(sem)))
    BY <1>1, TakeSound, ReleaseSound DEF StartAdmitted, TypeOK
  <2>2. CASE Admit(s) /\ sem' = Take(sem) /\ UNCHANGED outcome
    BY <1>1, <2>1, <2>2, AdmitType DEF StartAdmitted, TypeOK
  <2>3. CASE PopFails(s) /\ sem' = Release(Take(sem))
    BY <1>1, <2>1, <2>3 DEF StartAdmitted, PopFails, Raise, TypeOK, InTurns
  <2>4. QED
    BY <1>1, <2>2, <2>3 DEF StartAdmitted
<1>2. ASSUME NEW s \in Sessions, StartQueued(s)
      PROVE  TInv'
  <2>1. Enqueue(sem, s) \in Semaphore(Sessions) /\ Sound(Enqueue(sem, s))
    BY <1>2, EnqueueSound DEF StartQueued, TypeOK
  <2>2. QED
    BY <1>2, <2>1 DEF StartQueued, TypeOK, InTurns, plan, times
<1>3. ASSUME NEW s \in Sessions, AdmitQueued(s)
      PROVE  TInv'
  <2>1. /\ Resume(sem) \in Semaphore(Sessions) /\ Sound(Resume(sem))
        /\ Release(Resume(sem)) \in Semaphore(Sessions) /\ Sound(Release(Resume(sem)))
    BY <1>3, ResumeSound, ReleaseSound DEF AdmitQueued, TypeOK
  <2>2. CASE Admit(s) /\ sem' = Resume(sem) /\ UNCHANGED outcome
    BY <1>3, <2>1, <2>2, AdmitType DEF AdmitQueued, TypeOK
  <2>3. CASE PopFails(s) /\ sem' = Release(Resume(sem))
    BY <1>3, <2>1, <2>3 DEF AdmitQueued, PopFails, Raise, TypeOK, InTurns
  <2>4. QED
    BY <1>3, <2>2, <2>3 DEF AdmitQueued
<1>4. ASSUME NEW s \in Sessions, AnswerNext(s)
      PROVE  TInv'
  <2>1. succeeded' \subseteq executed /\ failed' \subseteq executed
    BY <1>4, RecordType DEF AnswerNext, AwaitsAnswer
  <2>2. CASE Send(s, turn[s] + 1)
    <3>1. turn[s] + 1 \in 1 .. Turns[s]
      BY <1>4, NextTurn DEF AnswerNext
    <3>2. agent[s] \in Agents
      BY <1>4 DEF AnswerNext, AwaitsAnswer, InTurns
    <3>3. QED
      BY <1>4, <2>1, <2>2, <3>1, <3>2, SendType DEF AnswerNext, TypeOK, times
  <2>3. CASE phase' = [phase EXCEPT ![s] = "waiting"] /\ UNCHANGED <<turn, executed>>
    BY <1>4, <2>1, <2>3 DEF AnswerNext, AwaitsAnswer, TypeOK, InTurns, times
  <2>4. QED
    BY <1>4, <2>2, <2>3 DEF AnswerNext
<1>5. ASSUME NEW s \in Sessions, AnswerLast(s)
      PROVE  TInv'
  <2>1. succeeded' \subseteq executed /\ failed' \subseteq executed
    BY <1>5, RecordType DEF AnswerLast, AwaitsAnswer
  <2>2. Release(sem) \in Semaphore(Sessions) /\ Sound(Release(sem))
    BY ReleaseSound DEF TypeOK
  <2>3. freeAgents' \in Seq(Agents)
    <3>1. agent[s] \in Agents /\ freeAgents' = Append(freeAgents, agent[s])
      BY <1>5 DEF AnswerLast, AwaitsAnswer, Finish, InTurns
    <3>2. QED
      BY <3>1, AppendProperties DEF TypeOK
  <2>4. TypeOK'
    BY <1>5, <2>1, <2>2, <2>3 DEF AnswerLast, Finish, TypeOK
  <2>5. InTurns'
    BY <1>5 DEF AnswerLast, Finish, TypeOK, InTurns
  <2>6. QED
    BY <1>5, <2>2, <2>4, <2>5 DEF AnswerLast, Finish
<1>6. ASSUME NEW s \in Sessions, AnswerRaises(s)
      PROVE  TInv'
  <2>1. Release(sem) \in Semaphore(Sessions) /\ Sound(Release(sem))
    BY ReleaseSound DEF TypeOK
  <2>2. QED
    BY <1>6, <2>1 DEF AnswerRaises, Raise, TypeOK, InTurns, plan, times
<1>7. ASSUME NEW s \in Sessions, WaitOver(s)
      PROVE  TInv'
  <2>1. turn[s] + 1 \in 1 .. Turns[s] /\ agent[s] \in Agents
    BY <1>7, NextTurn DEF WaitOver, InTurns
  <2>2. QED
    BY <1>7, <2>1, SendType DEF WaitOver, TypeOK, times
<1>8. CASE RowWriteFails
  BY <1>8 DEF RowWriteFails, TypeOK, InTurns, plan, times
<1>9. CASE Gathered
  BY <1>9 DEF Gathered, TypeOK, InTurns, plan, times
<1>10. CASE Cancel
  BY <1>10 DEF Cancel, TypeOK, InTurns, plan, times
<1>11. CASE UNCHANGED vars
  BY <1>11 DEF vars, TypeOK, InTurns, plan, times
<1>12. QED
  BY <1>1, <1>2, <1>3, <1>4, <1>5, <1>6, <1>7, <1>8, <1>9, <1>10, <1>11 DEF Next, Step, Over

\* Every reachable state has the types TypeOK gives, and its semaphore forgets no waiter.
THEOREM Typing == Spec => [](TypeOK /\ NoLostWakeup)
<1>1. TInv => TypeOK /\ NoLostWakeup
  BY DEF TInv, Sound, NoLostWakeup
<1>2. QED
  BY <1>1, InitTInv, NextTInv, PTL DEF Spec

-------------------------------------------------------------------------------
(* Agents. *)

\* A step that opens no session and moves no agent keeps agents exclusive.
LEMMA KeepsExclusive ==
  ASSUME AgentExclusive, Open' \subseteq Open, UNCHANGED <<agent, freeAgents>>
  PROVE  AgentExclusive'
BY DEF AgentExclusive, FreeAgents

\* Taking the head of the list leaves the agent with the session alone.
LEMMA AdmitExclusive ==
  ASSUME TInv, AgentExclusive, NEW s \in Sessions, Admit(s)
  PROVE  AgentExclusive'
<1>1. /\ freeAgents \in Seq(Agents) /\ freeAgents # <<>>
      /\ freeAgents' = Tail(freeAgents)
      /\ agent' = [agent EXCEPT ![s] = Head(freeAgents)]
      /\ agent \in [Sessions -> Agents \cup {NoAgent}]
  BY DEF Admit, TInv, TypeOK
<1>2. /\ Head(freeAgents) = freeAgents[1] /\ Len(freeAgents) \in Nat \ {0}
      /\ DOMAIN freeAgents = 1 .. Len(freeAgents)
      /\ DOMAIN freeAgents' = 1 .. Len(freeAgents) - 1
      /\ \A i \in 1 .. Len(freeAgents) - 1 : freeAgents'[i] = freeAgents[i + 1]
  BY <1>1, EmptySeq, HeadTailProperties, LenProperties
<1>3. FreeAgents' \subseteq FreeAgents /\ Head(freeAgents) \notin FreeAgents'
  BY <1>2 DEF AgentExclusive, FreeAgents
<1>4. Head(freeAgents) \in FreeAgents
  BY <1>2 DEF FreeAgents
<1>5. Open' \subseteq Open \cup {s}
  BY DEF Admit, Send, Open, TInv, TypeOK
<1>6. \A r \in Open' : r # s => r \in Open /\ agent'[r] = agent[r]
  BY <1>1, <1>5 DEF Open
<1>7. agent'[s] = Head(freeAgents)
  BY <1>1
<1>8. \A i, j \in DOMAIN freeAgents' : i # j => freeAgents'[i] # freeAgents'[j]
  <2>1. \A i \in DOMAIN freeAgents' : i \in Nat /\ i + 1 \in DOMAIN freeAgents /\ freeAgents'[i] = freeAgents[i + 1]
    BY <1>2
  <2>2. \A i, j \in DOMAIN freeAgents' : i # j => i + 1 # j + 1
    BY <2>1
  <2>3. QED
    BY <2>1, <2>2 DEF AgentExclusive
<1>9. QED
  BY <1>3, <1>4, <1>5, <1>6, <1>7, <1>8 DEF AgentExclusive

\* Returning the agent at the list's end takes it from the session.
LEMMA FinishExclusive ==
  ASSUME TInv, AgentExclusive, NEW s \in Open, Finish(s), UNCHANGED agent
  PROVE  AgentExclusive'
<1>1. agent[s] \in Agents /\ freeAgents \in Seq(Agents) /\ freeAgents' = Append(freeAgents, agent[s])
  BY DEF Finish, Open, TInv, TypeOK, InTurns
<1>2. /\ DOMAIN freeAgents = 1 .. Len(freeAgents) /\ Len(freeAgents) \in Nat
      /\ DOMAIN freeAgents' = 1 .. Len(freeAgents) + 1
      /\ \A i \in 1 .. Len(freeAgents) : freeAgents'[i] = freeAgents[i]
      /\ freeAgents'[Len(freeAgents) + 1] = agent[s]
  BY <1>1, AppendProperties, LenProperties
<1>3. FreeAgents' \subseteq FreeAgents \cup {agent[s]}
  BY <1>2 DEF FreeAgents
<1>4. Open' \subseteq Open \ {s}
  BY DEF Finish, Open, TInv, TypeOK
<1>5. \A r \in Open' : r \in Open /\ r # s /\ agent'[r] = agent[r]
  BY <1>4
<1>6. \A i, j \in DOMAIN freeAgents' : i # j => freeAgents'[i] # freeAgents'[j]
  BY <1>2 DEF AgentExclusive, FreeAgents
<1>7. QED
  BY <1>3, <1>5, <1>6 DEF AgentExclusive

LEMMA InitExclusive == Init => AgentExclusive
BY CountsAssumption DEF Init, AgentExclusive, Open

LEMMA NextExclusive == TInv /\ AgentExclusive /\ [Next]_vars => AgentExclusive'
<1> SUFFICES ASSUME TInv, AgentExclusive, [Next]_vars PROVE AgentExclusive'
  OBVIOUS
<1>1. ASSUME NEW s \in Sessions, Admit(s)
      PROVE  AgentExclusive'
  BY <1>1, AdmitExclusive
<1>2. ASSUME NEW s \in Sessions, PopFails(s)
      PROVE  AgentExclusive'
  BY <1>2, KeepsExclusive DEF PopFails, Raise, Open, TInv, TypeOK
<1>3. ASSUME NEW s \in Sessions, StartQueued(s) \/ AnswerRaises(s)
      PROVE  AgentExclusive'
  BY <1>3, KeepsExclusive DEF StartQueued, AnswerRaises, Raise, Open, TInv, TypeOK
<1>4. ASSUME NEW s \in Sessions, AnswerNext(s) \/ WaitOver(s)
      PROVE  AgentExclusive'
  BY <1>4, KeepsExclusive DEF AnswerNext, AwaitsAnswer, WaitOver, Send, Open, TInv, TypeOK
<1>5. ASSUME NEW s \in Sessions, AnswerLast(s)
      PROVE  AgentExclusive'
  BY <1>5, FinishExclusive DEF AnswerLast, AwaitsAnswer, Open
<1>6. CASE RowWriteFails \/ Gathered \/ Cancel \/ UNCHANGED vars
  BY <1>6, KeepsExclusive DEF RowWriteFails, Gathered, Cancel, vars, Open
<1>7. QED
  BY <1>1, <1>2, <1>3, <1>4, <1>5, <1>6 DEF Next, Step, StartAdmitted, AdmitQueued, Over

\* No two open sessions ever hold one agent, and no held agent is in the free list.
THEOREM AgentsExclusive == Spec => []AgentExclusive
BY InitTInv, NextTInv, InitExclusive, NextExclusive, PTL DEF Spec

\* Never more than C sessions are open: each holds an agent of its own.
THEOREM OpenSessionsBounded == Spec => []OpenBounded
<1>1. TInv /\ AgentExclusive => OpenBounded
  <2> SUFFICES ASSUME TInv, AgentExclusive PROVE OpenBounded
    OBVIOUS
  <2> DEFINE holds == [s \in Open |-> agent[s]]
  <2>1. holds \in Injection(Open, Agents)
    BY DEF TInv, InTurns, Open, AgentExclusive, Injection, IsInjective
  <2>2. IsFiniteSet(Agents) /\ Cardinality(Agents) = C
    BY CountsAssumption, FS_Interval DEF Agents
  <2>3. QED
    BY <2>1, <2>2, FS_Injection DEF OpenBounded
<1>2. QED
  BY <1>1, InitTInv, NextTInv, InitExclusive, NextExclusive, PTL DEF Spec

-------------------------------------------------------------------------------
(* Slots. *)

\* The semaphore's queue holds distinct sessions, each suspended in it.
QueueInv ==
  /\ \A i \in DOMAIN sem.waiters : phase[sem.waiters[i]] = "queued"
  /\ \A i, j \in DOMAIN sem.waiters : i # j => sem.waiters[i] # sem.waiters[j]

\* Every slot has its agent in the list, until a row error makes a task raise.
SlotsInv == SlotsMatchAgents /\ PopNeverFails

\* Actions on a session outside the queue leave the queue as it is.
LEMMA QueueKept ==
  ASSUME TInv, QueueInv, NEW s \in Sessions, phase[s] # "queued", sem'.waiters = sem.waiters,
         \A r \in Sessions : r # s => phase'[r] = phase[r]
  PROVE  QueueInv'
<1>1. \A i \in DOMAIN sem.waiters : sem.waiters[i] \in Sessions
  BY ElementOfSeq, LenProperties DEF TInv, TypeOK, Semaphore
<1>2. QED
  BY <1>1 DEF QueueInv

\* The head of the queue leaves it.
LEMMA QueueLeft ==
  ASSUME TInv, QueueInv, Runnable(sem), sem'.waiters = Tail(sem.waiters),
         \A r \in Sessions : r # Head(sem.waiters) => phase'[r] = phase[r]
  PROVE  QueueInv'
<1>1. sem.waiters \in Seq(Sessions) /\ sem.waiters # <<>>
  BY EmptySeq DEF TInv, TypeOK, Semaphore, Sound, Runnable
<1>2. /\ Head(sem.waiters) = sem.waiters[1] /\ Len(sem.waiters) \in Nat \ {0}
      /\ DOMAIN sem.waiters = 1 .. Len(sem.waiters)
      /\ DOMAIN Tail(sem.waiters) = 1 .. Len(sem.waiters) - 1
      /\ \A i \in 1 .. Len(sem.waiters) - 1 : Tail(sem.waiters)[i] = sem.waiters[i + 1]
      /\ \A i \in 1 .. Len(sem.waiters) : sem.waiters[i] \in Sessions
  BY <1>1, EmptySeq, HeadTailProperties, LenProperties, ElementOfSeq
<1>3. ASSUME NEW i \in DOMAIN sem'.waiters
      PROVE  /\ i \in 1 .. Len(sem.waiters) - 1 /\ i + 1 \in DOMAIN sem.waiters
             /\ sem'.waiters[i] = sem.waiters[i + 1]
             /\ phase'[sem'.waiters[i]] = "queued"
  <2>1. /\ i \in 1 .. Len(sem.waiters) - 1 /\ i + 1 \in 1 .. Len(sem.waiters) /\ i + 1 # 1
        /\ sem'.waiters[i] = sem.waiters[i + 1]
    BY <1>2
  <2>2. 1 \in DOMAIN sem.waiters /\ i + 1 \in DOMAIN sem.waiters
    BY <1>2, <2>1
  <2>3. sem.waiters[i + 1] # sem.waiters[1]
    BY <2>1, <2>2 DEF QueueInv
  <2>4. phase'[sem.waiters[i + 1]] = phase[sem.waiters[i + 1]]
    BY <1>2, <2>1, <2>3
  <2>5. QED
    BY <2>1, <2>2, <2>4 DEF QueueInv
<1>4. ASSUME NEW i \in DOMAIN sem'.waiters, NEW j \in DOMAIN sem'.waiters, i # j
      PROVE  sem'.waiters[i] # sem'.waiters[j]
  <2>1. i + 1 # j + 1
    BY <1>2, <1>4
  <2>2. QED
    BY <1>3, <2>1 DEF QueueInv
<1>5. QED
  BY <1>3, <1>4 DEF QueueInv

LEMMA NextQueue == TInv /\ QueueInv /\ [Next]_vars => QueueInv'
<1> SUFFICES ASSUME TInv, QueueInv, [Next]_vars PROVE QueueInv'
  OBVIOUS
<1>1. ASSUME NEW s \in Sessions, StartAdmitted(s)
      PROVE  QueueInv'
  <2>1. sem'.waiters = sem.waiters
    BY <1>1 DEF StartAdmitted, Locked, Take, Release, Asleep, TInv, TypeOK, Semaphore
  <2>2. phase[s] = "asleep" /\ \A r \in Sessions : r # s => phase'[r] = phase[r]
    BY <1>1 DEF StartAdmitted, InTurnToStart, Admit, Send, PopFails, Raise, TInv, TypeOK
  <2>3. QED
    BY <2>1, <2>2, QueueKept
<1>2. ASSUME NEW s \in Sessions, StartQueued(s)
      PROVE  QueueInv'
  <2>1. /\ sem.waiters \in Seq(Sessions) /\ sem'.waiters = Append(sem.waiters, s)
        /\ phase[s] = "asleep" /\ phase' = [phase EXCEPT ![s] = "queued"]
    BY <1>2 DEF StartQueued, InTurnToStart, Enqueue, TInv, TypeOK, Semaphore
  <2>2. /\ DOMAIN sem.waiters = 1 .. Len(sem.waiters) /\ Len(sem.waiters) \in Nat
        /\ DOMAIN sem'.waiters = 1 .. Len(sem.waiters) + 1
        /\ \A i \in 1 .. Len(sem.waiters) : sem'.waiters[i] = sem.waiters[i] /\ sem.waiters[i] \in Sessions
        /\ sem'.waiters[Len(sem.waiters) + 1] = s
    BY <2>1, AppendProperties, LenProperties, ElementOfSeq
  <2>3. \A i \in 1 .. Len(sem.waiters) : sem.waiters[i] # s /\ phase'[sem.waiters[i]] = "queued"
    BY <2>1, <2>2 DEF QueueInv, TInv, TypeOK
  <2>4. phase'[s] = "queued"
    BY <2>1 DEF TInv, TypeOK
  <2>5. ASSUME NEW i \in DOMAIN sem'.waiters, NEW j \in DOMAIN sem'.waiters, i # j
        PROVE  sem'.waiters[i] # sem'.waiters[j]
    <3>1. CASE i \in 1 .. Len(sem.waiters) /\ j \in 1 .. Len(sem.waiters)
      BY <2>2, <2>5, <3>1 DEF QueueInv
    <3>2. CASE i = Len(sem.waiters) + 1 \/ j = Len(sem.waiters) + 1
      BY <2>2, <2>3, <2>5, <3>2
    <3>3. QED
      BY <2>2, <3>1, <3>2
  <2>6. \A i \in DOMAIN sem'.waiters : phase'[sem'.waiters[i]] = "queued"
    BY <2>2, <2>3, <2>4
  <2>7. QED
    BY <2>5, <2>6 DEF QueueInv
<1>3. ASSUME NEW s \in Sessions, AdmitQueued(s)
      PROVE  QueueInv'
  <2>1. Runnable(sem) /\ s = Head(sem.waiters)
    BY <1>3 DEF AdmitQueued
  <2>2. sem'.waiters = Tail(sem.waiters)
    <3>1. Resume(sem) \in Semaphore(Sessions) /\ Resume(sem).waiters = Tail(sem.waiters)
      BY <2>1, ResumeSound DEF Resume, TInv, TypeOK
    <3>2. Release(Resume(sem)).waiters = Tail(sem.waiters)
      BY <3>1 DEF Release, Semaphore
    <3>3. QED
      BY <1>3, <3>1, <3>2 DEF AdmitQueued
  <2>3. \A r \in Sessions : r # s => phase'[r] = phase[r]
    BY <1>3 DEF AdmitQueued, Admit, Send, PopFails, Raise, TInv, TypeOK
  <2>4. QED
    BY <2>1, <2>2, <2>3, QueueLeft
<1>4. ASSUME NEW s \in Sessions, AnswerNext(s) \/ AnswerLast(s) \/ AnswerRaises(s) \/ WaitOver(s)
      PROVE  QueueInv'
  <2>1. phase[s] # "queued" /\ \A r \in Sessions : r # s => phase'[r] = phase[r]
    BY <1>4 DEF AnswerNext, AnswerLast, AnswerRaises, WaitOver, AwaitsAnswer, Send, Finish, Raise, TInv, TypeOK
  <2>2. sem'.waiters = sem.waiters
    BY <1>4 DEF AnswerNext, AnswerLast, AnswerRaises, WaitOver, Finish, Release, TInv, TypeOK, Semaphore
  <2>3. QED
    BY <2>1, <2>2, QueueKept
<1>5. CASE RowWriteFails \/ Gathered \/ Cancel \/ UNCHANGED vars
  BY <1>5 DEF RowWriteFails, Gathered, Cancel, vars, QueueInv
<1>6. QED
  BY <1>1, <1>2, <1>3, <1>4, <1>5 DEF Next, Step, Over

LEMMA InitQueue == Init => QueueInv
BY DEF Init, QueueInv, NewSemaphore

LEMMA InitSlots == Init => SlotsInv
<1> SUFFICES ASSUME Init PROVE SlotsInv
  OBVIOUS
<1>1. Slots(sem) = C /\ ~Raised
  BY CountsAssumption, NewSound DEF Init, Raised
<1>2. Len(freeAgents) = C
  BY CountsAssumption, LenProperties, InitTInv DEF Init, TInv, TypeOK
<1>3. QED
  BY <1>1, <1>2 DEF SlotsInv, SlotsMatchAgents, PopNeverFails

\* A session admitted on a slot taken or handed over uses the slot up with an agent; the list cannot be empty.
LEMMA AdmitSlots ==
  ASSUME TInv, SlotsInv, NEW s \in Sessions, phase[s] # "raised",
         NEW given \in Semaphore(Sessions), Sound(given),
         Slots(given) = Slots(sem) - 1, Slots(sem) > 0, UNCHANGED rowError,
         \/ sem' = given /\ Admit(s)
         \/ sem' = Release(given) /\ PopFails(s)
  PROVE  SlotsInv'
<1>1. CASE sem' = given /\ Admit(s)
  <2>1. Len(freeAgents') = Len(freeAgents) - 1
    BY <1>1, HeadTailProperties DEF Admit, TInv, TypeOK
  <2>2. Raised' <=> Raised
    BY <1>1 DEF Admit, Send, Raised, TInv, TypeOK
  <2>3. QED
    BY <1>1, <2>1, <2>2 DEF SlotsInv, SlotsMatchAgents, PopNeverFails
<1>2. CASE sem' = Release(given) /\ PopFails(s)
  <2>1. Len(freeAgents) = 0
    BY <1>2, EmptySeq DEF PopFails
  <2>2. Raised
    BY <2>1 DEF SlotsInv, SlotsMatchAgents
  <2>3. Raised'
    BY <1>2 DEF PopFails, Raise, Raised, TInv, TypeOK
  <2>4. QED
    BY <2>2, <2>3 DEF SlotsInv, SlotsMatchAgents, PopNeverFails
<1>3. QED
  BY <1>1, <1>2

LEMMA NextSlots == TInv /\ QueueInv /\ SlotsInv /\ [Next]_vars => SlotsInv'
<1> SUFFICES ASSUME TInv, QueueInv, SlotsInv, [Next]_vars PROVE SlotsInv'
  OBVIOUS
<1> USE DEF SlotsInv, SlotsMatchAgents, PopNeverFails
<1>1. ASSUME NEW s \in Sessions, StartAdmitted(s)
      PROVE  SlotsInv'
  <2>1. /\ Take(sem) \in Semaphore(Sessions) /\ Sound(Take(sem))
        /\ Slots(Take(sem)) = Slots(sem) - 1 /\ Slots(sem) > 0
    BY <1>1, TakeSound DEF StartAdmitted, TInv, TypeOK
  <2>2. phase[s] # "raised" /\ UNCHANGED rowError
    BY <1>1 DEF StartAdmitted, InTurnToStart
  <2>3. QED
    BY <1>1, <2>1, <2>2, AdmitSlots DEF StartAdmitted
<1>2. ASSUME NEW s \in Sessions, StartQueued(s)
      PROVE  SlotsInv'
  <2>1. Slots(sem') = Slots(sem)
    BY <1>2, EnqueueSound DEF StartQueued, TInv, TypeOK
  <2>2. Raised' <=> Raised
    BY <1>2 DEF StartQueued, InTurnToStart, Raised, TInv, TypeOK
  <2>3. QED
    BY <1>2, <2>1, <2>2 DEF StartQueued
<1>3. ASSUME NEW s \in Sessions, AdmitQueued(s)
      PROVE  SlotsInv'
  <2>1. /\ Resume(sem) \in Semaphore(Sessions) /\ Sound(Resume(sem))
        /\ Slots(Resume(sem)) = Slots(sem) - 1 /\ Slots(sem) > 0
    BY <1>3, ResumeSound DEF AdmitQueued, TInv, TypeOK
  <2>2. sem.waiters # <<>> /\ s = sem.waiters[1] /\ 1 \in DOMAIN sem.waiters
    BY <1>3, EmptySeq, HeadTailProperties, LenProperties
    DEF AdmitQueued, Runnable, TInv, TypeOK, Sound, Semaphore
  <2>3. phase[s] # "raised" /\ UNCHANGED rowError
    BY <1>3, <2>2 DEF AdmitQueued, QueueInv
  <2>4. QED
    BY <1>3, <2>1, <2>3, AdmitSlots DEF AdmitQueued
<1>4. ASSUME NEW s \in Sessions, AnswerNext(s) \/ WaitOver(s)
      PROVE  SlotsInv'
  <2>1. Raised' <=> Raised
    BY <1>4 DEF AnswerNext, WaitOver, AwaitsAnswer, Send, Raised, TInv, TypeOK
  <2>2. QED
    BY <1>4, <2>1 DEF AnswerNext, WaitOver
<1>5. ASSUME NEW s \in Sessions, AnswerLast(s)
      PROVE  SlotsInv'
  <2>1. Slots(sem') = Slots(sem) + 1
    BY <1>5, ReleaseSound DEF AnswerLast, Finish, TInv, TypeOK
  <2>2. Len(freeAgents') = Len(freeAgents) + 1
    BY <1>5, AppendProperties DEF AnswerLast, AwaitsAnswer, Finish, TInv, TypeOK, InTurns
  <2>3. Raised' <=> Raised
    BY <1>5 DEF AnswerLast, AwaitsAnswer, Finish, Raised, TInv, TypeOK
  <2>4. QED
    BY <1>5, <2>1, <2>2, <2>3 DEF AnswerLast
<1>6. ASSUME NEW s \in Sessions, AnswerRaises(s)
      PROVE  SlotsInv'
  BY <1>6 DEF AnswerRaises, Raise, Raised, TInv, TypeOK
<1>7. CASE RowWriteFails \/ Gathered \/ Cancel \/ UNCHANGED vars
  BY <1>7 DEF RowWriteFails, Gathered, Cancel, vars, Raised
<1>8. QED
  BY <1>1, <1>2, <1>3, <1>4, <1>5, <1>6, <1>7 DEF Next, Step, Over

\* Until a row error makes a task raise there is an agent in the list for every slot, so a pop never fails.
THEOREM SlotsHaveAgents == Spec => [](SlotsMatchAgents /\ PopNeverFails)
<1>1. SlotsInv => SlotsMatchAgents /\ PopNeverFails
  BY DEF SlotsInv
<1>2. QED
  BY <1>1, InitTInv, NextTInv, InitQueue, NextQueue, InitSlots, NextSlots, PTL DEF Spec

\* The queue's head is a session suspended in it.
LEMMA QueuedHead ==
  ASSUME TInv, QueueInv, Runnable(sem)
  PROVE  Head(sem.waiters) \in Sessions /\ phase[Head(sem.waiters)] = "queued"
<1>1. sem.waiters \in Seq(Sessions) /\ sem.waiters # <<>>
  BY EmptySeq DEF TInv, TypeOK, Semaphore, Sound, Runnable
<1>2. Head(sem.waiters) = sem.waiters[1] /\ 1 \in DOMAIN sem.waiters /\ Head(sem.waiters) \in Sessions
  BY <1>1, EmptySeq, HeadTailProperties, LenProperties
<1>3. QED
  BY <1>2 DEF QueueInv

\* A task that raised stays raised.
LEMMA RaisedStays ==
  ASSUME TInv, QueueInv, [Next]_vars, Raised
  PROVE  Raised'
<1>1. PICK r \in Sessions : phase[r] = "raised"
  BY DEF Raised
<1>2. ASSUME NEW s \in Sessions, Step(s)
      PROVE  phase'[r] = "raised"
  <2>1. CASE r = s
    <3>1. CASE AdmitQueued(s)
      BY <1>1, <2>1, <3>1, QueuedHead DEF AdmitQueued
    <3>2. CASE ~AdmitQueued(s)
      BY <1>1, <1>2, <2>1, <3>2
      DEF Step, StartAdmitted, StartQueued, InTurnToStart, AnswerNext, AnswerLast, AnswerRaises, AwaitsAnswer, WaitOver
    <3>3. QED
      BY <3>1, <3>2
  <2>2. CASE r # s
    BY <1>1, <1>2, <2>2
    DEF Step, StartAdmitted, StartQueued, AdmitQueued, AnswerNext, AnswerLast, AnswerRaises, WaitOver,
        Admit, Send, PopFails, Raise, Finish, TInv, TypeOK
  <2>3. QED
    BY <2>1, <2>2
<1>3. CASE RowWriteFails \/ Gathered \/ Cancel \/ UNCHANGED vars
  BY <1>1, <1>3 DEF RowWriteFails, Gathered, Cancel, vars, Raised
<1>4. QED
  BY <1>1, <1>2, <1>3 DEF Next, Over, Raised

LEMMA InitAgentsReturn == Init => AgentsReturn
<1> SUFFICES ASSUME Init PROVE Agents \subseteq FreeAgents /\ FreeAgents \subseteq Agents /\ Open = {}
  BY DEF AgentsReturn
<1>1. DOMAIN freeAgents = 1 .. C /\ \A i \in 1 .. C : freeAgents[i] = i - 1
  BY DEF Init
<1>2. \A a \in Agents : a + 1 \in 1 .. C /\ freeAgents[a + 1] = a
  BY <1>1, CountsAssumption DEF Agents
<1>3. Agents \subseteq FreeAgents
  BY <1>1, <1>2 DEF FreeAgents
<1>4. FreeAgents \subseteq Agents
  <2>1. \A i \in 1 .. C : i - 1 \in Agents
    BY CountsAssumption DEF Agents
  <2>2. QED
    BY <1>1, <2>1 DEF FreeAgents
<1>5. Open = {}
  BY DEF Init, Open
<1>6. QED
  BY <1>3, <1>4, <1>5

\* Taking the head of the list moves one agent from the free to the held.
LEMMA AdmitAgents ==
  ASSUME TInv, AgentsReturn, NEW s \in Sessions, s \notin Open, Admit(s), ~Raised
  PROVE  AgentsReturn'
<1>1. /\ freeAgents \in Seq(Agents) /\ freeAgents # <<>>
      /\ freeAgents' = Tail(freeAgents)
      /\ agent' = [agent EXCEPT ![s] = Head(freeAgents)]
      /\ agent \in [Sessions -> Agents \cup {NoAgent}]
  BY DEF Admit, TInv, TypeOK
<1>2. /\ Head(freeAgents) = freeAgents[1] /\ Len(freeAgents) \in Nat \ {0}
      /\ DOMAIN freeAgents = 1 .. Len(freeAgents)
      /\ DOMAIN freeAgents' = 1 .. Len(freeAgents) - 1
      /\ \A i \in 1 .. Len(freeAgents) - 1 : freeAgents'[i] = freeAgents[i + 1]
  BY <1>1, EmptySeq, HeadTailProperties, LenProperties
<1>3. FreeAgents = FreeAgents' \cup {Head(freeAgents)}
  <2>1. ASSUME NEW i \in DOMAIN freeAgents, i # 1
        PROVE  i - 1 \in DOMAIN freeAgents' /\ freeAgents'[i - 1] = freeAgents[i]
    BY <1>2, <2>1
  <2>2. FreeAgents \subseteq FreeAgents' \cup {Head(freeAgents)}
    BY <1>2, <2>1 DEF FreeAgents
  <2>3. FreeAgents' \subseteq FreeAgents /\ Head(freeAgents) \in FreeAgents
    BY <1>2 DEF FreeAgents
  <2>4. QED
    BY <2>2, <2>3
<1>4. Open' = Open \cup {s}
  BY DEF Admit, Send, Open, TInv, TypeOK
<1>5. {agent'[r] : r \in Open'} = {agent[r] : r \in Open} \cup {Head(freeAgents)}
  <2>1. agent'[s] = Head(freeAgents) /\ \A r \in Open : r # s /\ agent'[r] = agent[r]
    BY <1>1 DEF Open
  <2>2. QED
    BY <1>4, <2>1
<1>6. Agents = FreeAgents \cup {agent[r] : r \in Open}
  BY DEF AgentsReturn
<1>7. QED
  BY <1>3, <1>5, <1>6 DEF AgentsReturn

\* Returning the agent at the list's end moves it back.
LEMMA FinishAgents ==
  ASSUME TInv, AgentsReturn, NEW s \in Open, Finish(s), UNCHANGED agent, ~Raised
  PROVE  AgentsReturn'
<1>1. agent[s] \in Agents /\ freeAgents \in Seq(Agents) /\ freeAgents' = Append(freeAgents, agent[s])
  BY DEF Finish, Open, TInv, TypeOK, InTurns
<1>2. /\ DOMAIN freeAgents = 1 .. Len(freeAgents) /\ Len(freeAgents) \in Nat
      /\ DOMAIN freeAgents' = 1 .. Len(freeAgents) + 1
      /\ \A i \in 1 .. Len(freeAgents) : freeAgents'[i] = freeAgents[i]
      /\ freeAgents'[Len(freeAgents) + 1] = agent[s]
  BY <1>1, AppendProperties, LenProperties
<1>3. FreeAgents' = FreeAgents \cup {agent[s]}
  <2>1. FreeAgents' \subseteq FreeAgents \cup {agent[s]}
    BY <1>2 DEF FreeAgents
  <2>2. \A i \in DOMAIN freeAgents : i \in DOMAIN freeAgents'
    BY <1>2
  <2>3. Len(freeAgents) + 1 \in DOMAIN freeAgents'
    BY <1>2
  <2>4. QED
    BY <1>2, <2>1, <2>2, <2>3 DEF FreeAgents
<1>4. Open' = Open \ {s}
  BY DEF Finish, Open, TInv, TypeOK
<1>5. {agent[r] : r \in Open} = {agent'[r] : r \in Open'} \cup {agent[s]}
  BY <1>4
<1>6. Agents = FreeAgents \cup {agent[r] : r \in Open}
  BY DEF AgentsReturn
<1>7. QED
  BY <1>3, <1>5, <1>6 DEF AgentsReturn

LEMMA NextAgentsReturn == TInv /\ QueueInv /\ AgentsReturn /\ [Next]_vars => AgentsReturn'
<1> SUFFICES ASSUME TInv, QueueInv, AgentsReturn, [Next]_vars, ~Raised' PROVE AgentsReturn'
  BY DEF AgentsReturn
<1>1. ~Raised
  BY RaisedStays
<1>2. ASSUME NEW s \in Sessions, StartAdmitted(s) \/ AdmitQueued(s)
      PROVE  AgentsReturn'
  <2>1. phase[s] \in {"asleep", "queued"}
    BY <1>2, QueuedHead DEF StartAdmitted, InTurnToStart, AdmitQueued
  <2>2. CASE Admit(s)
    BY <1>1, <2>1, <2>2, AdmitAgents DEF Open
  <2>3. CASE PopFails(s)
    BY <2>3 DEF PopFails, Raise, Raised, TInv, TypeOK
  <2>4. QED
    BY <1>2, <2>2, <2>3 DEF StartAdmitted, AdmitQueued
<1>3. ASSUME NEW s \in Sessions, AnswerLast(s)
      PROVE  AgentsReturn'
  BY <1>1, <1>3, FinishAgents DEF AnswerLast, AwaitsAnswer, Open
<1>4. ASSUME NEW s \in Sessions, AnswerRaises(s)
      PROVE  FALSE
  BY <1>4 DEF AnswerRaises, Raise, Raised, TInv, TypeOK
<1>5. ASSUME NEW s \in Sessions, StartQueued(s) \/ AnswerNext(s) \/ WaitOver(s)
      PROVE  AgentsReturn'
  <2>1. Open' = Open
    BY <1>5 DEF StartQueued, InTurnToStart, AnswerNext, AwaitsAnswer, WaitOver, Send, Open, TInv, TypeOK
  <2>2. UNCHANGED <<freeAgents, agent>>
    BY <1>5 DEF StartQueued, AnswerNext, WaitOver
  <2>3. QED
    BY <1>1, <2>1, <2>2 DEF AgentsReturn, FreeAgents
<1>6. CASE RowWriteFails \/ Gathered \/ Cancel \/ UNCHANGED vars
  BY <1>1, <1>6 DEF RowWriteFails, Gathered, Cancel, vars, AgentsReturn, FreeAgents, Open
<1>7. QED
  BY <1>2, <1>3, <1>4, <1>5, <1>6 DEF Next, Step, Over

\* The bookkeeping under every run: the types, no forgotten waiter, and until a task raises every agent is free or
\* held by an open session and there is an agent in the list for every slot.
THEOREM InvHolds == Spec => []Inv
<1>1. TInv /\ AgentsReturn /\ SlotsInv => Inv
  BY DEF Inv, TInv, Sound, NoLostWakeup, SlotsInv
<1>2. QED
  BY <1>1, InitTInv, NextTInv, InitQueue, NextQueue, InitSlots, NextSlots, InitAgentsReturn, NextAgentsReturn, PTL
  DEF Spec

-------------------------------------------------------------------------------
(* The plan: what was sent and recorded of each session, as its phase says. *)

\* Of session s's turns the first n are sent, the first m came back with success, and f failed.
Keys(s, n, m, f) == Of(executed, s) = 1 .. n /\ Of(succeeded, s) = 1 .. m /\ Of(failed, s) = f

\* The keys of a session at each phase.
PlanOf(s) ==
  \/ phase[s] \in {"asleep", "queued", "raised"} /\ Keys(s, 0, 0, {})
  \/ phase[s] \in {"sending", "raised"} /\ Keys(s, turn[s], turn[s] - 1, {})
  \/ phase[s] = "waiting" /\ Keys(s, turn[s], turn[s], {})
  \/ phase[s] = "done" /\ turn[s] = Turns[s] /\ Keys(s, turn[s], turn[s], {})
  \/ phase[s] = "done" /\ Keys(s, turn[s], turn[s] - 1, {turn[s]})

PlanInv == \A s \in Sessions : PlanOf(s)

\* Sending a turn adds its key and no other.
LEMMA SendKeys ==
  ASSUME NEW s \in Sessions, NEW t \in 1 .. Turns[s], executed' = executed \cup {<<s, t>>}
  PROVE  /\ Of(executed', s) = Of(executed, s) \cup {t}
         /\ \A r \in Sessions : r # s => Of(executed', r) = Of(executed, r)
BY DEF Of

\* Recording an answer adds its key and no other.
LEMMA RecordKeys ==
  ASSUME NEW s \in Sessions, turn[s] \in 1 .. Turns[s], NEW ok \in BOOLEAN, Record(s, ok)
  PROVE  /\ Of(succeeded', s) = IF ok THEN Of(succeeded, s) \cup {turn[s]} ELSE Of(succeeded, s)
         /\ Of(failed', s) = IF ok THEN Of(failed, s) ELSE Of(failed, s) \cup {turn[s]}
         /\ \A r \in Sessions : r # s =>
              Of(succeeded', r) = Of(succeeded, r) /\ Of(failed', r) = Of(failed, r)
BY DEF Record, Of

\* What one session does leaves the plan of the others.
LEMMA OthersPlan ==
  ASSUME PlanInv, NEW r \in Sessions, phase'[r] = phase[r], turn'[r] = turn[r],
         Of(executed', r) = Of(executed, r),
         Of(succeeded', r) = Of(succeeded, r), Of(failed', r) = Of(failed, r)
  PROVE  PlanOf(r)'
BY DEF PlanInv, PlanOf, Keys, Of

LEMMA InitPlan == Init => PlanInv
BY DEF Init, PlanInv, PlanOf, Keys, Of

\* A session starts on its first turn.
LEMMA AdmitPlan ==
  ASSUME TInv, PlanInv, NEW s \in Sessions, phase[s] \in {"asleep", "queued"},
         Admit(s) \/ PopFails(s), UNCHANGED <<succeeded, failed>>
  PROVE  PlanInv'
<1>1. Keys(s, 0, 0, {})
  BY DEF PlanInv, PlanOf
<1>2. Turns[s] \in Nat \ {0}
  BY TurnsAssumption
<1>3. CASE Admit(s)
  <2>1. /\ phase' = [phase EXCEPT ![s] = "sending"] /\ turn' = [turn EXCEPT ![s] = 1]
        /\ executed' = executed \cup {<<s, 1>>}
    BY <1>3 DEF Admit, Send
  <2>2. /\ Of(executed', s) = Of(executed, s) \cup {1}
        /\ \A r \in Sessions : r # s => Of(executed', r) = Of(executed, r)
    <3>1. 1 \in 1 .. Turns[s]
      BY <1>2
    <3>2. QED
      BY <2>1, <3>1, SendKeys
  <2>3. Of(executed', s) = 1 .. 1 /\ Of(succeeded', s) = 1 .. 1 - 1 /\ Of(failed', s) = {}
    BY <1>1, <2>2 DEF Keys, Of
  <2>4. phase'[s] = "sending" /\ turn'[s] = 1
    BY <2>1 DEF TInv, TypeOK
  <2>5. PlanOf(s)'
    BY <2>3, <2>4 DEF PlanOf, Keys, Of
  <2>6. \A r \in Sessions : r # s => PlanOf(r)'
    BY <2>1, <2>2, OthersPlan DEF TInv, TypeOK, Of
  <2>7. QED
    BY <2>5, <2>6 DEF PlanInv
<1>4. CASE PopFails(s)
  <2>1. phase' = [phase EXCEPT ![s] = "raised"] /\ UNCHANGED <<turn, executed>>
    BY <1>4 DEF PopFails, Raise
  <2>2. PlanOf(s)'
    BY <1>1, <2>1 DEF PlanOf, Keys, Of, TInv, TypeOK
  <2>3. \A r \in Sessions : r # s => PlanOf(r)'
    BY <2>1, OthersPlan DEF TInv, TypeOK, Of
  <2>4. QED
    BY <2>2, <2>3 DEF PlanInv
<1>5. QED
  BY <1>3, <1>4

\* An answer, or the end of a wait, keeps every session's keys.
LEMMA AnswerPlan ==
  ASSUME TInv, PlanInv, NEW s \in Sessions,
         AnswerNext(s) \/ AnswerLast(s) \/ AnswerRaises(s) \/ WaitOver(s)
  PROVE  PlanInv'
<1>1. turn[s] \in 1 .. Turns[s] /\ turn[s] \in Nat /\ Turns[s] \in Nat
  BY TurnsAssumption DEF TInv, TypeOK, InTurns
<1>2. phase[s] = "sending" => Keys(s, turn[s], turn[s] - 1, {})
  BY DEF PlanInv, PlanOf
<1>3. CASE AnswerNext(s)
  <2>1. /\ phase[s] = "sending" /\ turn[s] + 1 \in 1 .. Turns[s]
        /\ Of(succeeded', s) = Of(succeeded, s) \cup {turn[s]} /\ Of(failed', s) = {}
        /\ \A r \in Sessions : r # s =>
              Of(succeeded', r) = Of(succeeded, r) /\ Of(failed', r) = Of(failed, r)
    BY <1>1, <1>2, <1>3, NextTurn, RecordKeys DEF AnswerNext, AwaitsAnswer, Keys
  <2>2. Of(succeeded', s) = 1 .. turn[s]
    BY <1>1, <1>2, <2>1 DEF Keys
  <2>3. CASE Send(s, turn[s] + 1)
    <3>1. /\ phase' = [phase EXCEPT ![s] = "sending"] /\ turn' = [turn EXCEPT ![s] = turn[s] + 1]
          /\ executed' = executed \cup {<<s, turn[s] + 1>>}
      BY <2>3 DEF Send
    <3>2. /\ Of(executed', s) = Of(executed, s) \cup {turn[s] + 1}
          /\ \A r \in Sessions : r # s => Of(executed', r) = Of(executed, r)
      BY <2>1, <3>1, SendKeys
    <3>3. Of(executed', s) = 1 .. turn[s] + 1
      BY <1>1, <1>2, <2>1, <3>2 DEF Keys
    <3>4. phase'[s] = "sending" /\ turn'[s] = turn[s] + 1 /\ turn'[s] - 1 = turn[s]
      BY <1>1, <3>1 DEF TInv, TypeOK
    <3>5. PlanOf(s)'
      BY <2>1, <2>2, <3>3, <3>4 DEF PlanOf, Keys, Of
    <3>6. \A r \in Sessions : r # s => PlanOf(r)'
      BY <2>1, <3>1, <3>2, OthersPlan DEF TInv, TypeOK
    <3>7. QED
      BY <3>5, <3>6 DEF PlanInv
  <2>4. CASE phase' = [phase EXCEPT ![s] = "waiting"] /\ UNCHANGED <<turn, executed>>
    <3>1. Of(executed', s) = 1 .. turn[s] /\ phase'[s] = "waiting" /\ turn'[s] = turn[s]
      BY <1>2, <2>1, <2>4 DEF Keys, Of, TInv, TypeOK
    <3>2. PlanOf(s)'
      BY <2>1, <2>2, <3>1 DEF PlanOf, Keys, Of
    <3>3. \A r \in Sessions : r # s => PlanOf(r)'
      BY <2>1, <2>4, OthersPlan DEF TInv, TypeOK, Of
    <3>4. QED
      BY <3>2, <3>3 DEF PlanInv
  <2>5. QED
    BY <1>3, <2>3, <2>4 DEF AnswerNext
<1>4. CASE AnswerLast(s)
  <2>1. /\ phase[s] = "sending" /\ phase' = [phase EXCEPT ![s] = "done"] /\ UNCHANGED <<turn, executed>>
    BY <1>4 DEF AnswerLast, AwaitsAnswer, Finish
  <2>2. /\ \A r \in Sessions : r # s =>
              Of(succeeded', r) = Of(succeeded, r) /\ Of(failed', r) = Of(failed, r)
        /\ \/ turn[s] = Turns[s] /\ Of(succeeded', s) = 1 .. turn[s] /\ Of(failed', s) = {}
           \/ Of(succeeded', s) = 1 .. turn[s] - 1 /\ Of(failed', s) = {turn[s]}
    <3>1. CASE Record(s, TRUE) /\ turn[s] = Turns[s]
      <4>1. Of(succeeded', s) = Of(succeeded, s) \cup {turn[s]} /\ Of(failed', s) = Of(failed, s)
        BY <1>1, <3>1, RecordKeys
      <4>2. \A r \in Sessions : r # s => Of(succeeded', r) = Of(succeeded, r) /\ Of(failed', r) = Of(failed, r)
        BY <1>1, <3>1, RecordKeys
      <4>3. Of(succeeded', s) = 1 .. turn[s]
        BY <1>1, <1>2, <2>1, <4>1 DEF Keys
      <4>4. QED
        BY <1>2, <2>1, <3>1, <4>1, <4>2, <4>3 DEF Keys
    <3>2. CASE Record(s, FALSE)
      <4>1. Of(succeeded', s) = Of(succeeded, s) /\ Of(failed', s) = Of(failed, s) \cup {turn[s]}
        BY <1>1, <3>2, RecordKeys
      <4>2. \A r \in Sessions : r # s => Of(succeeded', r) = Of(succeeded, r) /\ Of(failed', r) = Of(failed, r)
        BY <1>1, <3>2, RecordKeys
      <4>3. QED
        BY <1>2, <2>1, <4>1, <4>2 DEF Keys
    <3>3. QED
      BY <1>4, <3>1, <3>2 DEF AnswerLast
  <2>3. Of(executed', s) = 1 .. turn[s] /\ phase'[s] = "done" /\ turn'[s] = turn[s]
    BY <1>2, <2>1 DEF Keys, Of, TInv, TypeOK
  <2>4. PlanOf(s)'
    BY <2>2, <2>3 DEF PlanOf, Keys, Of
  <2>5. \A r \in Sessions : r # s => PlanOf(r)'
    BY <2>1, <2>2, OthersPlan DEF TInv, TypeOK, Of
  <2>6. QED
    BY <2>4, <2>5 DEF PlanInv
<1>5. CASE AnswerRaises(s)
  <2>1. /\ phase[s] = "sending" /\ phase' = [phase EXCEPT ![s] = "raised"]
        /\ UNCHANGED <<turn, executed, succeeded, failed>>
    BY <1>5 DEF AnswerRaises, AwaitsAnswer, Raise, plan
  <2>2. PlanOf(s)'
    BY <1>2, <2>1 DEF PlanOf, Keys, Of, TInv, TypeOK
  <2>3. \A r \in Sessions : r # s => PlanOf(r)'
    BY <2>1, OthersPlan DEF TInv, TypeOK, Of
  <2>4. QED
    BY <2>2, <2>3 DEF PlanInv
<1>6. CASE WaitOver(s)
  <2>1. /\ phase[s] = "waiting" /\ turn[s] + 1 \in 1 .. Turns[s]
        /\ phase' = [phase EXCEPT ![s] = "sending"] /\ turn' = [turn EXCEPT ![s] = turn[s] + 1]
        /\ executed' = executed \cup {<<s, turn[s] + 1>>} /\ UNCHANGED <<succeeded, failed>>
    BY <1>6, NextTurn DEF WaitOver, Send, TInv, InTurns
  <2>2. Keys(s, turn[s], turn[s], {})
    BY <2>1 DEF PlanInv, PlanOf
  <2>3. /\ Of(executed', s) = Of(executed, s) \cup {turn[s] + 1}
        /\ \A r \in Sessions : r # s => Of(executed', r) = Of(executed, r)
    BY <2>1, SendKeys
  <2>4. Of(executed', s) = 1 .. turn[s] + 1
    BY <1>1, <2>2, <2>3 DEF Keys
  <2>5. phase'[s] = "sending" /\ turn'[s] = turn[s] + 1 /\ turn'[s] - 1 = turn[s]
    BY <1>1, <2>1 DEF TInv, TypeOK
  <2>6. Of(succeeded', s) = 1 .. turn[s] /\ Of(failed', s) = {}
    BY <2>1, <2>2 DEF Keys, Of
  <2>7. PlanOf(s)'
    BY <2>4, <2>5, <2>6 DEF PlanOf, Keys, Of
  <2>8. \A r \in Sessions : r # s => PlanOf(r)'
    BY <2>1, <2>3, OthersPlan DEF TInv, TypeOK, Of
  <2>9. QED
    BY <2>7, <2>8 DEF PlanInv
<1>7. QED
  BY <1>3, <1>4, <1>5, <1>6

LEMMA NextPlan == TInv /\ QueueInv /\ PlanInv /\ [Next]_vars => PlanInv'
<1> SUFFICES ASSUME TInv, QueueInv, PlanInv, [Next]_vars PROVE PlanInv'
  OBVIOUS
<1>1. ASSUME NEW s \in Sessions, StartAdmitted(s) \/ AdmitQueued(s)
      PROVE  PlanInv'
  <2>1. phase[s] \in {"asleep", "queued"}
    BY <1>1, QueuedHead DEF StartAdmitted, InTurnToStart, AdmitQueued
  <2>2. (Admit(s) \/ PopFails(s)) /\ UNCHANGED <<succeeded, failed>>
    BY <1>1 DEF StartAdmitted, AdmitQueued
  <2>3. QED
    BY <2>1, <2>2, AdmitPlan
<1>2. ASSUME NEW s \in Sessions, StartQueued(s)
      PROVE  PlanInv'
  <2>1. /\ phase[s] = "asleep" /\ phase' = [phase EXCEPT ![s] = "queued"]
        /\ UNCHANGED <<turn, executed, succeeded, failed>>
    BY <1>2 DEF StartQueued, InTurnToStart, plan
  <2>2. PlanOf(s)'
    BY <2>1 DEF PlanInv, PlanOf, Keys, Of, TInv, TypeOK
  <2>3. \A r \in Sessions : r # s => PlanOf(r)'
    BY <2>1, OthersPlan DEF TInv, TypeOK, Of
  <2>4. QED
    BY <2>2, <2>3 DEF PlanInv
<1>3. ASSUME NEW s \in Sessions, AnswerNext(s) \/ AnswerLast(s) \/ AnswerRaises(s) \/ WaitOver(s)
      PROVE  PlanInv'
  BY <1>3, AnswerPlan
<1>4. CASE RowWriteFails \/ Gathered \/ Cancel \/ UNCHANGED vars
  BY <1>4 DEF RowWriteFails, Gathered, Cancel, vars, plan, PlanInv, PlanOf, Keys, Of
<1>5. QED
  BY <1>1, <1>2, <1>3, <1>4 DEF Next, Step, Over

\* A finished session was sent to its end or broke off at a failed turn; so at a run's regular end nothing is
\* missing from what was sent but the turns after a failure.
LEMMA DoneIdentity ==
  ASSUME TInv, PlanInv, \A s \in Sessions : phase[s] = "done"
  PROVE  executed \subseteq Planned /\ Planned \subseteq executed \cup NotSent
<1>1. executed \subseteq Planned
  BY DEF TInv, TypeOK
<1>2. ASSUME NEW s \in Sessions, NEW t \in 1 .. Turns[s], <<s, t>> \notin executed
      PROVE  <<s, t>> \in NotSent
  <2>1. turn[s] \in 1 .. Turns[s] /\ turn[s] \in Nat /\ Turns[s] \in Nat
    BY TurnsAssumption DEF TInv, TypeOK, InTurns
  <2>2. t \notin Of(executed, s)
    BY <1>2 DEF Of
  <2>3. Of(executed, s) = 1 .. turn[s] /\ (turn[s] = Turns[s] \/ turn[s] \in Of(failed, s))
    BY DEF PlanInv, PlanOf, Keys
  <2>4. turn[s] < t /\ <<s, turn[s]>> \in failed
    BY <2>1, <2>2, <2>3 DEF Of
  <2>5. turn[s] \in 1 .. t - 1
    BY <2>1, <2>4
  <2>6. <<s, t>> \in Planned \ executed
    BY <1>2, PlannedKey
  <2>7. QED
    BY <2>4, <2>5, <2>6 DEF NotSent
<1>3. QED
  BY <1>1, <1>2 DEF Planned

\* The gather ends with every session done, so its plan is whole or behind a failure.
LEMMA NextIdentity == TInv /\ PlanInv /\ IdentityHolds /\ [Next]_vars => IdentityHolds'
<1> SUFFICES ASSUME TInv, PlanInv, IdentityHolds, [Next]_vars, outcome' = "ok"
             PROVE  (executed \subseteq Planned /\ Planned \subseteq executed \cup NotSent)'
  BY DEF IdentityHolds
<1>1. CASE UNCHANGED vars
  BY <1>1 DEF vars, plan, IdentityHolds, NotSent
<1>2. CASE Gathered
  BY <1>2, DoneIdentity DEF Gathered, plan, NotSent
<1>3. ASSUME NEW s \in Sessions, Step(s)
      PROVE  FALSE
  <2>1. outcome' \in {outcome, "raised"} /\ outcome \in {"running", "raised"}
    BY <1>3 DEF Step, StartAdmitted, StartQueued, AdmitQueued, AnswerNext, AnswerLast, AnswerRaises, WaitOver,
                InTurnToStart, AwaitsAnswer, PopFails, Raise, Looping
  <2>2. QED
    BY <2>1
<1>4. CASE RowWriteFails \/ Cancel
  BY <1>4 DEF RowWriteFails, Cancel, Looping
<1>5. QED
  BY <1>1, <1>2, <1>3, <1>4 DEF Next, Over

\* A run that reaches its identity check passes it: every planned turn was sent or follows a failed one.
THEOREM IdentityAlwaysHolds == Spec => []IdentityHolds
<1>1. Init => IdentityHolds
  BY DEF Init, IdentityHolds
<1>2. QED
  BY <1>1, InitTInv, NextTInv, InitQueue, NextQueue, InitPlan, NextPlan, NextIdentity, PTL DEF Spec
-------------------------------------------------------------------------------
(* The promise of every replay: SessionReplay. *)

LEMMA CountUpTo == ASSUME NEW n \in Nat PROVE Cardinality(1 .. n) = n
BY FS_Interval

\* The answered keys are the successes and, of a broken session, the failed one after them.
LEMMA CountAnswered ==
  ASSUME NEW s \in Sessions, NEW m \in Nat, NEW A, NEW F, Of(A, s) = 1 .. m, Of(F, s) = {}
  PROVE  Cardinality(Of(A \cup F, s)) = m
<1>1. Of(A \cup F, s) = Of(A, s) \cup Of(F, s)
  BY DEF Of
<1>2. QED
  BY <1>1, CountUpTo

\* A session whose n-th turn failed has n answers.
LEMMA CountBroken ==
  ASSUME NEW s \in Sessions, NEW n \in Nat \ {0}, NEW A, NEW F, Of(A, s) = 1 .. n - 1, Of(F, s) = {n}
  PROVE  Cardinality(Of(A \cup F, s)) = n
<1>1. Of(A \cup F, s) = Of(A, s) \cup Of(F, s)
  BY DEF Of
<1>2. (1 .. n - 1) \cup {n} = 1 .. n
  OBVIOUS
<1>3. QED
  BY <1>1, <1>2, CountUpTo

\* A session's counts, as SessionReplay sees them.
Sent(s) == Cardinality(Of(executed, s))
Answered(s) == Cardinality(Of(succeeded \cup failed, s))
Broken(s) == Of(failed, s) # {}

\* The counts of a session whose keys are known: all its answers are successes, or the last one failed.
LEMMA CountKeys ==
  ASSUME NEW s \in Sessions, NEW n \in Nat, NEW m \in Nat, Keys(s, n, m, {})
  PROVE  Sent(s) = n /\ Answered(s) = m /\ ~Broken(s)
<1>1. Of(executed, s) = 1 .. n /\ Of(succeeded, s) = 1 .. m /\ Of(failed, s) = {}
  BY DEF Keys
<1>2. Cardinality(Of(succeeded \cup failed, s)) = m
  BY <1>1, CountAnswered
<1>3. Cardinality(Of(executed, s)) = n
  BY <1>1, CountUpTo
<1>4. QED
  BY <1>1, <1>2, <1>3 DEF Sent, Answered, Broken

LEMMA CountKeysNext ==
  ASSUME NEW s \in Sessions, NEW n \in Nat, NEW m \in Nat,
         Of(executed', s) = 1 .. n, Of(succeeded', s) = 1 .. m, Of(failed', s) = {}
  PROVE  Sent(s)' = n /\ Answered(s)' = m /\ ~Broken(s)'
<1>1. Cardinality(Of(succeeded' \cup failed', s)) = m
  BY CountAnswered
<1>2. Cardinality(Of(executed', s)) = n
  BY CountUpTo
<1>3. QED
  BY <1>1, <1>2 DEF Sent, Answered, Broken, Of

LEMMA CountFailedNext ==
  ASSUME NEW s \in Sessions, NEW n \in Nat \ {0},
         Of(executed', s) = 1 .. n, Of(succeeded', s) = 1 .. n - 1, Of(failed', s) = {n}
  PROVE  Sent(s)' = n /\ Answered(s)' = n
<1>1. Cardinality(Of(succeeded' \cup failed', s)) = n
  BY CountBroken
<1>2. Cardinality(Of(executed', s)) = n
  BY CountUpTo
<1>3. QED
  BY <1>1, <1>2 DEF Sent, Answered, Of

\* A session's part of an abstract step, in terms of these counts.
Sends(s) ==
  /\ ~Broken(s) /\ Answered(s) = Sent(s) /\ Sent(s) < Turns[s]
  /\ Sent(s)' = Sent(s) + 1 /\ Answered(s)' = Answered(s) /\ ~Broken(s)'
Answers(s) ==
  Answered(s) < Sent(s) /\ Sent(s)' = Sent(s) /\ Answered(s)' = Sent(s)
AnswersAndSends(s) ==
  /\ Answered(s) < Sent(s) /\ Sent(s) < Turns[s]
  /\ Sent(s)' = Sent(s) + 1 /\ Answered(s)' = Sent(s) /\ ~Broken(s)'
Rests(s) ==
  Sent(s)' = Sent(s) /\ Answered(s)' = Answered(s) /\ (Broken(s)' <=> Broken(s))

\* A step that moves the counts so is a step of SessionReplay for the session.
LEMMA AbstractStep ==
  ASSUME NEW s \in Sessions
  PROVE  /\ Sends(s) => SR!Send(s)
         /\ Answers(s) => SR!Answer(s)
         /\ AnswersAndSends(s) => SR!AnswerAndSend(s)
         /\ Rests(s) => SR!Rest(s)
BY DEF Sends, Answers, AnswersAndSends, Rests, Sent, Answered, Broken,
       SR!Send, SR!Answer, SR!AnswerAndSend, SR!Rest

\* A session whose keys stay rests.
LEMMA Resting ==
  ASSUME NEW s \in Sessions, Of(executed', s) = Of(executed, s),
         Of(succeeded', s) = Of(succeeded, s), Of(failed', s) = Of(failed, s)
  PROVE  Rests(s)
<1>1. \A A, F : Of(A \cup F, s) = Of(A, s) \cup Of(F, s)
  BY DEF Of
<1>2. /\ Of(succeeded' \cup failed', s) = Of(succeeded', s) \cup Of(failed', s)
      /\ Of(succeeded \cup failed, s) = Of(succeeded, s) \cup Of(failed, s)
  BY <1>1
<1>3. QED
  BY <1>2 DEF Rests, Sent, Answered, Broken, Of

\* A step of session s touches no key of another.
LEMMA OthersRest ==
  ASSUME TInv, NEW s \in Sessions, Step(s), NEW r \in Sessions, r # s
  PROVE  Rests(r)
<1>1. turn[s] \in 1 .. Turns[s]
  BY DEF TInv, InTurns
<1>2. executed' = executed \/ \E t : executed' = executed \cup {<<s, t>>}
  BY DEF Step, StartAdmitted, StartQueued, AdmitQueued, AnswerNext, AnswerLast, AnswerRaises, WaitOver,
         Admit, Send, PopFails, plan
<1>3. UNCHANGED <<succeeded, failed>> \/ Record(s, TRUE) \/ Record(s, FALSE)
  BY DEF Step, StartAdmitted, StartQueued, AdmitQueued, AnswerNext, AnswerLast, AnswerRaises, WaitOver, plan
<1>4. Of(executed', r) = Of(executed, r)
  BY <1>2 DEF Of
<1>5. Of(succeeded', r) = Of(succeeded, r) /\ Of(failed', r) = Of(failed, r)
  BY <1>1, <1>3, RecordKeys
<1>6. QED
  BY <1>4, <1>5, Resting

\* The keys of a session on the wire, in its wait, or over.
LEMMA KeysOf ==
  ASSUME TInv, PlanInv, NEW s \in Sessions
  PROVE  /\ turn[s] \in Nat /\ turn[s] \in 1 .. Turns[s] /\ Turns[s] \in Nat
         /\ phase[s] \in {"asleep", "queued"} => Keys(s, 0, 0, {})
         /\ phase[s] = "sending" => Keys(s, turn[s], turn[s] - 1, {})
         /\ phase[s] = "waiting" => Keys(s, turn[s], turn[s], {})
         /\ phase[s] = "done" => Keys(s, turn[s], turn[s], {}) \/ Keys(s, turn[s], turn[s] - 1, {turn[s]})
BY TurnsAssumption DEF PlanInv, PlanOf, TInv, TypeOK, InTurns

LEMMA KeysOfNext ==
  ASSUME PlanInv', NEW s \in Sessions, NEW t, turn'[s] = t
  PROVE  /\ phase'[s] = "sending" =>
              Of(executed', s) = 1 .. t /\ Of(succeeded', s) = 1 .. t - 1 /\ Of(failed', s) = {}
         /\ phase'[s] = "waiting" =>
              Of(executed', s) = 1 .. t /\ Of(succeeded', s) = 1 .. t /\ Of(failed', s) = {}
         /\ phase'[s] = "done" =>
              /\ Of(executed', s) = 1 .. t
              /\ \/ Of(succeeded', s) = 1 .. t /\ Of(failed', s) = {}
                 \/ Of(succeeded', s) = 1 .. t - 1 /\ Of(failed', s) = {t}
BY DEF PlanInv, PlanOf, Keys, Of

\* Each step of a session is a step, or a rest, of SessionReplay.
LEMMA SessionStep ==
  ASSUME TInv, QueueInv, PlanInv, PlanInv', NEW s \in Sessions, Step(s)
  PROVE  Sends(s) \/ Answers(s) \/ AnswersAndSends(s) \/ Rests(s)
<1>1. PICK t \in Nat : t = turn[s]
  BY KeysOf
<1>2. t \in Nat \ {0} /\ t <= Turns[s] /\ Turns[s] \in Nat /\ t - 1 \in Nat /\ t + 1 \in Nat
      /\ (t + 1) - 1 = t
  <2>1. t \in 1 .. Turns[s] /\ Turns[s] \in Nat
    BY <1>1, KeysOf
  <2>2. QED
    BY <2>1
<1>3. CASE (StartAdmitted(s) \/ AdmitQueued(s)) /\ Admit(s)
  <2>1. Keys(s, 0, 0, {})
    BY <1>3, QueuedHead, KeysOf DEF StartAdmitted, InTurnToStart, AdmitQueued
  <2>2. phase'[s] = "sending" /\ turn'[s] = 1
    BY <1>3 DEF Admit, Send, TInv, TypeOK
  <2>3. Of(executed', s) = 1 .. 1 /\ Of(succeeded', s) = 1 .. 0 /\ Of(failed', s) = {}
    BY <2>2, KeysOfNext
  <2>4. Sent(s) = 0 /\ Answered(s) = 0 /\ ~Broken(s)
    BY <2>1, CountKeys
  <2>5. Sent(s)' = 1 /\ Answered(s)' = 0 /\ ~Broken(s)'
    BY <2>3, CountKeysNext
  <2>6. QED
    BY <1>2, <2>4, <2>5 DEF Sends
<1>4. CASE (StartAdmitted(s) \/ AdmitQueued(s)) /\ PopFails(s)
  BY <1>4, Resting DEF StartAdmitted, AdmitQueued, PopFails
<1>5. CASE StartQueued(s) \/ AnswerRaises(s)
  BY <1>5, Resting DEF StartQueued, AnswerRaises, plan
<1>6. CASE AnswerNext(s)
  <2>1. Sent(s) = t /\ Answered(s) = t - 1
    <3>1. Keys(s, t, t - 1, {})
      BY <1>1, <1>6, KeysOf DEF AnswerNext, AwaitsAnswer
    <3>2. QED
      BY <1>2, <3>1, CountKeys
  <2>2. CASE Send(s, turn[s] + 1)
    <3>1. phase'[s] = "sending" /\ turn'[s] = t + 1
      BY <1>1, <2>2 DEF Send, TInv, TypeOK
    <3>2. Of(executed', s) = 1 .. t + 1 /\ Of(succeeded', s) = 1 .. t /\ Of(failed', s) = {}
      BY <1>2, <3>1, KeysOfNext
    <3>3. Sent(s)' = t + 1 /\ Answered(s)' = t /\ ~Broken(s)'
      BY <1>2, <3>2, CountKeysNext
    <3>4. t < Turns[s]
      BY <1>1, <1>6 DEF AnswerNext
    <3>5. QED
      BY <1>2, <2>1, <3>3, <3>4 DEF AnswersAndSends
  <2>3. CASE phase' = [phase EXCEPT ![s] = "waiting"] /\ UNCHANGED <<turn, executed>>
    <3>1. phase'[s] = "waiting" /\ turn'[s] = t
      BY <1>1, <2>3 DEF TInv, TypeOK
    <3>2. Of(executed', s) = 1 .. t /\ Of(succeeded', s) = 1 .. t /\ Of(failed', s) = {}
      BY <3>1, KeysOfNext
    <3>3. Sent(s)' = t /\ Answered(s)' = t
      BY <1>2, <3>2, CountKeysNext
    <3>4. QED
      BY <1>2, <2>1, <3>3 DEF Answers
  <2>4. QED
    BY <1>6, <2>2, <2>3 DEF AnswerNext
<1>7. CASE AnswerLast(s)
  <2>1. Sent(s) = t /\ Answered(s) = t - 1
    <3>1. Keys(s, t, t - 1, {})
      BY <1>1, <1>7, KeysOf DEF AnswerLast, AwaitsAnswer
    <3>2. QED
      BY <1>2, <3>1, CountKeys
  <2>2. phase'[s] = "done" /\ turn'[s] = t
    BY <1>1, <1>7 DEF AnswerLast, Finish, TInv, TypeOK
  <2>3. /\ Of(executed', s) = 1 .. t
        /\ \/ Of(succeeded', s) = 1 .. t /\ Of(failed', s) = {}
           \/ Of(succeeded', s) = 1 .. t - 1 /\ Of(failed', s) = {t}
    BY <2>2, KeysOfNext
  <2>4. Sent(s)' = t /\ Answered(s)' = t
    BY <1>2, <2>3, CountKeysNext, CountFailedNext
  <2>5. QED
    BY <1>2, <2>1, <2>4 DEF Answers
<1>8. CASE WaitOver(s)
  <2>1. Sent(s) = t /\ Answered(s) = t /\ ~Broken(s)
    <3>1. Keys(s, t, t, {})
      BY <1>1, <1>8, KeysOf DEF WaitOver
    <3>2. QED
      BY <3>1, CountKeys
  <2>2. phase'[s] = "sending" /\ turn'[s] = t + 1
    BY <1>1, <1>8 DEF WaitOver, Send, TInv, TypeOK
  <2>3. Of(executed', s) = 1 .. t + 1 /\ Of(succeeded', s) = 1 .. t /\ Of(failed', s) = {}
    BY <1>2, <2>2, KeysOfNext
  <2>4. Sent(s)' = t + 1 /\ Answered(s)' = t /\ ~Broken(s)'
    BY <1>2, <2>3, CountKeysNext
  <2>5. t < Turns[s]
    BY <1>1, <1>8 DEF WaitOver, TInv, InTurns
  <2>6. QED
    BY <2>1, <2>4, <2>5 DEF Sends
<1>9. QED
  BY <1>3, <1>4, <1>5, <1>6, <1>7, <1>8 DEF Step, StartAdmitted, AdmitQueued

\* Every step of the dispatcher is a step of SessionReplay or leaves what it sees unchanged.
LEMMA NextReplays == TInv /\ QueueInv /\ PlanInv /\ PlanInv' /\ [Next]_vars => [SR!Next]_SR!vars
<1> SUFFICES ASSUME TInv, QueueInv, PlanInv, PlanInv', [Next]_vars
             PROVE  \A r \in Sessions : SR!Send(r) \/ SR!Answer(r) \/ SR!AnswerAndSend(r) \/ SR!Rest(r)
  BY DEF SR!Next
<1>1. ASSUME NEW s \in Sessions, Step(s), NEW r \in Sessions
      PROVE  Sends(r) \/ Answers(r) \/ AnswersAndSends(r) \/ Rests(r)
  BY <1>1, SessionStep, OthersRest
<1>2. ASSUME RowWriteFails \/ Gathered \/ Cancel \/ UNCHANGED vars, NEW r \in Sessions
      PROVE  Rests(r)
  BY <1>2, Resting DEF RowWriteFails, Gathered, Cancel, vars, plan
<1>3. QED
  BY <1>1, <1>2, AbstractStep DEF Next, Over

\* Per-session pacing keeps what every replay promises the workload: turns in order, one at a time, each at most once,
\* none after a failed one.
THEOREM Replays == Spec => ReplaysSessions
<1>1. Init => SR!Init
  <2>1. \A s : Of({}, s) = {}
    BY DEF Of
  <2>2. Cardinality({}) = 0
    BY FS_EmptySet
  <2>3. Init => \A s \in Sessions : Of(executed, s) = {} /\ Of(succeeded \cup failed, s) = {} /\ Of(failed, s) = {}
    BY <2>1 DEF Init
  <2>4. QED
    BY <2>2, <2>3 DEF SR!Init
<1>2. QED
  BY <1>1, InitTInv, NextTInv, InitQueue, NextQueue, InitPlan, NextPlan, NextReplays, PTL
  DEF Spec, ReplaysSessions, SR!Spec

-------------------------------------------------------------------------------
(* The order in which sessions are admitted, and which agents the first admissions take. *)

\* Sessions not admitted yet, and not raised.
Coming(s) == phase[s] \in {"asleep", "queued"}

\* The sessions start, queue and leave the queue in the order they are due in, and the clock is ahead of every admission.
OrderInv ==
  /\ \A s \in Sessions : admitted[s] <= clock
  /\ \A s \in Sessions : Coming(s) => admitted[s] = 0
  /\ \A s \in Sessions : phase[s] \in {"sending", "waiting", "done"} => admitted[s] > 0
  /\ \A r, s \in Sessions : StartsBefore(r, s) /\ phase[s] # "asleep" => phase[r] # "asleep"
  /\ \A r, s \in Sessions : StartsBefore(r, s) /\ ~Coming(s) => ~Coming(r)
  /\ \A s \in Sessions : phase[s] = "queued" => \E i \in DOMAIN sem.waiters : sem.waiters[i] = s
  /\ \A i, j \in DOMAIN sem.waiters : i < j => ~StartsBefore(sem.waiters[j], sem.waiters[i])

\* With the property itself this is inductive.
OrderOfAll == OrderInv /\ AdmittedInOrder

\* Of two sessions at most one is due before the other.
LEMMA StartsOnce ==
  ASSUME NEW r \in Sessions, NEW s \in Sessions
  PROVE  StartsBefore(r, s) => ~StartsBefore(s, r) /\ r # s
BY CountsAssumption, DueAssumption DEF StartsBefore, Sessions

\* What waits in the queue is a queued session.
LEMMA WaitersAre ==
  ASSUME TInv
  PROVE  /\ sem.waiters \in Seq(Sessions) /\ Len(sem.waiters) \in Nat
         /\ DOMAIN sem.waiters = 1 .. Len(sem.waiters)
         /\ \A i \in DOMAIN sem.waiters : sem.waiters[i] \in Sessions
BY LenProperties, ElementOfSeq DEF TInv, TypeOK, Semaphore

\* At the start every session is asleep and none was admitted.
LEMMA InitOrder == Init => OrderOfAll
BY DEF Init, OrderOfAll, OrderInv, AdmittedInOrder, Coming, NewSemaphore

\* A session whose turn it is leaves those that come first behind it: what Admit and PopFails do to the order.
LEMMA AdmitOrder ==
  ASSUME TInv, OrderOfAll, NEW s \in Sessions, Coming(s), Admit(s) \/ (PopFails(s) /\ UNCHANGED admitted),
         \A r \in Sessions : StartsBefore(r, s) => ~Coming(r),
         \A r \in Sessions : r # s /\ phase[r] = "queued" => \E i \in DOMAIN sem'.waiters : sem'.waiters[i] = r,
         \A i, j \in DOMAIN sem'.waiters : i < j => ~StartsBefore(sem'.waiters[j], sem'.waiters[i])
  PROVE  OrderOfAll'
<1>1. /\ \A r \in Sessions : r # s => phase'[r] = phase[r] /\ admitted'[r] = admitted[r]
      /\ clock \in Nat /\ \A r \in Sessions : admitted[r] \in Nat /\ admitted[r] <= clock
      /\ \A r \in Sessions : phase[r] \in {"asleep", "queued", "sending", "waiting", "done", "raised"}
  BY DEF Admit, Send, PopFails, Raise, TInv, TypeOK, OrderOfAll, OrderInv
<1>2. \/ phase'[s] = "sending" /\ clock' = clock + 1 /\ admitted'[s] = clock + 1
      \/ phase'[s] = "raised" /\ clock' = clock /\ admitted'[s] = admitted[s]
  BY DEF Admit, Send, PopFails, Raise, TInv, TypeOK
<1>3. \A r \in Sessions : Coming(r) => admitted[r] = 0
  BY DEF OrderOfAll, OrderInv
<1>4. \A r \in Sessions : StartsBefore(r, s) => ~StartsBefore(s, r) /\ r # s
  BY StartsOnce
<1>5. OrderInv'
  <2>1. (\A r \in Sessions : admitted[r] <= clock)' /\ (\A r \in Sessions : Coming(r) => admitted[r] = 0)'
    BY <1>1, <1>2, <1>3 DEF Coming
  <2>2. (\A r \in Sessions : phase[r] \in {"sending", "waiting", "done"} => admitted[r] > 0)'
    BY <1>1, <1>2 DEF OrderOfAll, OrderInv
  <2>3. (\A r, q \in Sessions : StartsBefore(r, q) /\ ~Coming(q) => ~Coming(r))'
    BY <1>1, <1>2, <1>4 DEF OrderOfAll, OrderInv, Coming, StartsBefore
  <2>4. (\A r, q \in Sessions : StartsBefore(r, q) /\ phase[q] # "asleep" => phase[r] # "asleep")'
    BY <1>1, <1>2, <1>4 DEF OrderOfAll, OrderInv, Coming, StartsBefore
  <2>5. (\A r \in Sessions : phase[r] = "queued" => \E i \in DOMAIN sem.waiters : sem.waiters[i] = r)'
    BY <1>1, <1>2
  <2>6. QED
    BY <2>1, <2>2, <2>3, <2>4, <2>5 DEF OrderInv, StartsBefore
<1>6. AdmittedInOrder'
  <2> SUFFICES ASSUME NEW r \in Sessions, NEW q \in Sessions, StartsBefore(r, q), admitted'[q] > 0
               PROVE  (0 < admitted'[r] /\ admitted'[r] < admitted'[q]) \/ phase'[r] = "raised"
    BY DEF AdmittedInOrder, StartsBefore
  <2>1. r # q
    BY StartsOnce
  <2>2. CASE q = s
    <3>1. ~Coming(r) /\ phase'[r] = phase[r] /\ admitted'[r] = admitted[r]
      BY <1>1, <2>1, <2>2
    <3>2. phase[r] = "raised" \/ admitted[r] > 0
      BY <1>1, <3>1 DEF Coming, OrderOfAll, OrderInv
    <3>3. admitted'[s] = clock + 1
      BY <1>1, <1>2, <1>3, <2>2
    <3>4. QED
      BY <1>1, <2>2, <3>1, <3>2, <3>3
  <2>3. CASE r = s
    <3>1. admitted[q] > 0 /\ ~Coming(q)
      BY <1>1, <1>3, <2>1, <2>3
    <3>2. ~Coming(r)
      BY <3>1 DEF OrderOfAll, OrderInv
    <3>3. QED
      BY <2>3, <3>2
  <2>4. CASE r # s /\ q # s
    BY <1>1, <2>4 DEF OrderOfAll, AdmittedInOrder
  <2>5. QED
    BY <2>2, <2>3, <2>4
<1>7. QED
  BY <1>5, <1>6 DEF OrderOfAll

\* An admitted session's further steps leave the order as it is.
LEMMA KeepsOrder ==
  ASSUME TInv, OrderOfAll, NEW s \in Sessions, phase[s] \in {"sending", "waiting"},
         phase'[s] \in {"sending", "waiting", "done", "raised"},
         \A r \in Sessions : r # s => phase'[r] = phase[r],
         UNCHANGED admitted, clock' \in Nat, clock <= clock', sem'.waiters = sem.waiters
  PROVE  OrderOfAll'
<1>1. \A r \in Sessions : admitted[r] \in Nat /\ clock \in Nat
  BY DEF TInv, TypeOK
<1>2. \A r \in Sessions : Coming(r)' <=> Coming(r)
  BY DEF Coming
<1>3. \A r \in Sessions : (phase'[r] = "asleep" <=> phase[r] = "asleep") /\ (phase'[r] = "queued" <=> phase[r] = "queued")
  OBVIOUS
<1>4. \A r \in Sessions : phase[r] = "raised" => phase'[r] = "raised"
  OBVIOUS
<1>5. \A r \in Sessions : phase'[r] \in {"sending", "waiting", "done"} => admitted[r] > 0
  BY DEF OrderOfAll, OrderInv
<1>6. OrderInv'
  BY <1>1, <1>2, <1>3, <1>5 DEF OrderOfAll, OrderInv, StartsBefore
<1>7. AdmittedInOrder'
  BY <1>4 DEF OrderOfAll, AdmittedInOrder, StartsBefore
<1>8. QED
  BY <1>6, <1>7 DEF OrderOfAll

\* The next session to start joins the end of the queue, behind sessions that started before it.
LEMMA QueueOrder ==
  ASSUME TInv, QueueInv, OrderOfAll, NEW s \in Sessions, StartQueued(s)
  PROVE  OrderOfAll'
<1>1. /\ phase[s] = "asleep" /\ phase' = [phase EXCEPT ![s] = "queued"]
      /\ sem'.waiters = Append(sem.waiters, s)
      /\ UNCHANGED <<admitted, clock>>
      /\ \A r \in Sessions : StartsBefore(r, s) => phase[r] # "asleep"
  BY DEF StartQueued, InTurnToStart, Enqueue, times, TInv, TypeOK, Semaphore
<1>2. /\ Len(sem.waiters) \in Nat /\ DOMAIN sem.waiters = 1 .. Len(sem.waiters)
      /\ \A i \in DOMAIN sem.waiters : sem.waiters[i] \in Sessions
      /\ DOMAIN sem'.waiters = 1 .. Len(sem.waiters) + 1
      /\ \A i \in 1 .. Len(sem.waiters) : sem'.waiters[i] = sem.waiters[i]
      /\ sem'.waiters[Len(sem.waiters) + 1] = s
  BY <1>1, WaitersAre, AppendProperties
<1>3. phase'[s] = "queued" /\ \A r \in Sessions : r # s => phase'[r] = phase[r]
  BY <1>1 DEF TInv, TypeOK
<1>4. \A r \in Sessions : Coming(r)' <=> Coming(r)
  BY <1>1, <1>3 DEF Coming
<1>5. (\A r, q \in Sessions : StartsBefore(r, q) /\ phase[q] # "asleep" => phase[r] # "asleep")'
  BY <1>1, <1>3 DEF OrderOfAll, OrderInv, StartsBefore
<1>6. (\A r \in Sessions : phase[r] = "queued" => \E i \in DOMAIN sem.waiters : sem.waiters[i] = r)'
  <2>1. \A i \in DOMAIN sem.waiters : i \in DOMAIN sem'.waiters /\ sem'.waiters[i] = sem.waiters[i]
    BY <1>2
  <2>2. Len(sem.waiters) + 1 \in DOMAIN sem'.waiters
    BY <1>2
  <2>3. \A r \in Sessions : phase[r] = "queued" => \E i \in DOMAIN sem.waiters : sem.waiters[i] = r
    BY DEF OrderOfAll, OrderInv
  <2>4. QED
    BY <1>2, <1>3, <2>1, <2>2, <2>3
<1>7. \A i \in DOMAIN sem.waiters : ~StartsBefore(s, sem.waiters[i])
  <2> SUFFICES ASSUME NEW i \in DOMAIN sem.waiters, StartsBefore(s, sem.waiters[i]) PROVE FALSE
    OBVIOUS
  <2>1. sem.waiters[i] \in Sessions /\ phase[sem.waiters[i]] = "queued"
    BY <1>2 DEF QueueInv
  <2>2. phase[s] # "asleep"
    BY <2>1 DEF OrderOfAll, OrderInv
  <2>3. QED
    BY <1>1, <2>2
<1>8. ASSUME NEW i \in DOMAIN sem'.waiters, NEW j \in DOMAIN sem'.waiters, i < j
      PROVE  ~StartsBefore(sem'.waiters[j], sem'.waiters[i])
  <2>1. i \in DOMAIN sem.waiters /\ sem'.waiters[i] = sem.waiters[i]
    BY <1>2, <1>8
  <2>2. CASE j \in DOMAIN sem.waiters
    BY <1>2, <1>8, <2>1, <2>2 DEF OrderOfAll, OrderInv
  <2>3. CASE j = Len(sem.waiters) + 1
    BY <1>2, <1>7, <2>1, <2>3
  <2>4. QED
    BY <1>2, <2>2, <2>3
<1>9. (\A r \in Sessions : phase[r] \in {"sending", "waiting", "done"} => admitted[r] > 0)'
  BY <1>1, <1>3 DEF OrderOfAll, OrderInv
<1>10. OrderInv'
  BY <1>1, <1>4, <1>5, <1>6, <1>8, <1>9 DEF OrderOfAll, OrderInv, StartsBefore
<1>11. AdmittedInOrder'
  BY <1>1, <1>3 DEF OrderOfAll, AdmittedInOrder, StartsBefore
<1>12. QED
  BY <1>10, <1>11 DEF OrderOfAll

\* A session starts at once only beside an empty queue, after all that are due before it.
LEMMA StartOrder ==
  ASSUME TInv, OrderOfAll, NEW s \in Sessions, StartAdmitted(s)
  PROVE  OrderOfAll'
<1>1. sem'.waiters = sem.waiters /\ DOMAIN sem.waiters = {}
  <2>1. sem.waiters = <<>>
    BY DEF StartAdmitted, Locked
  <2>2. sem'.waiters = sem.waiters
    BY DEF StartAdmitted, Locked, Take, Release, Asleep, TInv, TypeOK, Semaphore
  <2>3. QED
    BY <2>1, <2>2
<1>2. phase[s] = "asleep" /\ \A r \in Sessions : StartsBefore(r, s) => phase[r] # "asleep"
  BY DEF StartAdmitted, InTurnToStart
<1>3. \A r \in Sessions : phase[r] # "queued"
  BY <1>1 DEF OrderOfAll, OrderInv
<1>4. Admit(s) \/ (PopFails(s) /\ UNCHANGED admitted)
  BY DEF StartAdmitted, PopFails
<1>5. QED
  BY <1>1, <1>2, <1>3, <1>4, AdmitOrder DEF Coming

\* Nothing that waits or sleeps is due before the head of the queue.
LEMMA HeadOrder ==
  ASSUME TInv, QueueInv, OrderOfAll, NEW s \in Sessions, AdmitQueued(s)
  PROVE  OrderOfAll'
<1>1. Runnable(sem) /\ s = Head(sem.waiters) /\ phase[s] = "queued"
  BY QueuedHead DEF AdmitQueued
<1>2. sem'.waiters = Tail(sem.waiters)
  <2>1. Resume(sem) \in Semaphore(Sessions) /\ Resume(sem).waiters = Tail(sem.waiters)
    BY <1>1, ResumeSound DEF Resume, TInv, TypeOK
  <2>2. Release(Resume(sem)).waiters = Tail(sem.waiters)
    BY <2>1 DEF Release, Semaphore
  <2>3. QED
    BY <2>1, <2>2 DEF AdmitQueued
<1>3. /\ Len(sem.waiters) \in Nat \ {0} /\ DOMAIN sem.waiters = 1 .. Len(sem.waiters)
      /\ s = sem.waiters[1] /\ 1 \in DOMAIN sem.waiters
      /\ DOMAIN sem'.waiters = 1 .. Len(sem.waiters) - 1
      /\ \A i \in 1 .. Len(sem.waiters) - 1 : sem'.waiters[i] = sem.waiters[i + 1] /\ i + 1 \in DOMAIN sem.waiters
  <2>1. sem.waiters \in Seq(Sessions) /\ sem.waiters # <<>>
    BY <1>1, WaitersAre, EmptySeq DEF TInv, TypeOK, Semaphore, Sound, Runnable
  <2>2. QED
    BY <1>1, <1>2, <2>1, EmptySeq, HeadTailProperties, LenProperties
<1>4. ASSUME NEW r \in Sessions, StartsBefore(r, s)
      PROVE  ~Coming(r)
  <2>1. phase[r] # "asleep"
    BY <1>1, <1>4 DEF OrderOfAll, OrderInv
  <2>2. ASSUME phase[r] = "queued"
        PROVE  FALSE
    <3>1. PICK i \in DOMAIN sem.waiters : sem.waiters[i] = r
      BY <2>2 DEF OrderOfAll, OrderInv
    <3>2. r # s
      BY <1>4, StartsOnce
    <3>3. 1 < i
      BY <1>3, <3>1, <3>2
    <3>4. ~StartsBefore(r, s)
      BY <1>3, <3>1, <3>3 DEF OrderOfAll, OrderInv
    <3>5. QED
      BY <1>4, <3>4
  <2>3. QED
    BY <2>1, <2>2 DEF Coming
<1>5. ASSUME NEW r \in Sessions, r # s, phase[r] = "queued"
      PROVE  \E i \in DOMAIN sem'.waiters : sem'.waiters[i] = r
  <2>1. PICK i \in DOMAIN sem.waiters : sem.waiters[i] = r
    BY <1>5 DEF OrderOfAll, OrderInv
  <2>2. i - 1 \in DOMAIN sem'.waiters /\ sem'.waiters[i - 1] = r
    BY <1>3, <1>5, <2>1
  <2>3. QED
    BY <2>2
<1>6. ASSUME NEW i \in DOMAIN sem'.waiters, NEW j \in DOMAIN sem'.waiters, i < j
      PROVE  ~StartsBefore(sem'.waiters[j], sem'.waiters[i])
  <2>1. i + 1 \in DOMAIN sem.waiters /\ j + 1 \in DOMAIN sem.waiters /\ i + 1 < j + 1
    BY <1>3, <1>6
  <2>2. ~StartsBefore(sem.waiters[j + 1], sem.waiters[i + 1])
    BY <2>1 DEF OrderOfAll, OrderInv
  <2>3. sem'.waiters[i] = sem.waiters[i + 1] /\ sem'.waiters[j] = sem.waiters[j + 1]
    BY <1>3
  <2>4. QED
    BY <2>2, <2>3
<1>7. Coming(s)
  BY <1>1 DEF Coming
<1>8. Admit(s) \/ (PopFails(s) /\ UNCHANGED admitted)
  BY DEF AdmitQueued, PopFails
<1>9. QED
  BY <1>4, <1>5, <1>6, <1>7, <1>8, AdmitOrder

\* Every step keeps the order: an admission is the first of those still coming.
LEMMA NextOrder == TInv /\ QueueInv /\ OrderOfAll /\ [Next]_vars => OrderOfAll'
<1> SUFFICES ASSUME TInv, QueueInv, OrderOfAll, [Next]_vars PROVE OrderOfAll'
  OBVIOUS
<1>1. ASSUME NEW s \in Sessions, StartAdmitted(s) \/ StartQueued(s) \/ AdmitQueued(s)
      PROVE  OrderOfAll'
  BY <1>1, StartOrder, QueueOrder, HeadOrder
<1>2. ASSUME NEW s \in Sessions, AnswerNext(s) \/ AnswerLast(s) \/ AnswerRaises(s) \/ WaitOver(s)
      PROVE  OrderOfAll'
  <2>1. /\ phase[s] \in {"sending", "waiting"}
        /\ phase'[s] \in {"sending", "waiting", "done", "raised"}
        /\ \A r \in Sessions : r # s => phase'[r] = phase[r]
    BY <1>2 DEF AnswerNext, AnswerLast, AnswerRaises, WaitOver, AwaitsAnswer, Send, Finish, Raise, TInv, TypeOK
  <2>2. UNCHANGED admitted /\ clock' \in Nat /\ clock <= clock'
    <3>1. clock \in Nat
      BY DEF TInv, TypeOK
    <3>2. CASE AnswerLast(s)
      BY <3>1, <3>2 DEF AnswerLast, Finish
    <3>3. CASE AnswerNext(s) \/ AnswerRaises(s) \/ WaitOver(s)
      <4>1. UNCHANGED times
        BY <3>3 DEF AnswerNext, AnswerRaises, WaitOver
      <4>2. QED
        BY <3>1, <4>1 DEF times
    <3>4. QED
      BY <1>2, <3>2, <3>3
  <2>3. sem'.waiters = sem.waiters
    BY <1>2 DEF AnswerNext, AnswerLast, AnswerRaises, WaitOver, Finish, Release, TInv, TypeOK, Semaphore
  <2>4. QED
    BY <2>1, <2>2, <2>3, KeepsOrder
<1>3. CASE RowWriteFails \/ Gathered \/ Cancel \/ UNCHANGED vars
  BY <1>3 DEF RowWriteFails, Gathered, Cancel, vars, times, OrderOfAll, OrderInv, AdmittedInOrder, Coming, StartsBefore
<1>4. QED
  BY <1>1, <1>2, <1>3 DEF Next, Step, Over

\* Sessions are admitted in the order they are due: one that is due earlier is admitted earlier or has raised.
THEOREM AdmissionsInOrder == Spec => []AdmittedInOrder
<1>1. OrderOfAll => AdmittedInOrder
  BY DEF OrderOfAll
<1>2. QED
  BY <1>1, InitTInv, NextTInv, InitQueue, NextQueue, InitOrder, NextOrder, PTL DEF Spec

-------------------------------------------------------------------------------
(* The first admissions. *)

\* The sessions admitted so far, and the place of one among them.
Admitted == {r \in Sessions : admitted[r] > 0}

\* The sessions admitted up to session s, whose number is s's rank.
UpTo(s) == {r \in Sessions : admitted[r] \in 1 .. admitted[s]}
Rank(s) == Cardinality(UpTo(s))

\* The agents no session took yet are the list's head, in their order; the k-th admission, for k <= C, took agent k - 1.
FirstInv ==
  /\ \A i \in 1 .. C - Cardinality(Admitted) : i \in DOMAIN freeAgents /\ freeAgents[i] = Cardinality(Admitted) + i - 1
  /\ \A s \in Admitted : Rank(s) <= C => agent[s] = Rank(s) - 1
  /\ \A r, s \in Admitted : r # s => admitted[r] # admitted[s]

\* The admissions can be counted.
LEMMA AdmittedFinite == IsFiniteSet(Sessions) /\ IsFiniteSet(Admitted) /\ \A s \in Sessions : IsFiniteSet(UpTo(s))
<1>1. IsFiniteSet(Sessions)
  BY CountsAssumption, FS_Interval DEF Sessions
<1>2. Admitted \subseteq Sessions /\ \A s \in Sessions : UpTo(s) \subseteq Sessions
  BY DEF Admitted, UpTo
<1>3. QED
  BY <1>1, <1>2, FS_Subset

\* At the start the list holds every agent, in its order.
LEMMA InitFirst == Init => FirstInv
<1> SUFFICES ASSUME Init PROVE FirstInv
  OBVIOUS
<1>1. Admitted = {}
  BY DEF Init, Admitted
<1>2. Cardinality(Admitted) = 0
  BY <1>1, FS_EmptySet
<1>3. QED
  BY <1>1, <1>2, CountsAssumption DEF Init, FirstInv

\* Steps that admit nobody and lose none of the list's head.
LEMMA KeepsFirst ==
  ASSUME FirstInv, UNCHANGED <<admitted, agent>>,
         \A i \in DOMAIN freeAgents : i \in DOMAIN freeAgents' /\ freeAgents'[i] = freeAgents[i]
  PROVE  FirstInv'
BY DEF FirstInv, Admitted, Rank, UpTo

\* The next admission takes the next agent while there is one nobody took.
LEMMA AdmitFirst ==
  ASSUME TInv, OrderOfAll, FirstInv, NEW s \in Sessions, admitted[s] = 0, Admit(s)
  PROVE  FirstInv'
<1> DEFINE n == Cardinality(Admitted)
<1>1. /\ freeAgents \in Seq(Agents) /\ freeAgents # <<>>
      /\ freeAgents' = Tail(freeAgents)
      /\ agent'[s] = Head(freeAgents) /\ \A r \in Sessions : r # s => agent'[r] = agent[r]
      /\ admitted'[s] = clock + 1 /\ \A r \in Sessions : r # s => admitted'[r] = admitted[r]
      /\ clock \in Nat /\ \A r \in Sessions : admitted[r] \in Nat /\ admitted[r] <= clock
  BY DEF Admit, TInv, TypeOK, OrderOfAll, OrderInv
<1>2. /\ Head(freeAgents) = freeAgents[1] /\ Len(freeAgents) \in Nat \ {0}
      /\ DOMAIN freeAgents = 1 .. Len(freeAgents)
      /\ DOMAIN freeAgents' = 1 .. Len(freeAgents) - 1
      /\ \A i \in 1 .. Len(freeAgents) - 1 : freeAgents'[i] = freeAgents[i + 1]
  BY <1>1, EmptySeq, HeadTailProperties, LenProperties
<1>3. Admitted' = Admitted \cup {s} /\ s \notin Admitted
  BY <1>1 DEF Admitted
<1>4. Cardinality(Admitted)' = n + 1 /\ n \in Nat
  <2>1. Cardinality(Admitted \cup {s}) = n + 1
    BY <1>3, AdmittedFinite, FS_AddElement
  <2>2. n \in Nat
    BY AdmittedFinite, FS_CardinalityType
  <2>3. QED
    BY <1>3, <2>1, <2>2
<1>5. \A r \in Admitted : UpTo(r)' = UpTo(r)
  <2> SUFFICES ASSUME NEW r \in Admitted PROVE UpTo(r)' = UpTo(r)
    OBVIOUS
  <2>1. r \in Sessions /\ r # s /\ admitted'[r] = admitted[r]
    BY <1>1, <1>3 DEF Admitted
  <2>2. \A q \in Sessions : admitted'[q] \in 1 .. admitted[r] <=> admitted[q] \in 1 .. admitted[r]
    BY <1>1, <2>1
  <2>3. QED
    BY <2>1, <2>2 DEF UpTo
<1>6. UpTo(s)' = Admitted'
  BY <1>1 DEF UpTo, Admitted
<1>7. ASSUME NEW i \in 1 .. C - (n + 1)
      PROVE  i \in DOMAIN freeAgents' /\ freeAgents'[i] = (n + 1) + i - 1
  <2>1. i + 1 \in 1 .. C - n
    BY <1>4, <1>7, CountsAssumption
  <2>2. i + 1 \in DOMAIN freeAgents /\ freeAgents[i + 1] = n + (i + 1) - 1
    BY <2>1 DEF FirstInv
  <2>3. i \in 1 .. Len(freeAgents) - 1
    BY <1>2, <1>7, <2>2
  <2>4. QED
    BY <1>2, <1>4, <1>7, <2>2, <2>3
<1>8. ASSUME n + 1 <= C
      PROVE  agent'[s] = (n + 1) - 1
  <2>1. 1 \in 1 .. C - n
    BY <1>4, <1>8, CountsAssumption
  <2>2. freeAgents[1] = n + 1 - 1
    BY <2>1 DEF FirstInv
  <2>3. QED
    BY <1>1, <1>2, <1>4, <2>2
<1>9. ASSUME NEW r \in Admitted', Rank(r)' <= C
      PROVE  agent'[r] = Rank(r)' - 1
  <2>1. CASE r = s
    BY <1>4, <1>6, <1>8, <1>9, <2>1 DEF Rank
  <2>2. CASE r # s
    <3>1. r \in Admitted /\ r \in Sessions /\ Rank(r)' = Rank(r)
      BY <1>3, <1>5, <2>2 DEF Rank, Admitted
    <3>2. QED
      BY <1>1, <1>9, <2>2, <3>1 DEF FirstInv
  <2>3. QED
    BY <2>1, <2>2
<1>10. \A r, q \in Admitted' : r # q => admitted'[r] # admitted'[q]
  <2>1. \A r \in Admitted : r \in Sessions
    BY DEF Admitted
  <2>2. \A r \in Admitted : admitted'[r] = admitted[r] /\ admitted[r] # clock + 1
    BY <1>1, <1>3, <2>1
  <2>3. QED
    BY <1>1, <1>3, <2>2 DEF FirstInv
<1>11. QED
  BY <1>4, <1>7, <1>9, <1>10 DEF FirstInv

\* Every step keeps it: an admission takes the head, and what is given back goes behind.
LEMMA NextFirst == TInv /\ QueueInv /\ OrderOfAll /\ FirstInv /\ [Next]_vars => FirstInv'
<1> SUFFICES ASSUME TInv, QueueInv, OrderOfAll, FirstInv, [Next]_vars PROVE FirstInv'
  OBVIOUS
<1>1. ASSUME NEW s \in Sessions, StartAdmitted(s) \/ AdmitQueued(s)
      PROVE  FirstInv'
  <2>1. phase[s] \in {"asleep", "queued"}
    BY <1>1, QueuedHead DEF StartAdmitted, InTurnToStart, AdmitQueued
  <2>2. admitted[s] = 0
    BY <2>1 DEF OrderOfAll, OrderInv, Coming
  <2>3. CASE Admit(s)
    BY <2>2, <2>3, AdmitFirst
  <2>4. CASE PopFails(s)
    BY <2>4, KeepsFirst DEF PopFails
  <2>5. QED
    BY <1>1, <2>3, <2>4 DEF StartAdmitted, AdmitQueued
<1>2. ASSUME NEW s \in Sessions, AnswerLast(s)
      PROVE  FirstInv'
  <2>1. agent[s] \in Agents /\ freeAgents \in Seq(Agents) /\ freeAgents' = Append(freeAgents, agent[s])
    BY <1>2 DEF AnswerLast, AwaitsAnswer, Finish, TInv, TypeOK, InTurns
  <2>2. \A i \in DOMAIN freeAgents : i \in DOMAIN freeAgents' /\ freeAgents'[i] = freeAgents[i]
    BY <2>1, AppendProperties, LenProperties
  <2>3. QED
    BY <1>2, <2>2, KeepsFirst DEF AnswerLast
<1>3. ASSUME NEW s \in Sessions, StartQueued(s) \/ AnswerNext(s) \/ AnswerRaises(s) \/ WaitOver(s)
      PROVE  FirstInv'
  BY <1>3, KeepsFirst DEF StartQueued, AnswerNext, AnswerRaises, WaitOver, times
<1>4. CASE RowWriteFails \/ Gathered \/ Cancel \/ UNCHANGED vars
  BY <1>4, KeepsFirst DEF RowWriteFails, Gathered, Cancel, vars, times
<1>5. QED
  BY <1>1, <1>2, <1>3, <1>4 DEF Next, Step, Over

\* Two admissions have two ranks.
LEMMA RanksDiffer ==
  ASSUME TInv, FirstInv, NEW r \in Admitted, NEW s \in Admitted, r # s
  PROVE  Rank(r) # Rank(s)
<1>1. \A p, q \in Admitted : admitted[p] < admitted[q] => Rank(p) < Rank(q)
  <2> SUFFICES ASSUME NEW p \in Admitted, NEW q \in Admitted, admitted[p] < admitted[q] PROVE Rank(p) < Rank(q)
    OBVIOUS
  <2>1. p \in Sessions /\ q \in Sessions /\ \A x \in Sessions : admitted[x] \in Nat
    BY DEF Admitted, TInv, TypeOK
  <2>2. UpTo(p) \subseteq UpTo(q) /\ q \in UpTo(q) /\ q \notin UpTo(p)
    BY <2>1 DEF UpTo, Admitted
  <2>3. Cardinality(UpTo(p)) <= Cardinality(UpTo(q)) /\ UpTo(p) # UpTo(q)
    BY <2>1, <2>2, AdmittedFinite, FS_Subset
  <2>4. Cardinality(UpTo(p)) # Cardinality(UpTo(q))
    BY <2>1, <2>2, AdmittedFinite, FS_Subset
  <2>5. Cardinality(UpTo(p)) \in Nat /\ Cardinality(UpTo(q)) \in Nat
    BY <2>1, AdmittedFinite, FS_CardinalityType
  <2>6. QED
    BY <2>3, <2>4, <2>5 DEF Rank
<1>2. admitted[r] \in Nat /\ admitted[s] \in Nat /\ admitted[r] # admitted[s]
  BY DEF Admitted, TInv, TypeOK, FirstInv
<1>3. Rank(r) \in Nat /\ Rank(s) \in Nat
  BY AdmittedFinite, FS_CardinalityType DEF Rank, Admitted
<1>4. QED
  BY <1>1, <1>2, <1>3

\* The first C admissions play on C different agents, which the steady window of a run without agent_of relies on.
THEOREM FirstAdmissions == Spec => []FirstAdmissionsAreFirstPlays
<1>1. TInv /\ FirstInv => FirstAdmissionsAreFirstPlays
  <2> SUFFICES ASSUME TInv, FirstInv, NEW r \in Sessions, NEW s \in Sessions, AmongFirst(r), AmongFirst(s), r # s
               PROVE  agent[r] # agent[s]
    BY DEF FirstAdmissionsAreFirstPlays
  <2>1. r \in Admitted /\ s \in Admitted /\ Rank(r) <= C /\ Rank(s) <= C
    BY DEF AmongFirst, Admitted, Rank, UpTo
  <2>2. agent[r] = Rank(r) - 1 /\ agent[s] = Rank(s) - 1
    BY <2>1 DEF FirstInv
  <2>3. Rank(r) \in Nat /\ Rank(s) \in Nat
    BY AdmittedFinite, FS_CardinalityType DEF Rank
  <2>4. QED
    BY <2>1, <2>2, <2>3, RanksDiffer
<1>2. QED
  BY <1>1, InitTInv, NextTInv, InitQueue, NextQueue, InitOrder, NextOrder, InitFirst, NextFirst, PTL DEF Spec
===============================================================================
