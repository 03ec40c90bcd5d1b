---------------------------- MODULE RecycledProofs ----------------------------
(***************************************************************************)
(* Proofs about Recycled, for every number of agents, sessions and turns,  *)
(* every streak limit and every bound on the plays drawn.                  *)
(***************************************************************************)
EXTENDS MCRecycled, FiniteSetTheorems, TLAPS

\* An agent at a play was given it by the counter, and has its earlier turns behind it.
InPlay ==
  \A a \in Agents :
    AtPlay(a) =>
      /\ play[a] \in Plays /\ play[a] < draws
      /\ turn[a] \in 1 .. Turns[play[a]]
      /\ <<play[a], turn[a]>> \in executed
      /\ \A t \in 1 .. turn[a] - 1 : <<play[a], t>> \in succeeded
      /\ phase[a] = "waiting" => turn[a] < Turns[play[a]] /\ <<play[a], turn[a]>> \in succeeded

\* The type invariant with what makes it inductive.
TInv == TypeOK /\ InPlay

\* Each play has a turn.
LEMMA TurnsOfPlays == \A k \in Plays : Turns[k] \in Nat \ {0}
<1> SUFFICES ASSUME NEW k \in Plays PROVE Turns[k] \in Nat \ {0}
  OBVIOUS
<1>1. k \in Nat /\ N \in Nat \ {0}
  BY CountsAssumption DEF Plays
<1>2. k % N \in 0 .. N - 1
  BY <1>1
<1>3. QED
  BY <1>2, TurnsAssumption DEF Turns, SessionOf

\* A key is a play and one of its turns.
LEMMA KeyOfPlay ==
  ASSUME NEW k \in Plays, NEW t \in 1 .. Turns[k]
  PROVE  <<k, t>> \in Keys
BY DEF Keys

\* A key is a play and one of its turns.
LEMMA KeyParts ==
  ASSUME NEW q \in Keys
  PROVE  q[1] \in Plays /\ q[2] \in 1 .. Turns[q[1]] /\ q = <<q[1], q[2]>>
BY DEF Keys

\* A request goes out.
LEMMA SendType ==
  ASSUME TypeOK, NEW a \in Agents, NEW k \in Plays, NEW t \in 1 .. Turns[k], Send(a, k, t)
  PROVE  /\ phase' \in [Agents -> {"asleep", "sending", "waiting", "done", "aborted", "raised", "cancelled"}]
         /\ play' \in [Agents -> Plays \cup {NoPlay}] /\ turn' \in [Agents -> Nat]
         /\ executed \subseteq executed' /\ executed' \subseteq Keys
         /\ <<k, t>> \in executed'
<1>1. Turns[k] \in Nat
  BY TurnsOfPlays
<1>2. QED
  BY <1>1, KeyOfPlay DEF Send, TypeOK

\* A draw takes a play nobody was at, from its first turn.
LEMMA DrawType ==
  ASSUME TInv, NEW a \in Agents, Draw(a), UNCHANGED past, succeeded \subseteq succeeded'
  PROVE  /\ phase' \in [Agents -> {"asleep", "sending", "waiting", "done", "aborted", "raised", "cancelled"}]
         /\ play' \in [Agents -> Plays \cup {NoPlay}] /\ turn' \in [Agents -> Nat]
         /\ executed \subseteq executed' /\ executed' \subseteq Keys
         /\ draws' \in Nat
         /\ InPlay'
<1>1. draws \in Plays
  BY CountsAssumption DEF Draw, TInv, TypeOK, Plays
<1>2. Turns[draws] \in Nat \ {0} /\ 1 \in 1 .. Turns[draws]
  BY <1>1, TurnsOfPlays
<1>3. /\ phase' \in [Agents -> {"asleep", "sending", "waiting", "done", "aborted", "raised", "cancelled"}]
      /\ play' \in [Agents -> Plays \cup {NoPlay}] /\ turn' \in [Agents -> Nat]
      /\ executed \subseteq executed' /\ executed' \subseteq Keys
      /\ <<draws, 1>> \in executed'
  BY <1>1, <1>2, SendType DEF Draw, TInv
<1>4. draws' = draws + 1 /\ draws' \in Nat
  BY DEF Draw, TInv, TypeOK
<1>5. InPlay'
  <2> SUFFICES ASSUME NEW b \in Agents, AtPlay(b)'
               PROVE  /\ play'[b] \in Plays /\ play'[b] < draws'
                      /\ turn'[b] \in 1 .. Turns[play'[b]]
                      /\ <<play'[b], turn'[b]>> \in executed'
                      /\ \A t \in 1 .. turn'[b] - 1 : <<play'[b], t>> \in succeeded'
                      /\ phase'[b] = "waiting" => turn'[b] < Turns[play'[b]] /\ <<play'[b], turn'[b]>> \in succeeded'
    BY DEF InPlay
  <2>1. CASE b = a
    <3>1. phase'[b] = "sending" /\ play'[b] = draws /\ turn'[b] = 1
      BY <2>1 DEF Draw, Send, TInv, TypeOK
    <3>2. 1 .. turn'[b] - 1 = {}
      BY <3>1
    <3>3. draws < draws'
      BY <1>1, <1>4 DEF Plays
    <3>4. QED
      BY <3>1, <3>2, <3>3, <1>1, <1>2, <1>3
  <2>2. CASE b # a
    <3>1. phase'[b] = phase[b] /\ play'[b] = play[b] /\ turn'[b] = turn[b]
      BY <2>2 DEF Draw, Send, TInv, TypeOK
    <3>2. AtPlay(b)
      BY <3>1 DEF AtPlay
    <3>3. /\ play[b] \in Plays /\ play[b] < draws
          /\ turn[b] \in 1 .. Turns[play[b]]
          /\ <<play[b], turn[b]>> \in executed
          /\ \A t \in 1 .. turn[b] - 1 : <<play[b], t>> \in succeeded
          /\ phase[b] = "waiting" => turn[b] < Turns[play[b]] /\ <<play[b], turn[b]>> \in succeeded
      BY <3>2 DEF TInv, InPlay
    <3>4. play[b] < draws'
      BY <3>3, <1>4, <1>1 DEF Plays, TInv, TypeOK
    <3>5. QED
      BY <3>1, <3>3, <3>4, <1>3
  <2>3. QED
    BY <2>1, <2>2
<1>6. QED
  BY <1>3, <1>4, <1>5

\* An agent that leaves its play, or takes none up, disturbs no other.
LEMMA LeaveType ==
  ASSUME TInv, NEW a \in Agents, NEW p \in {"done", "aborted", "raised"},
         phase' = [phase EXCEPT ![a] = p], UNCHANGED <<play, turn, draws, executed>>,
         succeeded \subseteq succeeded'
  PROVE  /\ phase' \in [Agents -> {"asleep", "sending", "waiting", "done", "aborted", "raised", "cancelled"}]
         /\ InPlay'
BY DEF TInv, TypeOK, InPlay, AtPlay

\* Recording an answer keeps the types of what is recorded.
LEMMA RecordType ==
  ASSUME TInv, NEW a \in Agents, phase[a] = "sending", NEW ok \in BOOLEAN, Record(a, ok)
  PROVE  /\ succeeded \subseteq succeeded' /\ succeeded' \subseteq executed /\ failed' \subseteq executed
         /\ streak' \in Nat
         /\ ok => <<play[a], turn[a]>> \in succeeded'
         /\ ~ok => <<play[a], turn[a]>> \in failed'
         /\ failed \subseteq failed'
BY DEF Record, TInv, TypeOK, InPlay, AtPlay

\* The turn before the last one answered, or a wait over, leads to the next turn of the play.
LEMMA NextTurnType ==
  ASSUME TInv, NEW a \in Agents, AtPlay(a), turn[a] < Turns[play[a]],
         Send(a, play[a], turn[a] + 1), UNCHANGED draws,
         succeeded \subseteq succeeded', <<play[a], turn[a]>> \in succeeded'
  PROVE  /\ phase' \in [Agents -> {"asleep", "sending", "waiting", "done", "aborted", "raised", "cancelled"}]
         /\ play' \in [Agents -> Plays \cup {NoPlay}] /\ turn' \in [Agents -> Nat]
         /\ executed \subseteq executed' /\ executed' \subseteq Keys
         /\ InPlay'
<1>1. /\ play[a] \in Plays /\ play[a] < draws
      /\ turn[a] \in 1 .. Turns[play[a]]
      /\ \A t \in 1 .. turn[a] - 1 : <<play[a], t>> \in succeeded
  BY DEF TInv, InPlay
<1>2. turn[a] + 1 \in 1 .. Turns[play[a]]
  BY <1>1, TurnsOfPlays
<1>3. /\ phase' \in [Agents -> {"asleep", "sending", "waiting", "done", "aborted", "raised", "cancelled"}]
      /\ play' \in [Agents -> Plays \cup {NoPlay}] /\ turn' \in [Agents -> Nat]
      /\ executed \subseteq executed' /\ executed' \subseteq Keys
      /\ <<play[a], turn[a] + 1>> \in executed'
  BY <1>1, <1>2, SendType DEF TInv
<1>4. \A t \in 1 .. turn[a] : <<play[a], t>> \in succeeded'
  <2>1. \A t \in 1 .. turn[a] : t = turn[a] \/ t \in 1 .. turn[a] - 1
    BY <1>1, TurnsOfPlays
  <2>2. QED
    BY <1>1, <2>1
<1>5. ASSUME NEW b \in Agents, AtPlay(b)'
      PROVE  /\ play'[b] \in Plays /\ play'[b] < draws'
             /\ turn'[b] \in 1 .. Turns[play'[b]]
             /\ <<play'[b], turn'[b]>> \in executed'
             /\ \A t \in 1 .. turn'[b] - 1 : <<play'[b], t>> \in succeeded'
             /\ phase'[b] = "waiting" => turn'[b] < Turns[play'[b]] /\ <<play'[b], turn'[b]>> \in succeeded'
  <2>1. CASE b = a
    <3>1. phase'[b] = "sending" /\ play'[b] = play[a] /\ turn'[b] = turn[a] + 1
      BY <2>1 DEF Send, TInv, TypeOK
    <3>2. turn[a] + 1 - 1 = turn[a]
      BY <1>1, TurnsOfPlays
    <3>3. QED
      BY <3>1, <3>2, <1>1, <1>2, <1>3, <1>4
  <2>2. CASE b # a
    <3>1. phase'[b] = phase[b] /\ play'[b] = play[b] /\ turn'[b] = turn[b]
      BY <2>2 DEF Send, TInv, TypeOK
    <3>2. AtPlay(b)
      BY <3>1, <1>5 DEF AtPlay
    <3>3. QED
      BY <3>1, <3>2, <1>3 DEF TInv, InPlay
  <2>3. QED
    BY <2>1, <2>2
<1>6. QED
  BY <1>3, <1>5 DEF InPlay

LEMMA InitTInv == Init => TInv
<1> SUFFICES ASSUME Init PROVE TInv
  OBVIOUS
<1>1. TypeOK
  BY DEF Init, TypeOK
<1>2. \A a \in Agents : phase[a] = "asleep"
  BY DEF Init
<1>3. InPlay
  BY <1>2 DEF InPlay, AtPlay
<1>4. QED
  BY <1>1, <1>3 DEF TInv

LEMMA NextTInv == TInv /\ [Next]_vars => TInv'
<1> SUFFICES ASSUME TInv, [Next]_vars PROVE TInv'
  OBVIOUS
<1>1. ASSUME NEW a \in Agents, Start(a)
      PROVE  TInv'
  <2>1. CASE Draw(a)
    BY <1>1, <2>1, DrawType DEF Start, TInv, TypeOK
  <2>2. CASE Retire(a)
    BY <1>1, <2>2, LeaveType DEF Start, Retire, TInv, TypeOK
  <2>3. QED
    BY <1>1, <2>1, <2>2 DEF Start
<1>2. ASSUME NEW a \in Agents, AnswerNext(a)
      PROVE  TInv'
  <2>1. /\ succeeded \subseteq succeeded' /\ succeeded' \subseteq executed /\ failed' \subseteq executed
        /\ streak' \in Nat
        /\ <<play[a], turn[a]>> \in succeeded'
    BY <1>2, RecordType DEF AnswerNext, AwaitsAnswer
  <2>2. AtPlay(a)
    BY <1>2 DEF AnswerNext, AwaitsAnswer, AtPlay
  <2>3. CASE Send(a, play[a], turn[a] + 1)
    BY <1>2, <2>1, <2>2, <2>3, NextTurnType DEF AnswerNext, TInv, TypeOK
  <2>4. CASE phase' = [phase EXCEPT ![a] = "waiting"] /\ UNCHANGED <<play, turn, executed>>
    BY <1>2, <2>1, <2>2, <2>4 DEF AnswerNext, TInv, TypeOK, InPlay, AtPlay
  <2>5. QED
    BY <1>2, <2>3, <2>4 DEF AnswerNext
<1>3. ASSUME NEW a \in Agents, AnswerLast(a)
      PROVE  TInv'
  <2>1. /\ succeeded \subseteq succeeded' /\ succeeded' \subseteq executed /\ failed' \subseteq executed
        /\ streak' \in Nat
    BY <1>3, RecordType DEF AnswerLast, AwaitsAnswer
  <2>2. agentOf' \in [Plays -> Agents \cup {NoPlay}]
    BY <1>3 DEF AnswerLast, TInv, TypeOK
  <2>3. CASE Draw(a)
    BY <1>3, <2>1, <2>2, <2>3, DrawType DEF AnswerLast, TInv, TypeOK
  <2>4. CASE Retire(a)
    BY <1>3, <2>1, <2>2, <2>4, LeaveType DEF AnswerLast, Retire, TInv, TypeOK
  <2>5. CASE phase' = [phase EXCEPT ![a] = "aborted"] /\ UNCHANGED <<play, turn, draws, executed>>
    BY <1>3, <2>1, <2>2, <2>5, LeaveType DEF AnswerLast, TInv, TypeOK
  <2>6. QED
    BY <1>3, <2>3, <2>4, <2>5 DEF AnswerLast
<1>4. ASSUME NEW a \in Agents, AnswerRaises(a)
      PROVE  TInv'
  BY <1>4, LeaveType DEF AnswerRaises, TInv, TypeOK, plan
<1>5. ASSUME NEW a \in Agents, WaitOver(a)
      PROVE  TInv'
  <2>1. AtPlay(a) /\ turn[a] < Turns[play[a]] /\ <<play[a], turn[a]>> \in succeeded
    BY <1>5 DEF WaitOver, AtPlay, TInv, InPlay
  <2>2. QED
    BY <1>5, <2>1, NextTurnType DEF WaitOver, TInv, TypeOK
<1>6. CASE Deadline
  BY <1>6 DEF Deadline, TInv, TypeOK, InPlay, AtPlay, plan
<1>7. CASE RowWriteFails
  BY <1>7 DEF RowWriteFails, TInv, TypeOK, InPlay, AtPlay, plan
<1>8. CASE Return
  BY <1>8 DEF Return, Ended, TInv, TypeOK, InPlay, AtPlay, plan
<1>9. CASE UNCHANGED vars
  BY <1>9 DEF vars, TInv, TypeOK, InPlay, AtPlay, plan
<1>10. QED
  BY <1>1, <1>2, <1>3, <1>4, <1>5, <1>6, <1>7, <1>8, <1>9 DEF Next, Answered, Timed, Over

\* Every reachable state has the types TypeOK gives.
THEOREM Typing == Spec => []TypeOK
<1>1. TInv => TypeOK
  BY DEF TInv
<1>2. QED
  BY <1>1, InitTInv, NextTInv, PTL DEF Spec

-------------------------------------------------------------------------------
(* The streak. *)

\* The limit is at least one failure for each agent.
LEMMA LimitIsNat == StreakLimit \in Nat \ {0} /\ C <= StreakLimit
BY CountsAssumption DEF StreakLimit

\* The agents that aborted are finitely many, at most C.
LEMMA AbortedFinite ==
  /\ IsFiniteSet(Aborted) /\ Cardinality(Aborted) \in 0 .. C
  /\ Aborted' \subseteq Agents /\ IsFiniteSet(Aborted')
<1>1. IsFiniteSet(Agents) /\ Cardinality(Agents) = C
  BY CountsAssumption, FS_Interval DEF Agents
<1>2. Aborted \subseteq Agents /\ Aborted' \subseteq Agents
  BY DEF Aborted
<1>3. /\ IsFiniteSet(Aborted) /\ Cardinality(Aborted) \in Nat /\ Cardinality(Aborted) <= C
      /\ IsFiniteSet(Aborted')
  BY <1>1, <1>2, FS_Subset, FS_CardinalityType
<1>4. QED
  BY <1>2, <1>3, CountsAssumption

\* A step in which nobody aborts and the streak is below the limit, or stays where it was.
LEMMA StreakKept ==
  ASSUME StreakBounded, streak \in Nat, Aborted' = Aborted, streak' \in Nat,
         streak' = streak \/ streak' < StreakLimit
  PROVE  StreakBounded'
BY AbortedFinite, LimitIsNat DEF StreakBounded

\* A failure past the limit is of an agent that aborts with it.
LEMMA NextStreakBounded ==
  ASSUME TInv, TInv', StreakBounded, [Next]_vars
  PROVE  StreakBounded'
<1>1. streak \in Nat /\ streak' \in Nat
  BY DEF TInv, TypeOK
<1>2. ASSUME NEW a \in Agents, AnswerLast(a)
      PROVE  StreakBounded'
  <2>1. CASE streak' >= StreakLimit /\ phase' = [phase EXCEPT ![a] = "aborted"]
    <3>1. a \notin Aborted
      BY <1>2 DEF AnswerLast, AwaitsAnswer, Aborted
    <3>2. Aborted' = Aborted \cup {a}
      BY <2>1 DEF Aborted, TInv, TypeOK
    <3>3. Cardinality(Aborted') = Cardinality(Aborted) + 1
      BY <3>1, <3>2, AbortedFinite, FS_AddElement
    <3>4. streak' <= streak + 1
      BY <1>1, <1>2 DEF AnswerLast, Record
    <3>5. QED
      BY <1>1, <3>3, <3>4, AbortedFinite, LimitIsNat DEF StreakBounded
  <2>2. CASE streak' < StreakLimit /\ (Draw(a) \/ Retire(a))
    <3>1. phase' = [phase EXCEPT ![a] = "sending"] \/ phase' = [phase EXCEPT ![a] = "done"]
      BY <2>2 DEF Draw, Send, Retire
    <3>2. Aborted' = Aborted
      BY <1>2, <3>1 DEF AnswerLast, AwaitsAnswer, Aborted, TInv, TypeOK
    <3>3. QED
      BY <1>1, <2>2, <3>2, StreakKept
  <2>3. QED
    BY <1>2, <2>1, <2>2 DEF AnswerLast
<1>3. ASSUME NEW a \in Agents, AnswerNext(a)
      PROVE  StreakBounded'
  <2>1. streak' = 0
    BY <1>3 DEF AnswerNext, Record
  <2>2. phase' = [phase EXCEPT ![a] = "sending"] \/ phase' = [phase EXCEPT ![a] = "waiting"]
    BY <1>3 DEF AnswerNext, Send
  <2>3. Aborted' = Aborted
    BY <1>3, <2>2 DEF AnswerNext, AwaitsAnswer, Aborted, TInv, TypeOK
  <2>4. QED
    BY <1>1, <2>1, <2>3, StreakKept, LimitIsNat
<1>4. ASSUME NEW a \in Agents, Start(a) \/ WaitOver(a)
      PROVE  StreakBounded'
  <2>1. phase[a] # "aborted" /\ streak' = streak
    BY <1>4 DEF Start, WaitOver
  <2>2. phase' = [phase EXCEPT ![a] = "sending"] \/ phase' = [phase EXCEPT ![a] = "done"]
    BY <1>4 DEF Start, WaitOver, Draw, Retire, Send
  <2>3. Aborted' = Aborted
    BY <2>1, <2>2 DEF Aborted, TInv, TypeOK
  <2>4. QED
    BY <1>1, <2>1, <2>3, StreakKept
<1>5. ASSUME NEW a \in Agents, AnswerRaises(a)
      PROVE  StreakBounded'
  <2>1. phase[a] # "aborted" /\ streak' = streak /\ phase' = [phase EXCEPT ![a] = "raised"]
    BY <1>5 DEF AnswerRaises, AwaitsAnswer
  <2>2. Aborted' = Aborted
    BY <2>1 DEF Aborted, TInv, TypeOK
  <2>3. QED
    BY <1>1, <2>1, <2>2, StreakKept
<1>6. CASE Return
  <2>1. Aborted' = Aborted /\ streak' = streak
    BY <1>6 DEF Return, Ended, Aborted, TInv, TypeOK
  <2>2. QED
    BY <1>1, <2>1, StreakKept
<1>7. CASE Deadline \/ RowWriteFails \/ UNCHANGED vars
  <2>1. UNCHANGED <<phase, streak>>
    BY <1>7 DEF Deadline, RowWriteFails, vars
  <2>2. QED
    BY <2>1 DEF StreakBounded, Aborted
<1>8. QED
  BY <1>2, <1>3, <1>4, <1>5, <1>6, <1>7 DEF Next, Answered, Timed, Over

\* Of the failures in a row at most one per agent comes after the one that ends the run (_recycled's streak limit).
THEOREM FailuresBounded == Spec => []FailuresInARowBounded
<1>1. Init => StreakBounded
  <2> SUFFICES ASSUME Init PROVE StreakBounded
    OBVIOUS
  <2>1. streak = 0
    BY DEF Init
  <2>2. QED
    BY <2>1, AbortedFinite, LimitIsNat DEF StreakBounded
<1>2. TInv /\ StreakBounded => FailuresInARowBounded
  BY AbortedFinite, LimitIsNat, CountsAssumption DEF TInv, TypeOK, StreakBounded, FailuresInARowBounded
<1>3. TInv /\ TInv' /\ StreakBounded /\ [Next]_vars => StreakBounded'
  BY NextStreakBounded
<1>4. QED
  BY <1>1, <1>2, <1>3, InitTInv, NextTInv, PTL DEF Spec

-------------------------------------------------------------------------------
(* The plays. *)

\* The plays that go on after a step, where agent a's may be a new one.
LEMMA PlayingAfter ==
  ASSUME TInv, NEW a \in Agents,
         \/ Draw(a) \/ Retire(a)
         \/ Send(a, play[a], turn[a] + 1)
         \/ /\ phase' \in {[phase EXCEPT ![a] = "waiting"], [phase EXCEPT ![a] = "aborted"], [phase EXCEPT ![a] = "raised"]}
            /\ UNCHANGED play
  PROVE  /\ \A b \in Agents : b # a => phase'[b] = phase[b] /\ play'[b] = play[b]
         /\ play'[a] \in {play[a], draws}
         /\ play'[a] # play[a] => Draw(a)
BY DEF Draw, Retire, Send, TInv, TypeOK

\* A draw takes a play nobody is at.
LEMMA NextPlaysDistinct ==
  ASSUME TInv, PlaysDistinct, [Next]_vars
  PROVE  PlaysDistinct'
<1>1. ASSUME NEW a \in Agents, Draw(a)
      PROVE  PlaysDistinct'
  <2>1. \A b \in Agents : b # a => phase'[b] = phase[b] /\ play'[b] = play[b]
    BY <1>1, PlayingAfter
  <2>2. play'[a] = draws
    BY <1>1 DEF Draw, Send, TInv, TypeOK
  <2>3. \A b \in Agents : b # a /\ AtPlay(b)' => play'[b] # draws
    <3> SUFFICES ASSUME NEW b \in Agents, b # a, AtPlay(b)' PROVE play'[b] # draws
      OBVIOUS
    <3>1. AtPlay(b)
      BY <2>1 DEF AtPlay
    <3>2. play[b] \in Plays /\ play[b] < draws
      BY <3>1 DEF TInv, InPlay
    <3>3. QED
      BY <2>1, <3>2 DEF Plays, TInv, TypeOK
  <2>4. QED
    BY <2>1, <2>2, <2>3 DEF PlaysDistinct, AtPlay
\* An agent that stays at its play, or leaves it, meets no other there.
<1>2. ASSUME NEW a \in Agents, AtPlay(a)' => AtPlay(a), UNCHANGED play,
             \A b \in Agents : b # a => phase'[b] = phase[b]
      PROVE  PlaysDistinct'
  BY <1>2 DEF PlaysDistinct, AtPlay
<1>3. ASSUME NEW a \in Agents, AtPlay(a), Send(a, play[a], turn[a] + 1)
      PROVE  PlaysDistinct'
  <2>1. UNCHANGED play /\ \A b \in Agents : b # a => phase'[b] = phase[b]
    BY <1>3 DEF Send, TInv, TypeOK
  <2>2. QED
    BY <1>2, <1>3, <2>1
<1>4. ASSUME NEW a \in Agents, NEW p \in {"done", "aborted", "raised"}, phase' = [phase EXCEPT ![a] = p], UNCHANGED play
      PROVE  PlaysDistinct'
  <2>1. ~AtPlay(a)' /\ \A b \in Agents : b # a => phase'[b] = phase[b]
    BY <1>4 DEF AtPlay, TInv, TypeOK
  <2>2. QED
    BY <1>2, <1>4, <2>1
<1>5. ASSUME NEW a \in Agents, Start(a) \/ AnswerLast(a)
      PROVE  PlaysDistinct'
  BY <1>1, <1>4, <1>5 DEF Start, AnswerLast, Retire
<1>6. ASSUME NEW a \in Agents, AnswerNext(a)
      PROVE  PlaysDistinct'
  <2>1. AtPlay(a)
    BY <1>6 DEF AnswerNext, AwaitsAnswer, AtPlay
  <2>2. CASE Send(a, play[a], turn[a] + 1)
    BY <1>3, <2>1, <2>2
  <2>3. CASE phase' = [phase EXCEPT ![a] = "waiting"] /\ UNCHANGED play
    <3>1. \A b \in Agents : b # a => phase'[b] = phase[b]
      BY <2>3 DEF TInv, TypeOK
    <3>2. QED
      BY <1>2, <2>1, <2>3, <3>1
  <2>4. QED
    BY <1>6, <2>2, <2>3 DEF AnswerNext
<1>7. ASSUME NEW a \in Agents, AnswerRaises(a)
      PROVE  PlaysDistinct'
  BY <1>4, <1>7 DEF AnswerRaises
<1>8. ASSUME NEW a \in Agents, WaitOver(a)
      PROVE  PlaysDistinct'
  <2>1. AtPlay(a)
    BY <1>8 DEF WaitOver, AtPlay
  <2>2. QED
    BY <1>3, <1>8, <2>1 DEF WaitOver
<1>9. CASE Return
  <2>1. \A b \in Agents : AtPlay(b)' => AtPlay(b)
    BY <1>9 DEF Return, AtPlay, Ended, TInv, TypeOK
  <2>2. UNCHANGED play
    BY <1>9 DEF Return
  <2>3. QED
    BY <2>1, <2>2 DEF PlaysDistinct
<1>10. CASE Deadline \/ RowWriteFails \/ UNCHANGED vars
  BY <1>10 DEF Deadline, RowWriteFails, vars, PlaysDistinct, AtPlay
<1>11. QED
  BY <1>5, <1>6, <1>7, <1>8, <1>9, <1>10 DEF Next, Answered, Timed, Over

\* The invariant Inv of the runs: types, the streak, and one agent per play (next(draws) in _recycled.agent).
THEOREM InvHolds == Spec => []Inv
<1>1. Init => StreakBounded /\ PlaysDistinct
  <2> SUFFICES ASSUME Init PROVE StreakBounded /\ PlaysDistinct
    OBVIOUS
  <2>1. streak = 0 /\ \A a \in Agents : phase[a] = "asleep"
    BY DEF Init
  <2>2. StreakBounded
    BY <2>1, AbortedFinite, LimitIsNat DEF StreakBounded
  <2>3. PlaysDistinct
    BY <2>1 DEF PlaysDistinct, AtPlay
  <2>4. QED
    BY <2>2, <2>3
<1>2. TInv /\ StreakBounded /\ PlaysDistinct => Inv
  BY DEF TInv, Inv
<1>3. TInv /\ TInv' /\ StreakBounded /\ [Next]_vars => StreakBounded'
  BY NextStreakBounded
<1>4. TInv /\ PlaysDistinct /\ [Next]_vars => PlaysDistinct'
  BY NextPlaysDistinct
<1>5. QED
  BY <1>1, <1>2, <1>3, <1>4, InitTInv, NextTInv, PTL DEF Spec

-------------------------------------------------------------------------------
(* Whole plays. *)

\* A play begun, each of its turns answered with success or at or after one that failed.
Whole(k) ==
  /\ agentOf[k] # NoPlay
  /\ \A t \in 1 .. Turns[k] : <<k, t>> \in succeeded \/ \E u \in 1 .. t : <<k, u>> \in failed

\* An agent is at it.
Played(k) == \E a \in Agents : AtPlay(a) /\ play[a] = k
SomeRaised == \E a \in Agents : phase[a] = "raised"

\* While the run goes on, a started play is whole or some agent is at it, unless a row error has raised.
PlaysGoOn ==
  /\ outcome = "running" => SomeRaised \/ \A k \in Plays, t \in Nat : <<k, t>> \in executed => Whole(k) \/ Played(k)
  /\ EveryPlayWhole

\* What is whole stays whole.
LEMMA WholeStays ==
  ASSUME NEW k \in Plays, Whole(k), succeeded \subseteq succeeded', failed \subseteq failed',
         agentOf'[k] # NoPlay
  PROVE  Whole(k)'
BY DEF Whole

\* The end of a play makes it whole.
LEMMA LastMakesWhole ==
  ASSUME TInv, NEW a \in Agents, AwaitsAnswer(a), NEW k \in Plays, k = play[a],
         \/ Record(a, TRUE) /\ turn[a] = Turns[play[a]]
         \/ Record(a, FALSE),
         agentOf' = [agentOf EXCEPT ![play[a]] = a]
  PROVE  Whole(k)'
<1>1. /\ k \in Plays /\ turn[a] \in 1 .. Turns[k]
      /\ \A t \in 1 .. turn[a] - 1 : <<k, t>> \in succeeded
  BY DEF AwaitsAnswer, TInv, InPlay, AtPlay
<1>2. Turns[k] \in Nat
  BY <1>1, TurnsOfPlays
<1>3. agentOf'[k] = a /\ a # NoPlay
  BY <1>1, CountsAssumption DEF TInv, TypeOK, Agents, NoPlay
<1>4. succeeded \subseteq succeeded' /\ failed \subseteq failed'
  BY DEF Record
<1>5. ASSUME NEW t \in 1 .. Turns[k]
      PROVE  <<k, t>> \in succeeded' \/ \E u \in 1 .. t : <<k, u>> \in failed'
  <2>1. CASE t < turn[a]
    <3>1. t \in 1 .. turn[a] - 1
      BY <1>1, <1>2, <2>1
    <3>2. QED
      BY <1>1, <1>4, <3>1
  <2>2. CASE t >= turn[a] /\ Record(a, FALSE)
    <3>1. <<k, turn[a]>> \in failed' /\ turn[a] \in 1 .. t
      BY <1>1, <1>2, <2>2 DEF Record
    <3>2. QED
      BY <3>1
  <2>3. CASE t >= turn[a] /\ Record(a, TRUE) /\ turn[a] = Turns[k]
    <3>1. t = turn[a]
      BY <1>1, <1>2, <2>3
    <3>2. <<k, turn[a]>> \in succeeded'
      BY <2>3 DEF Record
    <3>3. QED
      BY <3>1, <3>2
  <2>4. t < turn[a] \/ t >= turn[a]
    BY <1>1, <1>2
  <2>5. QED
    BY <2>1, <2>2, <2>3, <2>4
<1>6. QED
  BY <1>3, <1>5 DEF Whole

\* A step of agent a that leaves the other plays where they were.
LEMMA OthersGoOn ==
  ASSUME TInv, NEW a \in Agents, outcome = "running", ~SomeRaised', PlaysGoOn,
         succeeded \subseteq succeeded', failed \subseteq failed', executed \subseteq executed',
         \A b \in Agents : b # a => phase'[b] = phase[b] /\ play'[b] = play[b],
         phase[a] # "raised",
         \A k \in Plays : agentOf'[k] = agentOf[k] \/ agentOf'[k] = a,
         \A k \in Plays : AtPlay(a) /\ play[a] = k => (AtPlay(a)' /\ play'[a] = k) \/ Whole(k)',
         \A k \in Plays, t \in Nat : <<k, t>> \in executed' \ executed => AtPlay(a)' /\ play'[a] = k
  PROVE  \A k \in Plays, t \in Nat : <<k, t>> \in executed' => Whole(k)' \/ Played(k)'
<1> SUFFICES ASSUME NEW k \in Plays, NEW t \in Nat, <<k, t>> \in executed' PROVE Whole(k)' \/ Played(k)'
  OBVIOUS
<1>1. CASE <<k, t>> \notin executed
  BY <1>1 DEF Played
<1>2. CASE <<k, t>> \in executed
  <2>1. ~SomeRaised
    <3> SUFFICES ASSUME NEW b \in Agents, phase[b] = "raised" PROVE SomeRaised'
      BY DEF SomeRaised
    <3>1. phase'[b] = "raised"
      OBVIOUS
    <3>2. QED
      BY <3>1 DEF SomeRaised
  <2>2. Whole(k) \/ Played(k)
    BY <1>2, <2>1 DEF PlaysGoOn
  <2>3. CASE Whole(k)
    <3>1. agentOf'[k] # NoPlay
      BY <2>3, CountsAssumption DEF Whole, Agents, NoPlay
    <3>2. QED
      BY <2>3, <3>1, WholeStays
  <2>4. CASE Played(k)
    <3>1. PICK b \in Agents : AtPlay(b) /\ play[b] = k
      BY <2>4 DEF Played
    <3>2. CASE b = a
      BY <3>1, <3>2 DEF Played
    <3>3. CASE b # a
      BY <3>1, <3>3 DEF Played, AtPlay
    <3>4. QED
      BY <3>2, <3>3
  <2>5. QED
    BY <2>2, <2>3, <2>4
<1>3. QED
  BY <1>1, <1>2

\* An agent leaves a play whole, unless it raises.
LEMMA NextPlaysGoOn ==
  ASSUME TInv, TInv', PlaysGoOn, [Next]_vars
  PROVE  PlaysGoOn'
<1>1. ASSUME NEW a \in Agents, Start(a) \/ AnswerNext(a) \/ AnswerLast(a) \/ WaitOver(a)
      PROVE  PlaysGoOn'
  <2>1. /\ outcome = "running" /\ outcome' = "running" /\ phase[a] \in {"asleep", "sending", "waiting"}
    BY <1>1 DEF Start, AnswerNext, AnswerLast, WaitOver, AwaitsAnswer, Running
  <2>2. EveryPlayWhole'
    BY <2>1 DEF EveryPlayWhole
  <2>3. succeeded \subseteq succeeded' /\ failed \subseteq failed' /\ executed \subseteq executed'
    BY <1>1 DEF Start, AnswerNext, AnswerLast, WaitOver, Record, Draw, Retire, Send
  <2>4. \A b \in Agents : b # a => phase'[b] = phase[b] /\ play'[b] = play[b]
    BY <1>1, PlayingAfter DEF Start, AnswerNext, AnswerLast, WaitOver
  <2>5. \A k \in Plays : agentOf'[k] = agentOf[k] \/ agentOf'[k] = a
    BY <1>1 DEF Start, AnswerNext, AnswerLast, WaitOver, TInv, TypeOK
  <2>6. \A k \in Plays : AtPlay(a) /\ play[a] = k => (AtPlay(a)' /\ play'[a] = k) \/ Whole(k)'
    <3> SUFFICES ASSUME NEW k \in Plays, AtPlay(a), play[a] = k
                 PROVE  (AtPlay(a)' /\ play'[a] = k) \/ Whole(k)'
      OBVIOUS
    <3>1. CASE AnswerLast(a)
      BY <3>1, LastMakesWhole DEF AnswerLast
    <3>2. CASE Start(a)
      BY <3>2 DEF Start, AtPlay
    <3>3. CASE AnswerNext(a) \/ WaitOver(a)
      BY <3>3 DEF AnswerNext, WaitOver, Send, AtPlay, TInv, TypeOK
    <3>4. QED
      BY <1>1, <3>1, <3>2, <3>3
  <2>7. \A k \in Plays, t \in Nat : <<k, t>> \in executed' \ executed => AtPlay(a)' /\ play'[a] = k
    <3> SUFFICES ASSUME NEW k \in Plays, NEW t \in Nat, <<k, t>> \in executed', <<k, t>> \notin executed
                 PROVE  AtPlay(a)' /\ play'[a] = k
      OBVIOUS
    <3>1. CASE Draw(a)
      BY <3>1 DEF Draw, Send, AtPlay, TInv, TypeOK
    <3>2. CASE Send(a, play[a], turn[a] + 1)
      BY <3>2 DEF Send, AtPlay, TInv, TypeOK
    <3>3. CASE UNCHANGED executed
      BY <3>3
    <3>4. QED
      BY <1>1, <3>1, <3>2, <3>3 DEF Start, AnswerNext, AnswerLast, WaitOver, Retire
  <2>8. CASE SomeRaised'
    BY <2>2, <2>8 DEF PlaysGoOn
  <2>9. CASE ~SomeRaised'
    BY <2>1, <2>2, <2>3, <2>4, <2>5, <2>6, <2>7, <2>9, OthersGoOn DEF PlaysGoOn
  <2>10. QED
    BY <2>8, <2>9
<1>2. ASSUME NEW a \in Agents, AnswerRaises(a)
      PROVE  PlaysGoOn'
  <2>1. phase'[a] = "raised" /\ outcome' = "running"
    BY <1>2 DEF AnswerRaises, AwaitsAnswer, Running, TInv, TypeOK
  <2>2. QED
    BY <2>1 DEF PlaysGoOn, SomeRaised, EveryPlayWhole
<1>3. CASE Return
  <2>1. outcome = "running" /\ outcome' \in {"ok", "aborted", "raised"}
    BY <1>3 DEF Return, Running
  <2>2. ASSUME outcome' = "ok"
        PROVE  EveryPlayWhole'
    <3>1. \A a \in Agents : phase[a] = "done"
      BY <1>3, <2>2 DEF Return
    <3>2. UNCHANGED <<executed, succeeded, failed, agentOf>>
      BY <1>3 DEF Return, plan
    <3>3. ~SomeRaised /\ \A k \in Plays : ~Played(k)
      BY <3>1 DEF SomeRaised, Played, AtPlay
    <3>4. \A k \in Plays, t \in Nat : <<k, t>> \in executed => Whole(k)
      BY <2>1, <3>3 DEF PlaysGoOn
    <3>5. ASSUME NEW q \in executed
          PROVE  q[1] \in Plays /\ Whole(q[1])
      <4>1. q[1] \in Plays /\ q[2] \in 1 .. Turns[q[1]] /\ q = <<q[1], q[2]>>
        BY KeyParts DEF TInv, TypeOK
      <4>2. q[2] \in Nat
        BY <4>1, TurnsOfPlays
      <4>3. <<q[1], q[2]>> \in executed
        BY <4>1
      <4>4. QED
        BY <4>1, <4>2, <4>3, <3>4
    <3>6. \A k \in {q[1] : q \in executed} : Whole(k)
      BY <3>5
    <3>7. EveryPlayWhole
      BY <3>6 DEF EveryPlayWhole, Whole
    <3>8. \A k \in {q[1] : q \in executed'} : Whole(k)'
      BY <3>2, <3>6 DEF Whole
    <3>9. QED
      BY <3>8 DEF EveryPlayWhole, Whole
  <2>3. CASE outcome' # "ok"
    BY <2>1, <2>3 DEF PlaysGoOn, EveryPlayWhole
  <2>4. CASE outcome' = "ok"
    BY <2>2, <2>4 DEF PlaysGoOn
  <2>5. QED
    BY <2>3, <2>4
<1>4. CASE Deadline \/ RowWriteFails \/ UNCHANGED vars
  <2>1. UNCHANGED <<phase, play, executed, succeeded, failed, agentOf, outcome>>
    BY <1>4 DEF Deadline, RowWriteFails, vars, plan
  <2>2. QED
    BY <2>1 DEF PlaysGoOn, SomeRaised, Whole, Played, AtPlay, EveryPlayWhole
<1>5. QED
  BY <1>1, <1>2, <1>3, <1>4 DEF Next, Answered, Timed, Over

\* A run that reaches its checks has every started play whole (identity over planned_keys, serve.py).
THEOREM PlaysWhole == Spec => []EveryPlayWhole
<1>1. Init => PlaysGoOn
  BY DEF Init, PlaysGoOn, EveryPlayWhole
<1>2. PlaysGoOn => EveryPlayWhole
  BY DEF PlaysGoOn
<1>3. TInv /\ TInv' /\ PlaysGoOn /\ [Next]_vars => PlaysGoOn'
  BY NextPlaysGoOn
<1>4. QED
  BY <1>1, <1>2, <1>3, InitTInv, NextTInv, PTL DEF Spec

-------------------------------------------------------------------------------
(* The promise of every replay: SessionReplay, a play standing for a session. *)

LEMMA CountUpTo == ASSUME NEW n \in Nat PROVE Cardinality(1 .. n) = n
BY FS_Interval

\* A play's counts, as SessionReplay sees a session's.
Sent(k) == Cardinality(Of(executed, k))
Heard(k) == Cardinality(Of(succeeded \cup failed, k))
Broken(k) == Of(failed, k) # {}

\* A play's part of a step of SessionReplay, in terms of these counts.
Sends(k) ==
  /\ ~Broken(k) /\ Heard(k) = Sent(k) /\ Sent(k) < Turns[k]
  /\ Sent(k)' = Sent(k) + 1 /\ Heard(k)' = Heard(k) /\ ~Broken(k)'
Answers(k) ==
  Heard(k) < Sent(k) /\ Sent(k)' = Sent(k) /\ Heard(k)' = Sent(k)
AnswersAndSends(k) ==
  /\ Heard(k) < Sent(k) /\ Sent(k) < Turns[k]
  /\ Sent(k)' = Sent(k) + 1 /\ Heard(k)' = Sent(k) /\ ~Broken(k)'
Rests(k) ==
  Sent(k)' = Sent(k) /\ Heard(k)' = Heard(k) /\ (Broken(k)' <=> Broken(k))
Advances(k) == Sends(k) \/ Answers(k) \/ AnswersAndSends(k) \/ Rests(k)

\* A step that moves the counts so is a step of SessionReplay for each play.
LEMMA AbstractStep ==
  ASSUME NEW k \in Plays, Advances(k)
  PROVE  SR!Send(k) \/ SR!Answer(k) \/ SR!AnswerAndSend(k) \/ SR!Rest(k)
<1>1. CASE Sends(k)
  BY <1>1 DEF Sends, Sent, Heard, Broken, SR!Send
<1>2. CASE Answers(k)
  BY <1>2 DEF Answers, Sent, Heard, Broken, SR!Answer
<1>3. CASE AnswersAndSends(k)
  BY <1>3 DEF AnswersAndSends, Sent, Heard, Broken, SR!AnswerAndSend
<1>4. CASE Rests(k)
  BY <1>4 DEF Rests, Sent, Heard, Broken, SR!Rest
<1>5. QED
  BY <1>1, <1>2, <1>3, <1>4 DEF Advances

\* Of play k the first n turns went out and the first m came back with success, and none failed.
PlayAt(k, n, m) == Of(executed, k) = 1 .. n /\ Of(succeeded, k) = 1 .. m /\ Of(failed, k) = {}

\* A play not drawn has no key; one an agent is at has those of its turns up to the agent's.
KeysInv ==
  /\ \A k \in Plays : k >= draws => PlayAt(k, 0, 0)
  /\ \A a \in Agents : phase[a] = "sending" => PlayAt(play[a], turn[a], turn[a] - 1)
  /\ \A a \in Agents : phase[a] = "waiting" => PlayAt(play[a], turn[a], turn[a])

\* What the counts are.
Counted ==
  \A k \in Plays, n \in Nat, m \in Nat : PlayAt(k, n, m) => Sent(k) = n /\ Heard(k) = m /\ ~Broken(k)

\* So many keys, so many turns.
LEMMA Counts == Counted
<1> SUFFICES ASSUME NEW k \in Plays, NEW n \in Nat, NEW m \in Nat, PlayAt(k, n, m)
             PROVE  Sent(k) = n /\ Heard(k) = m /\ ~Broken(k)
  BY DEF Counted
<1>1. Of(executed, k) = 1 .. n /\ Of(succeeded \cup failed, k) = 1 .. m /\ Of(failed, k) = {}
  <2>1. Of(succeeded \cup failed, k) = Of(succeeded, k) \cup Of(failed, k)
    BY DEF Of
  <2>2. QED
    BY <2>1 DEF PlayAt
<1>2. QED
  BY <1>1, CountUpTo DEF Sent, Heard, Broken

LEMMA CountsNext == Counted'
BY Counts, PTL

\* A play whose keys stay rests.
LEMMA Resting ==
  ASSUME NEW k \in Plays, Of(executed', k) = Of(executed, k),
         Of(succeeded', k) = Of(succeeded, k), Of(failed', k) = Of(failed, k)
  PROVE  /\ Advances(k)
         /\ \A n, m \in Nat : PlayAt(k, n, m) => PlayAt(k, n, m)'
<1>1. \A A, F : Of(A \cup F, k) = Of(A, k) \cup Of(F, k)
  BY DEF Of
<1>2. /\ Of(succeeded' \cup failed', k) = Of(succeeded', k) \cup Of(failed', k)
      /\ Of(succeeded \cup failed, k) = Of(succeeded, k) \cup Of(failed, k)
  BY <1>1
<1>3. Rests(k)
  BY <1>2 DEF Rests, Sent, Heard, Broken, Of
<1>4. \A n, m \in Nat : PlayAt(k, n, m) => PlayAt(k, n, m)'
  BY DEF PlayAt, Of
<1>5. QED
  BY <1>3, <1>4 DEF Advances

\* A request sent adds its turn to its play's and nothing to the others'; so does a result.
LEMMA SendKeys ==
  ASSUME NEW k \in Plays, NEW t \in 1 .. Turns[k], executed' = executed \cup {<<k, t>>}
  PROVE  /\ Of(executed', k) = Of(executed, k) \cup {t}
         /\ \A j \in Plays : j # k => Of(executed', j) = Of(executed, j)
BY DEF Of

\* Recording an answer adds its key and no other.
LEMMA RecordKeys ==
  ASSUME NEW a \in Agents, turn[a] \in 1 .. Turns[play[a]], NEW ok \in BOOLEAN, Record(a, ok)
  PROVE  /\ Of(succeeded', play[a]) = IF ok THEN Of(succeeded, play[a]) \cup {turn[a]} ELSE Of(succeeded, play[a])
         /\ Of(failed', play[a]) = IF ok THEN Of(failed, play[a]) ELSE Of(failed, play[a]) \cup {turn[a]}
         /\ \A j \in Plays : j # play[a] => Of(succeeded', j) = Of(succeeded, j) /\ Of(failed', j) = Of(failed, j)
BY DEF Record, Of

\* A draw sends the first turn of a play that had no key.
LEMMA DrawAdvances ==
  ASSUME TInv, KeysInv, NEW a \in Agents, Draw(a),
         \A k \in Plays : k >= draws => Of(succeeded', k) = Of(succeeded, k) /\ Of(failed', k) = Of(failed, k)
  PROVE  \E d \in Plays : /\ d = draws /\ Advances(d) /\ PlayAt(d, 1, 0)'
                           /\ phase'[a] = "sending" /\ play'[a] = d /\ turn'[a] = 1
                           /\ \A k \in Plays : k # d => Of(executed', k) = Of(executed, k)
<1>1. draws \in Plays /\ draws \in Nat
  BY CountsAssumption DEF Draw, TInv, TypeOK, Plays
<1>2. PICK d \in Plays : d = draws
  BY <1>1
<1>3. Turns[d] \in Nat \ {0} /\ 1 \in 1 .. Turns[d]
  BY TurnsOfPlays
<1>4. executed' = executed \cup {<<d, 1>>} /\ phase'[a] = "sending" /\ play'[a] = draws /\ turn'[a] = 1
  BY <1>2 DEF Draw, Send, TInv, TypeOK
<1>5. Of(executed', d) = Of(executed, d) \cup {1} /\ \A k \in Plays : k # d => Of(executed', k) = Of(executed, k)
  BY <1>3, <1>4, SendKeys
<1>6. PlayAt(d, 0, 0)
  BY <1>1, <1>2 DEF KeysInv
<1>7. PlayAt(d, 1, 0)'
  <2>1. Of(executed', d) = 1 .. 1
    BY <1>5, <1>6 DEF PlayAt
  <2>2. Of(succeeded', d) = 1 .. 0 /\ Of(failed', d) = {}
    BY <1>1, <1>2, <1>6 DEF PlayAt
  <2>3. QED
    BY <2>1, <2>2 DEF PlayAt, Of
<1>8. Sent(d) = 0 /\ Heard(d) = 0 /\ ~Broken(d)
  BY <1>6, Counts DEF Counted
<1>9. Sent(d)' = 1 /\ Heard(d)' = 0 /\ ~Broken(d)'
  BY <1>7, CountsNext DEF Counted
<1>10. Advances(d)
  BY <1>3, <1>8, <1>9 DEF Advances, Sends
<1>11. QED
  BY <1>1, <1>2, <1>4, <1>5, <1>7, <1>10

\* The invariant after a step of one agent: what it leaves of the others' plays, and of those not drawn.
LEMMA OthersKeys ==
  ASSUME TInv, KeysInv, PlaysDistinct, NEW a \in Agents,
         \A b \in Agents : b # a => phase'[b] = phase[b] /\ play'[b] = play[b] /\ turn'[b] = turn[b],
         \A k \in Plays : (k # play[a] \/ ~AtPlay(a)) /\ (k < draws \/ k >= draws')
                            => \A n, m \in Nat : PlayAt(k, n, m) => PlayAt(k, n, m)',
         draws' \in Nat, draws' >= draws,
         phase'[a] = "sending" => PlayAt(play[a], turn[a], turn[a] - 1)',
         phase'[a] = "waiting" => PlayAt(play[a], turn[a], turn[a])'
  PROVE  KeysInv'
<1>1. draws \in Nat /\ Plays \subseteq Nat
  BY CountsAssumption DEF TInv, TypeOK, Plays
<1>2. ASSUME NEW k \in Plays, k >= draws'
      PROVE  PlayAt(k, 0, 0)'
  <2>1. k >= draws /\ PlayAt(k, 0, 0)
    BY <1>1, <1>2 DEF KeysInv
  <2>2. ASSUME AtPlay(a)
        PROVE  k # play[a]
    <3>1. play[a] \in Plays /\ play[a] < draws
      BY <2>2 DEF TInv, InPlay
    <3>2. k \in Nat /\ play[a] \in Nat
      BY <1>1, <3>1
    <3>3. QED
      BY <1>1, <2>1, <3>1, <3>2
  <2>3. \A n, m \in Nat : PlayAt(k, n, m) => PlayAt(k, n, m)'
    <3>1. (k # play[a] \/ ~AtPlay(a)) /\ (k < draws \/ k >= draws')
      BY <1>2, <2>2
    <3>2. QED
      BY <3>1
  <2>4. PlayAt(k, 0, 0) => PlayAt(k, 0, 0)'
    <3>1. 0 \in Nat
      OBVIOUS
    <3>2. QED
      BY <2>3, <3>1, Zenon
  <2>5. QED
    BY <2>1, <2>4
<1>3. ASSUME NEW b \in Agents, b # a, AtPlay(b)
      PROVE  \A n, m \in Nat : PlayAt(play[b], n, m) => PlayAt(play[b], n, m)'
  <2>1. play[b] \in Plays /\ play[b] < draws
    BY <1>3 DEF TInv, InPlay
  <2>2. AtPlay(a) => play[b] # play[a]
    BY <1>3 DEF PlaysDistinct
  <2>3. (play[b] # play[a] \/ ~AtPlay(a)) /\ (play[b] < draws \/ play[b] >= draws')
    BY <2>1, <2>2
  <2>4. PICK k \in Plays : k = play[b]
    BY <2>1
  <2>5. \A n, m \in Nat : PlayAt(k, n, m) => PlayAt(k, n, m)'
    BY <2>3, <2>4
  <2>6. play'[b] = play[b]
    BY <1>3
  <2>7. QED
    BY <2>4, <2>5, <2>6 DEF PlayAt
<1>4. ASSUME NEW b \in Agents
      PROVE  /\ phase'[b] = "sending" => PlayAt(play[b], turn[b], turn[b] - 1)'
             /\ phase'[b] = "waiting" => PlayAt(play[b], turn[b], turn[b])'
  <2>1. CASE b = a
    BY <2>1
  <2>2. CASE b # a
    <3>1. phase'[b] = phase[b] /\ play'[b] = play[b] /\ turn'[b] = turn[b]
      BY <2>2
    <3>2. ASSUME AtPlay(b)
          PROVE  play[b] \in Plays /\ turn[b] \in Nat /\ turn[b] - 1 \in Nat
      <4>1. play[b] \in Plays /\ turn[b] \in 1 .. Turns[play[b]]
        BY <3>2 DEF TInv, InPlay
      <4>2. Turns[play[b]] \in Nat
        BY <4>1, TurnsOfPlays
      <4>3. QED
        BY <4>1, <4>2
    <3>3. ASSUME phase[b] = "sending"
          PROVE  PlayAt(play[b], turn[b], turn[b] - 1)'
      <4>1. PICK p \in Plays, n \in Nat, m \in Nat : p = play[b] /\ n = turn[b] /\ m = turn[b] - 1
        BY <3>2, <3>3 DEF AtPlay
      <4>2. PlayAt(p, n, m)
        BY <3>3, <4>1 DEF KeysInv
      <4>3. PlayAt(p, n, m)'
        BY <1>3, <2>2, <3>3, <4>1, <4>2 DEF AtPlay
      <4>4. QED
        BY <3>1, <4>1, <4>3
    <3>4. ASSUME phase[b] = "waiting"
          PROVE  PlayAt(play[b], turn[b], turn[b])'
      <4>1. PICK p \in Plays, n \in Nat : p = play[b] /\ n = turn[b]
        BY <3>2, <3>4 DEF AtPlay
      <4>2. PlayAt(p, n, n)
        BY <3>4, <4>1 DEF KeysInv
      <4>3. PlayAt(p, n, n)'
        BY <1>3, <2>2, <3>4, <4>1, <4>2 DEF AtPlay
      <4>4. QED
        BY <3>1, <4>1, <4>3
    <3>5. QED
      BY <3>1, <3>3, <3>4
  <2>3. QED
    BY <2>1, <2>2
<1>5. QED
  BY <1>2, <1>4 DEF KeysInv

\* Every step of the agents keeps KeysInv and moves each play as SessionReplay allows.
LEMMA NextAdvances ==
  ASSUME TInv, KeysInv, PlaysDistinct, [Next]_vars
  PROVE  KeysInv' /\ \A k \in Plays : Advances(k)
<1>1. draws \in Nat /\ Plays \subseteq Nat
  BY CountsAssumption DEF TInv, TypeOK, Plays
\* An agent that draws, its own play, if it was at one, over.
<1>2. ASSUME NEW a \in Agents, Draw(a),
             \A k \in Plays : k # play[a] \/ ~AtPlay(a) =>
               Of(succeeded', k) = Of(succeeded, k) /\ Of(failed', k) = Of(failed, k)
      PROVE  KeysInv' /\ \A k \in Plays : k # play[a] \/ ~AtPlay(a) => Advances(k)
  <2>1. ASSUME NEW k \in Plays, k >= draws
        PROVE  k # play[a] \/ ~AtPlay(a)
    <3>1. AtPlay(a) => play[a] \in Plays /\ play[a] < draws
      BY DEF TInv, InPlay
    <3>2. QED
      BY <1>1, <2>1, <3>1
  <2>2. PICK d \in Plays : /\ d = draws /\ Advances(d) /\ PlayAt(d, 1, 0)'
                           /\ phase'[a] = "sending" /\ play'[a] = d /\ turn'[a] = 1
                           /\ \A k \in Plays : k # d => Of(executed', k) = Of(executed, k)
    BY <1>2, <2>1, DrawAdvances
  <2>3. \A k \in Plays : k # d /\ (k # play[a] \/ ~AtPlay(a)) =>
          Advances(k) /\ \A n, m \in Nat : PlayAt(k, n, m) => PlayAt(k, n, m)'
    BY <1>2, <2>2, Resting
  <2>4. \A b \in Agents : b # a => phase'[b] = phase[b] /\ play'[b] = play[b] /\ turn'[b] = turn[b]
    BY <1>2 DEF Draw, Send, TInv, TypeOK
  <2>5. draws' = draws + 1
    BY <1>2 DEF Draw
  <2>6. \A k \in Plays : k < draws \/ k >= draws' => k # d
    BY <1>1, <2>2, <2>5
  <2>7. PlayAt(play[a], turn[a], turn[a] - 1)'
    <3>1. PlayAt(d, 1, 0)' /\ play'[a] = d /\ turn'[a] = 1 /\ turn'[a] - 1 = 0
      BY <2>2
    <3>2. QED
      BY <3>1 DEF PlayAt
  <2>8. KeysInv'
    BY <1>1, <2>2, <2>3, <2>4, <2>5, <2>6, <2>7, OthersKeys
  <2>9. QED
    BY <2>2, <2>3, <2>8
\* An agent that takes up nothing more.
<1>3. ASSUME NEW a \in Agents, NEW q \in {"done", "aborted", "raised"},
             phase' = [phase EXCEPT ![a] = q], UNCHANGED <<play, turn, draws, executed>>,
             \A k \in Plays : k # play[a] \/ ~AtPlay(a) =>
               Of(succeeded', k) = Of(succeeded, k) /\ Of(failed', k) = Of(failed, k)
      PROVE  KeysInv' /\ \A k \in Plays : k # play[a] \/ ~AtPlay(a) => Advances(k)
  <2>1. \A k \in Plays : k # play[a] \/ ~AtPlay(a) =>
          Advances(k) /\ \A n, m \in Nat : PlayAt(k, n, m) => PlayAt(k, n, m)'
    BY <1>3, Resting
  <2>2. /\ phase'[a] = q
        /\ \A b \in Agents : b # a => phase'[b] = phase[b] /\ play'[b] = play[b] /\ turn'[b] = turn[b]
    BY <1>3 DEF TInv, TypeOK
  <2>3. KeysInv'
    BY <1>1, <1>3, <2>1, <2>2, OthersKeys
  <2>4. QED
    BY <2>1, <2>3
\* The answer an agent waits for comes back: what it records is of its play alone.
<1>4. ASSUME NEW a \in Agents, AwaitsAnswer(a), NEW ok \in BOOLEAN, Record(a, ok)
      PROVE  \E p \in Plays, t \in Nat \ {0} :
               /\ p = play[a] /\ t = turn[a] /\ t <= Turns[p] /\ Turns[p] \in Nat /\ t \in 1 .. Turns[p] /\ AtPlay(a)
               /\ p < draws
               /\ Sent(p) = t /\ Heard(p) = t - 1 /\ ~Broken(p)
               /\ Of(executed, p) = 1 .. t
               /\ Of(succeeded', p) = (IF ok THEN 1 .. t ELSE 1 .. t - 1) /\ Of(failed', p) = IF ok THEN {} ELSE {t}
               /\ \A k \in Plays : k # p => Of(succeeded', k) = Of(succeeded, k) /\ Of(failed', k) = Of(failed, k)
  <2>1. AtPlay(a) /\ phase[a] = "sending"
    BY <1>4 DEF AwaitsAnswer, AtPlay
  <2>2. play[a] \in Plays /\ turn[a] \in 1 .. Turns[play[a]] /\ play[a] < draws
    BY <2>1 DEF TInv, InPlay
  <2>3. PICK p \in Plays : p = play[a]
    BY <2>2
  <2>4. Turns[p] \in Nat
    BY TurnsOfPlays
  <2>5. PICK t \in Nat \ {0} : t = turn[a] /\ t <= Turns[p] /\ t - 1 \in Nat /\ t \in 1 .. Turns[p]
    BY <2>2, <2>3, <2>4
  <2>6. PlayAt(p, t, t - 1)
    BY <2>1, <2>3, <2>5 DEF KeysInv
  <2>7. Sent(p) = t /\ Heard(p) = t - 1 /\ ~Broken(p)
    BY <2>5, <2>6, Counts DEF Counted
  <2>8. /\ Of(succeeded', p) = IF ok THEN Of(succeeded, p) \cup {t} ELSE Of(succeeded, p)
        /\ Of(failed', p) = IF ok THEN Of(failed, p) ELSE Of(failed, p) \cup {t}
        /\ \A k \in Plays : k # p => Of(succeeded', k) = Of(succeeded, k) /\ Of(failed', k) = Of(failed, k)
    BY <1>4, <2>2, <2>3, <2>5, RecordKeys
  <2>9. (1 .. t - 1) \cup {t} = 1 .. t
    BY <2>5
  <2>10. QED
    BY <2>1, <2>2, <2>3, <2>4, <2>5, <2>6, <2>7, <2>8, <2>9 DEF PlayAt
\* The last answer of a play, with or without success.
<1>5. ASSUME NEW p \in Plays, NEW t \in Nat \ {0}, Sent(p) = t, Heard(p) = t - 1,
             Of(executed', p) = 1 .. t,
             \/ Of(succeeded', p) = 1 .. t /\ Of(failed', p) = {}
             \/ Of(succeeded', p) = 1 .. t - 1 /\ Of(failed', p) = {t}
      PROVE  Advances(p)
  <2>1. Of(succeeded' \cup failed', p) = Of(succeeded', p) \cup Of(failed', p)
    BY DEF Of
  <2>2. (1 .. t - 1) \cup {t} = 1 .. t /\ t - 1 < t
    OBVIOUS
  <2>3. Of(succeeded' \cup failed', p) = 1 .. t
    BY <1>5, <2>1, <2>2
  <2>4. Cardinality(Of(succeeded' \cup failed', p)) = t /\ Cardinality(Of(executed', p)) = t
    BY <1>5, <2>3, CountUpTo
  <2>5. Sent(p)' = t /\ Heard(p)' = t
    BY <2>4 DEF Sent, Heard, Of
  <2>6. QED
    BY <1>5, <2>2, <2>5 DEF Advances, Answers
<1>6. ASSUME NEW a \in Agents, Start(a)
      PROVE  KeysInv' /\ \A k \in Plays : Advances(k)
  <2>1. ~AtPlay(a) /\ UNCHANGED <<succeeded, failed>>
    BY <1>6 DEF Start, AtPlay
  <2>2. CASE Draw(a)
    BY <1>2, <2>1, <2>2
  <2>3. CASE Retire(a)
    BY <1>3, <2>1, <2>3 DEF Retire
  <2>4. QED
    BY <1>6, <2>2, <2>3 DEF Start
<1>7. ASSUME NEW a \in Agents, AnswerLast(a)
      PROVE  KeysInv' /\ \A k \in Plays : Advances(k)
  <2>1. PICK ok \in BOOLEAN : Record(a, ok) /\ AwaitsAnswer(a)
    BY <1>7 DEF AnswerLast
  <2>2. PICK p \in Plays, t \in Nat \ {0} :
               /\ p = play[a] /\ t = turn[a] /\ t <= Turns[p] /\ Turns[p] \in Nat /\ t \in 1 .. Turns[p] /\ AtPlay(a)
               /\ p < draws
               /\ Sent(p) = t /\ Heard(p) = t - 1 /\ ~Broken(p)
               /\ Of(executed, p) = 1 .. t
               /\ Of(succeeded', p) = (IF ok THEN 1 .. t ELSE 1 .. t - 1) /\ Of(failed', p) = IF ok THEN {} ELSE {t}
               /\ \A k \in Plays : k # p => Of(succeeded', k) = Of(succeeded, k) /\ Of(failed', k) = Of(failed, k)
    BY <1>4, <2>1
  <2>3. CASE Draw(a)
    <3>1. KeysInv' /\ \A k \in Plays : k # p => Advances(k)
      BY <1>2, <2>2, <2>3
    <3>2. Of(executed', p) = Of(executed, p)
      <4>1. executed' = executed \cup {<<draws, 1>>} /\ p # draws
        BY <1>1, <2>2, <2>3 DEF Draw, Send
      <4>2. QED
        BY <4>1 DEF Of
    <3>3. Advances(p)
      BY <1>5, <2>2, <3>2
    <3>4. QED
      BY <3>1, <3>3
  <2>4. CASE \E q \in {"done", "aborted", "raised"} : phase' = [phase EXCEPT ![a] = q] /\ UNCHANGED <<play, turn, draws, executed>>
    <3>1. KeysInv' /\ \A k \in Plays : k # p => Advances(k)
      BY <1>3, <2>2, <2>4
    <3>2. Advances(p)
      BY <1>5, <2>2, <2>4
    <3>3. QED
      BY <3>1, <3>2
  <2>5. QED
    BY <1>7, <2>3, <2>4 DEF AnswerLast, Retire
\* An agent's play goes on to its next turn, at once or after its wait.
<1>8. ASSUME NEW a \in Agents, NEW p \in Plays, p = play[a], NEW t \in Nat \ {0}, t = turn[a], AtPlay(a), p < draws,
             t < Turns[p], Turns[p] \in Nat, Send(a, play[a], turn[a] + 1), draws' = draws,
             Of(executed, p) = 1 .. t, Of(succeeded', p) = 1 .. t, Of(failed', p) = {},
             ~Broken(p), Sent(p) = t, Heard(p) \in {t - 1, t},
             \A k \in Plays : k # p => Of(succeeded', k) = Of(succeeded, k) /\ Of(failed', k) = Of(failed, k)
      PROVE  KeysInv' /\ \A k \in Plays : Advances(k)
  <2>1. /\ t + 1 \in 1 .. Turns[p] /\ executed' = executed \cup {<<p, t + 1>>} /\ t + 1 \in Nat /\ (t + 1) - 1 = t
        /\ (1 .. t) \cup {t + 1} = 1 .. t + 1 /\ t - 1 < t
    BY <1>8 DEF Send
  <2>2. Of(executed', p) = 1 .. t + 1 /\ \A k \in Plays : k # p => Of(executed', k) = Of(executed, k)
    BY <1>8, <2>1, SendKeys
  <2>3. PlayAt(p, t + 1, t)'
    BY <1>8, <2>2 DEF PlayAt, Of
  <2>4. Sent(p)' = t + 1 /\ Heard(p)' = t /\ ~Broken(p)'
    BY <2>1, <2>3, CountsNext DEF Counted
  <2>5. Advances(p)
    BY <1>8, <2>1, <2>4 DEF Advances, Sends, AnswersAndSends
  <2>6. \A k \in Plays : k # p => Advances(k) /\ \A n, m \in Nat : PlayAt(k, n, m) => PlayAt(k, n, m)'
    BY <1>8, <2>2, Resting
  <2>7. /\ phase'[a] = "sending" /\ play'[a] = p /\ turn'[a] = t + 1
        /\ \A b \in Agents : b # a => phase'[b] = phase[b] /\ play'[b] = play[b] /\ turn'[b] = turn[b]
    BY <1>8 DEF Send, TInv, TypeOK
  <2>8. PlayAt(play[a], turn[a], turn[a] - 1)'
    BY <2>1, <2>3, <2>7 DEF PlayAt
  <2>9. KeysInv'
    BY <1>1, <1>8, <2>6, <2>7, <2>8, OthersKeys
  <2>10. QED
    BY <2>5, <2>6, <2>9
<1>9. ASSUME NEW a \in Agents, AnswerNext(a)
      PROVE  KeysInv' /\ \A k \in Plays : Advances(k)
  <2>1. PICK p \in Plays, t \in Nat \ {0} :
               /\ p = play[a] /\ t = turn[a] /\ t <= Turns[p] /\ Turns[p] \in Nat /\ t \in 1 .. Turns[p] /\ AtPlay(a)
               /\ p < draws
               /\ Sent(p) = t /\ Heard(p) = t - 1 /\ ~Broken(p)
               /\ Of(executed, p) = 1 .. t
               /\ Of(succeeded', p) = 1 .. t /\ Of(failed', p) = {}
               /\ \A k \in Plays : k # p => Of(succeeded', k) = Of(succeeded, k) /\ Of(failed', k) = Of(failed, k)
    BY <1>4, <1>9 DEF AnswerNext
  <2>2. t < Turns[p] /\ draws' = draws
    BY <1>9, <2>1 DEF AnswerNext
  <2>3. CASE Send(a, play[a], turn[a] + 1)
    BY <1>8, <2>1, <2>2, <2>3
  <2>4. CASE phase' = [phase EXCEPT ![a] = "waiting"] /\ UNCHANGED <<play, turn, executed>>
    <3>1. Advances(p)
      BY <1>5, <2>1, <2>4
    <3>2. \A k \in Plays : k # p => Advances(k) /\ \A n, m \in Nat : PlayAt(k, n, m) => PlayAt(k, n, m)'
      BY <2>1, <2>4, Resting
    <3>3. PlayAt(p, t, t)'
      BY <2>1, <2>4 DEF PlayAt, Of
    <3>4. /\ phase'[a] = "waiting" /\ play'[a] = p /\ turn'[a] = t
          /\ \A b \in Agents : b # a => phase'[b] = phase[b] /\ play'[b] = play[b] /\ turn'[b] = turn[b]
      BY <2>1, <2>4 DEF TInv, TypeOK
    <3>5. PlayAt(play[a], turn[a], turn[a])'
      BY <3>3, <3>4 DEF PlayAt
    <3>6. KeysInv'
      BY <1>1, <2>1, <2>2, <3>2, <3>4, <3>5, OthersKeys
    <3>7. QED
      BY <3>1, <3>2, <3>6
  <2>5. QED
    BY <1>9, <2>3, <2>4 DEF AnswerNext
<1>10. ASSUME NEW a \in Agents, WaitOver(a)
      PROVE  KeysInv' /\ \A k \in Plays : Advances(k)
  <2>1. AtPlay(a) /\ phase[a] = "waiting" /\ UNCHANGED <<draws, succeeded, failed>> /\ Send(a, play[a], turn[a] + 1)
    BY <1>10 DEF WaitOver, AtPlay
  <2>2. play[a] \in Plays /\ turn[a] \in 1 .. Turns[play[a]] /\ play[a] < draws /\ turn[a] < Turns[play[a]]
    BY <2>1 DEF TInv, InPlay
  <2>3. PICK p \in Plays : p = play[a]
    BY <2>2
  <2>4. Turns[p] \in Nat
    BY TurnsOfPlays
  <2>5. PICK t \in Nat \ {0} : t = turn[a]
    BY <2>2, <2>3, <2>4
  <2>6. PlayAt(p, t, t)
    BY <2>1, <2>3, <2>5 DEF KeysInv
  <2>7. Sent(p) = t /\ Heard(p) = t /\ ~Broken(p)
    BY <2>6, Counts DEF Counted
  <2>8. Of(executed, p) = 1 .. t /\ Of(succeeded', p) = 1 .. t /\ Of(failed', p) = {}
    BY <2>1, <2>6 DEF PlayAt
  <2>9. QED
    BY <1>8, <2>1, <2>2, <2>3, <2>4, <2>5, <2>7, <2>8
<1>11. ASSUME NEW a \in Agents, AnswerRaises(a)
      PROVE  KeysInv' /\ \A k \in Plays : Advances(k)
  <2>1. phase' = [phase EXCEPT ![a] = "raised"] /\ UNCHANGED <<play, turn, draws, executed, succeeded, failed>>
    BY <1>11 DEF AnswerRaises, plan
  <2>2. KeysInv'
    BY <1>3, <2>1
  <2>3. \A k \in Plays : Advances(k)
    BY <2>1, Resting
  <2>4. QED
    BY <2>2, <2>3
<1>12. CASE Deadline \/ RowWriteFails \/ Return \/ UNCHANGED vars
  <2>1. UNCHANGED <<play, turn, draws, executed, succeeded, failed>>
    BY <1>12 DEF Deadline, RowWriteFails, Return, vars, plan
  <2>2. \A a \in Agents : phase'[a] \in {phase[a], "cancelled"}
    BY <1>12 DEF Deadline, RowWriteFails, Return, vars
  <2>3. KeysInv'
    BY <2>1, <2>2 DEF KeysInv, PlayAt
  <2>4. \A k \in Plays : Advances(k)
    BY <2>1, Resting
  <2>5. QED
    BY <2>3, <2>4
<1>13. \/ \E a \in Agents : Start(a) \/ AnswerLast(a) \/ AnswerNext(a) \/ WaitOver(a) \/ AnswerRaises(a)
       \/ Deadline \/ RowWriteFails \/ Return \/ UNCHANGED vars
  BY DEF Next, Answered, Timed, Over
<1>14. CASE \E a \in Agents : Start(a) \/ AnswerLast(a) \/ AnswerNext(a) \/ WaitOver(a) \/ AnswerRaises(a)
  <2>1. PICK a \in Agents : Start(a) \/ AnswerLast(a) \/ AnswerNext(a) \/ WaitOver(a) \/ AnswerRaises(a)
    BY <1>14
  <2>2. QED
    BY <1>6, <1>7, <1>9, <1>10, <1>11, <2>1
<1>15. QED
  BY <1>12, <1>13, <1>14

\* Every step is a step of SessionReplay for each play.
LEMMA NextReplays == TInv /\ KeysInv /\ PlaysDistinct /\ [Next]_vars => [SR!Next]_SR!vars
<1> SUFFICES ASSUME TInv, KeysInv, PlaysDistinct, [Next]_vars
             PROVE  \A k \in Plays : SR!Send(k) \/ SR!Answer(k) \/ SR!AnswerAndSend(k) \/ SR!Rest(k)
  BY DEF SR!Next
<1>1. QED
  BY NextAdvances, AbstractStep

LEMMA InitKeys == Init => KeysInv /\ PlaysDistinct
<1>1. \A k : Of({}, k) = {}
  BY DEF Of
<1>2. 1 .. 0 = {}
  OBVIOUS
<1>3. QED
  BY <1>1, <1>2 DEF Init, KeysInv, PlayAt, PlaysDistinct, AtPlay

\* A recycled replay keeps what every replay promises the workload of each of its plays: turns in order, one at a time,
\* each at most once, none after a failed one (_recycled, serve.py).
THEOREM Replays == Spec => ReplaysSessions
<1>1. \A k : Of({}, k) = {} /\ Cardinality({}) = 0
  BY FS_EmptySet DEF Of
<1>2. Init => SR!Init
  <2>1. Init => \A k \in Plays : Of(executed, k) = {} /\ Of(succeeded \cup failed, k) = {} /\ Of(failed, k) = {}
    BY <1>1 DEF Init
  <2>2. QED
    BY <1>1, <2>1 DEF SR!Init
<1>3. Init => KeysInv /\ PlaysDistinct
  BY InitKeys
<1>4. TInv /\ KeysInv /\ PlaysDistinct /\ [Next]_vars => KeysInv' /\ PlaysDistinct'
  BY NextAdvances, NextPlaysDistinct
<1>5. QED
  BY <1>2, <1>3, <1>4, InitTInv, NextTInv, NextReplays, PTL DEF Spec, ReplaysSessions, SR!Spec

-------------------------------------------------------------------------------
(* The streak against the history of the answers (MCRecycled). *)

\* The last n results in the history are failures, and the one before them, where it is kept, is not.
Trailing(seq, n) ==
  /\ Len(seq) <= StreakLimit
  /\ \A i \in 1 .. Len(seq) : i > Len(seq) - n => ~seq[i]
  /\ n < Len(seq) => seq[Len(seq) - n]
  /\ n <= Len(seq) \/ Len(seq) = StreakLimit

\* A result at the end, in either place it may stand.
LEMMA OneMore ==
  ASSUME NEW S, NEW seq \in Seq(S), NEW x \in S
  PROVE  seq \o <<x>> \o <<>> = Append(seq, x) /\ seq \o <<>> \o <<x>> = Append(seq, x)
OBVIOUS

\* One more result.
LEMMA TrailGrows ==
  ASSUME NEW seq \in Seq(BOOLEAN), NEW n \in Nat, Trailing(seq, n), NEW ok \in BOOLEAN
  PROVE  /\ Latest(Append(seq, ok)) \in Seq(BOOLEAN)
         /\ Trailing(Latest(Append(seq, ok)), IF ok THEN 0 ELSE n + 1)
         /\ ~ok => (n + 1 >= StreakLimit <=> Dead(Latest(Append(seq, ok))))
<1> DEFINE longer == Append(seq, ok)
           new == Latest(longer)
           m == IF ok THEN 0 ELSE n + 1
<1>1. longer \in Seq(BOOLEAN) /\ Len(longer) = Len(seq) + 1 /\ Len(seq) \in Nat
  OBVIOUS
<1>2. \A i \in 1 .. Len(longer) : longer[i] = IF i = Len(longer) THEN ok ELSE seq[i]
  OBVIOUS
<1>3. \A i \in 1 .. Len(longer) : i > Len(longer) - m => ~longer[i]
  BY <1>1, <1>2 DEF Trailing
<1>4. m < Len(longer) => longer[Len(longer) - m]
  BY <1>1, <1>2 DEF Trailing
<1>5. m <= Len(longer) \/ (Len(seq) = StreakLimit /\ m >= StreakLimit)
  BY <1>1, LimitIsNat DEF Trailing
<1>6. \/ new = longer /\ Len(new) <= StreakLimit
      \/ /\ new = Tail(longer) /\ Len(new) = StreakLimit /\ Len(longer) = Len(new) + 1
         /\ \A i \in 1 .. Len(new) : new[i] = longer[i + 1]
  BY <1>1, LimitIsNat DEF Latest, Trailing
<1>7. new \in Seq(BOOLEAN)
  <2>1. longer # <<>>
    BY <1>1
  <2>2. Tail(longer) \in Seq(BOOLEAN)
    BY <1>1, <2>1
  <2> QED
    BY <1>1, <2>2 DEF Latest
<1>m. m \in Nat
  OBVIOUS
<1> HIDE DEF longer, new, m
<1>8. Trailing(new, m)
  <2>1. CASE new = longer /\ Len(new) <= StreakLimit
    BY <1>1, <1>3, <1>4, <1>5, <2>1, LimitIsNat DEF Trailing
  <2>2. CASE /\ new = Tail(longer) /\ Len(new) = StreakLimit /\ Len(longer) = Len(new) + 1
             /\ \A i \in 1 .. Len(new) : new[i] = longer[i + 1]
    <3>n. Len(new) \in Nat /\ Len(longer) = Len(new) + 1
      BY <2>2, LimitIsNat
    <3>1. ASSUME NEW i \in 1 .. Len(new), i > Len(new) - m PROVE ~new[i]
      <4>1. i + 1 \in 1 .. Len(longer) /\ i + 1 > Len(longer) - m
        BY <3>n, <3>1, <1>m
      <4>2. ~longer[i + 1]
        BY <1>3, <4>1
      <4>3. new[i] = longer[i + 1]
        BY <2>2
      <4> QED
        BY <4>2, <4>3, Zenon
    <3>2. ASSUME m < Len(new) PROVE new[Len(new) - m]
      <4>1. Len(new) - m \in 1 .. Len(new) /\ (Len(new) - m) + 1 = Len(longer) - m /\ m < Len(longer)
        BY <3>n, <3>2, <1>m
      <4>2. longer[Len(longer) - m]
        BY <1>4, <4>1
      <4>3. new[Len(new) - m] = longer[(Len(new) - m) + 1]
        BY <2>2, <4>1
      <4> QED
        BY <4>1, <4>2, <4>3, Zenon
    <3>3. m <= Len(new) \/ Len(new) = StreakLimit
      BY <2>2
    <3>4. Len(new) <= StreakLimit
      BY <2>2, LimitIsNat
    <3> QED
      BY <3>1, <3>2, <3>3, <3>4, Zenon DEF Trailing
  <2> QED
    BY <1>6, <2>1, <2>2
<1>9. m >= StreakLimit <=> Dead(new)
  <2>1. Len(new) \in Nat /\ StreakLimit \in Nat \ {0} /\ DOMAIN new = 1 .. Len(new)
    BY <1>7, LimitIsNat
  <2>2. Len(new) <= StreakLimit /\ (m <= Len(new) \/ Len(new) = StreakLimit)
    BY <1>8 DEF Trailing
  <2>3. ASSUME m >= StreakLimit PROVE Dead(new)
    <3>0. Len(new) = StreakLimit
      <4>1. \A l, k \in Nat : l <= k /\ (m <= l \/ l = k) /\ m >= k => l = k
        BY <1>m
      <4>2. Len(new) \in Nat /\ StreakLimit \in Nat
        BY <2>1
      <4> QED
        BY <4>1, <4>2, <2>2, <2>3, Zenon
    <3>1. Len(new) = StreakLimit /\ \A i \in 1 .. Len(new) : i > Len(new) - m
      BY <2>1, <2>3, <3>0, <1>m
    <3>2. \A i \in DOMAIN new : ~new[i]
      BY <1>8, <2>1, <3>1, Zenon DEF Trailing
    <3> QED
      BY <3>1, <3>2, Zenon DEF Dead
  <2>4. ASSUME Dead(new), ~(m >= StreakLimit) PROVE FALSE
    <3>1. Len(new) = StreakLimit
      BY <2>4, Zenon DEF Dead
    <3>2. m < Len(new) /\ Len(new) - m \in 1 .. Len(new)
      BY <2>1, <2>4, <3>1, <1>m
    <3>3. new[Len(new) - m]
      BY <1>8, <3>2, Zenon DEF Trailing
    <3>4. ~new[Len(new) - m]
      BY <2>1, <2>4, <3>2, Zenon DEF Dead
    <3> QED
      BY <3>3, <3>4, Zenon
  <2> QED
    BY <2>3, <2>4, Zenon
<1>10. m = IF ok THEN 0 ELSE n + 1
  BY DEF m
<1>11. ~ok => m = n + 1
  BY <1>10
<1>12. new = Latest(Append(seq, ok))
  BY DEF new, longer
<1> QED
  BY <1>7, <1>8, <1>9, <1>10, <1>11, <1>12, Zenon

\* The streak counts the failures at the end of the history.
HistoryInv == answers \in Seq(BOOLEAN) /\ Trailing(answers, streak)

NewAbort == \E a \in Agents : phase[a] # "aborted" /\ phase'[a] = "aborted"
AbortMatches == failed' # failed => (NewAbort <=> Dead(answers'))

\* A step that records a result, of a turn that had none, and one that records nothing.
Records(ok) ==
  /\ succeeded' # succeeded <=> ok
  /\ failed' # failed <=> ~ok
  /\ streak' = IF ok THEN 0 ELSE streak + 1
RecordsNothing == UNCHANGED <<succeeded, failed, streak>>

\* An agent records the result of the turn it is at for the first time.
LEMMA RecordIsNew ==
  ASSUME TInv, KeysInv, NEW a \in Agents, phase[a] = "sending", NEW ok \in BOOLEAN, Record(a, ok)
  PROVE  Records(ok)
<1>1. play[a] \in Plays /\ turn[a] \in 1 .. Turns[play[a]] /\ Turns[play[a]] \in Nat
  BY TurnsOfPlays DEF TInv, InPlay, AtPlay
<1>2. PlayAt(play[a], turn[a], turn[a] - 1)
  BY DEF KeysInv
<1>3. <<play[a], turn[a]>> \notin succeeded /\ <<play[a], turn[a]>> \notin failed
  <2>1. turn[a] \notin Of(succeeded, play[a]) /\ turn[a] \notin Of(failed, play[a])
    BY <1>1, <1>2 DEF PlayAt
  <2> QED
    BY <1>1, <2>1 DEF Of
<1> QED
  BY <1>3 DEF Record, Records

\* What a step records, and whether it ends the run.
LEMMA StepRecords ==
  ASSUME TInv, KeysInv, [Next]_vars
  PROVE  \/ RecordsNothing
         \/ Records(TRUE)
         \/ Records(FALSE) /\ (NewAbort <=> streak' >= StreakLimit)
<1>1. ASSUME NEW a \in Agents, AnswerNext(a) PROVE Records(TRUE)
  BY <1>1, RecordIsNew DEF AnswerNext, AwaitsAnswer
<1>2. ASSUME NEW a \in Agents, AnswerLast(a)
      PROVE  Records(TRUE) \/ (Records(FALSE) /\ (NewAbort <=> streak' >= StreakLimit))
  <2>1. CASE Record(a, TRUE)
    BY <1>2, <2>1, RecordIsNew DEF AnswerLast, AwaitsAnswer
  <2>2. CASE Record(a, FALSE)
    <3>1. Records(FALSE)
      BY <1>2, <2>2, RecordIsNew DEF AnswerLast, AwaitsAnswer
    <3>2. streak' \in Nat /\ StreakLimit \in Nat
      BY <2>2, LimitIsNat DEF Record, TInv, TypeOK
    <3>3. CASE streak' >= StreakLimit
      <4>1. phase' = [phase EXCEPT ![a] = "aborted"]
        BY <1>2, <3>2, <3>3 DEF AnswerLast
      <4>2. phase[a] = "sending" /\ phase'[a] = "aborted"
        BY <1>2, <4>1 DEF AnswerLast, AwaitsAnswer, TInv, TypeOK
      <4> QED
        BY <3>1, <3>3, <4>2 DEF NewAbort
    <3>4. CASE streak' < StreakLimit
      <4>1. phase' = [phase EXCEPT ![a] = "sending"] \/ phase' = [phase EXCEPT ![a] = "done"]
        BY <1>2, <3>2, <3>4 DEF AnswerLast, Draw, Send, Retire
      <4>2. ~NewAbort
        BY <4>1 DEF NewAbort, TInv, TypeOK
      <4>3. ~(streak' >= StreakLimit)
        BY <3>2, <3>4
      <4> QED
        BY <3>1, <4>2, <4>3, Zenon
    <3>5. streak' >= StreakLimit \/ streak' < StreakLimit
      BY <3>2
    <3> QED
      BY <3>3, <3>4, <3>5, Zenon
  <2> QED
    BY <1>2, <2>1, <2>2 DEF AnswerLast
<1>3. ASSUME NEW a \in Agents, AnswerRaises(a) \/ Start(a) \/ WaitOver(a) PROVE RecordsNothing
  BY <1>3 DEF AnswerRaises, Start, WaitOver, RecordsNothing, plan
<1>4. ASSUME Return \/ Deadline \/ RowWriteFails \/ UNCHANGED vars PROVE RecordsNothing
  BY <1>4 DEF Return, Deadline, RowWriteFails, vars, plan, RecordsNothing
<1> QED
  BY <1>1, <1>2, <1>3, <1>4 DEF Next, Answered, Timed, Over

\* The history follows the streak, and an agent aborts as it says.
LEMMA HistoryStep ==
  ASSUME TInv, KeysInv, HistoryInv, HistoryNext
  PROVE  HistoryInv' /\ AbortMatches
<1>1. streak \in Nat /\ Len(answers) <= StreakLimit /\ StreakLimit \in Nat /\ Len(answers) \in Nat
  BY LimitIsNat DEF TInv, TypeOK, HistoryInv, Trailing
<1>2. CASE RecordsNothing
  <2>1. answers' = answers
    BY <1>1, <1>2 DEF RecordsNothing, HistoryNext, Latest, HistoryInv
  <2> QED
    BY <1>2, <2>1 DEF RecordsNothing, HistoryInv, AbortMatches
<1>a. answers \in Seq(BOOLEAN)
  BY DEF HistoryInv
<1>3. ASSUME NEW ok \in BOOLEAN, Records(ok) PROVE answers' = Latest(Append(answers, ok))
  <2>1. CASE ok
    <3>1. succeeded' # succeeded /\ failed' = failed
      BY <1>3, <2>1 DEF Records
    <3>2. answers' = Latest(answers \o <<TRUE>> \o <<>>)
      BY <3>1 DEF HistoryNext
    <3>3. answers \o <<TRUE>> \o <<>> = Append(answers, TRUE)
      BY <1>a, OneMore
    <3>4. ok = TRUE
      BY <2>1
    <3> QED
      BY <3>2, <3>3, <3>4, Zenon
  <2>2. CASE ~ok
    <3>1. succeeded' = succeeded /\ failed' # failed
      BY <1>3, <2>2 DEF Records
    <3>2. answers' = Latest(answers \o <<>> \o <<FALSE>>)
      BY <3>1 DEF HistoryNext
    <3>3. answers \o <<>> \o <<FALSE>> = Append(answers, FALSE)
      BY <1>a, OneMore
    <3>4. ok = FALSE
      BY <2>2
    <3> QED
      BY <3>2, <3>3, <3>4, Zenon
  <2> QED
    BY <2>1, <2>2
<1>4. CASE Records(TRUE)
  <2>1. answers' = Latest(Append(answers, TRUE)) /\ streak' = 0 /\ ~(failed' # failed)
    BY <1>3, <1>4 DEF Records
  <2>2. Latest(Append(answers, TRUE)) \in Seq(BOOLEAN) /\ Trailing(Latest(Append(answers, TRUE)), 0)
    BY <1>1, TrailGrows DEF HistoryInv
  <2> QED
    BY <2>1, <2>2 DEF HistoryInv, AbortMatches
<1>5. CASE Records(FALSE) /\ (NewAbort <=> streak' >= StreakLimit)
  <2>1. answers' = Latest(Append(answers, FALSE)) /\ streak' = streak + 1
    BY <1>3, <1>5 DEF Records
  <2>2. /\ Latest(Append(answers, FALSE)) \in Seq(BOOLEAN)
        /\ Trailing(Latest(Append(answers, FALSE)), streak + 1)
        /\ streak + 1 >= StreakLimit <=> Dead(Latest(Append(answers, FALSE)))
    BY <1>1, TrailGrows DEF HistoryInv
  <2>3. HistoryInv'
    BY <2>1, <2>2 DEF HistoryInv
  <2>4. NewAbort <=> Dead(answers')
    BY <1>5, <2>1, <2>2, Zenon
  <2> QED
    BY <2>3, <2>4, Zenon DEF AbortMatches
<1> QED
  BY <1>2, <1>4, <1>5, StepRecords DEF HistoryNext

\* An agent ends the run exactly when its answer completes StreakLimit failures with no success between them
\* (_recycled's dead-server streak).
THEOREM Aborts == HistorySpec => AbortsOnStreak
<1>1. HistoryInit => HistoryInv
  BY LimitIsNat DEF HistoryInit, Init, HistoryInv, Trailing
<1>2. HistoryInit => TInv /\ KeysInv /\ PlaysDistinct
  BY InitTInv, InitKeys DEF HistoryInit
<1>3. TInv /\ KeysInv /\ PlaysDistinct /\ [HistoryNext]_<<vars, answers>> => TInv' /\ KeysInv' /\ PlaysDistinct'
  <2>1. [HistoryNext]_<<vars, answers>> => [Next]_vars
    BY DEF HistoryNext
  <2> QED
    BY <2>1, NextTInv, NextAdvances, NextPlaysDistinct
<1>4. TInv /\ KeysInv /\ HistoryInv /\ [HistoryNext]_<<vars, answers>> => HistoryInv'
  <2>1. CASE HistoryNext
    BY <2>1, HistoryStep
  <2>2. CASE UNCHANGED <<vars, answers>>
    BY <2>2 DEF HistoryInv, vars
  <2> QED
    BY <2>1, <2>2
<1>5. TInv /\ KeysInv /\ HistoryInv /\ [HistoryNext]_<<vars, answers>> =>
        [failed' # failed =>
           ((\E a \in Agents : phase[a] # "aborted" /\ phase'[a] = "aborted") <=> Dead(answers'))]_<<vars, answers>>
  BY HistoryStep DEF AbortMatches, NewAbort
<1> QED
  BY <1>1, <1>2, <1>3, <1>4, <1>5, PTL DEF HistorySpec, AbortsOnStreak
================================================================================
