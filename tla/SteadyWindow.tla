----------------------------- MODULE SteadyWindow -----------------------------
(***************************************************************************)
(* The steady window of a closed-loop replay                               *)
(* (quettabench/metrics/summary.py, first_plays, steady_window and the     *)
(* completions steady_section counts), computed from session_times and     *)
(* agent_of as a replay of C agents leaves them: an agent plays one        *)
(* session at a time, idle before it for as long as the arrivals or the    *)
(* event loop keep it, and a recycled replay starts no play after its      *)
(* deadline.                                                               *)
(*                                                                         *)
(* Time is counted in whole ticks.                                         *)
(***************************************************************************)
EXTENDS Integers, FiniteSets, FiniteSetsExt, SequencesExt

CONSTANTS C,          \* the agents
          N,          \* sessions of a replay that is not recycled
          DeadlineS,  \* mode.duration_s of one that is
          Handover,   \* HANDOVER_S
          MinWindow,  \* MIN_RECYCLED_WINDOW_S
          Horizon     \* bound: the replay is over by then

CountsAssumption == C \in Nat \ {0} /\ N \in Nat /\ Handover \in Nat
TimesAssumption == DeadlineS \in Nat /\ MinWindow \in Nat /\ Horizon \in Nat

Agents == 1 .. C
Idle == -1
Inf == Horizon + 1

VARIABLES recycled,  \* mode.duration_s > 0
          now,       \* elapsed()
          since,     \* since[a]: the admission of the play agent a is at
          plays      \* the plays finished: agent_of and session_times

vars == <<recycled, now, since, plays>>

-------------------------------------------------------------------------------
(* The replay. *)

Started == Cardinality(plays) + Cardinality({a \in Agents : since[a] # Idle})

Init ==
  /\ recycled \in BOOLEAN
  /\ now = 0
  /\ since = [a \in Agents |-> Idle]
  /\ plays = {}

\* Agent a is admitted to a session: the next of the file, or a play drawn before the deadline.
Admit(a) ==
  /\ since[a] = Idle
  /\ IF recycled THEN now <= DeadlineS ELSE Started < N
  /\ now < Horizon
  /\ since' = [since EXCEPT ![a] = now]
  /\ UNCHANGED <<recycled, now, plays>>

\* Agent a finishes its session.
Finish(a) ==
  /\ since[a] \in 0 .. now - 1
  /\ plays' = plays \cup {[agent |-> a, adm |-> since[a], fin |-> now]}
  /\ since' = [since EXCEPT ![a] = Idle]
  /\ UNCHANGED <<recycled, now>>

Tick ==
  /\ now < Horizon
  /\ now' = now + 1
  /\ UNCHANGED <<recycled, since, plays>>

\* Every session is played, or the deadline has passed and the last play is over.
Over ==
  /\ \A a \in Agents : since[a] = Idle
  /\ IF recycled THEN now > DeadlineS ELSE Cardinality(plays) = N

Next == (\E a \in Agents : Admit(a) \/ Finish(a)) \/ Tick \/ (now = Horizon /\ UNCHANGED vars)

Spec == Init /\ [][Next]_vars

-------------------------------------------------------------------------------
(* first_plays and steady_window. *)

\* Mutant: the first C admissions, for a replay whose agents may play again before the last has started.
FirstAdmissions(times) == {p \in times : Cardinality({q \in times : q.adm < p.adm}) < C}

\* Each agent's earliest play.
FirstPlays(times) == {p \in times : \A q \in times : q.agent = p.agent => p.adm <= q.adm}

\* Admissions and finishes in time order, finishes first, those of one time and kind together; and the sentinel that
\* closes the drain's open spell.
Events(times) ==
  LET at(i) == (i - 1) \div 2
      of(i) == IF i % 2 = 1 THEN [at |-> at(i), d |-> -Cardinality({p \in times : p.fin = at(i)})]
               ELSE [at |-> at(i), d |-> Cardinality({p \in times : p.adm = at(i)})]
  IN  Append(SelectSeq([i \in 1 .. 2 * (Horizon + 1) |-> of(i)], LAMBDA e : e.d # 0), [at |-> Inf, d |-> 0])

\* The spells with fewer than C plays open.
IdleSpells(times) ==
  LET step(acc, e) ==
        LET open == acc.open + e.d
        IN  IF open < C /\ acc.from = Idle
            THEN [acc EXCEPT !.open = open, !.from = e.at]
            ELSE IF (open >= C \/ e.at = Inf) /\ acc.from # Idle
            THEN [open |-> open, from |-> Idle, spells |-> acc.spells \cup {<<acc.from, e.at>>}]
            ELSE [acc EXCEPT !.open = open]
  IN  FoldLeft(step, [open |-> 0, from |-> Idle, spells |-> {}], Events(times)).spells

LastAdmitted(times) == Max({p.adm : p \in times})
Opening(times) == Max({p.fin : p \in FirstPlays(times)})
Closing(times) ==
  IF recycled THEN DeadlineS ELSE Min({p.fin : p \in {q \in times : q.fin > LastAdmitted(times)}})

\* Mutant: a spell is measured from its own start, before the window opened.
IdleInsideFromStart(times, start, end) ==
  \E spell \in IdleSpells(times) : Min({spell[2], end}) - spell[1] > Handover

\* A spell idle for longer than a handover inside the window.
IdleInside(times, start, end) ==
  \E spell \in IdleSpells(times) : Min({spell[2], end}) - Max({spell[1], start}) > Handover

\* The reason a window is refused, "" for a valid one.
Reason(times) ==
  CASE times = {} \/ (~recycled /\ Cardinality(times) <= 2 * C) -> "few sessions"
    [] times # {} /\ Cardinality(FirstPlays(times)) < C -> "an agent never finished"
    [] recycled /\ Opening(times) >= DeadlineS -> "opens after the deadline"
    [] Closing(times) <= Opening(times) -> "closed before it opened"
    [] IdleInside(times, Opening(times), Closing(times)) -> "idle agent"
    [] recycled /\ Closing(times) - Opening(times) < MinWindow -> "short"
    [] OTHER -> ""

\* The plays whose completions the steady numbers count; the mutant takes in the completion that opened the window.
CountedFromOpening(times) == {p \in times : Opening(times) <= p.fin /\ p.fin <= Closing(times)}
Counted(times) == {p \in times : Opening(times) < p.fin /\ p.fin <= Closing(times)}

-------------------------------------------------------------------------------
(* What the window promises, stated tick by tick.  The tick t is the time  *)
(* from t to t + 1.                                                        *)

TypeOK ==
  /\ recycled \in BOOLEAN
  /\ now \in 0 .. Horizon
  /\ since \in [Agents -> {Idle} \cup 0 .. now]
  /\ plays \subseteq [agent : Agents, adm : 0 .. now, fin : 0 .. now]

PlayedBy(a) == {p \in plays : p.agent = a}
AllBusy(t) == \A a \in Agents : \E p \in PlayedBy(a) : p.adm <= t /\ t < p.fin

\* Every agent has finished a play by t.
Warm(t) == \A a \in Agents : \E p \in PlayedBy(a) : p.fin <= t

\* No session of the file is admitted at t or later: the drain.
Draining(t) == \A p \in plays : p.adm < t

\* At t the replay closes: its deadline, or the first finish of the drain.
Closes(t) ==
  IF recycled THEN t = DeadlineS
  ELSE /\ Draining(t) /\ \E p \in plays : p.fin = t
       /\ \A u \in 0 .. t - 1 : ~(Draining(u) /\ \E p \in plays : p.fin = u)

\* From open to close every agent plays, but for handovers.
BusyBetween(open, close) ==
  \A t \in open .. close - Handover - 1 : \E u \in t .. t + Handover : AllBusy(u)

\* A steady window from open to close exists.
Steady(open, close) ==
  /\ Warm(open) /\ \A t \in 0 .. open - 1 : ~Warm(t)
  /\ Closes(close)
  /\ open < close
  /\ BusyBetween(open, close)
  /\ IF recycled THEN close - open >= MinWindow ELSE Cardinality(plays) > 2 * C

\* A window is published exactly when the replay had a span between the last cold start and the drain (or the
\* deadline) in which no agent waited, and it is that span (steady_window; docs/session-replay.md, The steady window).
WindowIsRight ==
  Over => IF Reason(plays) = ""
          THEN Steady(Opening(plays), Closing(plays))
          ELSE \A open, close \in 0 .. Horizon : ~Steady(open, close)

\* No number of a published window counts a play an agent made on the empty cache, a completion at the opening
\* itself included (steady_section).
ColdPlaysOutside ==
  (Over /\ Reason(plays) = "") => \A p \in Counted(plays) : \E q \in PlayedBy(p.agent) : q.fin <= p.adm

\* The types, and that nothing cold is counted.
Inv == TypeOK /\ ColdPlaysOutside
==============================================================================
