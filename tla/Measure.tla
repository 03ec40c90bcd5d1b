-------------------------------- MODULE Measure --------------------------------
(***************************************************************************)
(* One measured pass (quettabench/modes/serve.py, measure): the warmup,    *)
(* the cache reset, then the pass itself by the dispatcher the trace and   *)
(* the load call for, with the client's health watched beside it.  The     *)
(* dispatchers are the modules of their own, composed here; per-session    *)
(* and recycled pacing have runs of their own.                             *)
(***************************************************************************)
EXTENDS Integers, Sequences, FiniteSets

CONSTANTS N, C, Turns, Arrival,          \* a session trace
          R, NoTime, Offsets, MaxTime,   \* a single-turn trace of R requests
          Interval, Limit, MaxWatch      \* the client's sampler

ASSUME SizesAssumption == R \in Nat /\ R <= N

VARIABLES
  pacing,   \* what dispatches the pass; "watch" is a pass seen only by the client's health
  stage,    \* of measure
  reset,    \* mode.reset_prefix_cache
  warming,  \* warmup requests in flight
  warmed,   \* a warmup request succeeded
  now, phase, sem, index, executed, recorded, dead, rowError, outcome, turn, counter, succeeded, failed,
  open, at, clock, sentAt, doneAt, time, asleepSince, stalls, spells

IL == INSTANCE Interleaved
OP == INSTANCE OpenLoop
RP == INSTANCE Replay WITH N <- R
CH == INSTANCE ClientHealth WITH MaxTime <- MaxWatch

ASSUME DispatchersAssumption ==
  /\ IL!CountsAssumption /\ IL!TurnsAssumption
  /\ OP!CountAssumption /\ OP!TurnsAssumption /\ OP!ArrivalAssumption
  /\ RP!CountsAssumption /\ RP!OffsetsAssumption
  /\ CH!TimesAssumption

before == <<reset, warming, warmed>>
ofTurns == <<now, executed, recorded, dead>>
ofArrivals == <<turn, counter, succeeded, failed>>
ofRequests == <<open, at, clock, sentAt, doneAt>>
ofClient == <<time, asleepSince, stalls, spells>>
common == <<phase, rowError, outcome>>
vars == <<pacing, stage, before, common, sem, index, ofTurns, ofArrivals, ofRequests, ofClient>>

None == 0
NoTurns == now = None /\ executed = None /\ recorded = None /\ dead = None
NoArrivals == turn = None /\ counter = None /\ succeeded = None /\ failed = None
NoRequests == open = None /\ at = None /\ clock = None /\ sentAt = None /\ doneAt = None
NoWatch == time = None /\ asleepSince = None /\ stalls = None /\ spells = None

Init ==
  /\ pacing \in {"interleaved", "open", "single", "watch"}
  /\ stage = "warmup"
  /\ reset \in BOOLEAN
  /\ warming \in 0 .. 2 /\ warmed = (warming = 0)
  /\ IF pacing = "interleaved" THEN IL!Init ELSE NoTurns
  /\ IF pacing = "open" THEN OP!Init /\ sem = None ELSE NoArrivals
  /\ IF pacing = "single" THEN RP!Init /\ index = None ELSE NoRequests
  /\ IF pacing = "watch"
     THEN CH!Init /\ sem = None /\ index = None /\ phase = None /\ rowError = FALSE /\ outcome = "running"
     ELSE NoWatch

-------------------------------------------------------------------------------
(* Before the pass. *)

\* A warmup request ends, well or not.
WarmupAnswer ==
  /\ warming > 0
  /\ warming' = warming - 1
  /\ \E ok \in BOOLEAN : warmed' = (warmed \/ ok)
  /\ UNCHANGED <<pacing, stage, reset>>

\* gather waits for all of them; without a success the run aborts.
WarmupIn ==
  /\ stage = "warmup"
  /\ warming = 0
  /\ stage' = IF warmed THEN "reset" ELSE "aborted"
  /\ UNCHANGED <<pacing, before>>

\* The reset is refused, cannot connect, or empties the cache; without one the pass starts on the cache as it is.
ResetRaises ==
  /\ stage = "reset" /\ reset
  /\ stage' = "raised"
  /\ UNCHANGED <<pacing, before>>

ResetCache ==
  /\ stage = "reset"
  /\ stage' = "pass" /\ reset' = FALSE
  /\ UNCHANGED <<pacing, warming, warmed>>

-------------------------------------------------------------------------------
(* The pass. *)

In(p) == stage = "pass" /\ pacing = p /\ UNCHANGED <<pacing, stage, before>>

ByTurn(A) == In("interleaved") /\ A /\ UNCHANGED <<ofArrivals, ofRequests, ofClient>>
ByArrival(A) == In("open") /\ A /\ UNCHANGED <<sem, ofTurns, ofRequests, ofClient>>
ByRequest(A) == In("single") /\ A /\ UNCHANGED <<index, ofTurns, ofArrivals, ofClient>>
Watched(A) == In("watch") /\ A /\ UNCHANGED <<common, sem, index, ofTurns, ofArrivals, ofRequests>>

BeforePass == WarmupAnswer \/ WarmupIn \/ ResetRaises \/ ResetCache

Next ==
  \/ BeforePass /\ UNCHANGED <<common, sem, index, ofTurns, ofArrivals, ofRequests, ofClient>>
  \/ ByTurn(IL!Next)
  \/ ByArrival(OP!Next)
  \/ ByRequest(RP!Next)
  \/ Watched(CH!Next)
  \/ stage \in {"aborted", "raised"} /\ UNCHANGED vars

Spec == Init /\ [][Next]_vars

\* Under a closed loop every request is answered, by its timeout at the latest, and every task that can run does;
\* under an open loop only the timers are counted on.
FairSpec ==
  /\ Spec
  /\ \A s \in 1 .. N : WF_vars(ByTurn(IL!Request(s))) /\ WF_vars(ByArrival(OP!Arrive(s)))
  /\ WF_vars(ByTurn(IL!Begin \/ IL!Abort \/ IL!NextTurn \/ IL!Cancel))
  /\ \A i \in 1 .. R : WF_vars(ByRequest(RP!Request(i)))
  /\ WF_vars(ByRequest(RP!Gathered \/ RP!Cancel \/ RP!Tick))

-------------------------------------------------------------------------------
(* Properties. *)

\* What each dispatcher keeps.
Inv ==
  CASE pacing = "interleaved" -> IL!Inv
    [] pacing = "open" -> OP!Inv
    [] pacing = "single" -> RP!Inv
    [] pacing = "watch" -> CH!TypeOK

\* The load figures of a single-turn pass are those of its requests, tick by tick.
LoadIsRight == pacing = "single" => RP!LoadIsRight

\* stall_s never says more than the client was stalled, nor less by more than what one callback may hide.
StallsBounded == pacing = "watch" => CH!StallsBounded

\* The promise of every replay, whichever dispatcher; a single-turn request is a session of one turn.
Sent(s) ==
  CASE pacing = "interleaved" -> Cardinality(IL!Of(executed, s))
    [] pacing = "open" -> Cardinality(OP!Of(OP!executed, s))
    [] pacing = "single" -> IF s <= R /\ sentAt[s] >= 0 THEN 1 ELSE 0
    [] pacing = "watch" -> 0
Answered(s) ==
  CASE pacing = "interleaved" -> Cardinality(IL!Of(recorded \cup {<<r, now>> : r \in {q \in 1 .. N : IL!Back(q)}}, s))
    [] pacing = "open" -> Cardinality(OP!Of(succeeded \cup failed, s))
    [] pacing = "single" -> IF s <= R /\ phase[s] \in {"succeeded", "failed"} THEN 1 ELSE 0
    [] pacing = "watch" -> 0
Broken(s) ==
  CASE pacing = "interleaved" -> s \in dead \/ phase[s] = "failed"
    [] pacing = "open" -> OP!Of(failed, s) # {}
    [] pacing = "single" -> s <= R /\ phase[s] = "failed"
    [] pacing = "watch" -> FALSE
SR == INSTANCE SessionReplay WITH
        Sessions <- 1 .. N,
        sent <- [s \in 1 .. N |-> Sent(s)],
        answered <- [s \in 1 .. N |-> Answered(s)],
        broken <- [s \in 1 .. N |-> Broken(s)]
ReplaysSessions == SR!Spec

\* With every request answered a closed pass ends: nothing waits for ever for a slot, a barrier or a timer.
RunEnds == stage = "pass" /\ pacing \in {"interleaved", "single"} ~> ~IL!Looping

\* The load is offered, not admitted: every session's first turn goes out at its arrival though no answer ever comes.
EverySessionArrives ==
  stage = "pass" /\ pacing = "open" ~>
    (pacing = "open" => outcome # "running" \/ \A s \in 1 .. N : <<s, 1>> \in OP!executed)
================================================================================
