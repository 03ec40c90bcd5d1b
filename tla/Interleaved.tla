----------------------------- MODULE Interleaved -----------------------------
(***************************************************************************)
(* SessionDispatcher under interleaved pacing, closed loop                 *)
(* (quettabench/modes/serve.py, _interleaved with _dispatch and _record):  *)
(* turn after turn, every session still alive sends that turn through C    *)
(* slots; the results are recorded once the whole turn is in.              *)
(*                                                                         *)
(* One action is one callback of the event loop, from one await to the     *)
(* next; the dispatches gather starts together run one after the other     *)
(* before anything else can, so they are one action.                       *)
(***************************************************************************)
EXTENDS Integers, Sequences, FiniteSets, AsyncSemaphore, SequencesExt

CONSTANTS N,     \* number of sessions
          C,     \* mode.concurrency, the number of slots
          Turns  \* Turns[s]: turns of session s

Sessions == 1 .. N
Planned == UNION {{s} \X (1 .. Turns[s]) : s \in Sessions}

CountsAssumption == N \in Nat \ {0} /\ C \in Nat \ {0}
TurnsAssumption == Turns \in [Sessions -> Nat \ {0}]

VARIABLES
  now,       \* the turn at the barrier
  phase,     \* where session s's dispatch of that turn is, or how it ended
  sem,       \* the slots semaphore
  index,     \* the request index of each key dispatched
  executed,  \* the keys sent
  recorded,  \* the keys in by_turn
  dead,      \* the sessions a recorded failure ended
  rowError,  \* the writer holds a row's write error
  outcome    \* of the run

vars == <<now, phase, sem, index, executed, recorded, dead, rowError, outcome>>

TypeOK ==
  /\ now \in Nat
  /\ phase \in [Sessions -> {"idle", "queued", "sending", "succeeded", "failed", "raised"}]
  /\ sem \in Semaphore(Sessions)
  /\ DOMAIN index \subseteq Planned /\ \A k \in DOMAIN index : index[k] \in Nat
  /\ executed \subseteq DOMAIN index /\ recorded \subseteq executed
  /\ dead \subseteq Sessions
  /\ rowError \in BOOLEAN
  /\ outcome \in {"running", "raised", "ok", "aborted", "cancelled"}

Init ==
  /\ now = 0
  /\ phase = [s \in Sessions |-> "idle"]
  /\ sem = NewSemaphore(C)
  /\ index = [k \in {} |-> 0]
  /\ executed = {} /\ recorded = {}
  /\ dead = {}
  /\ rowError = FALSE
  /\ outcome = "running"

\* The event loop still runs the dispatches: gather waits for them, or an exception is on its way out.
Looping == outcome \in {"running", "raised"}

-------------------------------------------------------------------------------
(* A turn's start. *)

\* Mutant: the sessions a failure ended, too.
BatchOfAll(t, gone) == {s \in Sessions : t <= Turns[s]}

\* The sessions still alive, of those that have turn t.
Batch(t, gone) == {s \in Sessions \ gone : t <= Turns[s]}

\* The place of session s in a batch, which is in file order.
Place(s, batch) == Cardinality({r \in batch : r < s})

\* The sessions of a set, in file order.
Lined(S) == [k \in 1 .. Cardinality(S) |-> CHOOSE s \in S : Place(s, S) = k - 1]

\* Mutant: the requests that wait for a slot wait in the reverse order.
StartTurnReversed(t, batch, offset) ==
  LET first == {s \in batch : Place(s, batch) < sem.value}
      line == Reverse(Lined(batch \ first))
  IN  /\ now' = t
      /\ phase' = [s \in Sessions |-> IF s \in first THEN "sending" ELSE IF s \in batch THEN "queued" ELSE "idle"]
      /\ sem' = [sem EXCEPT !.value = @ - Cardinality(first), !.waiters = @ \o line]
      /\ index' = [k \in DOMAIN index \cup (batch \X {t}) |-> IF k[2] = t THEN offset + Place(k[1], batch) ELSE index[k]]
      /\ executed' = executed \cup (first \X {t})

\* gather starts turn t's dispatches in file order: the first take the free slots, the others wait in line.
StartTurn(t, batch, offset) ==
  LET first == {s \in batch : Place(s, batch) < sem.value}
      line == Lined(batch \ first)
  IN  /\ now' = t
      /\ phase' = [s \in Sessions |-> IF s \in first THEN "sending" ELSE IF s \in batch THEN "queued" ELSE "idle"]
      /\ sem' = [sem EXCEPT !.value = @ - Cardinality(first), !.waiters = @ \o line]
      /\ index' = [k \in DOMAIN index \cup (batch \X {t}) |-> IF k[2] = t THEN offset + Place(k[1], batch) ELSE index[k]]
      /\ executed' = executed \cup (first \X {t})

\* The next turn a session is left for starts at once; without one the run is over.
GoOn ==
  LET batch == Batch(now + 1, dead')
  IN  IF batch # {}
      THEN StartTurn(now + 1, batch, Cardinality(recorded')) /\ UNCHANGED outcome
      ELSE /\ outcome' = "ok"
           /\ UNCHANGED <<now, phase, sem, index, executed>>

Begin ==
  /\ Looping
  /\ now = 0
  /\ UNCHANGED <<recorded, dead, rowError>>
  /\ GoOn

-------------------------------------------------------------------------------
(* One request. *)

\* The first request in line, handed a slot, goes out.
Resumed(s) ==
  /\ Looping
  /\ Runnable(sem)
  /\ s = Head(sem.waiters)
  /\ sem' = Resume(sem)
  /\ phase' = [phase EXCEPT ![s] = "sending"]
  /\ executed' = executed \cup {<<s, now>>}
  /\ UNCHANGED <<now, index, recorded, dead, rowError, outcome>>

\* Mutants: a slot is released twice; a failed request keeps its slot.
AnswerReleasesTwice(s) ==
  /\ Looping
  /\ phase[s] = "sending"
  /\ ~rowError
  /\ sem' = Release(Release(sem))
  /\ \E end \in {"succeeded", "failed"} : phase' = [phase EXCEPT ![s] = end]
  /\ UNCHANGED <<now, index, executed, recorded, dead, rowError, outcome>>

AnswerKeepsSlot(s) ==
  /\ Looping
  /\ phase[s] = "sending"
  /\ ~rowError
  /\ \/ phase' = [phase EXCEPT ![s] = "succeeded"] /\ sem' = Release(sem)
     \/ phase' = [phase EXCEPT ![s] = "failed"] /\ sem' = sem
  /\ UNCHANGED <<now, index, executed, recorded, dead, rowError, outcome>>

\* Its answer comes back: the slot is released, then the row goes to the writer.
Answer(s) ==
  /\ Looping
  /\ phase[s] = "sending"
  /\ ~rowError
  /\ sem' = Release(sem)
  /\ \E end \in {"succeeded", "failed"} : phase' = [phase EXCEPT ![s] = end]
  /\ UNCHANGED <<now, index, executed, recorded, dead, rowError, outcome>>

\* The writer raises its row error; gather raises it, the other dispatches go on.
AnswerRaises(s) ==
  /\ Looping
  /\ phase[s] = "sending"
  /\ rowError
  /\ sem' = Release(sem)
  /\ phase' = [phase EXCEPT ![s] = "raised"]
  /\ outcome' = "raised"
  /\ UNCHANGED <<now, index, executed, recorded, dead, rowError>>

-------------------------------------------------------------------------------
(* A turn's end. *)

Succeeded == {s \in Sessions : phase[s] = "succeeded"}
Failed == {s \in Sessions : phase[s] = "failed"}

TurnIn ==
  /\ outcome = "running"
  /\ now > 0
  /\ \A s \in Sessions : phase[s] \in {"idle", "succeeded", "failed"}

\* Not one request of the turn succeeded: the run aborts, the turn unrecorded.
Abort ==
  /\ TurnIn
  /\ Succeeded = {}
  /\ outcome' = "aborted"
  /\ UNCHANGED <<now, phase, sem, index, executed, recorded, dead, rowError>>

\* Mutant: only the successes are recorded.
NextTurnOfSuccesses ==
  /\ TurnIn
  /\ Succeeded # {}
  /\ recorded' = recorded \cup (Succeeded \X {now})
  /\ dead' = dead \cup Failed
  /\ UNCHANGED rowError
  /\ GoOn

\* The whole turn is in: it is recorded, its failures end their sessions, and the next turn starts.
NextTurn ==
  /\ TurnIn
  /\ Succeeded # {}
  /\ recorded' = recorded \cup ((Succeeded \cup Failed) \X {now})
  /\ dead' = dead \cup Failed
  /\ UNCHANGED rowError
  /\ GoOn

RowWriteFails ==
  /\ Looping
  /\ ~rowError
  /\ rowError' = TRUE
  /\ UNCHANGED <<now, phase, sem, index, executed, recorded, dead, outcome>>

\* The exception left asyncio.run, which cancels the dispatches still at work.
Cancel ==
  /\ outcome = "raised"
  /\ outcome' = "cancelled"
  /\ UNCHANGED <<now, phase, sem, index, executed, recorded, dead, rowError>>

Over == ~Looping /\ UNCHANGED vars

Request(s) == Resumed(s) \/ Answer(s) \/ AnswerRaises(s)

Next == Begin \/ (\E s \in Sessions : Request(s)) \/ Abort \/ NextTurn \/ RowWriteFails \/ Cancel \/ Over

Spec == Init /\ [][Next]_vars

\* Every request is answered (a driver bounds each one with a timeout) and every task that can run does.
FairSpec == Spec /\ (\A s \in Sessions : WF_vars(Request(s))) /\ WF_vars(Begin \/ Abort \/ NextTurn \/ Cancel)

-------------------------------------------------------------------------------
(* Properties. *)

\* Every slot is free, granted or in use, whichever way its request ended: so at most C requests are in flight, and
\* each turn starts with C free slots and nobody in line.
InFlight == {s \in Sessions : phase[s] = "sending"}
SlotsConserved == Slots(sem) + Cardinality(InFlight) = C
FreshSlots == TurnIn => sem = NewSemaphore(C)

\* A turn's requests go out in file order, whatever order the answers come in.
InFileOrder ==
  \A r, s \in Batch(now, dead) : r < s /\ <<s, now>> \in executed => <<r, now>> \in executed

\* The number of recorded results is the number of requests before this turn: no two requests share an index, and
\* none is skipped.
IndexesContiguous ==
  /\ {index[k] : k \in DOMAIN index} = 0 .. Cardinality(DOMAIN index) - 1
  /\ \A j, k \in DOMAIN index : j[2] < k[2] => index[j] < index[k]

\* identity's verdict for a run that reached its checks.
IdentityHolds ==
  outcome = "ok" => \A k \in Planned \ executed : k[1] \in dead /\ \E u \in 1 .. k[2] - 1 : <<k[1], u>> \in recorded

\* The types, and what holds from one turn to the next.
Inv == TypeOK /\ SlotsConserved /\ FreshSlots /\ InFileOrder /\ IndexesContiguous /\ IdentityHolds

\* The promise of every replay.
Back(s) == phase[s] \in {"succeeded", "failed"} /\ <<s, now>> \in executed
Of(keys, s) == {t \in 1 .. Turns[s] : <<s, t>> \in keys}
SR == INSTANCE SessionReplay WITH
        sent <- [s \in Sessions |-> Cardinality(Of(executed, s))],
        answered <- [s \in Sessions |-> Cardinality(Of(recorded \cup {<<r, now>> : r \in {q \in Sessions : Back(q)}}, s))],
        broken <- [s \in Sessions |-> s \in dead \/ phase[s] = "failed"]
ReplaysSessions == SR!Spec

\* With every request answered the run ends: no request waits forever for a slot, no turn for its barrier.
RunEnds == <>~Looping
==============================================================================
