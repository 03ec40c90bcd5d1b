-------------------------------- MODULE Replay --------------------------------
(***************************************************************************)
(* The replay of a single-turn trace (quettabench/modes/serve.py, replay): *)
(* each request sleeps to its offset, then goes out, in a closed loop      *)
(* through C slots; the pass aborts when nine tenths of it failed.         *)
(*                                                                         *)
(* One action is one callback of the event loop.  Times are whole ticks.   *)
(***************************************************************************)
EXTENDS AsyncSemaphore, LoadStats

CONSTANTS N,        \* number of requests
          C,        \* mode.concurrency
          NoTime,   \* a request the trace gives no time
          Offsets,  \* the times of the traces to consider
          MaxTime   \* bound of the model's clock

Requests == 1 .. N

CountsAssumption == N \in Nat \ {0} /\ C \in Nat \ {0} /\ MaxTime \in Nat
OffsetsAssumption == Offsets \subseteq [Requests -> Nat \cup {NoTime}]

VARIABLES
  open,      \* mode.load is "open"
  at,        \* at[i]: the offset of request i
  clock,     \* ticks since the start
  phase,     \* where request i's dispatch is, or how it ended
  sem,       \* the slots
  sentAt,    \* when request i went out
  doneAt,    \* when its answer came back
  rowError,  \* the writer holds a row's write error
  outcome    \* of the pass

vars == <<open, at, clock, phase, sem, sentAt, doneAt, rowError, outcome>>

TypeOK ==
  /\ open \in BOOLEAN /\ at \in [Requests -> Nat] /\ clock \in 0 .. MaxTime
  /\ phase \in [Requests -> {"asleep", "queued", "sending", "succeeded", "failed", "raised"}]
  /\ sem \in Semaphore(Requests)
  /\ sentAt \in [Requests -> Nat \cup {-1}] /\ doneAt \in [Requests -> Nat \cup {-1}]
  /\ rowError \in BOOLEAN
  /\ outcome \in {"running", "raised", "ok", "aborted", "cancelled"}

\* rebase_arrivals: the times count from the first; one the trace does not carry counts as 0 and submits at once.
Rebase(ts) ==
  LET Time(i) == IF ts[i] = NoTime THEN 0 ELSE ts[i]
      t0 == CHOOSE t \in {Time(i) : i \in Requests} : \A i \in Requests : t <= Time(i)
  IN  [i \in Requests |-> (IF ts[i] = NoTime THEN t0 ELSE ts[i]) - t0]

Init ==
  /\ open \in BOOLEAN
  /\ at \in {Rebase(ts) : ts \in Offsets}
  /\ clock = 0
  /\ phase = [i \in Requests |-> "asleep"]
  /\ sem = NewSemaphore(C)
  /\ sentAt = [i \in Requests |-> -1] /\ doneAt = [i \in Requests |-> -1]
  /\ rowError = FALSE
  /\ outcome = "running"

\* The event loop still runs the dispatches.
Looping == outcome \in {"running", "raised"}

Before(i, j) == at[i] < at[j]

\* The timers fire in the order of the offsets; those due together, in either order, each delay being from the
\* dispatch's own reading of the clock.
Due(i) ==
  /\ Looping
  /\ phase[i] = "asleep" /\ at[i] <= clock
  /\ \A j \in Requests : Before(j, i) => phase[j] # "asleep"

\* An open loop and a free slot send at once.
Dispatch(i) ==
  /\ Due(i)
  /\ open \/ ~Locked(sem)
  /\ sem' = IF open THEN sem ELSE Take(sem)
  /\ phase' = [phase EXCEPT ![i] = "sending"]
  /\ sentAt' = [sentAt EXCEPT ![i] = clock]
  /\ UNCHANGED <<open, at, clock, doneAt, rowError, outcome>>

Queue(i) ==
  /\ Due(i)
  /\ ~open /\ Locked(sem)
  /\ sem' = Enqueue(sem, i)
  /\ phase' = [phase EXCEPT ![i] = "queued"]
  /\ UNCHANGED <<open, at, clock, sentAt, doneAt, rowError, outcome>>

Resumed(i) ==
  /\ Looping
  /\ Runnable(sem) /\ i = Head(sem.waiters)
  /\ sem' = Resume(sem)
  /\ phase' = [phase EXCEPT ![i] = "sending"]
  /\ sentAt' = [sentAt EXCEPT ![i] = clock]
  /\ UNCHANGED <<open, at, clock, doneAt, rowError, outcome>>

AwaitsAnswer(i) ==
  /\ Looping
  /\ phase[i] = "sending"
  /\ sem' = IF open THEN sem ELSE Release(sem)
  /\ doneAt' = [doneAt EXCEPT ![i] = clock]

\* The answer, a success or not, goes to the writer.
Answer(i) ==
  /\ AwaitsAnswer(i)
  /\ ~rowError
  /\ \E end \in {"succeeded", "failed"} : phase' = [phase EXCEPT ![i] = end]
  /\ UNCHANGED <<open, at, clock, sentAt, rowError, outcome>>

\* emit raises the writer's row error; gather raises it, the other dispatches go on.
AnswerRaises(i) ==
  /\ AwaitsAnswer(i)
  /\ rowError
  /\ phase' = [phase EXCEPT ![i] = "raised"]
  /\ outcome' = "raised"
  /\ UNCHANGED <<open, at, clock, sentAt, rowError>>

RowWriteFails ==
  /\ Looping /\ ~rowError
  /\ rowError' = TRUE
  /\ UNCHANGED <<open, at, clock, phase, sem, sentAt, doneAt, outcome>>

Failed == {i \in Requests : phase[i] = "failed"}

\* All rows are in; a pass of which nine tenths failed aborts.
Gathered ==
  /\ outcome = "running"
  /\ \A i \in Requests : phase[i] \in {"succeeded", "failed"}
  /\ outcome' = IF Failed # {} /\ 10 * Cardinality(Failed) >= 9 * N THEN "aborted" ELSE "ok"
  /\ UNCHANGED <<open, at, clock, phase, sem, sentAt, doneAt, rowError>>

Cancel ==
  /\ outcome = "raised"
  /\ outcome' = "cancelled"
  /\ UNCHANGED <<open, at, clock, phase, sem, sentAt, doneAt, rowError>>

\* Time passes once the loop has run what is due; a callback takes less than a tick.
Tick ==
  /\ outcome = "running"
  /\ clock < MaxTime
  /\ ~Runnable(sem) /\ \A i \in Requests : phase[i] = "asleep" => at[i] > clock
  /\ clock' = clock + 1
  /\ UNCHANGED <<open, at, phase, sem, sentAt, doneAt, rowError, outcome>>

Over == ~Looping /\ UNCHANGED vars

Request(i) == Dispatch(i) \/ Queue(i) \/ Resumed(i) \/ Answer(i) \/ AnswerRaises(i)

Next == (\E i \in Requests : Request(i)) \/ RowWriteFails \/ Gathered \/ Cancel \/ Tick \/ Over

Spec == Init /\ [][Next]_vars

-------------------------------------------------------------------------------
(* Properties. *)

\* _sent_intervals: the requests that spent time on the server, failed ones too.
Intervals == {<<i, sentAt[i], doneAt[i]>> : i \in {j \in Requests : doneAt[j] > sentAt[j]}}

\* A closed loop never has more than C requests in flight, and one due earlier goes out no later.
SlotsConserved == ~open => Slots(sem) + Cardinality({i \in Requests : phase[i] = "sending"}) = C
InOrderDue == ~open => \A i, j \in Requests : Before(i, j) /\ sentAt[j] >= 0 => sentAt[i] \in 0 .. sentAt[j]

\* The load a summary publishes for a finished pass is the load tick by tick, the bins' in half ticks; in a closed loop the peak is at most C.
LoadIsRight ==
  outcome \in {"ok", "aborted"} =>
    /\ LoadOf(Intervals)
    /\ ~open => MaxInflight(Intervals) <= C
    /\ \A start \in 0 .. 1, end \in 2 * MaxTime - 1 .. 2 * MaxTime :
         BinsOf({<<v[1], 2 * Begin(v), 2 * End(v)>> : v \in Intervals}, start, end, 3)

Inv == TypeOK /\ SlotsConserved /\ InOrderDue
================================================================================
