-------------------------------- MODULE GridRun --------------------------------
(***************************************************************************)
(* A grid run (quettabench/modes/serve.py, run_grid, measure_cell and      *)
(* run_bench, with HttpDriver.timed_batch and grid_batch, BenchDriver and  *)
(* step_fit.fit_run): each cell is skipped or measured by a warm batch and *)
(* fit attempts over the step points; a fit's r2 is one of three grades.   *)
(***************************************************************************)
EXTENDS Integers, Sequences, FiniteSets, SequencesExt

CONSTANTS Cells,     \* the grid, in order: its ctx and bs
          Steps,     \* the number of step points, at least two
          Attempts,  \* mode.fit_attempts
          TopStep,   \* the largest step point
          MaxLen,    \* engine.max_model_len
          KvTokens   \* mode.max_kv_fraction of the KV capacity in tokens; 0: not known

GridAssumption ==
  /\ Cells \in Seq([ctx : Nat \ {0}, bs : Nat \ {0}]) /\ Cells # <<>>
  /\ Steps \in Nat \ {0, 1} /\ Attempts \in Nat \ {0} /\ TopStep \in Nat /\ MaxLen \in Nat /\ KvTokens \in Nat

\* r2 under the stop, under it and higher, at the stop or over.
Grades == 0 .. 2
Stop == 2

VARIABLES
  driver,   \* "http", "bench" (measures_steps) or "score" (scores_only)
  cell,     \* the cell at work, an index into Cells
  phase,    \* of the cell
  lastKey,  \* HttpDriver._cell: the cell of the last batch that reset
  cache,    \* whose prompts the server's prefix cache holds; other for the warmup's
  attempt,  \* the fit attempt, from 1
  step,     \* the step point of the next batch
  rows,     \* the rows written: cell, phase, attempt, step, and the cache the batch met
  grades,   \* grades[cell][attempt] of the attempts that ended
  events,   \* of the run's record
  log,      \* the cells with a result line in the bench's log
  outcome   \* "running", "done", "raised"; "missing" once a bench printed no result

vars == <<driver, cell, phase, lastKey, cache, attempt, step, rows, grades, events, log, outcome>>

NoCell == [ctx |-> 0, bs |-> 0]
Other == [ctx |-> 0, bs |-> 1]

At(d, held, logged) ==
  /\ driver = d
  /\ cell = 1 /\ phase = IF d = "http" THEN "warmup" ELSE "cell"
  /\ lastKey = NoCell
  /\ cache = held /\ log = logged
  /\ attempt = 1 /\ step = 1
  /\ rows = {} /\ events = <<>>
  /\ grades = [c \in DOMAIN Cells |-> <<>>]
  /\ outcome = "running"

\* An attached server may have served before, and a log may be left of an earlier run.
Init == \/ \E held \in {{}, {Other}} : At("http", held, {})
        \/ \E logged \in {{}, {Other}} : At("bench", {}, logged)
        \/ At("score", {}, {})

\* driver.warmup: a batch without a cell never resets the cache.
Warmup ==
  /\ phase = "warmup"
  /\ phase' = "cell"
  /\ cache' = cache \cup {Other}
  /\ UNCHANGED <<driver, cell, lastKey, attempt, step, rows, grades, events, log, outcome>>

OverMaxLen(c) == Cells[c].ctx + TopStep + 2 > MaxLen
OverKv(c) == driver # "score" /\ KvTokens # 0 /\ (Cells[c].ctx + TopStep) * Cells[c].bs > KvTokens

Skipped(c) == OverMaxLen(c) \/ OverKv(c)
SkipEvent(c) == [kind |-> IF OverMaxLen(c) THEN "skip_maxlen" ELSE "skip_kv", cell |-> c, of |-> 0]

NextCell ==
  IF cell = Len(Cells) THEN outcome' = "done" /\ UNCHANGED <<cell, phase>>
  ELSE cell' = cell + 1 /\ phase' = "cell" /\ UNCHANGED outcome

Skip ==
  /\ driver # "bench" /\ outcome = "running" /\ phase = "cell"
  /\ Skipped(cell)
  /\ events' = Append(events, SkipEvent(cell))
  /\ NextCell
  /\ UNCHANGED <<driver, lastKey, cache, attempt, step, rows, grades, log>>

\* Mutant: no batch resets.
MetNoReset(c) == cache

\* timed_batch: a batch of another cell than the last one's resets the cache first.
Met(c) == IF lastKey # Cells[c] THEN {} ELSE cache

Batch(c) ==
  /\ lastKey' = Cells[c]
  /\ cache' = Met(c) \cup {Cells[c]}

\* The warm batch: its rows are excluded from the summary.
Warm ==
  /\ driver = "http" /\ outcome = "running" /\ phase = "cell"
  /\ ~Skipped(cell)
  /\ Batch(cell)
  /\ rows' = rows \cup {[cell |-> cell, phase |-> "warm", attempt |-> 0, step |-> 0, met |-> Met(cell)]}
  /\ phase' = "fit" /\ attempt' = 1 /\ step' = 1
  /\ UNCHANGED <<driver, cell, grades, events, log, outcome>>

\* One batch of a fit attempt, of those before the last step point.
FitBatch ==
  /\ outcome = "running" /\ phase = "fit" /\ step < Steps
  /\ Batch(cell)
  /\ rows' = rows \cup {[cell |-> cell, phase |-> "fit", attempt |-> attempt, step |-> step, met |-> Met(cell)]}
  /\ step' = step + 1
  /\ UNCHANGED <<driver, cell, phase, attempt, grades, events, log, outcome>>

\* Mutant: the last attempt's fit, whatever its r2.
BestAttemptLast(c) == Len(grades'[c])

\* fit_run: the attempt of the highest r2, the first of several.
BestAttempt(c) == CHOOSE k \in DOMAIN grades'[c] :
  \A j \in DOMAIN grades'[c] : grades'[c][j] < grades'[c][k] \/ (grades'[c][j] = grades'[c][k] /\ k <= j)

\* The attempt's last batch: a good fit, or the last attempt, ends the cell with its result.
FitEnds ==
  /\ outcome = "running" /\ phase = "fit" /\ step = Steps
  /\ Batch(cell)
  /\ rows' = rows \cup {[cell |-> cell, phase |-> "fit", attempt |-> attempt, step |-> step, met |-> Met(cell)]}
  /\ \E r2 \in Grades :
       /\ grades' = [grades EXCEPT ![cell] = Append(@, r2)]
       /\ IF r2 >= Stop \/ attempt = Attempts
          THEN /\ events' = Append(events, [kind |-> "result", cell |-> cell, of |-> BestAttempt(cell)])
               /\ NextCell
               /\ UNCHANGED attempt
          ELSE attempt' = attempt + 1 /\ UNCHANGED <<cell, phase, events, outcome>>
  /\ step' = 1
  /\ UNCHANGED <<driver, log>>

\* A request of the batch failed, reported no usage or decoded the wrong length, or the reset was refused: the run raises.
BatchFails ==
  /\ driver = "http" /\ outcome = "running"
  /\ phase = "fit" \/ (phase = "cell" /\ ~Skipped(cell))
  /\ outcome' = "raised"
  /\ UNCHANGED <<driver, cell, phase, lastKey, cache, attempt, step, rows, grades, events, log>>

\* score_grid: the cells that fit are scored, nothing is timed.
Score ==
  /\ driver = "score" /\ outcome = "running"
  /\ ~Skipped(cell)
  /\ rows' = rows \cup {[cell |-> cell, phase |-> "logits", attempt |-> 0, step |-> 0, met |-> {}]}
  /\ NextCell
  /\ UNCHANGED <<driver, lastKey, cache, attempt, step, grades, events, log>>

\* Mutant: the log of the run before is appended to.
BenchPlanAppends ==
  /\ events' = SelectSeq([c \in DOMAIN Cells |-> SkipEvent(c)], LAMBDA e : Skipped(e.cell))
  /\ log' = log

\* run_bench skips cells before any is run, and the driver starts its log anew.
BenchPlan ==
  /\ events' = SelectSeq([c \in DOMAIN Cells |-> SkipEvent(c)], LAMBDA e : Skipped(e.cell))
  /\ log' = {}

BenchBegins ==
  /\ driver = "bench" /\ outcome = "running" /\ phase = "cell"
  /\ BenchPlan
  /\ phase' = "bench"
  /\ UNCHANGED <<driver, cell, lastKey, cache, attempt, step, rows, grades, outcome>>

\* The bench of one kept cell: it exits non-zero, which raises, or zero with or without a result line.
Bench ==
  /\ phase = "bench" /\ outcome \in {"running", "missing"} /\ cell <= Len(Cells)
  /\ \E line \in BOOLEAN, rc \in {0, 1} :
       /\ Skipped(cell) => ~line /\ rc = 0
       /\ log' = IF line THEN log \cup {Cells[cell]} ELSE log
       /\ outcome' = IF rc # 0 THEN "raised" ELSE IF line \/ Skipped(cell) THEN outcome ELSE "missing"
  /\ cell' = cell + 1
  /\ UNCHANGED <<driver, phase, lastKey, cache, attempt, step, rows, grades, events>>

\* A cell without a result line fails the run once every cell has run; otherwise the rows are the log's.
BenchEnds ==
  /\ phase = "bench" /\ outcome \in {"running", "missing"} /\ cell > Len(Cells)
  /\ rows' = IF outcome = "missing" THEN rows ELSE log
  /\ outcome' = IF outcome = "missing" THEN "raised" ELSE "done"
  /\ UNCHANGED <<driver, cell, phase, lastKey, cache, attempt, step, grades, events, log>>

Over == outcome \in {"done", "raised"} /\ UNCHANGED vars

Next == Warmup \/ Skip \/ Warm \/ FitBatch \/ FitEnds \/ BatchFails \/ Score \/ BenchBegins \/ Bench \/ BenchEnds \/ Over

Spec == Init /\ [][Next]_vars

-------------------------------------------------------------------------------
(* Properties. *)

\* Every cell behind the one at work has ended in one event, in the grid's order.
OneEventPerCell ==
  driver = "http" => /\ \A k \in DOMAIN events : events[k].cell = k
                     /\ Len(events) = IF outcome = "done" THEN Len(Cells) ELSE cell - 1

\* The last cell measured before c was one like it: same context, same batch size.
SameAsLast(c) == \E k \in 1 .. c - 1 : Cells[k] = Cells[c] /\ \A j \in k + 1 .. c - 1 : Skipped(j)

\* A timed batch meets the cache its cell's warm batch filled, with nothing of the warmup or of another cell in it.
OwnCache ==
  driver = "http" => \A r \in rows :
    r.met = IF r.phase = "warm" /\ ~SameAsLast(r.cell) THEN {} ELSE {Cells[r.cell]}

\* A cell's result is the fit of a whole attempt, one batch per step point, no attempt of the cell fits better, and
\* none follows one that was good enough.
FitIsWhole ==
  driver = "http" => \A k \in DOMAIN events : events[k].kind = "result" =>
    LET c == events[k].cell IN
    /\ \A s \in 1 .. Steps : \E r \in rows : r.cell = c /\ r.phase = "fit" /\ r.attempt = events[k].of /\ r.step = s
    /\ \A j \in DOMAIN grades[c] : grades[c][j] <= grades[c][events[k].of]
    /\ \A j \in DOMAIN grades[c] : grades[c][j] >= Stop => j = Len(grades[c])

\* A bench run that ends has the rows of the cells that were not skipped, and none an earlier run left in its log.
BenchIsOwn ==
  driver = "bench" /\ outcome = "done" => rows = {Cells[c] : c \in {k \in DOMAIN Cells : ~Skipped(k)}}

\* The four of them.
CellsRight == OneEventPerCell /\ OwnCache /\ FitIsWhole /\ BenchIsOwn
================================================================================
