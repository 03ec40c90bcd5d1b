------------------------------- MODULE ServeRun -------------------------------
(***************************************************************************)
(* What one serve run concludes (quettabench/modes/serve.py, run): of a    *)
(* pass of requests or sessions, of a goodput sweep of such passes, of a   *)
(* grid, of the steady window of a replay, of the figures its rows give,   *)
(* of the stream that answers one request, and of what it plans to send    *)
(* and whether it sent that.                                               *)
(***************************************************************************)
EXTENDS RunVerdict, Sequences

CONSTANTS
  Start, MaxIters, Tol,                                      \* of GoodputSearch
  Cells, Steps, Attempts, TopStep, MaxLen, KvTokens,         \* of GridRun
  C, N, DeadlineS, Handover, MinWindow, Horizon,             \* of SteadyWindow
  PlayTurns, BinS, Block,                                    \* of RunFigures
  MaxLines, MaxTokens, MaxPlanned, MaxTicks,                 \* of HttpStream
  Pools, MinTurns, MaxTurns, Followed, PlansSent, MaxPlays,  \* of SessionPlan
  MaxSource, MaxDrawn, LastStamp                             \* of DrawnPlan

VARIABLES
  kind,     \* "pass", "sweep", "grid", "window", "figures", "stream", "plan" or "drawn"
  mode,     \* mode
  best,     \* best_out
  pass,     \* the pass that stands for the run, once it has ended
  report    \* run.json

runVars == <<mode, best, pass, report>>

VARIABLES speed, lo, hi, probes, stage
sweepVars == <<speed, lo, hi, probes, stage>>
Sweep == INSTANCE GoodputSearch

VARIABLES driver, cell, phase, lastKey, cache, attempt, step, rows, grades, events, log, outcome
gridVars == <<driver, cell, phase, lastKey, cache, attempt, step, rows, grades, events, log, outcome>>
Grid == INSTANCE GridRun

VARIABLES recycled, now, since, plays
windowVars == <<recycled, now, since, plays>>
Window == INSTANCE SteadyWindow

\* A replay one tick shorter than the window's, whose window is any that opens, so that its halves have rows.
VARIABLES replies, playing, records, finished
figureVars == <<replies, playing, records, finished>>
Figures == INSTANCE RunFigures WITH at <- playing, rows <- records, DeadlineS <- DeadlineS - 1,
                                    Horizon <- Horizon - 1, Handover <- 0, MinWindow <- 1

VARIABLES endpoint, planned, said, local, result
streamVars == <<endpoint, planned, said, local, result>>
Stream == INSTANCE HttpStream

VARIABLES trace, loaded, sample, frozen, text, sent, unit, executed, heard, seen, verdict
planVars == <<trace, loaded, sample, frozen, text, sent, unit, executed, heard, seen, verdict>>
Plan == INSTANCE SessionPlan WITH pass <- sent, said <- heard

VARIABLES source, cursor, drawn, offsets, ready
drawnVars == <<source, cursor, drawn, offsets, ready>>
Drawn == INSTANCE DrawnPlan

ASSUME PartsAssumption ==
  /\ Sweep!SearchAssumption
  /\ Grid!GridAssumption
  /\ Window!CountsAssumption /\ Window!TimesAssumption
  /\ Figures!TurnsAssumption
  /\ Stream!BoundsAssumption
  /\ Plan!PoolsAssumption
  /\ Drawn!BoundsAssumption

vars == <<kind, runVars, sweepVars, gridVars, windowVars, figureVars, streamVars, planVars, drawnVars>>

Null == [answer |-> <<>>]

\* The loader allows a sweep under open load with an SLA only.
Init ==
  /\ kind \in {"pass", "sweep", "grid", "window", "figures", "stream", "plan", "drawn"}
  /\ mode \in (CASE kind = "pass" -> Modes
                 [] kind = "sweep" -> {m \in Modes : ~m.closed /\ m.sla}
                 [] kind = "stream" -> [allowMissingUsage : BOOLEAN, exactOutputLength : BOOLEAN]
                 [] OTHER -> {[multi |-> FALSE, discard |-> 0, sla |-> FALSE, closed |-> TRUE]})
  /\ best = Null /\ pass = Null /\ report = Nothing
  /\ Sweep!Init
  /\ IF kind = "grid" THEN Grid!Init ELSE Grid!At("http", {}, {})
  /\ IF kind = "window" THEN Window!Init
     ELSE recycled = FALSE /\ now = 0 /\ since = [a \in 1 .. C |-> -1] /\ plays = {}
  /\ IF kind = "figures" THEN Figures!Init
     ELSE replies = FALSE /\ playing = <<>> /\ records = {} /\ finished = {}
  /\ IF kind = "stream" THEN Stream!Init
     ELSE endpoint = "chat" /\ planned = 0 /\ said = <<>> /\ local = <<>> /\ result = <<>>
  /\ IF kind = "plan" THEN Plan!Init
     ELSE /\ trace = <<>> /\ loaded = "no" /\ sample = <<>> /\ frozen = <<>> /\ text = <<>> /\ sent = 0
          /\ unit = <<>> /\ executed = <<>> /\ heard = {} /\ seen = <<>> /\ verdict = "before"
  /\ IF kind = "drawn" THEN Drawn!Init
     ELSE source = <<>> /\ cursor = 0 /\ drawn = <<>> /\ offsets = <<>> /\ ready = "no"

-------------------------------------------------------------------------------
(* One pass. *)

Aborted == [Nothing EXCEPT !.status = "aborted"]
Raised == [Nothing EXCEPT !.status = "failed"]

\* The prefix cache could not be reset after warmup, or the pass aborted: run.json has no summary.
Abort ==
  /\ report = Nothing /\ kind \in {"pass", "sweep"}
  /\ report' = Aborted
  /\ IF kind = "sweep" THEN Sweep!Leave("aborted") ELSE UNCHANGED sweepVars
  /\ UNCHANGED <<kind, mode, best, pass>>

Conclude ==
  /\ kind = "pass" /\ report = Nothing
  /\ \E p \in Passes :
       /\ Possible(mode, p) /\ ~MustAbort(mode, p)
       /\ pass' = p
       /\ report' = Report(mode, p, FALSE, FALSE)
  /\ UNCHANGED <<kind, mode, best, sweepVars>>

-------------------------------------------------------------------------------
(* A sweep. *)

\* sweep checks its probes' identity without the turns a failed turn left unsent.
ProbeMatches(p) == p.match /\ Where(p, {"unsent"}) = {}

\* Mutant: the last probe stands for the run.
StandingLast(p) == p

\* The best passing probe's own pass, or the last probe's.
Standing(p) == IF best' = Null THEN p ELSE best'

\* The passes a probe may be; an open loop has no steady window.
ProbePasses == {p \in Passes : Possible(mode, p) /\ ~MustAbort(mode, p) /\ p.window = "invalid" /\ ~p.late}

\* A probe whose requests all matched the plan and some of whose kept ones succeeded is judged.
Probe ==
  /\ kind = "sweep" /\ report = Nothing
  /\ \E p \in ProbePasses, rate \in 1 .. 2 :
       /\ ProbeMatches(p) /\ Succeeded(mode, p) # {}
       /\ rate = 2 => Bound(mode, p) = {}
       /\ Sweep!Probe(Bound(mode, p) = {}, rate)
       /\ best' = IF Sweep!Beats(Bound(mode, p) = {}, rate) THEN p ELSE best
       /\ IF stage' = "found" THEN /\ pass' = Standing(p)
                                   /\ report' = Report(mode, pass', TRUE, best' # Null)
          ELSE UNCHANGED <<pass, report>>
  /\ UNCHANGED <<kind, mode>>

\* The first probe that broke identity stands for the run, whatever the probes before it found.
ProbeMismatch ==
  /\ kind = "sweep" /\ report = Nothing
  /\ Sweep!Leave("mismatch")
  /\ \E p \in ProbePasses :
       /\ ~ProbeMatches(p)
       /\ pass' = p
       /\ report' = Report(mode, p, TRUE, FALSE)
  /\ UNCHANGED <<kind, mode, best>>

\* summarize_serve raises over no records: every kept request of the probe failed.
ProbeRaises ==
  /\ kind = "sweep" /\ report = Nothing
  /\ Sweep!Leave("raised")
  /\ \E p \in ProbePasses : ProbeMatches(p) /\ Succeeded(mode, p) = {}
  /\ report' = Raised
  /\ UNCHANGED <<kind, mode, best, pass>>

-------------------------------------------------------------------------------

Concluded == report # Nothing /\ UNCHANGED vars

Runs == (Abort \/ Conclude \/ Probe \/ ProbeMismatch \/ ProbeRaises)
        /\ UNCHANGED <<gridVars, windowVars, figureVars, streamVars, planVars, drawnVars>>
Grids == /\ kind = "grid" /\ Grid!Next
         /\ UNCHANGED <<kind, runVars, sweepVars, windowVars, figureVars, streamVars, planVars, drawnVars>>
Windows == /\ kind = "window" /\ Window!Next
           /\ UNCHANGED <<kind, runVars, sweepVars, gridVars, figureVars, streamVars, planVars, drawnVars>>
Replays == /\ kind = "figures" /\ Figures!Next
           /\ UNCHANGED <<kind, runVars, sweepVars, gridVars, recycled, since, plays, streamVars, planVars, drawnVars>>
Streams == /\ kind = "stream" /\ Stream!Next
           /\ UNCHANGED <<kind, best, pass, report, sweepVars, gridVars, recycled, since, plays, figureVars, planVars, drawnVars>>
SentPlans == /\ kind = "plan" /\ Plan!Next
             /\ UNCHANGED <<kind, runVars, sweepVars, gridVars, windowVars, figureVars, streamVars, drawnVars>>
Draws == /\ kind = "drawn" /\ Drawn!Next
         /\ UNCHANGED <<kind, runVars, sweepVars, gridVars, windowVars, figureVars, streamVars, planVars>>

Next == Runs \/ Grids \/ Windows \/ Replays \/ Streams \/ SentPlans \/ Draws \/ Concluded

Spec == Init /\ [][Next]_vars

-------------------------------------------------------------------------------
(* Properties. *)

\* What run.json says of the pass that stands for the run is so: Truthful.
VerdictIsTrue == pass # Null => Truthful(mode, pass, report)

\* The sweep brackets the highest passing speed (BracketIsRight), and a sweep with a passing probe ends ok with that
\* probe's pass, one without ends aborted: serve.py's best_out or out.
SweepIsRight ==
  /\ Sweep!BracketIsRight
  /\ stage = "found" => /\ report.status = "ok" <=> Sweep!Passing # {}
                        /\ best # Null <=> Sweep!Passing # {}
                        /\ best # Null => pass = best

\* Every cell has one event, was timed in its own cache and is judged by a whole fit; a bench's rows are its own run's.
CellsRight == kind = "grid" => Grid!CellsRight

\* The window published is the one its definition gives, and it counts no cold play.
WindowIsRight == kind = "window" => Window!WindowIsRight /\ Window!Inv

\* Whichever way the same rows are summarised, their figures agree, and the cache estimate of a row accounts for its
\* whole prompt.
FiguresAgree == kind = "figures" => Figures!FiguresAgree /\ Figures!EstimateIsWhole

\* A request is a success only if its whole answer came (drivers.py, serve.py's enforce), and what is kept of its chunks
\* matches their times.
SuccessIsWhole == kind = "stream" => Stream!SuccessIsWhole /\ Stream!ChunksMatch

\* The times of a request add up, and its tokens counted by arrival are its output tokens (summary.py, chunk_shares).
StreamsRight == kind = "stream" => Stream!Inv /\ Stream!TokensByArrival

\* The sample of a replay is fair and the identity check is right of what it sends; a single-turn source is drawn without
\* a repeat and sent as its times say.
PlanIsKept ==
  /\ kind = "plan" => Plan!SampleIsFair /\ Plan!PlanIsKept
  /\ kind = "drawn" => Drawn!DrawnAsAsked

\* A sweep that stops early does so at a probe that broke workload identity (the docstring of sweep), so run.json never
\* says of one that its identity matches.
StopsAtMismatch == stage = "mismatch" => report.identity # "match"
================================================================================
