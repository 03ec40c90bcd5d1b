# QuettaBench in TLA+

QuettaBench (`qbench`) measures LLM inference servers: it launches or attaches to an engine, replays a frozen
workload against it, and publishes numbers only when the run that gave them can be trusted. This directory holds a
formal model of the parts that trust rests on, model-checked with TLC and, for every dispatcher, the verdict, the
sweep, the grids, the plan, the run matrix and the commands that meet on disk, proved with TLAPS for any number of agents,
sessions, turns, plays, probes, cells and points.

Contents: [the system](#the-system) ·
[modules](#modules) · [runs](#runs) · [fairness](#fairness) · [proofs](#proofs) · [findings](#findings) ·
[not modelled](#not-modelled) · [plan](#plan) · [running it](#running-it)

## The system

A `qbench run` takes a run file to a list of points (`config/loader.py`), and `runner.main` measures the points one
after the other. For each point: empty its run dir, open its `RunWriter`, launch an engine or attach to one
(`engines/launcher.py`), build the trace (`workloads/`), replay it (`modes/serve.py`), judge what came back
(`metrics/summary.py`, the gates of `serve.run`) and leave `requests.jsonl` and `run.json` (`metrics/results.py`).
One process does all of it: a main thread whose event loop runs the replay, one pool thread per run that writes rows,
and the engine as a child process (or someone else's server).

| Component | State it keeps | Operations | What is hard, and what makes it correct |
|---|---|---|---|
| Session dispatcher (`modes/serve.py` 1247-1543) | `slots`, `free_agents`, `by_turn`, `dead`, `failed_in_a_row`, `session_times`, `agent_of`, `executed` | `run` picks one of four pacings: `_open`, `_per_session`, `_recycled`, `_interleaved`; they share `_turns`, `_dispatch`, `_record` | One coroutine per session or agent, interleaved at every await; failures, an exception in one of them, cancellation of the others. Agents are exclusive and never lost; turns go out in order and stop at a failure; the run ends; what was sent is what was planned |
| Single-turn replay, client health (`serve.py` 138-390, 479-576) | `slots`, `rows`; samples, stalls | `replay`, `warmup`, `measure`; `_sample`, `_gc`, `stall_s` | Stalls of the client must be charged to the requests they touch, a stall still open included |
| Verdict (`serve.py` 649-1016) | the plan, what was executed, the gates | `identity`, `enforce`, `sweep`, `goodput_search`, `run` | Order of the gates, one status and one exit code per run |
| Grid runs (`serve.py` 1018-1244) | cells, steps, attempts | `run_grid`, `measure_cell`, `score` | A fit is attempted again until it is good, a failed batch ends the run; each cell has a cache of its own |
| Plan and identity (`workloads/plan.py`) | digests frozen before the run | `freeze`, `planned_keys`, `sent_digest` | The check must accept exactly the requests that were planned, less those a failure ruled out |
| Summary (`metrics/summary.py`, `step_fit.py`) | none (pure) | `first_plays`, `steady_window`, `steady_section`, percentiles | Ties, open spells, boundaries of the window; withholding |
| Run files (`metrics/results.py`) | the rows' file and pool, `_row_errors`, `finished` | `append`, `_write_row`, `fill_rows`, `finish`, `fail`, `write_atomic` | A thread beside the loop; a kill or Ctrl-C at any step; `run.json` must never say more than the rows |
| Runner (`runner.py`) | the run dirs, the shared `Handle` | `main`, `clear_run_dir`, `reuse_groups`, `run_one`, `serve_one` | Exceptions at every step, a server shared by several points, the caches it carries over |
| Launcher (`engines/launcher.py`) | `Handle`, `Attached`; the server process | `start`, `attach`, `wait_healthy`, `Handle.stop` | A port raced for by another server, a child that dies, hangs or ignores SIGTERM |
| Drivers (`engines/drivers.py`) | one HTTP session | `_stream_chat`, `_stream_completions`, `reset`, `timed_batch` | Every way a stream can end, and what is kept of it |
| Adapters (`engines/base.py`, `vllm.py`, `quettaserve.py`, `observe.py`) | none | config to argv | Tables |
| Config (`config/`) | none | layers to `Config`s | Precedence and origins |
| Workloads (`workloads/`) | none after loading | readers, sampling, cut, strata, arrivals, plays | Determinism by seed |
| Compare (`compare.py`), export (`export/`) | none | pair rows, withhold; convert | Which differences forbid a ratio |
| Profiler (`profiler.py`, `profiling/`) | `profile.json` | `profile`, the sources | Waits for the `run.json` another process writes |
| Probes (`probes/`) | rows; a remote dir | kernel timings; `remote_probe` | Ship, run, pull, remove over a connection that fails |
| Provisioning (`provision.py`), CLI, tools, data builders, image | files on a box | checks and commands | Idempotence |

Interactions that matter to the model: the dispatcher calls `writer.append`, which raises a *row error* the pool
thread met earlier, so a disk failure surfaces in whichever session answers next; `run_one` turns any exception into
`writer.fail`, which does nothing once `finish` was entered; `serve_one` stops the server it launched unless `main`
asked it to keep it for the next points of a group; `steady_window` reads the `session_times` and `agent_of` the
dispatcher leaves, and without `agent_of` relies on the order in which it handed out agents.

`PROJECT.json` lists every component with its status, and every hazard with its line and the property that covers it.

## Modules

The replay of sessions, one module per pacing:

| Module | Code | What its state and actions are |
|---|---|---|
| `SessionReplay` | none: the promise | Abstract specification. Per session: turns sent, turns answered, broken or not. A turn goes out only after the one before was answered with success; a failure ends the session. Every pacing implements it |
| `AsyncSemaphore` | `asyncio.Semaphore` as the dispatchers use it (external) | A value, a queue of waiters, and how many at its head were woken and have not run. A newcomer queues behind woken waiters. Operators only |
| `PerSession` | `_per_session`, `_turns`, `_dispatch`, `_record` | `phase` is the await each session's coroutine is suspended at; one action per callback: `StartAdmitted`, `StartQueued`, `AdmitQueued`, `AnswerNext`, `AnswerLast`, `AnswerRaises`, `WaitOver`, and the run's `Gathered`, `Cancel`; `RowWriteFails` is the pool thread |
| `Recycled` | `_recycled` and the same helpers | One task per agent: `Start`, `AnswerNext`, `AnswerLast` (ends a play, checks the streak, draws the next play, retires or aborts), `WaitOver`, `Deadline`, `Return` |
| `Measure` | `measure`, `warmup`, `reset` | The warmup, the reset and the pass, which is one of the four below |
| `Interleaved` | `_interleaved` | Turn by turn: `Begin` and `NextTurn` record a whole turn and start the next (one callback), `Resumed`, `Answer`, `AnswerRaises`, `Abort` |
| `OpenLoop` | `_open` | `Arrive` at the session's time in arrival order, then the turns as above; a counter numbers the requests |
| `Replay`, `LoadStats` | `replay`; `_busy_time_and_load` and the bins of requests in flight | Single-turn requests that sleep to their offset and go out, through slots or not; the load figures computed from their intervals as the code does, beside their tick-by-tick definitions |
| `ClientHealth` | `ClientHealth` | The sampler's sleep and wake, callbacks that block the loop, gc pauses inside them, and `stall_s` asked at any moment |

What a serve run concludes, composed in `ServeRun` (`serve.run`), whose `kind` chooses one part:

| Module | Code | What its state and actions are |
|---|---|---|
| `RunVerdict` | the gates of `serve.run`, `enforce`, `stop`, `sla_verdict`, the withholding in `summary.py` | A pass is a record (each answer, stalled or not, matching or not, its window); operators from it to `run.json` |
| `GoodputSearch` | `goodput_search`, `sweep` | One action per probe; the bracket and the probes so far. Speeds are whole multiples of a unit small enough to halve |
| `GridRun` | `run_grid`, `measure_cell`, `run_bench`, `score_grid`, `timed_batch`, `grid_batch` | The cell at work, its phase, the key and content of the cache, attempts, grades of a fit; a bench's log |
| `SteadyWindow` | `first_plays`, `steady_window`, the members of `steady_section` | A replay of C agents with every timing; the code's functions are operators on the plays it leaves, folded event by event as the code does, and compared with a definition that looks at each tick |
| `RunFigures` | `aggregate`, `aggregate_per_turn`, `steady_section`, `cache_steady`, the cache estimate | A recycled replay with every timing; the figures of the run, its turns, its window and the window's halves |
| `HttpStream` | `_stream_chat`, `_stream_completions`, `enforce_first_chunk`, `enforce_usage`, `enforce_output_length`, `chunk_times`, `chunk_shares` | One action per line of the stream (`Chunk`, `BadLine`, `DoneLine`, `ErrorChunk`) or way it ends (`StreamEnds`, `HttpError`, `StreamRaises`, `Cancelled`, `Refused`); the variables are the coroutine's, the result what it returns |
| `SessionPlan` | `sessions.py`'s eligibility, order, `stratify`, plays; `plan.py`; `_feed_reply_back`, `identity` | A trace is loaded and frozen, then sent in any interleaving of its units, pass after pass; the messages the engine's replies are written into are shared by all |
| `DrawnPlan` | `live.py`, `base.py`, `arrival.py`: draws, laps, arrivals | Rows drawn to warm up and to measure, and the offset of each |

The other commands, composed in `CommandLine` (`cli.py`), whose `command` chooses one:

| Module | Code | What its state and actions are |
|---|---|---|
| `ConfigLayers` | `loader.load`, `_resolve`, `_apply`, the rules of `_validate` that set a value; `env_map.read_env` | Values asked for one by one, in any layer, then one `Load` |
| `RunWriter` | `RunWriter`, `write_atomic`, `run_one`'s `fail` | The rows queued, written, buffered and on disk; `finish` in its steps (drain, close, rewrite, `run.json`), the `.tmp` file partial or whole; row errors, Ctrl-C, kill |
| `Profiler` | `profiler.profile` and its sources | Profilers of one run dir, each at its next source; the run they wait for |
| `Compare` | `compare.py` | What each side says of itself; the facts that differ; the lines of a bench's log; the tokens returned |
| `Provision` | `provision.py` | A pass is a sequence of checks and commands; the box keeps what was done, whole or half |
| `RemoteProbe` | `probes/base.py` | Ship, run, pull and remove here; the probe's process and its run dir there |
| `DecodeGrid` | `serving_decode_grid.py`, `summarize_cell`, `build_decode_grid` | The shards of a cell and the barrier, the parent's joins, the passes exported |
| `Reparallel` | `reparallel.py` | Ranks that meet at a barrier point by point; plans from each rank's own arithmetic |
| `Export` | `export/quettasim.py` | Probe runs, the table with its sidecar and the manifest, files replaced one by one |

By itself:

| Module | Code | What its state and actions are |
|---|---|---|
| `RunMatrix` | `runner.main`, `refuse_mixed_in_process`, `clear_run_dir`, `reuse_groups`, `run_one`, `serve_one`; `launcher.start`, `attach`, `wait_healthy`, `Handle.stop` | `pc` is where `main` is in the current point; dirs, servers (process groups or containers), who holds the port, whose requests the prefix cache holds, the pins exported to this process. Exceptions are actions of their own, bounded by `MaxFaults` |
| `MC*` | | Instances: small constants. `MCRecycled` adds a history variable with the last results |
| `*Proofs` | | Theorems about `AsyncSemaphore`, `PerSession`, `Recycled`, `Measure`, `ServeRun`, `SessionPlan`, `RunMatrix`, `CommandLine` |

How the code becomes actions. In the dispatcher one action is one callback of the event loop: everything between two
awaits is atomic because asyncio is, and nothing longer is. So the answer of a session's last turn, its times, the
return of its agent and the release of its slot are one action, while the woken waiter's admission is another, with
any other callback possibly in between. Data is abstracted to what the properties tell apart: a request is its
(session, turn) key, its result is success or failure (every driver error kind, every `enforce_*` check and timeout is
a failure), text and tokens are absent except where `SessionPlan` and `HttpStream` are about them. Time is absent
where only order matters (`PerSession` numbers the readings it stores) and counted in whole ticks where the code
compares durations. Processes that only meet on disk (a run and its profilers, an export and the runs it reads) are
actions of one module.

The parts of `Measure`, `ServeRun` and `CommandLine` do not run at once in the program, so a behaviour of the
composition is one of one part and the rest of its variables are constant. Where a part needs another's result it
has it by an operator of that module (`RunVerdict` in a sweep, `LoadStats` and `SteadyWindow` in `RunFigures`).
A module that is composed names the assumptions on its constants; the composing module states them (`ASSUME`).

A name ending in a variation of another (`AdmitPeeks` beside `Admit`) is that definition with a plausible bug. No
specification uses it; substituting it must break a property, which shows the property is about the code.

## Runs

| Run | Bounds | What it shows |
|---|---|---|
| `per_session` | 5 sessions of 1-2 turns, 2 agents, arrivals out of file order with ties | See below; 350,000 states |
| `early_agent` | 4 sessions, 3 agents, the stagger of a run without arrivals | Expected violation, [finding 1](#findings) |
| `recycled` | 2 agents, 2 sessions in a cycle, streak limit 3, up to 5 plays | 57,000 states |
| `measure` | interleaved and open: 4 sessions of 1-3 turns, 2 slots, arrivals out of order with ties; single-turn: 3 requests, offsets to 3, one missing, 4 ticks; client: sampled every 2 ticks for 7 | Every pass of each kind, behind up to two warmup requests; 350,000 states |
| `serve_run` | passes of 4 requests or 2 sessions of 2 turns; sweeps of 6 probes, tolerance 10 %; grids of 6 cells, 2 steps, 2 attempts; replays of 2 agents in 6 ticks; streams of 3 data lines and one tick; 5 pools of up to 7 sessions, 2 passes over each, 3 plays; sources of 3 rows, 5 draws | 1.3 million states |
| `sweep_mismatch` | the same | Expected violation, [finding 4](#findings) |
| `command_line` | 3 asks in a config; 3 rows and 2 failing writes; 2 profilers; 3 facts that differ, 4 lines of a log, 3 rows of 2 tokens; 2 passes of provisioning; 3 points of a remote probe; 2 passes of a decode grid; worlds of 1-4 ranks, 3 by 3 units; 2 probe runs and 2 exports | 2.8 million states |
| `config_origins` | 2 asks | Expected violation, [finding 5](#findings) |
| `provision_again` | 2 passes | Expected violation, [finding 6](#findings) |
| `run_writer_raised` | 1 row | Expected violation, [finding 3](#findings) |
| `run_matrix` | 3 points over 6 configs (two launched, one in docker, one attached, a probe, a bench), 6 sequences with 3 choices of which points reset the cache, 11 with docker, a bench or engines built in the process, 2 faults | 71,000 states |
| `run_matrix_identify` | the 6 sequences | Expected violation, [finding 2](#findings) |

**Per-session pacing.** `AgentExclusive`: no two open sessions hold one agent, no open session's agent is free, so
no more than C sessions are open, waits included.
`PopNeverFails`: `free_agents.pop(0)`, guarded only by a semaphore that counts something else, fails only in the wake
of a row's write error. (In that wake it can: a raising session releases its slot and never returns its agent.)
`AdmittedInOrder`: no session is admitted ahead of one due earlier
(of two due at once either may be first, since each computes its sleep from its own reading of the clock). `FirstAdmissionsAreFirstPlays`: the first C admissions go to C distinct agents, which `first_plays`
assumes of a run without `agent_of`. `IdentityHolds`: a run that reaches its checks sent nothing unplanned, and every
planned turn was sent or follows a failed one. `ReplaysSessions`: it implements `SessionReplay`. `RunEnds`: it ends.

**Recycled replay.** `AbortsOnStreak`: an agent aborts exactly when its answer completes the limit of failures with no
success between them, whoever they came from. `Inv` bounds the failures in a row: at most one further failure per agent
is processed before the others are cancelled; it also carries that no two agents are ever at one play.
`EveryPlayWhole`: every play started is played to its end and has its times, so plan, rows and window agree about it.
`AbortEndsRun`: an abort ends the run although no request in flight is ever answered. Also `ReplaysSessions`.

**A measured pass.** `Inv` is what each dispatcher keeps: interleaved, every slot is free, granted or in use
whichever way its request ended, requests go out in file order and their indexes are unique and without a gap though
computed from the results recorded; single-turn, the slots again and the order of the offsets, in which those that are equal may go either way. `LoadIsRight`: busy
time, peak and mean in flight and the bins are those of a count at each tick, and so are the halves of two or more
intervals (of fewer the code reports zeros). `StallsBounded`: the stall seconds of
any interval are never more than the client was stalled, nor less by more than one callback may hide.
`EverySessionArrives`: the open loop offers its load whatever the server does. `RunEnds`: a closed pass ends. All three
implement `SessionReplay`. The warmup and the reset before a pass have no property of their own: `gather` and an `await`
put one after the other, and no callback comes between.

**A serve run.** `VerdictIsTrue`: an ok `run.json` has no mismatch and no failure past its floor; no latency is
published beside a failed request, no figure of a stalled client; the exit code is the status's. `SweepIsRight`: every
speed below the bracket's passing end that was probed passed, the search ends within its tolerance or its probes, and
the run stands for its best passing probe. `CellsRight`: each cell has one event, its batches met its own warm cache
and nothing else's, its result is a whole attempt's fit and no attempt fits better, a bench's rows are its own.
`WindowIsRight`: a window is published exactly when there is a span, from the moment every agent
has finished a play to the deadline (or the first finish after the last admission), in which no agent waited longer
than a handover, it is that span, and no completion it counts is of a cold play. `FiguresAgree`: rows, turns, window
and halves give the same sums, and a row's estimate accounts for its whole prompt. `SuccessIsWhole`: a success had
its `[DONE]`, every character before it read, a chunk that timed it, and the server's own token count unless the mode
lets it be missing; what is kept of any result's chunks matches their times. `StreamsRight`: those times add up; whichever of the three rules of `chunk_shares` applies, the
tokens of a whole chat reply counted by arrival are its output tokens. (Of a completion they can be fewer: tokens
the server reports after its last text have no chunk.) `PlanIsKept`: a stratified sample has each stratum's share to
within one session and keeps the plays of any two strata within one of each other; the identity check finds nothing
in a run that sent its plan, whatever failed and whatever the engine replied; a prompt holds this pass's replies; no
play begins as another does; a single-turn source is drawn without a repeat and sent as its times say.

**The other commands.** `LastWordStands`: a value that was asked for is the last word on it, and no rule overrides an
ask in silence: hardware, model, run yaml, environment and `--set`, in this order, each on the paths it may set. `RunFilesStand`: an ok `run.json` stands beside every row, no row on disk is lost whatever cuts the
rewrite short, nothing changes after `run.json`. `ProfileIsWhole`: a profiler writes every section it found and every
one it ran, one broken source loses no other, and a per-token energy is of the run's own window. `ComparisonIsFair`: a
ratio is published only of sides with no fact between them that is not allowed to differ, of a bench's last line of
its best group, and a FAIL of returned tokens is a token that differs. `WrittenIsServed`: an env file means a
server, the binary of a bench that is built on the box, a checkpoint and config that are named, and weights: a dir that was
given, which nobody looks into, or a download that left at least some files. `RemovedOncePulled`: a remote dir is removed only when what it holds is here.
`GridIsSound`: streams of a cell fire together, a dead shard never passes for a whole batch, an exported row is of
enough steps with every request streaming. `RanksAgree`: ranks that compute alone never wait for each other for
ever, pair every message, and end with their cells. `TablesStand`: the manifest accounts for every row, and without
`--replace-tables` no export, killed or not, drops a column, or a row that no run supersedes. What a run supersedes is a matter of
its table: rows of its keys, of its head configs (flash_attn), of its worlds (the all_reduce rows, by vllm_allreduce). A
merge thus loses nothing; a table begun anew, from its last run alone or after a run without `--append`, may, and then
the export stops.

**Run matrix.** `MeasuresItsOwn`: a point's numbers come from a server started with its own config by this run (or the
one it was told to attach to, or from an engine of its own where its mode asks for one), under no other config's pins,
with no earlier point's requests in its prefix cache. `OldRunsKept`: without
`--overwrite` only runs whose `run.json` says failed are removed, and nothing qbench did not write. `Inv`: one server
at a time, an outcome in every dir that was opened, and however the run ends, every server whose launch got to
its `Handle` was told to stop. (Between `docker run` and its return, and between `Popen` and the `Handle`, nobody would.)

*Why the bounds are enough.* The dispatcher's hazards need a session that holds an agent, one that finishes early,
one woken and not yet run, one that queues behind it and one not yet due: five sessions, two agents. Two agents and
a streak limit of three let a streak be broken, be completed by the other agent and be passed by one failure, and five
plays of a cycle of two repeat a session and end past the deadline. Interleaving needs a batch wider than the slots, on
two consecutive turns, with a session that ended and one that died: four sessions, two slots. Client health needs a
callback longer than the limit, one shorter, a gc pause in each and a question before the sampler wakes: seven ticks.
A pass needs a discarded, a failed, an unsent and a successful request at once. A sweep of six probes doubles, halves and
bisects to both ends. A grid needs a cell over each limit, a cell
repeated at once and behind a skipped one, and two attempts. The window's cases need
each agent to play twice and one of them to wait at either end; with the constants chosen every
reason for refusal is reached, but for too few sessions of a replay that is not recycled. A stream needs a chunk
that has text, one that has none and one that carries the usage, in any order; two tokens in a chunk are a buffered
reply. A plan needs strata of different sizes with a share to round, a session that shares its messages with a second
pass, and a play of each of two sessions and one repeated. A writer needs one row queued, one failed and one behind
it; two overlapping profilers, two passes and two exports are a half-done one and the next. Two sides need three facts to differ so that one is excused,
one unknown and one counts. A world of four ranks has two nodes of two, and of three an odd one. A matrix needs a group of two with a
point before or after it; two faults are a failure and a failure of its clean-up.

Deadlock is checked in every run: each specification has one action that stutters, enabled only when the run is over.

## Fairness

- `PerSession`, `Measure` (`FairSpec`): weak fairness of each session's or request's steps in a closed pass. Timers fire and ready callbacks run
  because asyncio's loop is first in, first out; a request in flight is answered because every driver bounds it with
  `aiohttp.ClientTimeout(total=...)` and a timeout is a failed result. Nothing obliges a write to fail.
- `Recycled` (`LoopFairness`): only what the loop itself runs: timers, the deadline, the return of `asyncio.wait`. The server
  owes nothing, since `AbortEndsRun` is about a server that answers nobody.
- `Measure`'s open loop: timers only. `EverySessionArrives` is about load offered to a server that may be stuck.

The other modules state no liveness: their processes may be killed. `RanksAgree` states its deadlock as a safety
property: a state in which no rank can go on is one where a rank raised.

## Proofs

All for arbitrary constants that satisfy the modules' `ASSUME`s (at least one agent, each session at least one turn).
TLC evaluates those assumptions on every run.

`AsyncSemaphoreProofs`: each operation of the semaphore keeps it *sound*: its woken waiters are in its queue, and no slot
is free beside a sleeping one. Five lemmas, used by the others.

`PerSessionProofs`:

| Theorem | States | Rests on |
|---|---|---|
| `Typing` | `TypeOK` and no lost wakeup | `TInv`: types, a sound semaphore, each session at one of its turns (without the last, `Send` could leave the plan) |
| `AgentsExclusive` | `AgentExclusive` | inductive with `TInv` |
| `OpenSessionsBounded` | `OpenBounded`: never more than C sessions open | a consequence of the last: the open sessions inject into the C agents |
| `SlotsHaveAgents` | free agents number the slots, `PopNeverFails` | `QueueInv` (the waiters are exactly the queued sessions, each once), without which a woken waiter might be one that already holds an agent |
| `InvHolds` | `Inv` | the four above, and `AgentsReturn` from the same queue |
| `IdentityAlwaysHolds` | `IdentityHolds` | `PlanInv`: for each session, its sent, succeeded and failed turns as its phase and turn determine them. `IdentityHolds` says nothing of a running state, so it cannot be inductive alone |
| `Replays` | `ReplaysSessions` | `PlanInv` gives the counts `SessionReplay` sees; each action sends, answers, answers and sends, or rests, for one session, and rests for the others |
| `AdmissionsInOrder` | `AdmittedInOrder` | `OrderInv`: no session has left its sleep, or the queue, while one due earlier is still in it, the queue is sorted by due time, and no admission is later than the clock. A newcomer that finds a slot free finds the queue empty: nobody due earlier is still to come |
| `FirstAdmissions` | `FirstAdmissionsAreFirstPlays` | `FirstInv`: the agents nobody took yet are the head of the free list, in their order, so the k-th admission takes agent k - 1 while k is at most C, whatever is given back behind them |

`RecycledProofs`:

| Theorem | States | Rests on |
|---|---|---|
| `Typing` | `TypeOK` | `InPlay`: an agent in a request or a wait is at one of its play's turns |
| `FailuresBounded` | `FailuresInARowBounded` | `StreakBounded`: the streak is less than its limit plus the number of agents that aborted, each of which aborted once. The bound by C alone is not inductive |
| `InvHolds` | `Inv` | the two above and `PlaysDistinct`, from the plays at agents being among those drawn |
| `PlaysWhole` | `EveryPlayWhole` | `PlaysGoOn`: while nobody raised, each play begun is whole or is the play of an agent at it, its turns before that one all succeeded |
| `Aborts` | `AbortsOnStreak`, over the history of results `MCRecycled` keeps | `HistoryInv`: the streak is the number of failures at the end of the history, up to its length. `KeysInv` says that an answer is a new key, so the history gets each result once |
| `Replays` | `ReplaysSessions`, a play standing for a session | `KeysInv`: a play not drawn has no key, one an agent is at has exactly those of its turns up to the agent's, with `PlaysDistinct`, without which a step of one agent could disturb the play of another |

`MeasureProofs`, for a pass of any of the four kinds behind any number of warmup requests:

| Theorem | States | Rests on |
|---|---|---|
| `InvHolds` | `Inv` | `PassInv`: the invariant of the dispatcher that runs the pass, the other three left alone |
| `Replays` | `ReplaysSessions` | per session, the number of its turns sent and answered moves as `SessionReplay`'s steps do (`Moves`), whichever dispatcher moves it |

The invariant of an interleaved pass is `TurnInv`: the semaphore is sound and its line is the queued sessions in file
order; each session has recorded exactly its turns before the barrier's, unless a failure ended it (`TurnAt`); the
requests numbered are those sent and those in line (`Dispatched`). The last two are why indexes have no gap although a
turn computes its first from the results recorded so far: at the barrier, and only there, every number given out has its result.
An open-loop pass has `OpenInv` (the keys of each session, from its phase and turn) and a single-turn pass `SingleInv`
(the slots' line in due order; a request has been sent exactly if it is past the line). The composed modules reach
operators through `INSTANCE`, which the provers take for different ones: `TurnNames` and `SingleNames` identify them.

`ServeRunProofs`, for passes of any size, sweeps of any start, tolerance and number of probes, any list of cells and any
number of lines and tokens of a stream:

| Theorem | States | Rests on |
|---|---|---|
| `Verdicts` | `VerdictIsTrue` | `ReportTrue`, about `Report` alone: whichever gate stops a pass, what it writes is true of the pass. What counts is split between what succeeded and what did not (`KeptSplit`), so an ok without a floor has no failure. `RunInv`: a report is the `Report` of the pass that stands |
| `Sweeps` | `SweepIsRight` | `SearchInv`: once both ends are known they are two units apart for each halving still to come, so `(l + h) \div 2` is exact and strictly between them. `EndsInv`: the ends are the closest two. Without the first the bracket is not inductive: a rounded middle would probe an end again. `RunInv`: the best probe's pass stands for the run |
| `GridCells` | `CellsRight` | `GridInv`: an event for each cell behind the one at work; the cache holds the prompts of the last cell measured, with only skipped ones since; the attempts under way have their rows, and none that ended reached the stop; a bench's log is that of the cells it ran |
| `Streamed` | `SuccessIsWhole` | `StreamInv`: while the stream is on, an entry for each time in every list of its chunks, every character read unless a line was lost, `[DONE]` seen just when it was sent. The result, judged by the rules of success in their order, inherits it |
| `StreamSums` | `StreamsRight` | `SumInv`, with `StreamInv`: the last chunk's time is the first's and the gaps since, a chunk's count is never more than what was said up to it, and that of a chat's last chunk is all of it. The code's sums are folds; `TotalIs` says that a fold has the value of the running sum |
| `PlansKept` | `PlanIsKept` | for a replay, `KeptInv` and `FairInv` of `SessionPlanProofs`, by `PlanSteps` (each step here is a step there); for a single-turn run, `DrawnInv`: the k-th row drawn is the one at the k-th place of the laps, so that the measured rows are consecutive (`MeasuredIs`), laps do not overlap (`LapsApart`) and at most a burst's rows share a time (`Shared`) |

The sweep's proof assumes that the starting speed can be halved `MaxIters` times in whole units, as a float can. The
grid's led to a correction of the model: a warm batch was said to meet an empty cache unless the cell before it in
the grid is like it. The driver remembers the last cell it *measured*, so with a skipped cell between two like ones the
second is warmed on the first's prompts; `SameAsLast` says so, and the checked grid has such a cell.

`SessionPlanProofs`, for any pool of sessions, any size of sample and any number of passes and plays:

| Theorem | States | Rests on |
|---|---|---|
| `SampleFair` | `SampleIsFair` | `FairOf`, of the operators alone: `Ascending` lists a set in order, once (`AscendingIs`); the strata part the sample (`StrataIs`); shares rounded down lose less than one each, and the largest remainders get back exactly what is missing (`Rounded`); a table read row by row without its gaps has, of any two columns, numbers of entries within one of each other until one ends (`TableRead`). `FairInv`: nothing but `Load` chooses the sample |
| `PlanKept` | `PlanIsKept` | `KeptInv`: the keys sent are those of each play's turns so far, each with its planned digest and a prompt of its own; a recycled replay's plays are the first k places of the cycle, so none is drawn twice; with live replies the messages that were answered in this pass hold this pass's text. The verdict, computed when every play is over, then finds nothing |

`RunMatrixProofs`, for any list of points, configs and any number of exceptions (`MaxFaults`):

| Theorem | States | Rests on |
|---|---|---|
| `InvHolds` | `Inv` | `IInv`, whose parts name what `main` relies on at each place: which dirs are open, empty or done (`DirsInv`), where an exception can be on its way up (`FlowInv`), whose server the handle is and that its config is the point's (`HandleInv`), that a running server is the handle's, lost to a Ctrl-C, or between its `Popen` and its `Handle` (`ServersInv`) |
| `OwnServers` | `MeasuresItsOwn` | `PinsInv` (under which pins each server and this process run; a server just started has an empty cache) and `OwnInv` (what was measured so far), with the others: a server kept for the next point is one `reuse_groups` found to have its config |
| `RunsKept` | `OldRunsKept` | the same types: a step that removes a dir is `clear_run_dir`'s, and its guard is the property |

`CommandLineProofs`, for any number of rows, failed writes, profilers, provisioning passes and passes of a grid (of two
shards), of probe runs and of exports:

| Theorem | States | Rests on |
|---|---|---|
| `RunFiles` | `RunFilesStand` | `WriterInv`: what is on disk and in the file object are the rows handled, all of them once the pool is drained; a status only at the end. Its two action parts are read off each step under it |
| `EnvIsServed` | `WrittenIsServed` | `BoxInv`: at each place of a pass, what the checks and commands before it have put on the box, and which inputs are named, unless one is counted missing, and that nothing goes away |
| `RemovedWhole` | `RemovedOncePulled` | `RemoteInv`: a `run.json` on the host is of a process that is over, and unless ssh was cut nothing moves there from the pull on |
| `GridSound` | `GridIsSound` | `GridInv`: no shard streams while another has yet to reach the barrier; the shards joined ended well; the passes exported are rows of passes |
| `ProfileWhole` | `ProfileIsWhole` | `ProfileInv`: what each profiler holds is what it found and what it added, each source asked for being done, failed or still to do; and `profile.json` has a section for each source it says was run |
| `LastWords` | `LastWordStands` | `AsksInv`: each ask is a legal one of a layer, and a layer gives a path once. The rest is about the operators: `ApplyLayer` says what one layer leaves of a config, `FiveLayers` what all five do, `RulesStand` that the rules touch only paths nobody asked for |
| `ComparisonFair` | `ComparisonIsFair` | `CompareInv`: the types of the rows and log lines; the rest is about the operators, for every value of the facts. A cell's n-th answer exists for each n up to their count (`NthThere`), so a flip is of tokens both sides returned; the fold over a log's lines holds the last line of its best group so far (`FoldBest`) |
| `TablesHold` | `TablesStand` | `TablesInv`: at each place among the files being replaced, that the old table's account still stands (its rows spoken for, its mode theirs, a key once), that the planned rows are of it or of ok runs and drop none a run does not supersede, and that plan, manifest and rows a killed export may leave speak for the planned ones. That no row is dropped unsuperseded needs, for a merge, the *last* of the runs that bring a key or its head config (a set of runs has a greatest), and for a table begun anew that the guard found nothing `Lost`, the column included |

Only model-checked, and why:

- Liveness (`RunEnds`, `AbortEndsRun`, `EverySessionArrives`) and `RanksAgree`, which needs `ENABLED`: out of the
  prover's reach.
- `LoadIsRight`, `WindowIsRight`, `FiguresAgree`: each compares a sort, or a sweep over sets of intervals, with a second
  definition of the same figure, over all its inputs at once.
- `StallsBounded`: the same, of the stalls the sampler and the gc callbacks note. `StallS` and `BusyTime` (in `LoadIsRight`)
  sort with `SortSeq`, of which the provers have no definition.

Induction over data is not out of reach where a least counterexample will do: `Upwards` (a set of numbers that has 0 and
with each its next has them all) and the running sum of a sequence (`TotalIs`, with the fold unfolded once) carry the proofs about
sums, orders and shares.

## Findings

1. `early_agent`: the comment at `serve.py:1469-1470` says that a session that finishes early frees its agent "for the
   next session instead of a fresh one". The list is first in, first out, so the next session takes the fresh agent. The comment's first half
   (the first C sessions take distinct agents) holds, and it is the half the steady window needs.
2. `run_matrix_identify`: `launcher.start` calls `accelerator()` after `Popen` and outside its `try`. Its docstring says it
   never raises; it parses nvidia-smi's memory size with `float`, which raises when the card prints `[N/A]`. The server
   just started is then left running: there is no handle to stop it with.
3. `run_writer_raised`: `run_one` opens the writer first "so a run that raises still leaves run.json". `finish` sets
   `finished` before it does its work; when it is interrupted, `fail` finds it set and does nothing.

4. `sweep_mismatch`: `sweep` "stops at the first probe that breaks workload identity", but asks `identity` without the
   turns a failed turn left unsent, so one failure within a session ends the whole sweep. `run` then asks with them,
   finds the identity matches, and ends the run aborted with no passing speed, whatever earlier probes passed.
5. `config_origins`: "`just dry-run` prints every value with its origin". A dict field given whole by `--set` has the
   origin of its own path set, while each of its keys, which are what is printed, keeps the origin of an earlier layer.
6. `provision_again`: provisioning is "idempotent" and prints what is unresolved. A clone whose checkout failed, or a
   download cut short, is taken for done by the next pass, which exits 0 and writes the env file.

Observed and not refuted by a sentence of the repository, so not findings: the run dirs of a matrix are emptied one by
one before a later one, or `reuse_groups`, refuses the matrix, and two processes given one dir are not kept apart; a
row error downgrades only a run that was `ok`, not a
`partial` one; Ctrl-C during `Handle.stop` leaves a server that ignores SIGTERM; when an abort and a row error come in
the same pass of the loop, the order of a set decides which of them the run reports; consecutive points attached to one
server meet the cache of those before unless they reset it; an empty live reply leaves the text of an earlier pass in
the message, which the digest does not cover; a missing time stamp counts as 0 and leaves the others without their
rebasing (`arrival.py:89`); of two profilers that overlap the later drops the sections of the earlier; compare's
`returned` numbers the repetitions of a cell after it has skipped rows without tokens, and its two columns may be at
different decode positions when only one side has one (`compare.py:446`, `665`); under `--reuse-server` a grid with
`mode.return_outputs` that follows one without is handed the server in place of the engine it should build, and always
fails (`reuse_groups` compares engine and hardware, not the mode); an in-process point exports its whole `spec.env`
(`drivers.py:820`), which `exported` does not collect, so a later local server may inherit what `engine.env` set; Ctrl-C
in `docker run` may leave a container.

## Not modelled

- What an in-process engine computes, GPU picking, environment and argv tables: the matrix models who runs, under whose
  pins, and the rest acts on programs the repository does not hold. The pins stand for the collective settings and
  devices; the rest of a launch's environment is a table.
- Hash functions: a digest is the tuple it is computed from. Random draws (Poisson and ramp arrivals, the resampling
  behind the drift limit of the cache share) are real numbers.
- The content of rows, provenance, percentiles and every floating-point statistic: no state, and TLC has no reals.
- Two qbench processes on one run dir: the code does not lock, and the documentation describes one.
- The measurements themselves: kernels, KV transfers, client-side timings, traces.
- Readers, tokenizers, unit conversions, printing, argument parsing, the data builders, the image and the tools.

Each component's note in `PROJECT.json` says which of these it is.

## Plan

Every component with state of its own is modelled, and no module declares a `RECURSIVE` operator. Every safety property
is a theorem but for the five listed as only model-checked. What could still be proved is the parts of those that hold
whatever the fold or the sort returns: of `SteadyWindow`, that no completion counted is of a cold play; of `ClientHealth`, that
the stall seconds of an interval never exceed it.

What could still be added to the model: the exports other than the kernel tables and the decode grid.

## Running it

    tlc -workers 2 -config MCPerSession.cfg MCPerSession
    tlapm PerSessionProofs.tla

Each run's module and configuration are in `PROJECT.json`. `CommandLine`, `ConfigLayers`, `Provision` and `RunWriter` are
checked without an MC module: their constants are numbers and sets of numbers.
