------------------------------- MODULE DecodeGrid -------------------------------
(***************************************************************************)
(* The serving decode grid: one cell's batch of streams, fired by shard    *)
(* processes from a barrier (quettabench/probes/serving_decode_grid.py),   *)
(* pass after pass, each pass a run; and the row export builds from them   *)
(* (metrics/summary.py, summarize_cell; export/quettasim.py,               *)
(* build_decode_grid).                                                     *)
(***************************************************************************)
EXTENDS Integers, Sequences, FiniteSets, FiniteSetsExt

CONSTANTS MaxPasses,    \* bound: runs of the probe
          MinSamples,   \* min_samples
          Nominal       \* the context the cell stands for, in decode steps past its prompt; snapped within one step

GridAssumption == MaxPasses \in Nat /\ MinSamples \in Nat \ {0} /\ Nominal \in Nat

Shards == 1 .. 2
Reqs == 1 .. 2
\* A shard's p99 loop lag: within the limit, within 1.5 times the limit, or past that.
Lags == 0 .. 2
\* A request's events: when the first came, the time between two, and how many more came; none for an empty stream.
NoEvents == [first |-> -1, step |-> 0, more |-> 0]
Streams == {NoEvents} \cup [first : 0 .. 1, step : 1 .. 2, more : 0 .. 2]

VARIABLES
  sharded,  \* the batch is split over the shards, or run in the main process
  upgrade,  \* lag_upgrade of the export
  shard,    \* each shard's stage: "none", "up", "barrier", "streaming", "done" or "dead"
  got,      \* the records of each request, [stream, lag], in the shard's file
  main,     \* the probe: "idle", "joining" or, once it raised, "leaving"
  joined,   \* shards joined
  history   \* the rows of the passes whose run is ok, in the order of their dates

vars == <<sharded, upgrade, shard, got, main, joined, history>>

NoRecs == [r \in Reqs |-> [stream |-> NoEvents, lag |-> 0]]

Init ==
  /\ sharded \in BOOLEAN /\ upgrade \in BOOLEAN
  /\ shard = [w \in Shards |-> "none"] /\ got = NoRecs
  /\ main = "idle" /\ joined = 0 /\ history = <<>>

Spawned == IF sharded THEN Shards ELSE {1}
OfShard(w) == IF sharded THEN {r \in Reqs : r = w} ELSE Reqs

-------------------------------------------------------------------------------
(* What a pass's records say. *)

At(s, k) == s.first + k * s.step
LastEvent(s) == At(s, s.more)
Mid(S) == LET T == {x \in S : 2 * Cardinality({y \in S : y <= x}) >= Cardinality(S)} IN Min(T)

\* Steps with both ends in the window all streams share.
InWindow(s, lo, hi) == {k \in 1 .. s.more : At(s, k - 1) >= lo /\ At(s, k) <= hi}

\* summarize_cell over the records with events, and what build_decode_grid reads beside it.
Row(recs) ==
  LET some == {r \in Reqs : recs[r].stream # NoEvents}
      S(r) == recs[r].stream
      lo == Max({S(r).first : r \in some})
      hi == Min({LastEvent(S(r)) : r \in some})
      n == Min({Cardinality(InWindow(S(r), lo, hi)) : r \in some})
      timed == {r \in some : InWindow(S(r), lo, hi) # {}}
      steps == {S(r).step : r \in timed}
      passed(r) == {k \in 0 .. S(r).more : At(S(r), k) >= lo /\ At(S(r), k) <= hi}
      progress == {1 + Mid(passed(r)) : r \in {q \in some : passed(q) # {}}}
      context == IF progress = {} THEN 0 ELSE Mid(progress)
      lag == Max({recs[r].lag : r \in some})
  IN [n |-> n, wide |-> hi > lo, step |-> IF steps = {} THEN 0 ELSE Mid(steps), lag |-> lag,
      dropped |-> some # Reqs, snaps |-> context - Nominal \in -1 .. 1,
      ok |-> hi > lo /\ timed = some /\ n >= MinSamples /\ lag = 0]

-------------------------------------------------------------------------------
(* A pass. *)

\* run_cell: the shards are spawned.
Begin ==
  /\ main = "idle" /\ Len(history) < MaxPasses
  /\ main' = "joining"
  /\ shard' = [w \in Shards |-> IF w \in Spawned THEN "up" ELSE "none"]
  /\ UNCHANGED <<sharded, upgrade, got, joined, history>>

\* _run_shard: its session is open; it waits for the others.
Connect(w) ==
  /\ shard[w] = "up"
  /\ shard' = [shard EXCEPT ![w] = "barrier"]
  /\ UNCHANGED <<sharded, upgrade, got, main, joined, history>>

\* Mutant: no barrier.
FireAlone ==
  /\ \E w \in Spawned : shard[w] = "barrier" /\ shard' = [shard EXCEPT ![w] = "streaming"]
  /\ UNCHANGED <<sharded, upgrade, got, main, joined, history>>

\* The barrier opens once every shard is at it, however long that takes.
Fire ==
  /\ \A w \in Spawned : shard[w] = "barrier"
  /\ shard' = [w \in Shards |-> IF w \in Spawned THEN "streaming" ELSE shard[w]]
  /\ UNCHANGED <<sharded, upgrade, got, main, joined, history>>

\* The streams of a shard end; their records are in its file.
Stream(w) ==
  /\ shard[w] = "streaming"
  /\ \E lag \in Lags, s \in [OfShard(w) -> Streams] :
       got' = [r \in Reqs |-> IF r \in OfShard(w) THEN [stream |-> s[r], lag |-> lag] ELSE got[r]]
  /\ shard' = [shard EXCEPT ![w] = "done"]
  /\ UNCHANGED <<sharded, upgrade, main, joined, history>>

\* A failed request, or a failed start, ends its shard's process.
Die(w) ==
  /\ shard[w] \in {"up", "streaming"}
  /\ shard' = [shard EXCEPT ![w] = "dead"]
  /\ UNCHANGED <<sharded, upgrade, got, main, joined, history>>

\* join, in the order of the shards; an exit code ends the run, whose run.json says failed.
Join ==
  /\ main = "joining" /\ joined < Cardinality(Spawned)
  /\ shard[joined + 1] \in {"done", "dead"}
  /\ IF shard[joined + 1] = "dead" THEN main' = "leaving" /\ UNCHANGED joined
     ELSE joined' = joined + 1 /\ UNCHANGED main
  /\ UNCHANGED <<sharded, upgrade, shard, got, history>>

\* The records go to the raw file and are summarized; a cell without a record that has events raises.
Conclude ==
  /\ main = "joining" /\ joined = Cardinality(Spawned)
  /\ IF \A r \in Reqs : got[r].stream = NoEvents THEN UNCHANGED history ELSE history' = Append(history, Row(got))
  /\ main' = "idle" /\ shard' = [w \in Shards |-> "none"] /\ got' = NoRecs /\ joined' = 0
  /\ UNCHANGED <<sharded, upgrade>>

\* The interpreter joins the shards left before it exits: one at a barrier that cannot open keeps it.
Leave ==
  /\ main = "leaving" /\ \A w \in Spawned : shard[w] \in {"done", "dead"}
  /\ main' = "idle" /\ shard' = [w \in Shards |-> "none"] /\ got' = NoRecs /\ joined' = 0
  /\ UNCHANGED <<sharded, upgrade, history>>

\* Nothing more can happen: all passes are in, or a shard waits for one that died.
Over ==
  /\ \/ main = "idle" /\ Len(history) = MaxPasses
     \/ \E w, v \in Spawned : shard[w] = "barrier" /\ shard[v] = "dead"
  /\ UNCHANGED vars

Next == Begin \/ Fire \/ Join \/ Conclude \/ Leave \/ Over \/ \E w \in Shards : Connect(w) \/ Stream(w) \/ Die(w)

Spec == Init /\ [][Next]_vars

-------------------------------------------------------------------------------
(* The exported row. *)

Latest == history[Len(history)]
Clean(row) == ~row.dropped /\ row.n >= MinSamples /\ row.wide

\* Mutant: a pass that lost a request may vouch for another.
UpgradesLoose ==
  /\ upgrade /\ ~Latest.ok /\ Clean(Latest) /\ Latest.snaps /\ Len(history) >= 2
  /\ \A i, j \in DOMAIN history : history[i].step = history[j].step
  /\ Latest.lag <= 1

\* A flag for the lag alone becomes ok when at least two passes, all clean, agree and the last one's lag is near the
\* limit.
Upgrades ==
  /\ upgrade /\ ~Latest.ok /\ Clean(Latest) /\ Latest.snaps /\ Len(history) >= 2
  /\ \A i, j \in DOMAIN history : Clean(history[i]) /\ history[i].step = history[j].step
  /\ Latest.lag <= 1

\* build_decode_grid: the pass with the latest date stands for the cell.
ExportedOk == history # <<>> /\ ((Latest.ok /\ ~Latest.dropped /\ Latest.snaps) \/ Upgrades)

-------------------------------------------------------------------------------
(* Properties. *)

\* While one of a cell's streams is read all the others are fired ("so they fire together"); an exit code or a missing
\* stream never passes for a whole batch; a pass that cannot end is one whose shard died before the barrier; and an
\* exported row is ok only if in the last pass every request had MinSamples steps while all the others streamed, and its
\* lag is in the limit or every pass gave the same step.
GridIsSound ==
  /\ \A w, v \in Spawned : shard[w] = "streaming" => shard[v] \notin {"none", "up", "barrier"}
  /\ main = "joining" /\ joined = Cardinality(Spawned) => \A w \in Spawned : shard[w] = "done"
  /\ ExportedOk =>
       /\ Latest.n >= MinSamples /\ Latest.wide /\ ~Latest.dropped
       /\ Latest.lag = 0 \/ (Latest.lag = 1 /\ \A i \in DOMAIN history : ~history[i].dropped /\ history[i].step = Latest.step)
=================================================================================
