--------------------------------- MODULE Export ---------------------------------
(***************************************************************************)
(* qbench export's kernel tables (quettabench/export/quettasim.py): the    *)
(* rows of every ok probe run merged into the tables QuettaSim holds, each *)
(* with its sidecar, and the manifest over them.  Files are replaced one   *)
(* by one; the export may be killed between two and run again later, with  *)
(* more runs or with runs cleared since.                                   *)
(***************************************************************************)
EXTENDS Naturals, Sequences, FiniteSets

CONSTANTS MaxRuns,     \* bound: probe runs that finish
          MaxExports   \* bound: exports

ExportBounds == MaxRuns \in Nat /\ MaxExports \in Nat

\* How a table merges: on its row key, on its head config (GEOMETRY), from the last run without --append
\* (RESET_WITHOUT_APPEND), from the last run alone (no row key), or collective with vllm_allreduce.
Kinds == {"keyed", "geometry", "reset", "whole", "collectives"}
AllReduce(key) == key[2] # 3
Modes == {"graph_replay", "ncu"}

VARIABLES
  kind,      \* how the table merges
  runs,      \* probe runs in the order they finished: row keys, timing, flag, and whether run.json is there and ok
  table,     \* the table's rows: their key and the run that measured them, Own for those QuettaSim had
  column,    \* it has a column no probe run writes
  sidecar,   \* its sidecar's mode
  manifest,  \* the runs its manifest entry names, Own for "adopted from dest"
  plan,      \* the temporary directory: what the table gets; empty with no export in progress
  todo,      \* files left to replace
  exports,   \* exports begun
  orphans    \* runs a killed export may have left rows of, no later export having used them

vars == <<kind, runs, table, column, sidecar, manifest, plan, todo, exports, orphans>>

\* A row key: the head config or the world, and the rest; of collectives 1 and 2 are all_reduce sizes.
Keys == {<<1, 1>>, <<1, 2>>, <<2, 1>>} \cup (IF kind = "collectives" THEN {<<1, 3>>} ELSE {})
Flags == CASE kind = "reset" -> {"plain", "append"} [] kind = "collectives" -> {"plain", "vllm"} [] OTHER -> {"plain"}
Own == 0
ModeOf(r) == IF r = Own THEN "graph_replay" ELSE runs[r].mode

Init ==
  /\ kind \in Kinds
  /\ runs = <<>>
  /\ \E had \in {{}, {<<1, 1>>}, {<<1, 1>>, <<1, 2>>}} : table = {[key |-> k, run |-> Own] : k \in had}
  /\ column \in BOOLEAN
  /\ sidecar = "graph_replay" /\ manifest = {}
  /\ plan = <<>> /\ todo = <<>> /\ exports = 0 /\ orphans = {}

Idle == todo = <<>>

\* Bound: nothing happens to the runs that no export follows.
MoreExports == exports < MaxExports

\* A probe run finishes: ok with one or two keys, or not, or with no run.json, what it measured then
\* nobody's.  vllm_allreduce measures all_reduce alone.
RunEnds ==
  /\ Idle /\ Len(runs) < MaxRuns /\ MoreExports
  /\ \E keys \in {k \in SUBSET Keys : Cardinality(k) \in 1 .. 2}, mode \in Modes, flag \in Flags, ok \in BOOLEAN :
       /\ flag = "vllm" => \A k \in keys : AllReduce(k)
       /\ ok \/ (keys = {<<1, 1>>} /\ mode = "ncu" /\ flag = "plain")
       /\ runs' = Append(runs, [keys |-> keys, mode |-> mode, flag |-> flag, ok |-> ok])
  /\ UNCHANGED <<kind, table, column, sidecar, manifest, plan, todo, exports, orphans>>

\* clear_run_dir empties a run's dir, or another results dir is named.
ClearRun ==
  /\ Idle /\ MoreExports
  /\ \E r \in DOMAIN runs : runs[r].ok /\ runs' = [runs EXCEPT ![r].ok = FALSE]
  /\ UNCHANGED <<kind, table, column, sidecar, manifest, plan, todo, exports, orphans>>

-------------------------------------------------------------------------------
(* What the table gets. *)

\* Mutant: a run with any verdict is a source.
FoundAny == DOMAIN runs

\* found: runs whose run.json is ok.
Found == {r \in DOMAIN runs : runs[r].ok}

LastOf(S) == {r \in S : \A s \in S : s <= r}
Flagged(S, flag) == {r \in S : runs[r].flag = flag}

\* _runs_used, and for collectives the last run of each probe.
Used ==
  CASE kind = "whole" -> LastOf(Found)
    [] kind = "reset" -> {r \in Found : \A s \in Flagged(Found, "plain") : s <= r}
    [] kind = "collectives" -> LastOf(Flagged(Found, "plain")) \cup LastOf(Flagged(Found, "vllm"))
    [] OTHER -> Found

\* The keys a run brings: vllm_allreduce its all_reduce rows, the collective probe those only without vllm_allreduce.
Brings(r) ==
  IF kind # "collectives" THEN runs[r].keys
  ELSE {k \in runs[r].keys : AllReduce(k) <=> (runs[r].flag = "vllm" \/ (AllReduce(k) /\ Flagged(Used, "vllm") = {}))}

\* Does a row of run r with key new take the place of an earlier row?
Supersedes(r, new, old) ==
  \/ new = old
  \/ kind = "geometry" /\ new[1] = old[1]
  \/ runs[r].flag = "vllm" /\ AllReduce(old) /\ new[1] = old[1]

Stands(key, later) == \A s \in later : \A k \in Brings(s) : ~Supersedes(s, k, key)

\* The runs whose rows come after r's; _merge_collectives takes vllm_allreduce's last whichever finished last.
Later(r) == {s \in Used : IF runs[s].flag = "vllm" \/ runs[r].flag = "vllm"
                          THEN runs[s].flag # runs[r].flag /\ runs[s].flag = "vllm" ELSE s > r}

\* What the runs used put in the table (_union_csv, _union_json, _merge_collectives), and what stays of the old rows.
Ours == UNION {{[key |-> k, run |-> r] : k \in {n \in Brings(r) : Stands(n, Later(r))}} : r \in Used}
Stays == {x \in table : Stands(x.key, Used)}

\* _write begins a table with no row key, and one reset by a run without --append, from no old row.
Anew == kind = "whole" \/ (kind = "reset" /\ Flagged(Used, "plain") # {})

\* Mutant: nothing is looked for.
LostNothing == {}

\* _lost: rows that are neither there nor superseded, and the column.  A merge keeps what no run supersedes, and the heads
\* of both sides, so only a table begun anew can lose any; one with no row key has its rows compared whole.
Lost == {x \in table : Anew /\ x \notin Ours /\ (kind = "whole" \/ \A r \in Used : x.key \notin Brings(r))}
Loses == Lost # {} \/ (Anew /\ column)

Mode(S) == IF Cardinality(S) = 1 THEN CHOOSE m \in S : TRUE ELSE "unknown"
NamedBy(rows) == {x.run : x \in rows}

\* Mutant: the sidecar speaks of the runs alone.
PlannedUnkept(replaced) ==
  LET kept == IF Anew THEN {} ELSE Stays
  IN [rows |-> kept \cup Ours, column |-> column /\ ~Anew, runs |-> NamedBy(Ours), adopts |-> kept # {}, replaced |-> replaced,
      mode |-> Mode({runs[r].mode : r \in NamedBy(Ours)})]

\* The table in the temporary directory and its sidecar (_sidecar, _keep_sidecar): a mode the kept rows do not share is
\* unknown.
Planned(replaced) ==
  LET kept == IF Anew THEN {} ELSE Stays
      mode == Mode({runs[r].mode : r \in NamedBy(Ours)})
  IN [rows |-> kept \cup Ours, column |-> column /\ ~Anew, runs |-> NamedBy(Ours), adopts |-> kept # {}, replaced |-> replaced,
      mode |-> IF kept # {} /\ sidecar # mode THEN "unknown" ELSE mode]

-------------------------------------------------------------------------------
(* The export. *)

\* run_kernel_tables up to its first replace.  A table that would lose rows or the column stops the export and every table
\* with it; with --replace-tables it is built without the old table.
Begin(replace) ==
  /\ Idle /\ MoreExports /\ Found # {}
  /\ exports' = exports + 1
  /\ IF ~replace /\ Loses THEN UNCHANGED <<plan, todo>>
     ELSE plan' = Planned(Loses) /\ todo' = <<"rows", "sidecar", "manifest">>
  /\ UNCHANGED <<kind, runs, table, column, sidecar, manifest, orphans>>

ReplaceRows ==
  /\ ~Idle /\ Head(todo) = "rows"
  /\ table' = plan.rows /\ column' = plan.column /\ todo' = Tail(todo)
  /\ UNCHANGED <<kind, runs, sidecar, manifest, plan, exports, orphans>>

ReplaceSidecar ==
  /\ ~Idle /\ Head(todo) = "sidecar"
  /\ sidecar' = plan.mode /\ todo' = Tail(todo)
  /\ UNCHANGED <<kind, runs, table, column, manifest, plan, exports, orphans>>

\* export's last step: an entry whose table kept rows keeps the runs it named.
WriteManifest ==
  /\ ~Idle /\ Head(todo) = "manifest"
  /\ manifest' = plan.runs \cup (IF ~plan.adopts THEN {} ELSE IF manifest = {} THEN {Own} ELSE manifest)
  /\ plan' = <<>> /\ todo' = <<>> /\ orphans' = orphans \ plan.runs
  /\ UNCHANGED <<kind, runs, table, column, sidecar, exports>>

Kill ==
  /\ ~Idle
  /\ plan' = <<>> /\ todo' = <<>> /\ orphans' = orphans \cup plan.runs
  /\ UNCHANGED <<kind, runs, table, column, sidecar, manifest, exports>>

Over == Idle /\ UNCHANGED vars

Next == RunEnds \/ ClearRun \/ (\E replace \in BOOLEAN : Begin(replace)) \/ ReplaceRows \/ ReplaceSidecar
        \/ WriteManifest \/ Kill \/ Over

Spec == Init /\ [][Next]_vars

-------------------------------------------------------------------------------
(* Properties. *)

\* Between exports: the manifest entry names every run with rows in the table ("names the runs with rows in each table",
\* docs/runbooks/probes.md), the sidecar's mode is that of every row, and there is one row for each key, whatever was
\* cleared, replaced, or killed and exported again.  A killed export's own rows are not spoken for until its runs are
\* exported again.
AccountIsTrue == Idle =>
  /\ NamedBy(table) \ {Own} \subseteq manifest \cup orphans
  /\ sidecar # "unknown" => \A x \in table : x.run \in orphans \/ ModeOf(x.run) = sidecar
  /\ \A x, y \in table : x.key = y.key => x = y

\* README.md: "It merges into the tables QuettaSim already holds, keeping their rows unless a run supersedes them, and
\* stops where it would drop one unless given --replace-tables"; a run supersedes rows of its keys, flash_attn those of its
\* head configs, vllm_allreduce the all_reduce rows of its worlds.  A column goes with --replace-tables alone, and the rows
\* that come in are of ok runs.
TakesPlaceOf(y, x) ==
  /\ y.run # Own
  /\ \/ y.key = x.key
     \/ kind = "geometry" /\ y.key[1] = x.key[1]
     \/ runs[y.run].flag = "vllm" /\ AllReduce(y.key) /\ AllReduce(x.key) /\ y.key[1] = x.key[1]
Kept == <<table, column>>' # <<table, column>> =>
  /\ \A x \in table' \ table : runs[x.run].ok
  /\ plan.replaced \/ /\ column => column'
                      /\ \A x \in table \ table' : \E y \in table' : TakesPlaceOf(y, x)
KeepsUnlessSuperseded == [][Kept]_vars
=================================================================================
