------------------------------ MODULE CommandLine ------------------------------
(***************************************************************************)
(* The commands of a checkout (quettabench/cli.py, and the modules that    *)
(* run with python -m): one is chosen and does its work in a module of its *)
(* own.  What one command leaves the next finds on disk: the run files the *)
(* writer writes are what profile, compare and export read, each of which  *)
(* takes them in any state a run leaves them in.                           *)
(***************************************************************************)
EXTENDS Integers, Sequences, FiniteSets

CONSTANTS
  MaxAsks,                      \* of ConfigLayers
  MaxFacts, MaxLines,
  MaxReturned, MaxPos,          \* of Compare
  MaxPasses,                    \* of Provision and DecodeGrid
  Profilers,                    \* of Profiler
  MaxPoints,                    \* of RemoteProbe
  MaxRuns, MaxExports,          \* of Export
  MinSamples, Nominal,          \* of DecodeGrid
  Worlds, Units,                \* of Reparallel
  MaxRows, MaxFaults            \* of RunWriter

VARIABLE command

\* run --dry-run: the config's layers.
VARIABLES source, axis, asks, loaded
configVars == <<source, axis, asks, loaded>>
Config == INSTANCE ConfigLayers

\* run: the files of a run.
VARIABLES pc, appended, handled, buffer, onDisk, filled, rowErrors, fill, finished, verdict, tmp, status, faults
writerVars == <<pc, appended, handled, buffer, onDisk, filled, rowErrors, fill, finished, verdict, tmp, status, faults>>
Writer == INSTANCE RunWriter WITH runJson <- status

VARIABLES runJson, server, profile, p
profileVars == <<runJson, server, profile, p>>
Profile == INSTANCE Profiler

VARIABLES ours, theirs, given, allow, log, grid, answers, exit
compareVars == <<ours, theirs, given, allow, log, grid, answers, exit>>
Comparison == INSTANCE Compare

VARIABLES asked, box, pass, dry, step, missing, env
provisionVars == <<asked, box, pass, dry, step, missing, env>>
Box == INSTANCE Provision

\* The probes: on another host, on the serving engine, over process groups.
VARIABLES at, dir, proc, wrote, local, pulled, cut, remoteExit
remoteVars == <<at, dir, proc, wrote, local, pulled, cut, remoteExit>>
Remote == INSTANCE RemoteProbe WITH exit <- remoteExit

VARIABLES sharded, upgrade, shard, got, main, joined, history
decodeVars == <<sharded, upgrade, shard, got, main, joined, history>>
Decode == INSTANCE DecodeGrid

VARIABLES job, point, rank, moves, own
groupVars == <<job, point, rank, moves, own>>
Groups == INSTANCE Reparallel WITH plan <- moves

VARIABLES kind, runs, table, column, sidecar, manifest, plan, todo, exports, orphans
exportVars == <<kind, runs, table, column, sidecar, manifest, plan, todo, exports, orphans>>
Tables == INSTANCE Export

ASSUME CommandsAssumption ==
  /\ Config!AsksAssumption
  /\ Writer!BoundsAssumption
  /\ Comparison!CompareAssumption
  /\ Box!PassesAssumption
  /\ Remote!PointsAssumption
  /\ Decode!GridAssumption
  /\ Groups!ReparallelAssumption
  /\ Tables!ExportBounds

vars == <<command, configVars, writerVars, profileVars, compareVars, provisionVars, remoteVars, decodeVars, groupVars,
          exportVars>>

Commands == {"config", "run", "profile", "compare", "provision", "remote", "decode", "groups", "export"}

-------------------------------------------------------------------------------

Unused == "unused"

Init ==
  /\ command \in Commands
  /\ IF command = "config" THEN Config!Init
     ELSE source = Unused /\ axis = Unused /\ asks = Unused /\ loaded = Unused
  /\ IF command = "run" THEN Writer!Init
     ELSE /\ pc = Unused /\ appended = Unused /\ handled = Unused /\ buffer = Unused /\ onDisk = Unused
          /\ filled = Unused /\ rowErrors = Unused /\ fill = Unused /\ finished = Unused /\ verdict = Unused
          /\ tmp = Unused /\ status = Unused /\ faults = Unused
  /\ IF command = "profile" THEN Profile!Init
     ELSE runJson = Unused /\ server = Unused /\ profile = Unused /\ p = Unused
  /\ IF command = "compare" THEN Comparison!Init
     ELSE /\ ours = Unused /\ theirs = Unused /\ given = Unused /\ allow = Unused /\ log = Unused /\ grid = Unused
          /\ answers = Unused /\ exit = Unused
  /\ IF command = "provision" THEN Box!Init
     ELSE /\ asked = Unused /\ box = Unused /\ pass = Unused /\ dry = Unused /\ step = Unused /\ missing = Unused
          /\ env = Unused
  /\ IF command = "remote" THEN Remote!Init
     ELSE /\ at = Unused /\ dir = Unused /\ proc = Unused /\ wrote = Unused /\ local = Unused /\ pulled = Unused
          /\ cut = Unused /\ remoteExit = Unused
  /\ IF command = "decode" THEN Decode!Init
     ELSE /\ sharded = Unused /\ upgrade = Unused /\ shard = Unused /\ got = Unused /\ main = Unused
          /\ joined = Unused /\ history = Unused
  /\ IF command = "groups" THEN Groups!Init
     ELSE job = Unused /\ point = Unused /\ rank = Unused /\ moves = Unused /\ own = Unused
  /\ IF command = "export" THEN Tables!Init
     ELSE /\ kind = Unused /\ runs = Unused /\ table = Unused /\ column = Unused /\ sidecar = Unused /\ manifest = Unused
          /\ plan = Unused /\ todo = Unused /\ exports = Unused /\ orphans = Unused

\* The state a command does not use.
Keeps(c) ==
  CASE c = "config" -> UNCHANGED configVars
    [] c = "run" -> UNCHANGED writerVars
    [] c = "profile" -> UNCHANGED profileVars
    [] c = "compare" -> UNCHANGED compareVars
    [] c = "provision" -> UNCHANGED provisionVars
    [] c = "remote" -> UNCHANGED remoteVars
    [] c = "decode" -> UNCHANGED decodeVars
    [] c = "groups" -> UNCHANGED groupVars
    [] c = "export" -> UNCHANGED exportVars

Next ==
  /\ UNCHANGED command
  /\ \A c \in Commands \ {command} : Keeps(c)
  /\ \/ command = "config" /\ Config!Next
     \/ command = "run" /\ Writer!Next
     \/ command = "profile" /\ Profile!Next
     \/ command = "compare" /\ Comparison!Next
     \/ command = "provision" /\ Box!Next
     \/ command = "remote" /\ Remote!Next
     \/ command = "decode" /\ Decode!Next
     \/ command = "groups" /\ Groups!Next
     \/ command = "export" /\ Tables!Next

Spec == Init /\ [][Next]_vars

-------------------------------------------------------------------------------
(* Properties: what each command promises of the files it writes. *)

\* config/loader.py: every value is the last layer's that sets it, or the profile that forces it.
LastWordStands == command = "config" => Config!LastWordStands

\* results.py: an ok run.json stands beside every row; a row on disk stays, and run.json is the last file written.
RunFilesStand ==
  /\ [](command = "run" => Writer!Inv)
  /\ [][command = "run" => Writer!RowStays /\ Writer!Last]_vars

\* profiler.py: profile.json holds every section a profiler that ended well was asked for.
ProfileIsWhole == command = "profile" => Profile!ProfileIsWhole

\* compare.py: a ratio is of two sides that measured the same thing, a bench's row is its last line of the best group,
\* and a FAIL is a token that differs.
ComparisonIsFair == command = "compare" => Comparison!RatioIsFair /\ Comparison!LastOfBest /\ Comparison!AgreementIsRight

\* provision.py: what the env file says is there is there.
WrittenIsServed == command = "provision" => Box!WrittenIsServed

\* probes/base.py: a remote dir is removed only once what it holds is here.
RemovedOncePulled == command = "remote" => Remote!RemovedOncePulled

\* serving_decode_grid.py: a cell exported is made of whole streams of every shard.
GridIsSound == command = "decode" => Decode!GridIsSound

\* reparallel.py: the ranks of a world run the same operations in one order, and each send meets its receive.
RanksAgree == command = "groups" => Groups!RanksAgree

\* quettasim.py: the manifest accounts for every row of a table, and an export drops no row that is not superseded.
TablesStand ==
  /\ [](command = "export" => Tables!AccountIsTrue)
  /\ [][command = "export" => Tables!Kept]_vars
================================================================================
