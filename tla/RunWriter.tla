------------------------------ MODULE RunWriter ------------------------------
(***************************************************************************)
(* One run's files (quettabench/metrics/results.py, RunWriter, with        *)
(* write_atomic; quettabench/runner.py, run_one).  The run appends rows    *)
(* while a pool of one thread writes them to requests.jsonl; finish drains *)
(* the pool, closes the file, fills a field into its rows and leaves       *)
(* run.json.  A write may fail, Ctrl-C may come at any moment of the run   *)
(* or of finish, and the process may be killed.                            *)
(***************************************************************************)
EXTENDS Naturals, FiniteSets

CONSTANTS MaxRows,   \* bound: rows a run appends
          MaxFaults  \* bound: rows whose write fails

BoundsAssumption == MaxRows \in Nat /\ MaxFaults \in Nat

Statuses == {"ok", "partial", "failed", "aborted"}
None == "none"

VARIABLES
  pc,         \* where the run is, then where finish is
  appended,   \* rows the run appended: rows 1 .. appended were submitted to the pool, in order
  handled,    \* rows the pool's thread has been through
  buffer,     \* rows written to the file object and not on disk, after a flush that failed
  onDisk,     \* rows in requests.jsonl
  filled,     \* requests.jsonl has its rewritten rows
  rowErrors,  \* _row_errors is not empty
  fill,       \* fill_rows was called
  finished,   \* finish was entered
  verdict,    \* the status finish was called with
  tmp,        \* the .tmp file write_atomic is at: none, part or whole
  runJson,    \* the status run.json says, none without the file
  faults      \* rows whose write failed

vars == <<pc, appended, handled, buffer, onDisk, filled, rowErrors, fill, finished, verdict, tmp, runJson, faults>>
rows == <<appended, handled, buffer, onDisk, rowErrors>>
flags == <<fill, finished, verdict>>

TypeOK ==
  /\ pc \in {"running", "closing", "filling", "writing", "done", "raised", "killed"}
  /\ appended \in 0 .. MaxRows /\ handled \in 0 .. appended
  /\ buffer \subseteq 1 .. handled /\ onDisk \subseteq 1 .. handled
  /\ filled \in BOOLEAN /\ rowErrors \in BOOLEAN /\ fill \in BOOLEAN /\ finished \in BOOLEAN
  /\ verdict \in Statuses \cup {None} /\ runJson \in Statuses \cup {None}
  /\ tmp \in {None, "part", "whole"}
  /\ faults \in 0 .. MaxFaults

Init ==
  /\ pc = "running"
  /\ appended = 0 /\ handled = 0 /\ buffer = {} /\ onDisk = {}
  /\ filled = FALSE /\ rowErrors = FALSE /\ fill = FALSE /\ finished = FALSE
  /\ verdict = None /\ tmp = None /\ runJson = None
  /\ faults = 0

Alive == pc \notin {"done", "raised", "killed"}

\* A row's write fails.
Fault == faults < MaxFaults /\ faults' = faults + 1

-------------------------------------------------------------------------------
(* The rows. *)

\* append, on the run's thread, while the measurement lasts.
AppendRow ==
  /\ pc = "running"
  /\ ~fill
  /\ ~rowErrors
  /\ appended < MaxRows
  /\ appended' = appended + 1
  /\ UNCHANGED <<pc, handled, buffer, onDisk, filled, rowErrors, flags, tmp, runJson, faults>>

\* _write_row, on the pool's thread: the row and what a failed flush left, or the error kept for the run to see.
WriteRow ==
  /\ Alive
  /\ handled < appended
  /\ handled' = handled + 1
  /\ \/ /\ onDisk' = onDisk \cup buffer \cup {handled'}
        /\ buffer' = {}
        /\ UNCHANGED <<rowErrors, faults>>
     \/ /\ Fault
        /\ buffer' = buffer \cup {handled'}
        /\ rowErrors' = TRUE
        /\ UNCHANGED onDisk
  /\ UNCHANGED <<pc, appended, filled, flags, tmp, runJson>>

\* fill_rows: the measurement is over.
FillRows ==
  /\ pc = "running"
  /\ ~fill
  /\ fill' = TRUE
  /\ UNCHANGED <<pc, rows, filled, finished, verdict, tmp, runJson, faults>>

-------------------------------------------------------------------------------
(* finish, from its call to run.json. *)

\* Called with the run's verdict, or by fail for the exception that ended it: a row error append raised, Ctrl-C, any
\* other.
Finish(status) ==
  /\ pc = "running"
  /\ pc' = "closing"
  /\ finished' = TRUE
  /\ verdict' = status
  /\ UNCHANGED <<rows, filled, fill, tmp, runJson, faults>>

\* Mutant: the file is closed without waiting for the pool.
CloseRowsAtOnce ==
  /\ pc = "closing"
  /\ pc' = IF fill THEN "filling" ELSE "writing"
  /\ handled' = appended
  /\ onDisk' = onDisk \cup buffer
  /\ buffer' = {}
  /\ UNCHANGED <<appended, rowErrors, filled, flags, tmp, runJson, faults>>

\* _close_rows, first part: the pool is drained and the file closed, what a failed flush left going out now.
CloseRows ==
  /\ pc = "closing"
  /\ handled = appended
  /\ pc' = IF fill THEN "filling" ELSE "writing"
  /\ onDisk' = onDisk \cup buffer
  /\ buffer' = {}
  /\ UNCHANGED <<appended, handled, rowErrors, filled, flags, tmp, runJson, faults>>

\* write_atomic's first step: the .tmp, whole unless the write is cut short.
WriteTmp ==
  /\ pc \in {"filling", "writing"}
  /\ tmp = None
  /\ tmp' \in {"part", "whole"}
  /\ UNCHANGED <<pc, rows, filled, flags, runJson, faults>>

CompleteTmp ==
  /\ tmp = "part"
  /\ tmp' = "whole"
  /\ UNCHANGED <<pc, rows, filled, flags, runJson, faults>>

\* Mutant: the rows are rewritten in place.
FillInPlace ==
  /\ pc = "filling"
  /\ tmp # None
  /\ onDisk' = IF tmp = "part" THEN {} ELSE 1 .. handled
  /\ filled' = (tmp = "whole")
  /\ pc' = IF tmp = "whole" THEN "writing" ELSE pc
  /\ tmp' = IF tmp = "whole" THEN None ELSE "whole"
  /\ UNCHANGED <<appended, handled, buffer, rowErrors, flags, runJson, faults>>

\* _close_rows, second part: the rewritten rows take the old ones' place.
ReplaceRows ==
  /\ pc = "filling"
  /\ tmp = "whole"
  /\ filled' = TRUE
  /\ tmp' = None
  /\ pc' = "writing"
  /\ UNCHANGED <<rows, flags, runJson, faults>>

\* An ok run whose rows could not all be written failed.
Written == IF rowErrors /\ verdict = "ok" THEN "failed" ELSE verdict

\* Mutant: run.json goes out before the rows are closed.
ReplaceRunJsonFirst ==
  /\ pc = "closing"
  /\ runJson' = Written
  /\ UNCHANGED <<pc, rows, filled, flags, tmp, faults>>

\* run.json appears, whole.
ReplaceRunJson ==
  /\ pc = "writing"
  /\ tmp = "whole"
  /\ runJson' = Written
  /\ tmp' = None
  /\ pc' = "done"
  /\ UNCHANGED <<rows, filled, flags, faults>>

-------------------------------------------------------------------------------
(* What ends finish before its end. *)

\* finish raises: a write of its own failed, or Ctrl-C came.  run_one calls fail, which does nothing once finish was
\* entered, and the exception leaves the process.  (So does the SystemExit that stop raises after finish, which changes
\* no file either.)
FinishRaises ==
  /\ pc \in {"closing", "filling", "writing"}
  /\ finished
  /\ pc' = "raised"
  /\ UNCHANGED <<rows, filled, flags, tmp, runJson, faults>>

Kill ==
  /\ Alive
  /\ pc' = "killed"
  /\ UNCHANGED <<rows, filled, flags, tmp, runJson, faults>>

Over == ~Alive /\ UNCHANGED vars

Next ==
  \/ AppendRow \/ WriteRow \/ FillRows
  \/ \E status \in Statuses : Finish(status)
  \/ CloseRows \/ WriteTmp \/ CompleteTmp \/ ReplaceRows \/ ReplaceRunJson
  \/ FinishRaises \/ Kill \/ Over

Spec == Init /\ [][Next]_vars

-------------------------------------------------------------------------------
(* Properties. *)

\* A run.json that says ok stands beside every row the run appended, in their rewritten form if one was asked for.
OkIsComplete == runJson = "ok" => onDisk = 1 .. appended /\ (fill => filled)

Inv == TypeOK /\ OkIsComplete

\* A row on disk stays there, whatever cuts the rewrite short.
RowStays == onDisk \subseteq onDisk'
RowsStay == [][RowStays]_vars

\* run.json is the last file written and is written once: a reader that sees it, the export's union of ok runs say,
\* never sees rows or a verdict change under it; sys.exit after finish does not make an aborted run failed.
Last == runJson # None => UNCHANGED <<onDisk, filled, runJson>>
RunJsonIsLast == [][Last]_vars

\* runner.py, run_one: "Opened first so a run that raises still leaves run.json."
RaisedLeavesRunJson == pc = "raised" => runJson # None
==============================================================================
