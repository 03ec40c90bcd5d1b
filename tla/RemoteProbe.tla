------------------------------ MODULE RemoteProbe ------------------------------
(***************************************************************************)
(* just remote-probe (quettabench/probes/base.py): a probe shipped to a    *)
(* host, run there over ssh under run_recorded, its run dir pulled here    *)
(* and the remote dir removed.  Any command over the network may fail,     *)
(* Ctrl-C may come at any time and leaves the remote process running.      *)
(***************************************************************************)
EXTENDS Naturals

CONSTANT MaxPoints  \* bound: rows a probe measures

PointsAssumption == MaxPoints \in Nat

Unwritten == "no run.json"
Statuses == {"ok", "failed", "aborted"}
NoCopy == [rows |-> 0, json |-> Unwritten, pulled |-> FALSE]

VARIABLES
  at,      \* where remote_probe is
  dir,     \* the remote dir: "none", "there" or "gone"
  proc,    \* the remote process: "none", "up" or "over"
  wrote,   \* what the probe has written on the host: rows.jsonl flushed row by row, run.json
  local,   \* what is under results/probes/<gpu>/<probe>/<run id>/
  pulled,  \* rsync's return code: "none", "zero" or "error"
  cut,     \* an interrupt or a lost connection left the remote process running
  exit     \* how remote_probe ends: "none", "status", "SystemExit" or "raised"

vars == <<at, dir, proc, wrote, local, pulled, cut, exit>>

Init ==
  /\ at = "mktemp" /\ dir = "none" /\ proc = "none"
  /\ wrote = NoCopy /\ local = NoCopy
  /\ pulled = "none" /\ cut = FALSE /\ exit = "none"

\* Refused arguments, a failed or interrupted mktemp and one whose answer names no dir end it before its try.
MakeDir ==
  /\ at = "mktemp"
  /\ dir' \in {"none", "there"}
  /\ \/ dir' = "there" /\ at' = "ship" /\ UNCHANGED exit
     \/ at' = "over" /\ exit' \in {"SystemExit", "raised"}
  /\ UNCHANGED <<proc, wrote, local, pulled, cut>>

\* An rsync that failed was not started: the finally has nothing to pull.
Ship ==
  /\ at = "ship"
  /\ \/ at' = "run" /\ proc' = "up" /\ UNCHANGED exit
     \/ at' = "remove" /\ exit' = "raised" /\ UNCHANGED proc
  /\ UNCHANGED <<dir, wrote, local, pulled, cut>>

-------------------------------------------------------------------------------
(* The probe on the host; it writes into a dir that is there. *)

\* Probe.run: one point's row.
EmitRow ==
  /\ proc = "up" /\ dir = "there" /\ wrote.rows < MaxPoints
  /\ wrote' = [wrote EXCEPT !.rows = @ + 1]
  /\ UNCHANGED <<at, dir, proc, local, pulled, cut, exit>>

\* run_recorded's finally: finish, or discard for a rank that records nothing; a killed process writes no run.json.
ProbeEnds ==
  /\ proc = "up"
  /\ proc' = "over"
  /\ wrote' \in {wrote} \cup (IF dir = "there" THEN {[wrote EXCEPT !.json = s] : s \in Statuses} ELSE {})
  /\ UNCHANGED <<at, dir, local, pulled, cut, exit>>

-------------------------------------------------------------------------------
(* ssh and what follows it. *)

SshReturns ==
  /\ at = "run" /\ proc = "over"
  /\ at' = "pull" /\ exit' \in {"status", "raised"}
  /\ UNCHANGED <<dir, proc, wrote, local, pulled, cut>>

\* Ctrl-C or a lost connection: there is no terminal whose hangup would end the remote process.
SshCut ==
  /\ at = "run" /\ proc = "up"
  /\ at' = "pull" /\ cut' = TRUE /\ exit' \in {"status", "raised"}
  /\ UNCHANGED <<dir, proc, wrote, local, pulled>>

\* Mutant: a failed pull is not told from a good one.
PullAny ==
  /\ at = "pull"
  /\ local' \in {wrote, local}
  /\ at' = "stamp" /\ pulled' = "zero"
  /\ UNCHANGED <<dir, proc, wrote, cut, exit>>

\* rsync --ignore-existing: all of it and zero, or some of it and an error; an interrupt leaves no return code, and its
\* exception passes over everything below.
Pull ==
  /\ at = "pull"
  /\ \/ local' = wrote /\ at' = "stamp" /\ pulled' = "zero" /\ UNCHANGED exit
     \/ /\ local' \in {local, [wrote EXCEPT !.json = Unwritten], wrote}
        /\ \/ pulled' = "error" /\ at' = "over" /\ exit' = (IF exit = "raised" THEN exit ELSE "SystemExit")
           \/ pulled' = "none" /\ at' = "over" /\ exit' = "raised"
  /\ UNCHANGED <<dir, proc, wrote, cut>>

\* _finish_here: run.json, when there is one, is stamped; a stamp that fails is told and left.
Stamp ==
  /\ at = "stamp"
  /\ local' \in {local} \cup (IF local.json # Unwritten THEN {[local EXCEPT !.pulled = TRUE]} ELSE {})
  /\ \/ at' = "remove" /\ UNCHANGED exit
     \/ at' = "over" /\ exit' = "raised"
  /\ UNCHANGED <<dir, proc, wrote, pulled, cut>>

\* ssh rm -rf, whose return code nobody reads.
Remove ==
  /\ at = "remove"
  /\ dir' \in {dir, "gone"}
  /\ at' = "over" /\ exit' \in {exit, "raised"}
  /\ UNCHANGED <<proc, wrote, local, pulled, cut>>

Over == at = "over" /\ proc # "up" /\ UNCHANGED vars

Next == MakeDir \/ Ship \/ EmitRow \/ ProbeEnds \/ SshReturns \/ SshCut \/ Pull \/ Stamp \/ Remove \/ Over

Spec == Init /\ [][Next]_vars

-------------------------------------------------------------------------------
(* Properties. *)

\* base.py, remote_probe: "Pulled even when the run failed or was interrupted; removed only once pulled": a probe that
\* ended while ssh waited for it is on the host or whole here, run.json and every row; one stamped pulled is whole here
\* though the connection was lost; an exit status is returned only over a whole pull.
RemovedOncePulled ==
  LET Whole == local.rows = wrote.rows /\ local.json = wrote.json IN
  /\ dir = "gone" /\ ~cut => Whole
  /\ local.pulled => Whole
  /\ at = "over" /\ exit = "status" /\ ~cut => Whole
================================================================================
