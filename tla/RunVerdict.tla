------------------------------ MODULE RunVerdict ------------------------------
(***************************************************************************)
(* What run.json says of a measured pass (quettabench/modes/serve.py, run, *)
(* with the gates and the withholding of metrics/summary.py): the status   *)
(* and exit code, which figures are published and which are withheld.      *)
(* A figure is published or not; its value is data.                        *)
(***************************************************************************)
EXTENDS Integers, FiniteSets

CONSTANTS K,        \* planned requests of a pass
          Turns,    \* the turns of each session, when the pass replays sessions
          MinRate   \* mode.min_success_rate in percent

ASSUME SizesAssumption == K \in Nat \ {0} /\ Turns \in Nat \ {0} /\ MinRate \in 0 .. 100

Requests == 1 .. K

\* A mode: sessions or single turns, --discard-first, an SLA, a closed loop.
Modes == [multi : BOOLEAN, discard : 0 .. 1, sla : BOOLEAN, closed : BOOLEAN]

\* How a pass came out: each request's answer, the client's stalls, whether a p99 is over its SLA, whether each digest sent is the planned one, and the steady window.
Passes == [answer : [Requests -> {"ok", "failed", "unsent"}], stalled : BOOLEAN, slow : BOOLEAN,
           match : BOOLEAN, window : {"valid", "invalid"}, late : BOOLEAN]

Where(p, kinds) == {i \in Requests : p.answer[i] \in kinds}

\* A session's turns behind its first failed one go unsent, and nothing else does.
Possible(mode, p) ==
  \A i \in Requests : p.answer[i] = "unsent" <=>
    mode.multi /\ \E j \in Where(p, {"failed"}) : j < i /\ (j - 1) \div Turns = (i - 1) \div Turns

\* replay and the dispatchers: a pass that is nine tenths failures, or a session run without a success, raises RunAborted.
MustAbort(mode, p) ==
  IF mode.multi THEN Where(p, {"ok"}) = {} ELSE 10 * Cardinality(Where(p, {"failed"})) >= 9 * K

\* aggregate: the requests --discard-first holds out of every statistic; it is a single-turn setting.
Kept(mode) == IF mode.multi THEN Requests ELSE mode.discard + 1 .. K

\* Mutant: the turns a failed turn left unsent are not counted.
FailedOfSent(mode, p) == Kept(mode) \cap Where(p, {"failed"})

\* The requests that failed or went unsent, and those that count as successes.
Failed(mode, p) == Kept(mode) \cap Where(p, {"failed", "unsent"})
Succeeded(mode, p) == Kept(mode) \cap Where(p, {"ok"})

\* client_stall_reasons: only successes are bounded.
Stalls(mode, p) == p.stalled /\ Succeeded(mode, p) # {}
Withheld(mode, p) == Failed(mode, p) # {} \/ Stalls(mode, p)

\* success_rate_gate, over planned requests.
BelowFloor(mode, p) ==
  LET planned == Cardinality(Succeeded(mode, p)) + Cardinality(Failed(mode, p))
  IN  planned = 0 \/ 100 * Cardinality(Succeeded(mode, p)) < MinRate * planned

\* Mutant: a pass that lost latency to a stall passes its SLA.
BoundStallForgiven(mode, p) ==
  IF Failed(mode, p) # {} THEN {"failed_requests"}
  ELSE IF p.slow THEN {"p99"} ELSE {}

\* sla_verdict, and the bound a stalled pass gets instead.
Bound(mode, p) ==
  IF Failed(mode, p) # {} THEN {"failed_requests"}
  ELSE IF Stalls(mode, p) THEN {"client_stall"}
  ELSE IF p.slow THEN {"p99"} ELSE {}

Nothing == [status |-> "none", exit |-> 1, core |-> FALSE, serve |-> "none", sla |-> "none", burst |-> FALSE,
            steady |-> "none", steadyTtft |-> FALSE, throughputValid |-> FALSE, latencyValid |-> FALSE,
            identity |-> "none"]

\* Mutant: the window of a run with failed turns is kept.
SectionsWindowKept(mode, p, goodput) ==
  LET ok == ~Withheld(mode, p)
      serve == ~goodput /\ Succeeded(mode, p) # {}
      sessions == mode.multi /\ mode.closed
  IN  [serve |-> IF ~serve THEN "none" ELSE IF ok THEN "latency" ELSE "rates",
       sla |-> IF ~serve \/ ~mode.sla THEN "none" ELSE IF Bound(mode, p) = {} THEN "PASS" ELSE "FAIL",
       burst |-> serve /\ mode.sla /\ ok,
       steady |-> IF ~sessions THEN "none" ELSE p.window,
       steadyTtft |-> sessions /\ p.window = "valid" /\ ~p.late /\ ok]

\* summary_sections and the steady window: what a pass that reached them publishes.
Sections(mode, p, goodput) ==
  LET ok == ~Withheld(mode, p)
      serve == ~goodput /\ Succeeded(mode, p) # {}
      sessions == mode.multi /\ mode.closed
      valid == p.window = "valid" /\ Failed(mode, p) = {}
  IN  [serve |-> IF ~serve THEN "none" ELSE IF ok THEN "latency" ELSE "rates",
       sla |-> IF ~serve \/ ~mode.sla THEN "none" ELSE IF Bound(mode, p) = {} THEN "PASS" ELSE "FAIL",
       burst |-> serve /\ mode.sla /\ ok,
       steady |-> IF ~sessions THEN "none" ELSE IF valid THEN "valid" ELSE "invalid",
       steadyTtft |-> sessions /\ valid /\ ~p.late /\ ok]

\* run: the gates one after the other; each ends the run with its status and code, the last one with the run's own.
Report(mode, p, goodput, found) ==
  LET judged == [Nothing EXCEPT !.core = ~Withheld(mode, p), !.latencyValid = ~Withheld(mode, p),
                                !.throughputValid = (Failed(mode, p) = {})]
      s == Sections(mode, p, goodput)
      full == [judged EXCEPT !.serve = s.serve, !.sla = s.sla, !.burst = s.burst, !.steady = s.steady,
                             !.steadyTtft = s.steadyTtft, !.identity = IF p.match THEN "match" ELSE "mismatch"]
  IN  IF BelowFloor(mode, p) THEN [judged EXCEPT !.status = "aborted", !.exit = 1]
      ELSE IF ~p.match THEN [full EXCEPT !.status = "failed", !.exit = 3]
      ELSE IF goodput /\ ~found THEN [full EXCEPT !.status = "aborted", !.exit = 1]
      ELSE IF Withheld(mode, p) THEN [full EXCEPT !.status = "partial", !.exit = 0]
      ELSE [full EXCEPT !.status = "ok", !.exit = 0]

-------------------------------------------------------------------------------
(* What a report may say of a pass. *)

Clean(mode, p) == \A i \in Kept(mode) : p.answer[i] = "ok"

\* The success rate reaches the floor: of the planned requests, sent or not.
AtFloor(mode, p) ==
  100 * Cardinality({i \in Kept(mode) : p.answer[i] = "ok"}) >= MinRate * Cardinality(Kept(mode))

\* ok means every request that counts was sent as planned and answered, with no stall to withhold for; a run that is not
\* aborted reached the floor; no latency stands beside a failed, an unsent or a stalled request, wherever it is
\* published, and so compare.py's not_comparable accepts no such run; a passed SLA is one of a clean pass; a window is
\* valid only over a clean pass; and the exit code tells an identity mismatch from an abort.
Truthful(mode, p, r) ==
  /\ r.status = "ok" => Clean(mode, p) /\ p.match /\ ~p.stalled
  /\ r.status \in {"ok", "partial"} => AtFloor(mode, p)
  /\ r.core \/ r.serve = "latency" \/ r.burst \/ r.steadyTtft \/ r.latencyValid =>
       Clean(mode, p) /\ (p.stalled => Succeeded(mode, p) = {})
  /\ r.throughputValid => Clean(mode, p)
  /\ r.sla = "PASS" => Clean(mode, p) /\ ~p.stalled /\ ~p.slow
  /\ r.steady = "valid" => Clean(mode, p)
  /\ r.exit = 0 <=> r.status \in {"ok", "partial"}
  /\ r.exit = 3 => ~p.match
  /\ r.identity = "match" \/ r.status # "ok"
================================================================================
