-------------------------------- MODULE Profiler --------------------------------
(***************************************************************************)
(* qbench profile (quettabench/profiler.py and the sources it merges):     *)
(* profilers attached to one run dir, each reading the files it finds,     *)
(* waiting for the run when it samples energy, and merging its sections    *)
(* into profile.json.  A section is the run.json it was computed from.     *)
(***************************************************************************)
EXTENDS Naturals, Sequences, FiniteSets, SequencesExt

CONSTANT Profilers  \* processes that profile the run dir

\* ORDER, of which three stand for the rest: one that samples, one that asks the server, one that reads run.json.
Order == <<"energy", "metrics", "cost">>
None == "none"
NoRun == "no run.json"

\* run.json: of a run that measured tokens, of one that failed with no summary.
Runs == {"measured", "failed"}
NoOut == [sections |-> <<>>, sourcesRun |-> {}, errors |-> {}]

VARIABLES
  runJson,  \* run.json of the dir
  server,   \* engine.json names an endpoint that answers
  profile,  \* profile.json
  p         \* each profiler: pc, the sources asked for and those left, out, whether energy's window is fixed, its errors

vars == <<runJson, server, profile, p>>

Idle == [pc |-> "idle", todo |-> {}, asked |-> {}, out |-> NoOut, fixed |-> FALSE, errors |-> {}, began |-> NoOut]

Init ==
  /\ runJson = NoRun /\ server \in BOOLEAN
  /\ profile = NoOut
  /\ p = [i \in Profilers |-> Idle]

\* The run ends, or leaves no run.json (RunWriter).
RunEnds ==
  /\ runJson = NoRun
  /\ runJson' \in Runs /\ server' \in {server, FALSE}
  /\ UNCHANGED <<profile, p>>

\* profile: the arguments are checked and the files read; sources that are given run in ORDER.
Begin(i) ==
  /\ p[i].pc = "idle"
  /\ \E sources \in SUBSET ToSet(Order) \ {{}}, fixed \in BOOLEAN :
       /\ fixed => "energy" \in sources
       /\ p' = [p EXCEPT ![i] = [Idle EXCEPT !.pc = "next", !.todo = sources, !.asked = sources,
                                             !.out = profile, !.fixed = fixed, !.began = profile]]
  /\ UNCHANGED <<runJson, server, profile>>

\* Of the sources left, the first in ORDER.
Source(i) == Order[CHOOSE k \in DOMAIN Order : Order[k] \in p[i].todo /\ \A j \in 1 .. k - 1 : Order[j] \notin p[i].todo]
Section(out, s, v) == [out EXCEPT !.sections = [t \in DOMAIN @ \cup {s} |-> IF t = s THEN v ELSE @[t]]]

\* A source's section is in, or its error.
Succeed(i, v) == p' = [p EXCEPT ![i].pc = "next", ![i].todo = @ \ {Source(i)}, ![i].out = Section(@, Source(i), v)]
Err(i) == p' = [p EXCEPT ![i].pc = "next", ![i].todo = @ \ {Source(i)}, ![i].errors = @ \cup {Source(i)}]

\* measure_energy: with the run over only a fixed window samples.
StartSampling(i) ==
  /\ p[i].pc = "next" /\ p[i].todo # {} /\ Source(i) = "energy"
  /\ IF ~p[i].fixed /\ runJson # NoRun THEN Err(i) ELSE p' = [p EXCEPT ![i].pc = "sampling"]
  /\ UNCHANGED <<runJson, server, profile>>

\* The window closes when run.json is there or after a day; a fixed one by its own clock.
StopSampling(i) ==
  /\ p[i].pc = "sampling"
  /\ Succeed(i, [window |-> IF p[i].fixed THEN "fixed" ELSE "run", run |-> runJson, perToken |-> ~p[i].fixed])
  /\ UNCHANGED <<runJson, server, profile>>

\* run_source: metrics needs the server, cost a run.json; whatever else goes wrong is the source's error.
RunSource(i) ==
  /\ p[i].pc = "next" /\ p[i].todo # {} /\ Source(i) # "energy"
  /\ \/ Err(i)
     \/ /\ Source(i) = "metrics" => server
        /\ Source(i) = "cost" => runJson # NoRun
        /\ Succeed(i, [window |-> None, run |-> runJson, perToken |-> FALSE])
  /\ UNCHANGED <<runJson, server, profile>>

\* Mutant: what was asked counts as run.
MergedAsked(i) == [p[i].out EXCEPT !.sourcesRun = @ \cup p[i].asked, !.errors = p[i].errors]

\* What earlier profiles ran stays, with what this one ran without an error.
Merged(i) == [p[i].out EXCEPT !.sourcesRun = @ \cup (p[i].asked \ p[i].errors), !.errors = p[i].errors]

\* write_atomic, and the exit code.
Write(i) ==
  /\ p[i].pc = "next" /\ p[i].todo = {}
  /\ profile' = Merged(i)
  /\ p' = [p EXCEPT ![i].pc = IF p[i].errors # {} THEN "exit 1" ELSE "exit 0"]
  /\ UNCHANGED <<runJson, server>>

\* Ctrl-C is no source's error: nothing is written.
Interrupt(i) ==
  /\ p[i].pc \in {"next", "sampling"}
  /\ p' = [p EXCEPT ![i].pc = "interrupted"]
  /\ UNCHANGED <<runJson, server, profile>>

Over == (\A i \in Profilers : p[i].pc \notin {"idle", "next", "sampling"}) /\ runJson # NoRun /\ UNCHANGED vars

Next == RunEnds \/ Over
  \/ \E i \in Profilers : Begin(i) \/ StartSampling(i) \/ StopSampling(i) \/ RunSource(i) \/ Write(i) \/ Interrupt(i)

Spec == Init /\ [][Next]_vars

-------------------------------------------------------------------------------
(* Properties. *)

\* However profilers of one run overlap, fail or are interrupted: profile.json has a section for each source it says was
\* run and no other, and what is about to be written holds every source that was there when the profiler began and every
\* one it ran since, "one broken source must not lose the others" (profile's comment); a cost is of a run.json, and a
\* per-token energy of the run's own window.
ProfileIsWhole ==
  /\ DOMAIN profile.sections = profile.sourcesRun
  /\ \A i \in Profilers : p[i].pc \in {"next", "sampling"} =>
       DOMAIN p[i].out.sections = p[i].began.sourcesRun \cup (p[i].asked \ (p[i].errors \cup p[i].todo))
  /\ \A s \in DOMAIN profile.sections : LET e == profile.sections[s] IN
       /\ s = "cost" => e.run # NoRun
       /\ e.perToken <=> (s = "energy" /\ e.window = "run")
=================================================================================
