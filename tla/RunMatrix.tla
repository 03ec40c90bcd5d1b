------------------------------- MODULE RunMatrix -------------------------------
(***************************************************************************)
(* One `qbench run` over a matrix of points                                *)
(* (quettabench/runner.py main, clear_run_dir, reuse_groups, run_one,      *)
(* serve_one) and the life of the servers it starts                        *)
(* (quettabench/engines/launcher.py start, wait_healthy, Handle.stop).     *)
(*                                                                         *)
(* The run dirs of all points are emptied first.  Then each point opens    *)
(* its writer, launches or is given a server, or builds its engine in this *)
(* process, measures and stops what it launched; under --reuse-server      *)
(* consecutive points with one config share the server the first of them   *)
(* launched, and main stops it after the last.  An exception at any step   *)
(* runs the handlers the code has there.  The point's own measurement is   *)
(* one step: its dispatchers and its RunWriter are modules of their own.   *)
(* A server is a local process group or a container.                       *)
(***************************************************************************)
EXTENDS Integers, FiniteSets

CONSTANTS NP,              \* the matrix's points
          Configs,         \* (engine, hardware) pairs
          PinSets,         \* what a config has collectives and devices pinned to
          Matrices,        \* the matrices tried: [config, kind, pins, resets, builds]
          MaxFaults        \* bound: exceptions raised

Points == 1 .. NP
None == 0
Foreign == -1   \* a server this run did not start

\* hardware.launcher, mode and engine: a server is started locally or in docker, one already up is attached to, a
\* probe runs in this process, or the engine has a bench of its own.
Kinds == {"start", "docker", "attach", "probe", "bench"}

ASSUME PointsAssumption == NP \in Nat \ {0} /\ MaxFaults \in Nat
ASSUME MatricesAssumption ==
  Matrices \subseteq [config : [Points -> Configs], kind : [Configs -> Kinds], pins : [Configs -> PinSets],
                      resets : SUBSET Points, builds : SUBSET Points]

VARIABLES matrix,     \* loader.load's points: their configs, mode.reset_prefix_cache, and grids with return_outputs
          reuse,      \* --reuse-server
          overwrite,  \* --overwrite
          dirs,       \* results/<run_name> of each point
          server,     \* the server each point started
          port,       \* who answers on the port
          cache,      \* whose requests its prefix cache holds
          ran,        \* the pins each point's server was started with
          env,        \* the pins points have put into this process
          exported,   \* those main knows of
          pc,         \* where main is
          cur,        \* the point it is at
          handle,     \* the point whose server main holds a Handle of
          lost,       \* the points whose launch was left between Popen or docker run and the Handle
          raised,     \* an exception is on its way up
          measured,   \* what each point measured
          faults      \* exceptions so far

args == <<matrix, reuse, overwrite>>
servers == <<server, port, cache, ran>>
exports == <<env, exported>>
held == <<handle, lost>>
vars == <<args, dirs, servers, exports, pc, cur, held, raised, measured, faults>>

Config(p) == matrix.config[p]
Kind(p) == matrix.kind[Config(p)]
Pins(p) == matrix.pins[Config(p)]

\* in_process: a vLLM grid with mode.return_outputs builds its engine here.
InProcess(p) == p \in matrix.builds

\* The points that run in this process.
Here == {p \in Points : Kind(p) = "probe" \/ InProcess(p)}

\* Point p runs on the server of the point before it: a group of reuse_groups.
Follows(p) == reuse /\ p > 1 /\ Kind(p) # "probe" /\ Config(p) = Config(p - 1)

\* serve_one's keep: p is the first of several.
Keeps(p) == ~Follows(p) /\ p < NP /\ Follows(p + 1)

\* serve_one's server is a launcher.Handle: what a point that launched nothing returns is not one.
Shared(p) == Follows(p) /\ handle # None

\* What an earlier invocation left in a run dir: nothing, a run (ok, aborted or never finished), a run whose run.json
\* says failed, or files qbench did not write.  "open" is this run's own, with no run.json yet.
Dirs == {"none", "run", "failed", "other", "open"}

Init ==
  /\ matrix \in Matrices
  /\ reuse \in BOOLEAN /\ overwrite \in BOOLEAN
  /\ dirs \in [Points -> Dirs \ {"open"}]
  /\ port \in {None, Foreign}
  /\ server = [p \in Points |-> "none"]
  /\ cache = {}
  /\ ran = [p \in Points |-> {}] /\ env = {} /\ exported = {}
  /\ pc = "check" /\ cur = 1
  /\ handle = None /\ lost = {} /\ raised = FALSE
  /\ measured = [p \in Points |-> {}]
  /\ faults = 0

Fault == faults < MaxFaults /\ faults' = faults + 1

\* Raise: the exception goes up to the handlers of `at`.
Raise(at) == raised' = TRUE /\ pc' = at

-------------------------------------------------------------------------------
(* main: the matrix and the run dirs. *)

\* Mutant: only probes are taken to run in this process.
MixedProbes == Cardinality({Pins(p) : p \in {q \in Points : Kind(q) = "probe"}}) > 1
Mixed == Cardinality({Pins(p) : p \in Here}) > 1

\* refuse_mixed_in_process: one process has one set of devices and pins.
RefuseMixed ==
  /\ pc = "check" /\ Mixed
  /\ Raise("ended")
  /\ UNCHANGED <<args, dirs, servers, exports, cur, held, measured, faults>>

Agree ==
  /\ pc = "check" /\ ~Mixed
  /\ pc' = "clear"
  /\ UNCHANGED <<args, dirs, servers, exports, cur, held, raised, measured, faults>>

\* Mutant: --overwrite is not asked for.
MayReplaceAny(p) == dirs[p] \in {"run", "failed"}
MayReplace(p) == dirs[p] = "failed" \/ (dirs[p] = "run" /\ overwrite)

NextPoint(done) == IF cur < NP THEN pc' = pc /\ cur' = cur + 1 ELSE pc' = done /\ cur' = 1

\* clear_run_dir on the next point's dir: it is free, or is emptied.
ClearRunDir ==
  /\ pc = "clear"
  /\ dirs[cur] = "none" \/ MayReplace(cur)
  /\ dirs' = [dirs EXCEPT ![cur] = "none"]
  /\ NextPoint("group")
  /\ UNCHANGED <<args, servers, exports, held, raised, measured, faults>>

RefuseRunDir ==
  /\ pc = "clear"
  /\ ~(dirs[cur] = "none" \/ MayReplace(cur))
  /\ Raise("ended")
  /\ UNCHANGED <<args, dirs, servers, exports, cur, held, measured, faults>>

\* Points that share a server and do not all reset the prefix cache.
Unreset == {p \in Points : (Follows(p) \/ Keeps(p)) /\ p \notin matrix.resets}

\* reuse_groups refuses the matrix or goes on; the dirs are empty by then.
RefuseGroups ==
  /\ pc = "group" /\ Unreset # {}
  /\ Raise("ended")
  /\ UNCHANGED <<args, dirs, servers, exports, cur, held, measured, faults>>

FormGroups ==
  /\ pc = "group" /\ Unreset = {}
  /\ pc' = "open"
  /\ UNCHANGED <<args, dirs, servers, exports, cur, held, raised, measured, faults>>

-------------------------------------------------------------------------------
(* run_one and serve_one. *)

\* RunWriter(out, cfg): requests.jsonl is opened.
OpenWriter ==
  /\ pc = "open"
  /\ dirs' = [dirs EXCEPT ![cur] = "open"]
  /\ pc' = "prepare"
  /\ UNCHANGED <<args, servers, exports, cur, held, raised, measured, faults>>

\* It raises, before run_one's try.
OpenRaises ==
  /\ pc = "open" /\ Fault
  /\ Raise("done")
  /\ UNCHANGED <<args, dirs, servers, exports, cur, held, measured>>

\* Where a point goes on: to its measurement when it has its server or needs none.
AfterPrepare(p) ==
  IF Shared(p) \/ InProcess(p) \/ Kind(p) \in {"probe", "bench"} THEN "measure"
  ELSE IF Kind(p) = "attach" THEN "attach" ELSE "start"

\* in_docker refuses a grid that would build its engine on the host.
InDocker(p) == Kind(p) = "docker" /\ InProcess(p)

\* The spec, the GPUs, the environment, the trace and a shared server's engine.json.  A point that builds its engine
\* here exports its pins, and a probe its devices, which main need not know of: every launch sets its own.
Prepare ==
  /\ pc = "prepare" /\ ~InDocker(cur)
  /\ pc' = AfterPrepare(cur)
  /\ IF InProcess(cur) THEN env' = env \cup {Pins(cur)} /\ exported' = exported \cup {Pins(cur)}
     ELSE UNCHANGED exports
  /\ UNCHANGED <<args, dirs, servers, cur, held, raised, measured, faults>>

\* One of them raises: nothing is running yet that run_one started.
PrepareRaises ==
  /\ pc = "prepare"
  /\ IF InDocker(cur) THEN UNCHANGED faults ELSE Fault
  /\ Raise("fail")
  /\ UNCHANGED <<args, dirs, servers, exports, cur, held, measured>>

\* launcher.attach: the port must answer.
Attach ==
  /\ pc = "attach"
  /\ IF port = None THEN Raise("fail") ELSE pc' = "measure" /\ UNCHANGED raised
  /\ UNCHANGED <<args, dirs, servers, exports, cur, held, measured, faults>>

\* Mutant: a point that joins a group is not told what was exported.
InheritedOfGroup(p) == env \ (IF Keeps(p) THEN {} ELSE exported)

\* with_child_env and controlled: what a child of this process still has of the points before.  A container gets its
\* environment with -e.
Inherited(p) == IF Kind(p) = "docker" THEN {} ELSE env \ exported

\* The server is running: ran, with its own pins.
Runs(p) ==
  /\ server' = [server EXCEPT ![p] = "starting"]
  /\ ran' = [ran EXCEPT ![p] = {Pins(p)} \cup Inherited(p)]
  /\ cache' = {}

\* launcher.start, unless the port answers already: Popen of the server, or docker run.
Start ==
  /\ pc = "start" /\ port = None
  /\ Runs(cur)
  /\ pc' = IF Kind(cur) = "docker" THEN "follow" ELSE "identify"
  /\ UNCHANGED <<args, dirs, port, exports, cur, held, raised, measured, faults>>

\* Popen raises, or docker run exits with an error: what it made of a container is removed.
LaunchFails ==
  /\ pc = "start" /\ port = None /\ Fault
  /\ Raise("fail")
  /\ UNCHANGED <<args, dirs, servers, exports, cur, held, measured>>

\* Ctrl-C in docker run: the daemon may have started the container, and nobody removes it.
DockerRunInterrupted ==
  /\ pc = "start" /\ port = None /\ Kind(cur) = "docker" /\ Fault
  /\ Runs(cur)
  /\ lost' = lost \cup {cur}
  /\ Raise("fail")
  /\ UNCHANGED <<args, dirs, port, exports, cur, handle, measured>>

\* The port is free of a server that is gone.
FreePort(s) == port' = IF port = s THEN None ELSE port

\* Popen of `docker logs -f` into server.log.
Follow ==
  /\ pc = "follow"
  /\ pc' = "identify"
  /\ UNCHANGED <<args, dirs, servers, exports, cur, held, raised, measured, faults>>

\* Mutant: the container stays when nothing follows its log.
FollowFailsKeeping ==
  /\ pc = "follow" /\ Fault
  /\ Raise("fail")
  /\ UNCHANGED <<args, dirs, servers, exports, cur, held, measured>>

\* It raises: the container is removed.
FollowFails ==
  /\ pc = "follow" /\ Fault
  /\ server' = [server EXCEPT ![cur] = "dead"]
  /\ FreePort(cur)
  /\ Raise("fail")
  /\ UNCHANGED <<args, dirs, cache, ran, exports, cur, held, measured>>

StartRefused ==
  /\ pc = "start" /\ port # None
  /\ Raise("fail")
  /\ UNCHANGED <<args, dirs, servers, exports, cur, held, measured, faults>>

\* accelerator() and the Handle.
Identify ==
  /\ pc = "identify"
  /\ handle' = cur
  /\ pc' = "health"
  /\ UNCHANGED <<args, dirs, servers, exports, cur, lost, raised, measured, faults>>

\* accelerator() raises after Popen and outside start's try: float() of a memory size nvidia-smi prints as [N/A].
IdentifyFails ==
  /\ pc = "identify" /\ Fault
  /\ lost' = lost \cup {cur}
  /\ Raise("fail")
  /\ UNCHANGED <<args, dirs, servers, exports, cur, handle, measured>>

\* Mutant: whoever answers on the port is taken for ours.
HealthyForAnyone ==
  /\ pc = "health" /\ port # None
  /\ pc' = "measure"
  /\ UNCHANGED <<args, dirs, servers, exports, cur, held, raised, measured, faults>>

\* wait_healthy: the port answers and lists this launch's token.
Healthy ==
  /\ pc = "health" /\ port = cur
  /\ pc' = "measure"
  /\ UNCHANGED <<args, dirs, servers, exports, cur, held, raised, measured, faults>>

\* Another server answers, ours exits, the timeout passes or Ctrl-C: start stops its server.
Unhealthy ==
  /\ pc = "health"
  /\ \/ (port = Foreign \/ server[cur] = "dead") /\ UNCHANGED faults
     \/ Fault
  /\ Raise("stop")
  /\ UNCHANGED <<args, dirs, servers, exports, cur, held, measured>>

\* Mutant: a kept server is the caller's even when its point fails.
AfterMeasureKept(failed) ==
  IF handle # cur \/ Keeps(cur) THEN (IF failed THEN "fail" ELSE "done") ELSE "stop"

\* Who stops the server when serve_one leaves the point: a failing point stops what it launched, a point that ends
\* well what it launched and need not keep.
AfterMeasure(failed) ==
  IF handle # cur THEN (IF failed THEN "fail" ELSE "done")
  ELSE IF failed \/ ~Keeps(cur) THEN "stop" ELSE "done"

\* What a point measures: its server, or None for an engine of its own; the pins that ran with; whose requests the
\* prefix cache holds after mode.reset_prefix_cache.
OwnEngine(p) ==
  [by |-> None, ran |-> IF InProcess(p) THEN env ELSE {Pins(p)} \cup Inherited(p), left |-> {}]
RanBy(p) == IF port \in Points THEN ran[port] ELSE {Pins(p)}

\* Mutant: the cache is reset by the point that launches the server only.
MetResetOnce(p) == [by |-> port, ran |-> RanBy(p), left |-> IF p \in matrix.resets /\ ~Follows(p) THEN {} ELSE cache \ {p}]

Met(p) == [by |-> port, ran |-> RanBy(p), left |-> IF p \in matrix.resets THEN {} ELSE cache \ {p}]

\* Something answers: what the point started, shares or attached to.
Answers == port \in {handle, Foreign} \ {None}

\* VllmAdapter.driver builds an engine here when nothing was launched; a bench is the engine's own.
HasOwnEngine == Kind(cur) = "bench" \/ (InProcess(cur) /\ handle = None)

\* Mutant: a point that should build its engine measures the server it is handed.
ReachedWhatever == HasOwnEngine \/ Kind(cur) = "probe" \/ Answers

\* A probe and an own engine need no server.  Handed one by its group, a point that should build its engine gets an
\* HttpDriver, which returns neither ids, text nor logits: its first batch raises.
Reached == HasOwnEngine \/ Kind(cur) = "probe" \/ (Answers /\ ~InProcess(cur))

Measures(status) ==
  /\ measured' = [measured EXCEPT ![cur] =
       IF Kind(cur) = "probe" THEN {} ELSE {IF HasOwnEngine THEN OwnEngine(cur) ELSE Met(cur)}]
  /\ cache' = IF HasOwnEngine \/ Kind(cur) = "probe" THEN cache ELSE cache \cup {cur}
  /\ dirs' = [dirs EXCEPT ![cur] = status]

\* Mutant: a server that is kept is not handed to main.
MeasureKeepsHandle ==
  /\ pc = "measure" /\ Reached
  /\ Measures("run")
  /\ handle' = IF handle = cur /\ Keeps(cur) THEN None ELSE handle
  /\ pc' = AfterMeasure(FALSE)
  /\ UNCHANGED <<args, lost, server, port, ran, exports, cur, raised, faults>>

\* serve.run ends with its run.json written.
Measure ==
  /\ pc = "measure" /\ Reached
  /\ Measures("run")
  /\ pc' = AfterMeasure(FALSE)
  /\ UNCHANGED <<args, server, port, ran, exports, cur, held, raised, faults>>

\* It ends with its run.json written and an exit code, for a run that is not ok.
MeasureExits ==
  /\ pc = "measure" /\ Reached /\ Fault
  /\ \E status \in {"run", "failed"} : Measures(status)
  /\ Raise(AfterMeasure(TRUE))
  /\ UNCHANGED <<args, server, port, ran, exports, cur, held>>

\* It raises before: the driver cannot be built or cannot do it, the reset is refused, the server is gone, Ctrl-C.
MeasureRaises ==
  /\ pc = "measure"
  /\ IF Reached THEN Fault ELSE UNCHANGED faults
  /\ Raise(AfterMeasure(TRUE))
  /\ UNCHANGED <<args, dirs, servers, exports, cur, held, measured>>

-------------------------------------------------------------------------------
(* Handle.stop, from start, serve_one or main's finally. *)

AfterStop(failed) == IF failed /\ dirs[cur] = "open" THEN "fail" ELSE "done"

\* SIGTERM to the server's process group, or docker stop.
Stop ==
  /\ pc = "stop"
  /\ server' = [server EXCEPT ![handle] = IF @ = "dead" THEN @ ELSE "signalled"]
  /\ pc' = "reap"
  /\ UNCHANGED <<args, dirs, port, cache, ran, exports, cur, held, raised, measured, faults>>

\* The group is gone, or is killed after grace_s; the container is stopped and removed.
Reap ==
  /\ pc = "reap"
  /\ server' = [server EXCEPT ![handle] = "dead"]
  /\ FreePort(handle)
  /\ handle' = None
  /\ pc' = AfterStop(raised)
  /\ UNCHANGED <<args, lost, dirs, cache, ran, exports, cur, raised, measured, faults>>

\* Ctrl-C while it waits: nobody kills a server that outlives its SIGTERM.
ReapInterrupted ==
  /\ pc = "reap" /\ Fault
  /\ handle' = None
  /\ Raise(AfterStop(TRUE))
  /\ UNCHANGED <<args, lost, dirs, servers, exports, cur, measured>>

\* run_one: writer.fail, for a run whose writer has not finished.
Fail ==
  /\ pc = "fail"
  /\ \E status \in {"failed", "run"} : dirs' = [dirs EXCEPT ![cur] = IF @ = "open" THEN status ELSE @]
  /\ pc' = "done"
  /\ UNCHANGED <<args, servers, exports, cur, held, raised, measured, faults>>

\* run_one has returned, or an exception leaves it: main's finally, which is around the points that follow in a group,
\* stops the shared server after the last of them or at the exception; then the next point, or the end.
PointDone ==
  /\ pc = "done"
  /\ IF handle # None /\ Follows(cur) /\ (raised \/ cur = NP \/ ~Follows(cur + 1))
     THEN pc' = "stop" /\ cur' = cur
     ELSE IF raised \/ cur = NP THEN pc' = "ended" /\ cur' = cur
     ELSE pc' = "open" /\ cur' = cur + 1
  /\ UNCHANGED <<args, dirs, servers, exports, held, raised, measured, faults>>

-------------------------------------------------------------------------------
(* The servers. *)

\* A starting server binds the port and answers.
Binds(s) ==
  /\ server[s] = "starting" /\ port = None
  /\ server' = [server EXCEPT ![s] = "up"]
  /\ port' = s
  /\ UNCHANGED <<args, dirs, cache, ran, exports, pc, cur, held, raised, measured, faults>>

\* Another server takes the port first; a container's port is its own from docker run on, but under --net=host.
ForeignBinds ==
  /\ port = None /\ \E s \in Points : server[s] = "starting"
  /\ port' = Foreign
  /\ UNCHANGED <<args, dirs, server, cache, ran, exports, pc, cur, held, raised, measured, faults>>

\* A server exits: on its SIGTERM, or before it.
Exits(s) ==
  /\ \/ server[s] = "signalled" /\ UNCHANGED faults
     \/ server[s] \in {"starting", "up"} /\ Fault
  /\ server' = [server EXCEPT ![s] = "dead"]
  /\ FreePort(s)
  /\ UNCHANGED <<args, dirs, cache, ran, exports, pc, cur, held, raised, measured>>

Ended == pc = "ended" /\ UNCHANGED vars

Next ==
  \/ RefuseMixed \/ Agree \/ ClearRunDir \/ RefuseRunDir \/ RefuseGroups \/ FormGroups
  \/ OpenWriter \/ OpenRaises \/ Prepare \/ PrepareRaises \/ Attach \/ Start \/ StartRefused
  \/ LaunchFails \/ DockerRunInterrupted \/ Follow \/ FollowFails
  \/ Identify \/ IdentifyFails \/ Healthy \/ Unhealthy
  \/ Measure \/ MeasureExits \/ MeasureRaises \/ Fail \/ PointDone
  \/ Stop \/ Reap \/ ReapInterrupted
  \/ ForeignBinds \/ \E s \in Points : Binds(s) \/ Exits(s)
  \/ Ended

Spec == Init /\ [][Next]_vars

-------------------------------------------------------------------------------
TypeOK ==
  /\ matrix \in Matrices /\ reuse \in BOOLEAN /\ overwrite \in BOOLEAN
  /\ dirs \in [Points -> Dirs]
  /\ server \in [Points -> {"none", "starting", "up", "signalled", "dead"}]
  /\ port \in Points \cup {None, Foreign}
  /\ cache \subseteq Points
  /\ ran \in [Points -> SUBSET PinSets] /\ env \subseteq PinSets /\ exported \subseteq env
  /\ pc \in {"check", "clear", "group", "open", "prepare", "start", "follow", "attach", "identify", "health", "measure", "stop", "reap",
             "fail", "done", "ended"}
  /\ cur \in Points /\ handle \in Points \cup {None} /\ lost \subseteq Points
  /\ raised \in BOOLEAN /\ faults \in 0 .. MaxFaults
  /\ measured \in [Points -> SUBSET [by : Points \cup {None, Foreign}, ran : SUBSET PinSets, left : SUBSET Points]]

\* No two of this run's servers run at once, and main holds the one that does, but for the launch and the stop
\* (launcher.start refuses a taken port; serve_one and main stop before the next point).
OneServer ==
  \A s \in Points :
    server[s] \in {"starting", "up"} =>
      /\ \A q \in Points : server[q] \in {"starting", "up"} => q = s
      /\ handle = s \/ raised \/ (pc \in {"follow", "identify"} /\ cur = s)

\* A point that was opened has its run.json when the run ends, however it ends (run_one's writer.fail).
OutcomeRecorded == pc = "ended" => \A p \in Points : dirs[p] # "open"

\* When the run has ended, in whatever way, every server has been told to stop but one whose launch was left before
\* there was a Handle (serve_one, main's finally, start's except clauses).
NoServerLeft ==
  pc = "ended" => \A s \in Points : server[s] \in {"starting", "up"} => s \in lost

\* The types, one server at a time, an outcome for every point, and no server left by a launch that got to its Handle.
Inv == TypeOK /\ OneServer /\ OutcomeRecorded /\ NoServerLeft

\* Every server the run started has been told to stop too ("stop it with its children", launcher.py:1; "never raises",
\* launcher.py:245, of the step between the two).
NoStartedServerLeft ==
  pc = "ended" => \A s \in Points : server[s] \in {"none", "signalled", "dead"}

\* A point's numbers come from a server launched with its own config by this run, from the one it was told to attach
\* to, or from an engine of its own, as its mode asks; never under the pins of another config; and on a server this
\* run started no earlier point's requests are in the prefix cache (the launch token, reuse_groups,
\* mode.reset_prefix_cache, refuse_mixed_in_process, env_drop).
MeasuresItsOwn ==
  \A p \in Points : \A m \in measured[p] :
    /\ m.ran = {Pins(p)}
    /\ CASE InProcess(p) \/ Kind(p) = "bench" -> m.by = None
         [] ~InProcess(p) /\ Kind(p) = "attach" -> m.by = Foreign
         [] ~InProcess(p) /\ Kind(p) \in {"start", "docker"} ->
              m.by \in Points /\ Config(m.by) = Config(p) /\ m.left = {}

\* Without --overwrite no run is lost but one whose run.json says failed, and what qbench did not write is never
\* touched (clear_run_dir; README.md, qbench run).
OldRunsKept ==
  [][\A p \in Points :
       dirs[p] = "other" \/ (dirs[p] = "run" /\ ~overwrite) => dirs'[p] = dirs[p]]_vars

===============================================================================
