---------------------------- MODULE RunMatrixProofs ----------------------------
(***************************************************************************)
(* Proofs about RunMatrix, for every number of points, every matrix of     *)
(* configs, kinds and pins, and any number of exceptions.                  *)
(***************************************************************************)
EXTENDS RunMatrix, FiniteSetTheorems, TLAPS

\* The places of main: before any point, a server being launched, in a point, and anywhere from its dir to its end.
Early == {"check", "clear", "group"}
Launching == {"start", "follow", "identify", "health"}
InPoint == {"prepare", "attach", "measure"} \cup Launching
Working == {"open", "stop", "reap", "fail", "done"} \cup InPoint

\* A server that runs; a point that is served by one main starts.
Running(s) == server[s] \in {"starting", "up"}
Serves(p) == Kind(p) \in {"start", "docker"}

\* Dirs are emptied before the first point; each point before the one main is at has its outcome, each after it is empty.
DirsInv ==
  /\ pc \in Early => \A p \in Points : dirs[p] # "open"
  /\ pc \in {"check", "group"} => cur = 1
  /\ pc = "clear" => \A p \in Points : p < cur => dirs[p] = "none"
  /\ pc = "group" => \A p \in Points : dirs[p] = "none"
  /\ pc = "open" => dirs[cur] = "none"
  /\ pc \in Working => \A p \in Points : (cur < p => dirs[p] = "none") /\ (p < cur => dirs[p] # "open")
  /\ pc \in InPoint => dirs[cur] = "open"
  /\ pc \in {"stop", "reap"} /\ dirs[cur] = "open" => raised
  /\ pc = "done" => dirs[cur] # "open"
  /\ pc = "ended" => \A p \in Points : dirs[p] # "open"

\* Where an exception can be on its way up, and what main checked of the matrix by then.
FlowInv ==
  /\ raised => pc \in {"stop", "reap", "fail", "done", "ended"}
  /\ pc = "fail" => raised
  /\ lost # {} => raised
  /\ pc \in Working => Unreset = {}
  /\ pc \notin {"check", "ended"} => ~Mixed

\* Whose server main holds.
HandleInv ==
  /\ pc \in {"start", "follow", "identify", "attach", "ended"} \cup Early => handle = None
  /\ pc \in Launching => Serves(cur) /\ ~InProcess(cur)
  /\ pc = "attach" => Kind(cur) = "attach" /\ ~InProcess(cur)
  /\ pc = "health" => handle = cur
  /\ pc \in {"stop", "reap"} => handle # None
  /\ handle # None =>
       /\ handle <= cur /\ Config(handle) = Config(cur) /\ Serves(cur)
       /\ handle < cur => Follows(cur)
       /\ pc \in {"open", "prepare", "fail"} \/ (pc = "done" /\ raised) => handle < cur
       /\ pc = "done" => Follows(cur) \/ Keeps(cur)
  /\ pc = "measure" => handle # None \/ InProcess(cur) \/ ~Serves(cur)

\* At most one server runs, and someone answers for it.
ServersInv ==
  /\ \A q, s \in Points : Running(q) /\ Running(s) => q = s
  /\ \A s \in Points : Running(s) => handle = s \/ s \in lost \/ (pc \in {"follow", "identify"} /\ cur = s)
  /\ pc = "reap" => ~Running(handle)
  /\ port \in Points => server[port] # "starting"
  /\ ~raised /\ handle # None /\ pc # "health" => server[handle] # "starting" /\ port \in {handle, None}

\* The pins a server or an engine of this process runs under, and the cache of a server just started.
PinsInv ==
  /\ env = exported /\ env \subseteq {Pins(q) : q \in Here}
  /\ pc = "measure" /\ InProcess(cur) => Pins(cur) \in env
  /\ pc \in {"follow", "identify"} => ran[cur] = {Pins(cur)}
  /\ handle # None => ran[handle] = {Pins(handle)}
  /\ pc \in {"follow", "identify", "health"} \/ (pc = "measure" /\ handle = cur) => cache = {}

\* What a point measured: its own engine or server, under its own pins, with no earlier point in the cache.
Own(p, m) ==
  /\ m.ran = {Pins(p)}
  /\ InProcess(p) \/ Kind(p) = "bench" => m.by = None
  /\ ~InProcess(p) /\ Kind(p) = "attach" => m.by = Foreign
  /\ ~InProcess(p) /\ Serves(p) => m.by \in Points /\ Config(m.by) = Config(p) /\ m.left = {}

\* What every point measured so far.
OwnInv == \A p \in Points : (Kind(p) = "probe" => measured[p] = {}) /\ \A m \in measured[p] : Own(p, m)

\* The inductive invariant.
IInv == TypeOK /\ DirsInv /\ FlowInv /\ HandleInv /\ ServersInv /\ PinsInv /\ OwnInv

\* What is constant of a point: its config, kind and pins.
LEMMA PointIs ==
  ASSUME TypeOK, NEW p \in Points
  PROVE  Config(p) \in Configs /\ Kind(p) \in Kinds /\ Pins(p) \in PinSets /\ p \in Nat \ {0} /\ p \in 1 .. NP
BY MatricesAssumption, PointsAssumption DEF TypeOK, Config, Kind, Pins, Points

\* Before main's first step nothing was opened, started or measured.
LEMMA InitIInv == Init => IInv
<1> SUFFICES ASSUME Init PROVE IInv
  OBVIOUS
<1>1. 1 \in Points /\ None \notin Points /\ Foreign \notin Points /\ \A p \in Points : ~(p < 1)
  BY PointsAssumption DEF Points, None, Foreign
<1>2. TypeOK
  <2>1. measured \in [Points -> SUBSET [by : Points \cup {None, Foreign}, ran : SUBSET PinSets, left : SUBSET Points]]
    BY DEF Init
  <2>2. faults \in 0 .. MaxFaults
    BY PointsAssumption DEF Init
  <2>3. dirs \in [Points -> Dirs]
    BY DEF Init, Dirs
  <2>4. QED
    BY <1>1, <2>1, <2>2, <2>3 DEF Init, TypeOK
<1>3. DirsInv /\ FlowInv /\ HandleInv /\ ServersInv /\ PinsInv
  BY <1>1 DEF Init, TypeOK, DirsInv, FlowInv, HandleInv, ServersInv, PinsInv, Early, Launching, InPoint, Working, Running,
              None, Foreign
<1>4. OwnInv
  BY DEF Init, OwnInv
<1>5. QED
  BY <1>2, <1>3, <1>4 DEF IInv

-------------------------------------------------------------------------------
(* Types. *)

\* What a measurement records has its type.
LEMMA MeasuresType ==
  ASSUME TypeOK, NEW status \in Dirs, Measures(status)
  PROVE  /\ measured' \in [Points -> SUBSET [by : Points \cup {None, Foreign}, ran : SUBSET PinSets, left : SUBSET Points]]
         /\ cache' \subseteq Points /\ dirs' \in [Points -> Dirs]
<1>1. cur \in Points /\ Pins(cur) \in PinSets
  BY PointIs DEF TypeOK
<1>2. OwnEngine(cur) \in [by : Points \cup {None, Foreign}, ran : SUBSET PinSets, left : SUBSET Points]
  BY <1>1 DEF OwnEngine, Inherited, TypeOK
<1>3. Met(cur) \in [by : Points \cup {None, Foreign}, ran : SUBSET PinSets, left : SUBSET Points]
  BY <1>1 DEF Met, RanBy, TypeOK
<1>4. QED
  BY <1>1, <1>2, <1>3 DEF Measures, TypeOK

\* An exception is one of the bound's.
LEMMA FaultsBounded ==
  ASSUME TypeOK, Fault
  PROVE  faults' \in 0 .. MaxFaults
BY PointsAssumption DEF Fault, TypeOK

LEMMA NextType == TypeOK /\ [Next]_vars => TypeOK'
<1> SUFFICES ASSUME TypeOK, [Next]_vars PROVE TypeOK'
  OBVIOUS
<1> USE DEF vars, args, servers, exports, held, Raise
<1>1. cur \in Points /\ Pins(cur) \in PinSets /\ (cur < NP \/ cur # NP => cur + 1 \in Points) /\ 1 \in Points
  BY PointIs, PointsAssumption DEF TypeOK, Points
<1>2. CASE RefuseMixed \/ Agree \/ RefuseGroups \/ FormGroups
  BY <1>2 DEF RefuseMixed, Agree, RefuseGroups, FormGroups, TypeOK
<1>3. CASE ClearRunDir \/ RefuseRunDir
  BY <1>1, <1>3 DEF ClearRunDir, RefuseRunDir, NextPoint, TypeOK, Dirs
<1>4. CASE OpenWriter \/ OpenRaises
  BY <1>1, <1>4, FaultsBounded DEF OpenWriter, OpenRaises, TypeOK, Dirs
<1>5. CASE Prepare \/ PrepareRaises \/ Attach
  BY <1>1, <1>5, FaultsBounded DEF Prepare, PrepareRaises, AfterPrepare, Attach, TypeOK
<1>6. CASE Start \/ StartRefused \/ LaunchFails \/ DockerRunInterrupted
  <2>1. {Pins(cur)} \cup Inherited(cur) \in SUBSET PinSets
    BY <1>1 DEF Inherited, TypeOK
  <2>2. Runs(cur) => /\ server' \in [Points -> {"none", "starting", "up", "signalled", "dead"}]
                     /\ ran' \in [Points -> SUBSET PinSets] /\ cache' \subseteq Points
    BY <2>1 DEF Runs, TypeOK
  <2>3. QED
    BY <1>1, <1>6, <2>2, FaultsBounded DEF Start, StartRefused, LaunchFails, DockerRunInterrupted, TypeOK
<1>7. CASE Follow \/ FollowFails \/ Identify \/ IdentifyFails
  BY <1>1, <1>7, FaultsBounded DEF Follow, FollowFails, FreePort, Identify, IdentifyFails, TypeOK
<1>8. CASE Healthy \/ Unhealthy
  BY <1>8, FaultsBounded DEF Healthy, Unhealthy, TypeOK
<1>9. CASE Measure
  BY <1>9, MeasuresType DEF Measure, AfterMeasure, Dirs, TypeOK
<1>10. CASE MeasureExits
  BY <1>10, MeasuresType, FaultsBounded DEF MeasureExits, AfterMeasure, Dirs, TypeOK
<1>11. CASE MeasureRaises
  BY <1>11, FaultsBounded DEF MeasureRaises, AfterMeasure, TypeOK
<1>12. CASE Stop \/ Reap \/ ReapInterrupted
  BY <1>12, FaultsBounded DEF Stop, Reap, ReapInterrupted, FreePort, AfterStop, TypeOK
<1>13. CASE Fail \/ PointDone
  <2>1. CASE Fail
    BY <2>1 DEF Fail, TypeOK, Dirs
  <2>2. CASE PointDone
    BY <1>1, <2>2 DEF PointDone, TypeOK
  <2>3. QED
    BY <1>13, <2>1, <2>2
<1>14. CASE ForeignBinds \/ \E s \in Points : Binds(s) \/ Exits(s)
  BY <1>14, FaultsBounded DEF ForeignBinds, Binds, Exits, FreePort, TypeOK
<1>15. CASE UNCHANGED vars
  BY <1>15 DEF TypeOK
<1>16. QED
  BY <1>2, <1>3, <1>4, <1>5, <1>6, <1>7, <1>8, <1>9, <1>10, <1>11, <1>12, <1>13, <1>14, <1>15 DEF Next, Ended

-------------------------------------------------------------------------------
(* Dirs. *)

\* A dir is open from its point's first step to its last.
LEMMA NextDirs == IInv /\ [Next]_vars => DirsInv'
<1> SUFFICES ASSUME IInv, [Next]_vars PROVE DirsInv'
  OBVIOUS
<1> USE DEF vars, args, servers, exports, held, Raise, Early, Launching, InPoint, Working
<1>1. /\ cur \in Nat /\ NP \in Nat /\ cur \in 1 .. NP /\ \A p \in Points : p \in Nat /\ p \in 1 .. NP
      /\ dirs \in [Points -> Dirs] /\ cur \in Points /\ raised \in BOOLEAN
  BY PointIs, PointsAssumption DEF IInv, TypeOK, Points
<1>2. DirsInv
  BY DEF IInv
<1>3. CASE RefuseMixed \/ Agree \/ RefuseGroups \/ FormGroups
  BY <1>1, <1>2, <1>3 DEF RefuseMixed, Agree, RefuseGroups, FormGroups, DirsInv
<1>4. CASE ClearRunDir \/ RefuseRunDir
  BY <1>1, <1>2, <1>4 DEF ClearRunDir, RefuseRunDir, NextPoint, DirsInv
<1>5. CASE OpenWriter \/ OpenRaises
  BY <1>1, <1>2, <1>5 DEF OpenWriter, OpenRaises, DirsInv
<1>6. CASE Prepare \/ PrepareRaises \/ Attach
  BY <1>1, <1>2, <1>6 DEF Prepare, PrepareRaises, AfterPrepare, Attach, DirsInv
<1>7. CASE Start \/ StartRefused \/ LaunchFails \/ DockerRunInterrupted
  BY <1>1, <1>2, <1>7 DEF Start, StartRefused, LaunchFails, DockerRunInterrupted, DirsInv
<1>8. CASE Follow \/ FollowFails \/ Identify \/ IdentifyFails
  BY <1>1, <1>2, <1>8 DEF Follow, FollowFails, Identify, IdentifyFails, DirsInv
<1>9. CASE Healthy \/ Unhealthy
  BY <1>1, <1>2, <1>9 DEF Healthy, Unhealthy, DirsInv
<1>10. CASE Measure
  BY <1>1, <1>2, <1>10 DEF Measure, Measures, AfterMeasure, DirsInv
<1>11. CASE MeasureExits
  BY <1>1, <1>2, <1>11 DEF MeasureExits, Measures, AfterMeasure, DirsInv
<1>12. CASE MeasureRaises
  BY <1>1, <1>2, <1>12 DEF MeasureRaises, AfterMeasure, DirsInv
<1>13. CASE Stop \/ Reap \/ ReapInterrupted
  BY <1>1, <1>2, <1>13 DEF Stop, Reap, ReapInterrupted, AfterStop, DirsInv
<1>14. CASE Fail
  BY <1>1, <1>2, <1>14 DEF Fail, DirsInv
<1>15. CASE PointDone
  <2>1. /\ \A p \in Points : (cur < p => dirs[p] = "none") /\ (p < cur => dirs[p] # "open")
        /\ dirs[cur] # "open" /\ UNCHANGED <<dirs, raised>>
    BY <1>2, <1>15 DEF PointDone, DirsInv
  <2>2. \A p \in Points : dirs[p] # "open"
    <3>1. \A p \in Points : p < cur \/ p = cur \/ cur < p
      BY <1>1
    <3>2. QED
      BY <2>1, <3>1
  <2>3. CASE pc' = "open" /\ cur' = cur + 1 /\ cur # NP
    <3>1. cur + 1 \in Points /\ cur < cur + 1 /\ \A p \in Points : cur + 1 < p => cur < p
      BY <1>1, <2>3 DEF Points
    <3>2. dirs[cur + 1] = "none" /\ \A p \in Points : cur + 1 < p => dirs[p] = "none"
      BY <2>1, <3>1
    <3>3. QED
      BY <2>1, <2>2, <2>3, <3>2 DEF DirsInv
  <2>4. CASE pc' \in {"stop", "ended"} /\ cur' = cur
    BY <2>1, <2>2, <2>4 DEF DirsInv
  <2>5. QED
    BY <1>15, <2>3, <2>4 DEF PointDone
<1>16. CASE ForeignBinds \/ \E s \in Points : Binds(s) \/ Exits(s)
  BY <1>1, <1>2, <1>16 DEF ForeignBinds, Binds, Exits, DirsInv
<1>17. CASE UNCHANGED vars
  BY <1>2, <1>17 DEF DirsInv
<1>18. QED
  BY <1>3, <1>4, <1>5, <1>6, <1>7, <1>8, <1>9, <1>10, <1>11, <1>12, <1>13, <1>14, <1>15, <1>16, <1>17 DEF Next, Ended

-------------------------------------------------------------------------------
(* The flow of an exception. *)

\* What main checked of the matrix stays so: the matrix does not change.
LEMMA MatrixStays ==
  ASSUME UNCHANGED args
  PROVE  /\ Mixed' = Mixed /\ Unreset' = Unreset
         /\ \A p \in Points : /\ Config(p)' = Config(p) /\ Kind(p)' = Kind(p) /\ Pins(p)' = Pins(p)
                              /\ (InProcess(p)' <=> InProcess(p)) /\ (Follows(p)' <=> Follows(p))
                              /\ (Keeps(p)' <=> Keeps(p)) /\ (Serves(p)' <=> Serves(p))
BY DEF args, Mixed, Here, Unreset, Config, Kind, Pins, InProcess, Follows, Keeps, Serves

\* The matrix is what it was.
LEMMA NextArgs == [Next]_vars => UNCHANGED args
BY DEF Next, vars, Ended, RefuseMixed, Agree, RefuseGroups, FormGroups, ClearRunDir, RefuseRunDir, OpenWriter, OpenRaises,
       Prepare, PrepareRaises, Attach, Start, StartRefused, LaunchFails, DockerRunInterrupted, Follow, FollowFails, Identify,
       IdentifyFails, Healthy, Unhealthy, Measure, MeasureExits, MeasureRaises, Stop, Reap, ReapInterrupted, Fail, PointDone,
       ForeignBinds, Binds, Exits

\* Exceptions go up to serve_one's or run_one's handler and no further point begins.
LEMMA NextFlow == IInv /\ [Next]_vars => FlowInv'
<1> SUFFICES ASSUME IInv, [Next]_vars PROVE FlowInv'
  OBVIOUS
<1> USE DEF vars, servers, exports, held, Raise, Early, Launching, InPoint, Working
<1>1. Mixed' = Mixed /\ Unreset' = Unreset /\ FlowInv /\ raised \in BOOLEAN
  BY MatrixStays, NextArgs DEF IInv, TypeOK
<1>2. CASE RefuseMixed \/ Agree \/ RefuseGroups \/ FormGroups
  BY <1>1, <1>2 DEF RefuseMixed, Agree, RefuseGroups, FormGroups, FlowInv
<1>3. CASE ClearRunDir \/ RefuseRunDir \/ OpenWriter \/ OpenRaises
  BY <1>1, <1>3 DEF ClearRunDir, RefuseRunDir, NextPoint, OpenWriter, OpenRaises, FlowInv
<1>4. CASE Prepare \/ PrepareRaises \/ Attach
  BY <1>1, <1>4 DEF Prepare, PrepareRaises, AfterPrepare, Attach, FlowInv
<1>5. CASE Start \/ StartRefused \/ LaunchFails \/ DockerRunInterrupted
  BY <1>1, <1>5 DEF Start, StartRefused, LaunchFails, DockerRunInterrupted, FlowInv
<1>6. CASE Follow \/ FollowFails \/ Identify \/ IdentifyFails \/ Healthy \/ Unhealthy
  BY <1>1, <1>6 DEF Follow, FollowFails, Identify, IdentifyFails, Healthy, Unhealthy, FlowInv
<1>7. CASE Measure \/ MeasureExits \/ MeasureRaises
  BY <1>1, <1>7 DEF Measure, MeasureExits, MeasureRaises, AfterMeasure, FlowInv
<1>8. CASE Stop \/ Reap \/ ReapInterrupted
  BY <1>1, <1>8 DEF Stop, Reap, ReapInterrupted, AfterStop, FlowInv
<1>9. CASE Fail \/ PointDone
  BY <1>1, <1>9 DEF Fail, PointDone, FlowInv
<1>10. CASE ForeignBinds \/ \E s \in Points : Binds(s) \/ Exits(s)
  BY <1>1, <1>10 DEF ForeignBinds, Binds, Exits, FlowInv
<1>11. CASE UNCHANGED vars
  BY <1>1, <1>11 DEF FlowInv
<1>12. QED
  BY <1>2, <1>3, <1>4, <1>5, <1>6, <1>7, <1>8, <1>9, <1>10, <1>11 DEF Next, Ended

-------------------------------------------------------------------------------
(* The Handle. *)

\* A point that follows has the config of the point before it.
LEMMA FollowsConfig ==
  ASSUME NEW p \in Points, Follows(p)
  PROVE  p > 1 /\ Config(p) = Config(p - 1)
BY DEF Follows

\* The handle is the point's own, or one kept for it by a point of its config.
LEMMA NextHandle == IInv /\ [Next]_vars => HandleInv'
<1> SUFFICES ASSUME IInv, [Next]_vars PROVE HandleInv'
  OBVIOUS
<1> USE DEF vars, servers, exports, held, Raise, Early, Launching, InPoint, Working
<1>1. /\ cur \in Nat /\ NP \in Nat /\ cur \in 1 .. NP /\ cur \in Points /\ raised \in BOOLEAN
      /\ handle \in Points \cup {None} /\ None \notin Points /\ \A p \in Points : p \in Nat /\ p \in 1 .. NP
  BY PointIs, PointsAssumption DEF IInv, TypeOK, Points, None
<1>2. HandleInv /\ FlowInv
  BY DEF IInv
<1>3. /\ \A p \in Points : /\ Config(p)' = Config(p) /\ Kind(p)' = Kind(p)
                           /\ (InProcess(p)' <=> InProcess(p)) /\ (Follows(p)' <=> Follows(p))
                           /\ (Keeps(p)' <=> Keeps(p)) /\ (Serves(p)' <=> Serves(p))
  BY MatrixStays, NextArgs
<1>4. CASE RefuseMixed \/ Agree \/ RefuseGroups \/ FormGroups \/ ClearRunDir \/ RefuseRunDir
  BY <1>1, <1>2, <1>4
  DEF RefuseMixed, Agree, RefuseGroups, FormGroups, ClearRunDir, RefuseRunDir, NextPoint, HandleInv
<1>5. CASE OpenWriter \/ OpenRaises
  BY <1>1, <1>2, <1>3, <1>5 DEF OpenWriter, OpenRaises, HandleInv
<1>6. CASE Prepare
  <2>1. Kind(cur) \in Kinds /\ (Follows(cur) => cur > 1)
    BY <1>1, PointIs, FollowsConfig DEF IInv
  <2>2. \/ pc' = "measure" /\ (Shared(cur) \/ InProcess(cur) \/ Kind(cur) \in {"probe", "bench"})
        \/ pc' = "attach" /\ Kind(cur) = "attach" /\ ~Shared(cur) /\ ~InProcess(cur)
        \/ pc' = "start" /\ Serves(cur) /\ ~Shared(cur) /\ ~InProcess(cur)
    BY <1>6, <2>1 DEF Prepare, AfterPrepare, Kinds, Serves
  <2>3. handle # None => Shared(cur)
    BY <1>2, <1>6 DEF Prepare, HandleInv, Shared
  <2>4. UNCHANGED <<cur, handle, raised>>
    BY <1>6 DEF Prepare
  <2>5. ~Serves(cur) <=> Kind(cur) \in {"probe", "bench", "attach"}
    BY <2>1 DEF Serves, Kinds
  <2>6. Shared(cur) => handle # None
    BY DEF Shared
  <2>7. QED
    BY <1>1, <1>2, <1>3, <1>6, <2>2, <2>3, <2>4, <2>5, <2>6 DEF HandleInv, Prepare
<1>7. CASE PrepareRaises \/ Attach
  BY <1>1, <1>2, <1>3, <1>7 DEF PrepareRaises, Attach, HandleInv, Serves
<1>8. CASE Start \/ StartRefused \/ LaunchFails \/ DockerRunInterrupted
  BY <1>1, <1>2, <1>3, <1>8 DEF Start, StartRefused, LaunchFails, DockerRunInterrupted, HandleInv
<1>9. CASE Follow \/ FollowFails \/ Identify \/ IdentifyFails
  BY <1>1, <1>2, <1>3, <1>9 DEF Follow, FollowFails, Identify, IdentifyFails, HandleInv
<1>10. CASE Healthy \/ Unhealthy
  BY <1>1, <1>2, <1>3, <1>10 DEF Healthy, Unhealthy, HandleInv
<1>11. CASE Measure
  BY <1>1, <1>2, <1>3, <1>11 DEF Measure, AfterMeasure, HandleInv, FlowInv
<1>12. CASE MeasureExits \/ MeasureRaises
  BY <1>1, <1>2, <1>3, <1>12 DEF MeasureExits, MeasureRaises, AfterMeasure, HandleInv
<1>13. CASE Stop \/ Reap \/ ReapInterrupted
  BY <1>1, <1>2, <1>3, <1>13 DEF Stop, Reap, ReapInterrupted, AfterStop, HandleInv
<1>14. CASE Fail
  BY <1>1, <1>2, <1>3, <1>14 DEF Fail, HandleInv, FlowInv
<1>15. CASE PointDone
  <2>1. UNCHANGED <<handle, raised>> /\ pc = "done"
    BY <1>15 DEF PointDone
  <2>2. CASE pc' = "stop" /\ cur' = cur /\ handle # None
    BY <1>1, <1>2, <1>3, <2>1, <2>2 DEF HandleInv
  <2>3. CASE /\ pc' = "ended" /\ cur' = cur /\ (raised \/ cur = NP)
             /\ ~(handle # None /\ Follows(cur) /\ (raised \/ cur = NP \/ ~Follows(cur + 1)))
    <3>1. handle = None
      BY <1>1, <1>2, <2>1, <2>3 DEF HandleInv, Keeps
    <3>2. QED
      BY <1>1, <2>1, <2>3, <3>1 DEF HandleInv
  <2>4. CASE /\ pc' = "open" /\ cur' = cur + 1 /\ ~raised /\ cur # NP
             /\ ~(handle # None /\ Follows(cur) /\ (raised \/ cur = NP \/ ~Follows(cur + 1)))
    <3>1. cur + 1 \in Points /\ (cur + 1) - 1 = cur
      BY <1>1, <2>4 DEF Points
    <3>2. handle # None => handle <= cur /\ Follows(cur + 1) /\ Serves(cur) /\ Config(handle) = Config(cur)
      BY <1>1, <1>2, <2>1, <2>4 DEF HandleInv, Keeps
    <3>3. handle # None => Config(cur + 1) = Config(cur) /\ Serves(cur + 1)
      BY <3>1, <3>2, FollowsConfig DEF Serves, Kind
    <3>4. handle # None => handle < cur + 1 /\ handle <= cur + 1
      BY <1>1, <3>2
    <3>5. QED
      BY <1>1, <1>3, <2>1, <2>4, <3>1, <3>2, <3>3, <3>4 DEF HandleInv
  <2>5. QED
    BY <1>15, <2>2, <2>3, <2>4 DEF PointDone
<1>16. CASE ForeignBinds \/ \E s \in Points : Binds(s) \/ Exits(s)
  BY <1>1, <1>2, <1>3, <1>16 DEF ForeignBinds, Binds, Exits, HandleInv
<1>17. CASE UNCHANGED vars
  BY <1>1, <1>2, <1>3, <1>17 DEF HandleInv
<1>18. QED
  BY <1>4, <1>5, <1>6, <1>7, <1>8, <1>9, <1>10, <1>11, <1>12, <1>13, <1>14, <1>15, <1>16, <1>17 DEF Next, Ended

-------------------------------------------------------------------------------
(* The servers. *)

\* A server is started when none runs, and the handle is given up once it is told to stop.
LEMMA NextServers == IInv /\ [Next]_vars => ServersInv'
<1> SUFFICES ASSUME IInv, [Next]_vars PROVE ServersInv'
  OBVIOUS
<1> USE DEF vars, args, exports, held, Raise, Running, Early, Launching
<1>1. /\ cur \in Points /\ raised \in BOOLEAN /\ None \notin Points /\ Foreign \notin Points /\ Foreign # None
      /\ server \in [Points -> {"none", "starting", "up", "signalled", "dead"}] /\ lost \subseteq Points
      /\ handle \in Points \cup {None}
  BY PointsAssumption DEF IInv, TypeOK, Points, None, Foreign
<1>2. ServersInv /\ FlowInv /\ HandleInv
  BY DEF IInv
<1>3. CASE RefuseMixed \/ Agree \/ RefuseGroups \/ FormGroups \/ ClearRunDir \/ RefuseRunDir
  BY <1>1, <1>2, <1>3
  DEF RefuseMixed, Agree, RefuseGroups, FormGroups, ClearRunDir, RefuseRunDir, NextPoint, ServersInv, HandleInv, servers
<1>4. CASE OpenWriter \/ OpenRaises \/ Prepare \/ PrepareRaises \/ Attach
  BY <1>1, <1>2, <1>4 DEF OpenWriter, OpenRaises, Prepare, PrepareRaises, AfterPrepare, Attach, ServersInv, servers
<1>5. CASE Start
  BY <1>1, <1>2, <1>5 DEF Start, Runs, ServersInv, HandleInv, FlowInv
<1>6. CASE DockerRunInterrupted
  BY <1>1, <1>2, <1>6 DEF DockerRunInterrupted, Runs, ServersInv, HandleInv, FlowInv
<1>7. CASE StartRefused \/ LaunchFails
  BY <1>1, <1>2, <1>7 DEF StartRefused, LaunchFails, ServersInv, HandleInv, servers
<1>8. CASE Follow \/ FollowFails
  BY <1>1, <1>2, <1>8 DEF Follow, FollowFails, FreePort, ServersInv, HandleInv, servers
<1>9. CASE Identify \/ IdentifyFails
  BY <1>1, <1>2, <1>9 DEF Identify, IdentifyFails, ServersInv, HandleInv, servers
<1>10. CASE Healthy \/ Unhealthy
  BY <1>1, <1>2, <1>10 DEF Healthy, Unhealthy, ServersInv, HandleInv, servers
<1>11. CASE Measure \/ MeasureExits \/ MeasureRaises
  BY <1>1, <1>2, <1>11 DEF Measure, MeasureExits, MeasureRaises, AfterMeasure, ServersInv, servers
<1>12. CASE Stop
  BY <1>1, <1>2, <1>12 DEF Stop, ServersInv, HandleInv
<1>13. CASE Reap \/ ReapInterrupted
  BY <1>1, <1>2, <1>13 DEF Reap, ReapInterrupted, FreePort, AfterStop, ServersInv, HandleInv, servers
<1>14. CASE Fail \/ PointDone
  BY <1>1, <1>2, <1>14 DEF Fail, PointDone, ServersInv, servers
<1>15. CASE ForeignBinds
  BY <1>1, <1>2, <1>15 DEF ForeignBinds, ServersInv, FlowInv, HandleInv
<1>16. ASSUME NEW s \in Points, Binds(s)
       PROVE  ServersInv'
  BY <1>1, <1>2, <1>16 DEF Binds, ServersInv, FlowInv, HandleInv
<1>17. ASSUME NEW s \in Points, Exits(s)
       PROVE  ServersInv'
  BY <1>1, <1>2, <1>17 DEF Exits, FreePort, ServersInv
<1>18. CASE UNCHANGED vars
  BY <1>2, <1>18 DEF ServersInv, servers
<1>19. QED
  BY <1>3, <1>4, <1>5, <1>6, <1>7, <1>8, <1>9, <1>10, <1>11, <1>12, <1>13, <1>14, <1>15, <1>16, <1>17, <1>18 DEF Next, Ended

-------------------------------------------------------------------------------
(* Pins, environments and the prefix cache. *)

\* A matrix that is not refused has one set of pins for all points that run in this process.
LEMMA OnePinSet ==
  ASSUME ~Mixed, NEW p \in Here, NEW q \in Here
  PROVE  Pins(p) = Pins(q)
<1> DEFINE pins == {Pins(x) : x \in Here}
<1>1. IsFiniteSet(Points)
  BY PointsAssumption, FS_Interval DEF Points
<1>2. IsFiniteSet(Here)
  BY <1>1, FS_Subset DEF Here
<1>3. IsFiniteSet(pins)
  <2>1. [x \in Here |-> Pins(x)] \in Surjection(Here, pins)
    BY DEF Surjection
  <2>2. QED
    BY <1>2, <2>1, FS_Surjection
<1>4. Cardinality(pins) \in Nat /\ ~(Cardinality(pins) > 1)
  BY <1>3, FS_CardinalityType DEF Mixed
<1>5. SUFFICES ASSUME Pins(p) # Pins(q) PROVE FALSE
  OBVIOUS
<1>6. Cardinality({Pins(p), Pins(q)}) = 2 /\ {Pins(p), Pins(q)} \subseteq pins
  <2>1. Cardinality({Pins(p)}) = 1 /\ IsFiniteSet({Pins(p)})
    BY FS_Singleton
  <2>2. Cardinality({Pins(p)} \cup {Pins(q)}) = 2
    BY <1>5, <2>1, FS_AddElement
  <2>3. {Pins(p), Pins(q)} = {Pins(p)} \cup {Pins(q)}
    OBVIOUS
  <2>4. QED
    BY <2>2, <2>3
<1>7. Cardinality({Pins(p), Pins(q)}) <= Cardinality(pins)
  BY <1>3, <1>6, FS_Subset
<1>8. QED
  BY <1>4, <1>6, <1>7

\* A launch takes its pins with it, and an engine of this process adds its own.
LEMMA NextPins == IInv /\ [Next]_vars => PinsInv'
<1> SUFFICES ASSUME IInv, [Next]_vars PROVE PinsInv'
  OBVIOUS
<1> USE DEF vars, held, Raise
<1>1. /\ cur \in Points /\ raised \in BOOLEAN /\ None \notin Points
      /\ ran \in [Points -> SUBSET PinSets] /\ handle \in Points \cup {None}
  BY PointsAssumption DEF IInv, TypeOK, Points, None
<1>2. PinsInv /\ FlowInv /\ HandleInv
  BY DEF IInv
<1>3. /\ \A p \in Points : Pins(p)' = Pins(p) /\ (InProcess(p)' <=> InProcess(p))
      /\ Here' = Here /\ {Pins(q)' : q \in Here'} = {Pins(q) : q \in Here}
  BY NextArgs DEF args, Pins, InProcess, Here, Kind, Config
<1>4. \A p \in Points : Inherited(p) = {}
  BY <1>2 DEF PinsInv, Inherited
<1>5. CASE RefuseMixed \/ Agree \/ RefuseGroups \/ FormGroups \/ ClearRunDir \/ RefuseRunDir
  BY <1>1, <1>2, <1>3, <1>5
  DEF RefuseMixed, Agree, RefuseGroups, FormGroups, ClearRunDir, RefuseRunDir, NextPoint, PinsInv, HandleInv, servers, exports,
      Early
<1>6. CASE OpenWriter \/ OpenRaises \/ PrepareRaises
  BY <1>1, <1>2, <1>3, <1>6 DEF OpenWriter, OpenRaises, PrepareRaises, PinsInv, servers, exports
<1>7. CASE Prepare
  <2>1. env' = exported' /\ env' \subseteq {Pins(q) : q \in Here} /\ (InProcess(cur) => Pins(cur) \in env')
    BY <1>1, <1>2, <1>7 DEF Prepare, PinsInv, exports, InProcess, Here
  <2>2. pc' \notin {"follow", "identify", "health"} /\ UNCHANGED <<cur, handle, ran>>
    BY <1>7 DEF Prepare, AfterPrepare, servers
  <2>3. handle # cur
    BY <1>1, <1>2, <1>7, PointIs DEF Prepare, HandleInv, IInv, None
  <2>4. QED
    BY <1>1, <1>2, <1>3, <2>1, <2>2, <2>3 DEF PinsInv
<1>8. CASE Attach
  BY <1>1, <1>2, <1>3, <1>8 DEF Attach, PinsInv, HandleInv, servers, exports
<1>9. CASE Start \/ DockerRunInterrupted
  BY <1>1, <1>2, <1>3, <1>4, <1>9 DEF Start, DockerRunInterrupted, Runs, PinsInv, HandleInv, Launching, exports
<1>10. CASE StartRefused \/ LaunchFails
  BY <1>1, <1>2, <1>3, <1>10 DEF StartRefused, LaunchFails, PinsInv, servers, exports
<1>11. CASE Follow \/ FollowFails \/ Identify \/ IdentifyFails
  BY <1>1, <1>2, <1>3, <1>11 DEF Follow, FollowFails, Identify, IdentifyFails, PinsInv, servers, exports
<1>12. CASE Healthy \/ Unhealthy
  BY <1>1, <1>2, <1>3, <1>12 DEF Healthy, Unhealthy, PinsInv, HandleInv, Launching, servers, exports
<1>13. CASE Measure \/ MeasureExits \/ MeasureRaises
  BY <1>1, <1>2, <1>3, <1>13 DEF Measure, MeasureExits, MeasureRaises, AfterMeasure, PinsInv, servers, exports
<1>14. CASE Stop \/ Reap \/ ReapInterrupted
  BY <1>1, <1>2, <1>3, <1>14 DEF Stop, Reap, ReapInterrupted, AfterStop, PinsInv, servers, exports
<1>15. CASE Fail \/ PointDone
  BY <1>1, <1>2, <1>3, <1>15 DEF Fail, PointDone, PinsInv, servers, exports
<1>16. CASE ForeignBinds \/ \E s \in Points : Binds(s) \/ Exits(s)
  BY <1>1, <1>2, <1>3, <1>16 DEF ForeignBinds, Binds, Exits, PinsInv, exports
<1>17. CASE UNCHANGED vars
  <2>1. UNCHANGED <<env, exported, pc, cur, handle, ran, cache>>
    BY <1>17 DEF servers, exports
  <2>2. QED
    BY <1>1, <1>2, <1>3, <2>1 DEF PinsInv
<1>18. QED
  BY <1>5, <1>6, <1>7, <1>8, <1>9, <1>10, <1>11, <1>12, <1>13, <1>14, <1>15, <1>16, <1>17 DEF Next, Ended

-------------------------------------------------------------------------------
(* What the points measure. *)

\* A measurement is of the point's own engine or server, under its own pins.
LEMMA MeasuresOwn ==
  ASSUME IInv, pc = "measure", Reached, Kind(cur) # "probe"
  PROVE  Own(cur, IF HasOwnEngine THEN OwnEngine(cur) ELSE Met(cur))
<1>1. /\ cur \in Points /\ None \notin Points /\ Foreign \notin Points /\ Foreign # None
      /\ handle \in Points \cup {None} /\ Kind(cur) \in Kinds /\ port \in Points \cup {None, Foreign}
      /\ ~raised /\ raised \in BOOLEAN /\ ~Mixed /\ Unreset = {} /\ cur \in Nat
      /\ \A p \in Points : p \in Nat
  BY PointIs, PointsAssumption DEF IInv, TypeOK, FlowInv, Points, None, Foreign, Working, InPoint
<1>2. PinsInv /\ HandleInv /\ ServersInv
  BY DEF IInv
<1>3. CASE HasOwnEngine
  <2>1. OwnEngine(cur).by = None /\ OwnEngine(cur).ran = IF InProcess(cur) THEN env ELSE {Pins(cur)} \cup Inherited(cur)
    BY DEF OwnEngine
  <2>2. Inherited(cur) = {}
    BY <1>2 DEF PinsInv, Inherited
  <2>3. InProcess(cur) => env = {Pins(cur)}
    <3> SUFFICES ASSUME InProcess(cur) PROVE env = {Pins(cur)}
      OBVIOUS
    <3>1. cur \in Here /\ Pins(cur) \in env /\ env \subseteq {Pins(q) : q \in Here}
      BY <1>1, <1>2 DEF PinsInv, Here
    <3>2. \A q \in Here : Pins(q) = Pins(cur)
      BY <1>1, <3>1, OnePinSet
    <3>3. QED
      BY <3>1, <3>2
  <2>4. InProcess(cur) \/ Kind(cur) = "bench"
    BY <1>3 DEF HasOwnEngine
  <2>5. QED
    BY <1>3, <2>1, <2>2, <2>3, <2>4 DEF Serves, Own
<1>4. CASE ~HasOwnEngine
  <2>1. /\ port \in {handle, Foreign} /\ port # None /\ ~InProcess(cur) /\ Kind(cur) \notin {"bench", "probe"}
    BY <1>4 DEF Reached, HasOwnEngine, Answers
  <2>2. Met(cur).by = port /\ Met(cur).ran = RanBy(cur) /\ Met(cur).left = IF cur \in matrix.resets THEN {} ELSE cache \ {cur}
    BY DEF Met
  <2>3. CASE Serves(cur)
    <3>1. handle # None /\ handle \in Points /\ port = handle /\ Config(handle) = Config(cur)
      BY <1>1, <1>2, <2>1, <2>3 DEF HandleInv, ServersInv
    <3>2. RanBy(cur) = {Pins(cur)}
      BY <1>2, <3>1 DEF RanBy, PinsInv, Pins
    <3>3. cur \notin matrix.resets => cache = {}
      <4> SUFFICES ASSUME cur \notin matrix.resets PROVE cache = {}
        OBVIOUS
      <4>1. ~Follows(cur)
        BY <1>1 DEF Unreset
      <4>2. handle = cur
        BY <1>1, <1>2, <3>1, <4>1 DEF HandleInv
      <4>3. QED
        BY <1>2, <4>2 DEF PinsInv
    <3>4. QED
      BY <1>4, <2>1, <2>2, <2>3, <3>1, <3>2, <3>3 DEF Serves, Own
  <2>4. CASE ~Serves(cur)
    <3>1. Kind(cur) = "attach" /\ handle = None
      BY <1>1, <1>2, <2>1, <2>4 DEF Serves, Kinds, HandleInv
    <3>2. port = Foreign /\ RanBy(cur) = {Pins(cur)}
      BY <1>1, <2>1, <3>1 DEF RanBy
    <3>3. QED
      BY <1>4, <2>1, <2>2, <3>1, <3>2 DEF Serves, Own
  <2>5. QED
    BY <2>3, <2>4
<1>5. QED
  BY <1>3, <1>4

\* A measurement is added by its own point only.
LEMMA NextOwn == IInv /\ [Next]_vars => OwnInv'
<1> SUFFICES ASSUME IInv, [Next]_vars PROVE OwnInv'
  OBVIOUS
<1>1. /\ \A p \in Points : /\ Config(p)' = Config(p) /\ Kind(p)' = Kind(p) /\ Pins(p)' = Pins(p)
                           /\ (InProcess(p)' <=> InProcess(p)) /\ (Serves(p)' <=> Serves(p))
  BY MatrixStays, NextArgs
<1>2. OwnInv /\ cur \in Points /\ measured \in [Points -> SUBSET [by : Points \cup {None, Foreign}, ran : SUBSET PinSets, left : SUBSET Points]]
  BY DEF IInv, TypeOK
<1>3. \A m : m.by \in Points => Config(m.by)' = Config(m.by)
  BY <1>1
<1>4. ASSUME NEW p \in Points, UNCHANGED measured
      PROVE  (Kind(p)' = "probe" => measured'[p] = {}) /\ \A m \in measured'[p] : Own(p, m)'
  BY <1>1, <1>2, <1>3, <1>4 DEF OwnInv, Own
<1>5. ASSUME NEW status, pc = "measure", Reached, Measures(status), NEW p \in Points
      PROVE  (Kind(p)' = "probe" => measured'[p] = {}) /\ \A m \in measured'[p] : Own(p, m)'
  <2>1. CASE p # cur
    BY <1>1, <1>2, <1>3, <1>5, <2>1 DEF OwnInv, Own, Measures
  <2>2. CASE p = cur /\ Kind(cur) = "probe"
    BY <1>1, <1>2, <1>5, <2>2 DEF Measures
  <2>3. CASE p = cur /\ Kind(cur) # "probe"
    <3>1. PICK met : met = IF HasOwnEngine THEN OwnEngine(cur) ELSE Met(cur)
      OBVIOUS
    <3>2. Own(cur, met)
      BY <1>5, <2>3, <3>1, MeasuresOwn
    <3>3. measured'[p] = {met}
      BY <1>2, <1>5, <2>3, <3>1 DEF Measures
    <3>4. Own(p, met)'
      BY <1>1, <1>3, <2>3, <3>2 DEF Own
    <3>5. QED
      BY <1>1, <2>3, <3>3, <3>4
  <2>4. QED
    BY <2>1, <2>2, <2>3
<1>6. UNCHANGED measured \/ (pc = "measure" /\ Reached /\ \E status : Measures(status))
  BY DEF Next, vars, Ended, RefuseMixed, Agree, RefuseGroups, FormGroups, ClearRunDir, RefuseRunDir, OpenWriter, OpenRaises,
         Prepare, PrepareRaises, Attach, Start, StartRefused, LaunchFails, DockerRunInterrupted, Follow, FollowFails, Identify,
         IdentifyFails, Healthy, Unhealthy, Measure, MeasureExits, MeasureRaises, Stop, Reap, ReapInterrupted, Fail, PointDone,
         ForeignBinds, Binds, Exits
<1>7. QED
  BY <1>4, <1>5, <1>6 DEF OwnInv

\* The cases of MeasuresItsOwn are the conditions of Own.
LEMMA OwnMeasured ==
  ASSUME TypeOK, OwnInv
  PROVE  MeasuresItsOwn
<1> SUFFICES ASSUME NEW p \in Points, NEW m \in measured[p]
             PROVE  /\ m.ran = {Pins(p)}
                    /\ CASE InProcess(p) \/ Kind(p) = "bench" -> m.by = None
                         [] ~InProcess(p) /\ Kind(p) = "attach" -> m.by = Foreign
                         [] ~InProcess(p) /\ Kind(p) \in {"start", "docker"} ->
                              m.by \in Points /\ Config(m.by) = Config(p) /\ m.left = {}
  BY DEF MeasuresItsOwn
<1>1. Own(p, m) /\ Kind(p) # "probe" /\ Kind(p) \in Kinds
  BY PointIs DEF OwnInv
<1>2. CASE InProcess(p) \/ Kind(p) = "bench"
  BY <1>1, <1>2 DEF Own
<1>3. CASE ~InProcess(p) /\ Kind(p) = "attach"
  BY <1>1, <1>3 DEF Own
<1>4. CASE ~InProcess(p) /\ Kind(p) \in {"start", "docker"}
  BY <1>1, <1>4 DEF Own, Serves
<1>5. QED
  BY <1>1, <1>2, <1>3, <1>4 DEF Kinds

-------------------------------------------------------------------------------
(* Theorems. *)

\* Part by part.
LEMMA NextIInv == IInv /\ [Next]_vars => IInv'
BY NextType, NextDirs, NextFlow, NextHandle, NextServers, NextPins, NextOwn DEF IInv

\* What the runs check follows.
LEMMA Safe == IInv => Inv /\ MeasuresItsOwn
<1> SUFFICES ASSUME IInv PROVE Inv /\ MeasuresItsOwn
  OBVIOUS
<1> USE DEF IInv
<1>1. OneServer
  BY DEF OneServer, ServersInv, FlowInv, Running
<1>2. OutcomeRecorded
  BY DEF OutcomeRecorded, DirsInv
<1>3. NoServerLeft
  BY DEF NoServerLeft, ServersInv, HandleInv, Running, Early, None, TypeOK, Points
<1>4. MeasuresItsOwn
  BY OwnMeasured
<1>5. QED
  BY <1>1, <1>2, <1>3, <1>4 DEF Inv

\* However a run goes, at most one of its servers runs at a time, no server is left behind by a launch that got to its
\* Handle, and every point that was opened has its outcome.
THEOREM InvHolds == Spec => []Inv
BY InitIInv, NextIInv, Safe, PTL DEF Spec

\* A point's numbers come from its own engine or from a server of its own config, under its own pins, with no earlier
\* point's requests in the prefix cache.
THEOREM OwnServers == Spec => []MeasuresItsOwn
BY InitIInv, NextIInv, Safe, PTL DEF Spec

\* A run that --overwrite does not name, or a file qbench did not write, is never touched.
THEOREM RunsKept == Spec => OldRunsKept
<1>1. IInv /\ [Next]_vars =>
        [\A p \in Points : dirs[p] = "other" \/ (dirs[p] = "run" /\ ~overwrite) => dirs'[p] = dirs[p]]_vars
  <2> SUFFICES ASSUME IInv, Next, NEW p \in Points, dirs[p] = "other" \/ (dirs[p] = "run" /\ ~overwrite)
               PROVE  dirs'[p] = dirs[p]
    OBVIOUS
  <2>1. DirsInv /\ dirs \in [Points -> Dirs] /\ cur \in Points
    BY DEF IInv, TypeOK
  <2>2. CASE ClearRunDir
    BY <2>1, <2>2 DEF ClearRunDir, MayReplace
  <2>3. CASE OpenWriter
    BY <2>1, <2>3 DEF OpenWriter, DirsInv
  <2>4. CASE \E status : pc = "measure" /\ Measures(status)
    BY <2>1, <2>4 DEF Measures, DirsInv, InPoint
  <2>5. CASE Fail
    BY <2>1, <2>5 DEF Fail
  <2>6. CASE UNCHANGED dirs
    BY <2>6
  <2>7. ClearRunDir \/ OpenWriter \/ (\E status : pc = "measure" /\ Measures(status)) \/ Fail \/ UNCHANGED dirs
    BY DEF Next, vars, Ended, RefuseMixed, Agree, RefuseGroups, FormGroups, RefuseRunDir, OpenRaises,
           Prepare, PrepareRaises, Attach, Start, StartRefused, LaunchFails, DockerRunInterrupted, Follow, FollowFails, Identify,
           IdentifyFails, Healthy, Unhealthy, Measure, MeasureExits, MeasureRaises, Stop, Reap, ReapInterrupted, PointDone,
           ForeignBinds, Binds, Exits
  <2>8. QED
    BY <2>2, <2>3, <2>4, <2>5, <2>6, <2>7
<1>2. QED
  BY <1>1, InitIInv, NextIInv, PTL DEF Spec, OldRunsKept
===============================================================================
