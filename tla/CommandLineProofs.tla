--------------------------- MODULE CommandLineProofs ---------------------------
(***************************************************************************)
(* Proofs about the commands (CommandLine): the files a run leaves, the    *)
(* remote dir of a probe, a provisioned box, the decode grid's rows, a     *)
(* profile, the export's tables, a config's layers and what compare        *)
(* publishes.  Each command has an inductive invariant of its own; no      *)
(* other command touches its state.                                        *)
(***************************************************************************)
EXTENDS CommandLine, FiniteSetTheorems, WellFoundedInduction, TLAPS

-------------------------------------------------------------------------------
(* run: the files of a run (RunWriter). *)

\* Once the pool is drained, every row is through and none is left in the file object; run.json is the last step.
WriterInv ==
  /\ Writer!TypeOK
  /\ onDisk \cup buffer = 1 .. handled
  /\ pc \in {"filling", "writing", "done"} => handled = appended /\ buffer = {}
  /\ pc \in {"writing", "done"} => (fill => filled)
  /\ status # Writer!None => pc = "done"
  /\ pc \notin {"running", "killed"} => verdict \in Writer!Statuses

LEMMA WriterBounds == MaxRows \in Nat /\ MaxFaults \in Nat
BY CommandsAssumption DEF CommandsAssumption, Writer!BoundsAssumption

LEMMA WriterInit ==
  ASSUME Writer!Init
  PROVE  WriterInv
<1> MaxRows \in Nat /\ MaxFaults \in Nat
  BY WriterBounds
<1> USE DEF Writer!Init, Writer!None
<1>1. /\ filled \in BOOLEAN /\ rowErrors \in BOOLEAN /\ fill \in BOOLEAN /\ finished \in BOOLEAN
      /\ verdict \in Writer!Statuses \cup {Writer!None} /\ status \in Writer!Statuses \cup {Writer!None}
  BY Zenon
<1>2. onDisk \cup buffer = 1 .. handled
  OBVIOUS
<1> QED
  BY <1>1, <1>2 DEF WriterInv, Writer!TypeOK

\* Every step of the writer keeps its invariant.
LEMMA WriterNext ==
  ASSUME WriterInv, Writer!Next
  PROVE  WriterInv'
<1> MaxRows \in Nat /\ MaxFaults \in Nat
  BY WriterBounds
<1> USE DEF WriterInv, Writer!TypeOK, Writer!Statuses, Writer!None, Writer!rows, Writer!flags
<1>1. CASE Writer!AppendRow
  BY <1>1 DEF Writer!AppendRow
<1>2. CASE Writer!WriteRow
  <2>1. handled' = handled + 1 /\ handled' <= appended /\ handled \in Nat
    BY <1>2 DEF Writer!WriteRow
  <2>2. 1 .. handled' = (1 .. handled) \cup {handled'}
    BY <2>1
  <2>3. onDisk' \subseteq 1 .. handled' /\ buffer' \subseteq 1 .. handled' /\ onDisk' \cup buffer' = 1 .. handled'
    BY <1>2, <2>2 DEF Writer!WriteRow
  <2>4. faults' \in 0 .. MaxFaults
    BY <1>2 DEF Writer!WriteRow, Writer!Fault
  <2>5. rowErrors' \in BOOLEAN
    BY <1>2, Zenon DEF Writer!WriteRow
  <2> QED
    BY <1>2, <2>1, <2>3, <2>4, <2>5 DEF Writer!WriteRow, Writer!Alive
<1>3. CASE Writer!FillRows
  BY <1>3 DEF Writer!FillRows
<1>4. CASE \E s \in Writer!Statuses : Writer!Finish(s)
  BY <1>4 DEF Writer!Finish
<1>5. CASE Writer!CloseRows
  BY <1>5 DEF Writer!CloseRows
<1>6. CASE Writer!WriteTmp
  BY <1>6 DEF Writer!WriteTmp
<1>7. CASE Writer!CompleteTmp
  BY <1>7 DEF Writer!CompleteTmp
<1>8. CASE Writer!ReplaceRows
  BY <1>8 DEF Writer!ReplaceRows
<1>9. CASE Writer!ReplaceRunJson
  BY <1>9 DEF Writer!ReplaceRunJson, Writer!Written
<1>10. CASE Writer!FinishRaises
  BY <1>10 DEF Writer!FinishRaises
<1>11. CASE Writer!Kill
  BY <1>11 DEF Writer!Kill, Writer!Alive
<1>12. CASE Writer!Over
  BY <1>12 DEF Writer!Over, Writer!vars
<1> QED
  BY <1>1, <1>2, <1>3, <1>4, <1>5, <1>6, <1>7, <1>8, <1>9, <1>10, <1>11, <1>12 DEF Writer!Next

\* A row stays on disk, and nothing changes once run.json is there.
LEMMA WriterStep ==
  ASSUME WriterInv, Writer!Next
  PROVE  Writer!RowStays /\ Writer!Last
<1> USE DEF WriterInv, Writer!RowStays, Writer!Last, Writer!rows, Writer!flags
<1>1. CASE Writer!AppendRow
  BY <1>1 DEF Writer!AppendRow
<1>2. CASE Writer!WriteRow
  BY <1>2 DEF Writer!WriteRow, Writer!Alive
<1>3. CASE Writer!FillRows
  BY <1>3 DEF Writer!FillRows
<1>4. CASE \E s \in Writer!Statuses : Writer!Finish(s)
  BY <1>4 DEF Writer!Finish
<1>5. CASE Writer!CloseRows
  BY <1>5 DEF Writer!CloseRows
<1>6. CASE Writer!WriteTmp \/ Writer!CompleteTmp
  BY <1>6 DEF Writer!WriteTmp, Writer!CompleteTmp
<1>7. CASE Writer!ReplaceRows
  BY <1>7 DEF Writer!ReplaceRows
<1>8. CASE Writer!ReplaceRunJson
  BY <1>8 DEF Writer!ReplaceRunJson
<1>9. CASE Writer!FinishRaises \/ Writer!Kill \/ Writer!Over
  BY <1>9 DEF Writer!FinishRaises, Writer!Kill, Writer!Over, Writer!vars
<1> QED
  BY <1>1, <1>2, <1>3, <1>4, <1>5, <1>6, <1>7, <1>8, <1>9 DEF Writer!Next

\* An ok run.json stands beside every row the run appended, rewritten if a field was to be filled in; a row on disk stays
\* there; run.json is the last file written (RunWriter.finish, _close_rows, write_atomic), for any number of rows and of
\* failed writes.
THEOREM RunFiles == Spec => RunFilesStand
<1> DEFINE I == command = "run" => WriterInv
<1>1. Init => I
  BY WriterInit DEF Init
<1>2. I /\ [Next]_vars => I'
  <2>1. CASE Next
    BY <2>1, WriterNext DEF Next
  <2>2. CASE UNCHANGED vars
    BY <2>2 DEF vars, writerVars, WriterInv, Writer!TypeOK
  <2> QED
    BY <2>1, <2>2
<1>3. I => (command = "run" => Writer!Inv)
  BY DEF WriterInv, Writer!Inv, Writer!OkIsComplete, Writer!None
<1>4. I /\ [Next]_vars => [command = "run" => Writer!RowStays /\ Writer!Last]_vars
  BY WriterStep DEF Next
<1> QED
  BY <1>1, <1>2, <1>3, <1>4, PTL DEF Spec, RunFilesStand

-------------------------------------------------------------------------------
(* provision: the box and its env file (Provision). *)

\* What an operator asks of a box.
Settings == Box!Asks

\* What the steps already taken found there or made, in a pass that misses nothing and is not dry.
FoundSoFar ==
  missing = 0 /\ ~dry =>
    /\ step \notin {"load", "images", "failed"} => (asked.docker => box.image)
    /\ step \notin {"load", "images", "vllm", "failed"} => (~asked.docker => box.vllm)
    /\ step \in {"inputs", "weights", "end", "done"} => (asked.bench = "build" => box.binary)
    /\ step \in {"weights", "end", "done"} => asked.unnamed = 0
    /\ step \in {"end", "done"} => asked.weights # "none" /\ (asked.weights = "hf" => box.weights # "none")

\* What a pass has found or put on the box at its place, and the promise of the env file.
BoxInv ==
  /\ asked \in Settings /\ box \in Box!Boxes /\ missing \in Nat /\ dry \in BOOLEAN
  /\ FoundSoFar
  /\ Box!WrittenIsServed

\* Every step of a pass keeps the invariant: nothing on the box goes away.
LEMMA BoxNext ==
  ASSUME BoxInv, Box!Next
  PROVE  BoxInv'
<1> USE DEF BoxInv, Settings, Box!Asks, Box!Boxes, FoundSoFar, Box!Then, Box!Need, Box!Act
<1>1. CASE Box!LoadRuns
  BY <1>1 DEF Box!LoadRuns, Box!WrittenIsServed
<1>2. CASE Box!CheckImages
  BY <1>2 DEF Box!CheckImages, Box!WrittenIsServed
<1>3. CASE Box!InstallVllm
  <2>1. CASE asked.docker \/ box.vllm
    BY <1>3, <2>1 DEF Box!InstallVllm, Box!WrittenIsServed
  <2>2. CASE ~asked.docker /\ ~box.vllm /\ asked.vllmSpec
    <3> DEFINE made == [box EXCEPT !.vllm = TRUE]
    <3>1. made \in Box!Boxes /\ made.vllm /\ made.image = box.image /\ made.binary = box.binary
            /\ made.weights = box.weights
      OBVIOUS
    <3>2. /\ step = "vllm" /\ step' = "nccl" /\ asked' = asked /\ dry' = dry /\ env' = env
          /\ \/ dry /\ box' = box /\ missing' = missing
             \/ box' = made /\ missing' = missing
             \/ box' = box /\ missing' = missing + 1
      BY <1>3, <2>2 DEF Box!InstallVllm
    <3>3. CASE dry /\ box' = box
      BY <2>2, <3>2, <3>3 DEF Box!WrittenIsServed
    <3>4. CASE box' = made
      BY <2>2, <3>1, <3>2, <3>4 DEF Box!WrittenIsServed
    <3>5. CASE box' = box /\ missing' = missing + 1
      BY <2>2, <3>2, <3>5 DEF Box!WrittenIsServed
    <3> QED
      BY <3>2, <3>3, <3>4, <3>5
  <2>3. CASE ~asked.docker /\ ~box.vllm /\ ~asked.vllmSpec
    BY <1>3, <2>3 DEF Box!InstallVllm, Box!WrittenIsServed
  <2> QED
    BY <2>1, <2>2, <2>3
<1>4. CASE Box!CheckNccl
  BY <1>4 DEF Box!CheckNccl, Box!WrittenIsServed
<1>5. CASE Box!Clone
  BY <1>5 DEF Box!Clone, Box!WrittenIsServed
<1>6. CASE Box!Checkout
  BY <1>6 DEF Box!Checkout, Box!WrittenIsServed
<1>7. CASE Box!Build
  <2>1. CASE asked.bench # "build" \/ dry
    BY <1>7, <2>1 DEF Box!Build, Box!WrittenIsServed
  <2>2. CASE asked.bench = "build" /\ ~dry /\ box.clone = "none"
    BY <1>7, <2>2 DEF Box!Build, Box!WrittenIsServed
  <2>3. CASE asked.bench = "build" /\ ~dry /\ box.clone # "none"
    <3>1. PICK cargo \in BOOLEAN : \E binary \in {box.binary, cargo \/ box.binary} :
            /\ box' = [box EXCEPT !.binary = binary]
            /\ missing' = missing + (IF cargo THEN 0 ELSE 1) + (IF binary THEN 0 ELSE 1)
      BY <1>7, <2>3 DEF Box!Build
    <3>2. PICK binary \in {box.binary, cargo \/ box.binary} :
            /\ box' = [box EXCEPT !.binary = binary]
            /\ missing' = missing + (IF cargo THEN 0 ELSE 1) + (IF binary THEN 0 ELSE 1)
      BY <3>1
    <3>3. step = "build" /\ step' = "inputs" /\ asked' = asked /\ dry' = dry /\ env' = env
      BY <1>7 DEF Box!Build
    <3>4. binary \in BOOLEAN /\ (box.binary => binary)
      BY <3>2
    <3>5. /\ box' \in Box!Boxes /\ box'.binary = binary /\ box'.image = box.image /\ box'.vllm = box.vllm
          /\ box'.weights = box.weights
      BY <3>2, <3>4
    <3>6. missing' \in Nat /\ missing' >= missing /\ (missing' = 0 => binary)
      BY <3>2, <3>4
    <3> QED
      BY <2>3, <3>3, <3>4, <3>5, <3>6 DEF Box!WrittenIsServed
  <2> QED
    BY <2>1, <2>2, <2>3
<1>8. CASE Box!Weights
  <2>1. CASE asked.weights \in {"dir", "none"} \/ (asked.weights = "hf" /\ box.weights # "none")
    BY <1>8, <2>1 DEF Box!Weights, Box!WrittenIsServed
  <2>2. CASE asked.weights = "hf" /\ box.weights = "none"
    BY <1>8, <2>2 DEF Box!Weights, Box!WrittenIsServed
  <2> QED
    BY <2>1, <2>2
<1>9. CASE Box!End
  BY <1>9 DEF Box!End, Box!WrittenIsServed
<1>10. CASE Box!Interrupt
  BY <1>10 DEF Box!Interrupt, Box!WrittenIsServed
<1>11. CASE Box!Again
  BY <1>11 DEF Box!Again, Box!WrittenIsServed
<1>12. CASE Box!Over
  BY <1>12 DEF Box!Over, Box!vars, Box!WrittenIsServed
<1>13. CASE Box!NameInputs
  <2>1. missing' = missing + asked.unnamed /\ asked.unnamed \in Nat
    BY <1>13 DEF Box!NameInputs
  <2> QED
    BY <1>13, <2>1 DEF Box!NameInputs, Box!WrittenIsServed
<1> QED
  BY <1>1, <1>2, <1>3, <1>4, <1>5, <1>6, <1>7, <1>8, <1>9, <1>10, <1>11, <1>12,
     <1>13 DEF Box!Next

\* Where the env file is written, each thing the runs need of the box is there (provision.py: machine, docker_images,
\* bench_binary and run, main), for any number of passes, however each one failed or was interrupted.
THEOREM EnvIsServed == Spec => []WrittenIsServed
<1> DEFINE I == command = "provision" => BoxInv
<1>1. Init => I
  BY DEF Init, BoxInv, FoundSoFar, Settings, Box!Asks, Box!Init, Box!Boxes, Box!WrittenIsServed
<1>2. I /\ [Next]_vars => I'
  <2>1. CASE Next
    BY <2>1, BoxNext DEF Next
  <2>2. CASE UNCHANGED vars
    BY <2>2 DEF vars, provisionVars, BoxInv, FoundSoFar, Box!WrittenIsServed
  <2> QED
    BY <2>1, <2>2
<1>3. I => WrittenIsServed
  BY DEF BoxInv, WrittenIsServed
<1> QED
  BY <1>1, <1>2, <1>3, PTL DEF Spec

-------------------------------------------------------------------------------
(* A probe on another host: its remote dir and the copy pulled (RemoteProbe). *)

\* A run dir on the host, and a copy of one here.
OnHost == [rows : Nat, json : Remote!Statuses \cup {Remote!Unwritten}, pulled : {FALSE}]
Copies == [rows : Nat, json : Remote!Statuses \cup {Remote!Unwritten}, pulled : BOOLEAN]

\* What the probe writes on the host is a copy like any other.
LEMMA HostWrites ==
  ASSUME NEW w \in OnHost
  PROVE  /\ [w EXCEPT !.rows = @ + 1] \in OnHost /\ [w EXCEPT !.rows = @ + 1].json = w.json
         /\ \A s \in Remote!Statuses : [w EXCEPT !.json = s] \in OnHost
<1>1. w.rows + 1 \in Nat
  BY DEF OnHost
<1>2. [w EXCEPT !.rows = w.rows + 1] \in OnHost /\ [w EXCEPT !.rows = w.rows + 1].json = w.json
  BY <1>1 DEF OnHost
<1>3. \A s \in Remote!Statuses : [w EXCEPT !.json = s] \in OnHost
  BY DEF OnHost
<1> QED
  BY <1>2, <1>3

\* The copy here is what the probe wrote there.
Whole == local.rows = wrote.rows /\ local.json = wrote.json

\* A run.json on the host is that of a process that is over, so what was pulled with it can no longer change; while ssh
\* was not cut nothing moves on the host from the pull on.
RemoteInv ==
  /\ at \in {"mktemp", "ship", "run", "pull", "stamp", "remove", "over"}
  /\ local \in Copies /\ wrote \in OnHost
  /\ proc \in {"none", "up", "over"} /\ cut \in BOOLEAN
  /\ at \in {"mktemp", "ship"} => proc = "none" /\ wrote = Remote!NoCopy /\ ~cut
  /\ proc = "none" => wrote = Remote!NoCopy
  /\ at \in {"mktemp", "ship", "run", "pull"} => local = Remote!NoCopy
  /\ at \in {"mktemp", "ship", "run"} => remoteExit # "status"
  /\ at \in {"pull", "stamp", "remove", "over"} /\ ~cut => proc # "up"
  /\ wrote.json # Remote!Unwritten => proc = "over"
  /\ at = "stamp" /\ ~cut => Whole
  /\ at = "stamp" /\ local.json # Remote!Unwritten => Whole
  /\ at = "remove" /\ ~cut => Whole
  /\ dir = "gone" => at = "over" /\ (~cut => Whole)
  /\ local.pulled => local.json # Remote!Unwritten /\ Whole
  /\ at = "over" /\ remoteExit = "status" /\ ~cut => Whole

\* Every step keeps the invariant: what is pulled is whole unless ssh was cut.
LEMMA RemoteNext ==
  ASSUME RemoteInv, Remote!Next
  PROVE  RemoteInv'
<1> USE DEF RemoteInv, Copies, OnHost, Whole, Remote!Statuses, Remote!Unwritten, Remote!NoCopy
<1>1. CASE Remote!MakeDir
  BY <1>1 DEF Remote!MakeDir
<1>2. CASE Remote!Ship
  BY <1>2 DEF Remote!Ship
<1>3. CASE Remote!EmitRow
  <2>1. wrote' \in OnHost /\ wrote'.json = wrote.json
    BY <1>3, HostWrites DEF Remote!EmitRow
  <2>2. ~(local.json # Remote!Unwritten /\ Whole) /\ ~(at \in {"pull", "stamp", "remove", "over"} /\ ~cut)
    BY <1>3 DEF Remote!EmitRow
  <2>3. UNCHANGED <<at, dir, proc, local, pulled, cut, remoteExit>> /\ proc = "up" /\ dir = "there"
    BY <1>3 DEF Remote!EmitRow
  <2> QED
    BY <2>1, <2>2, <2>3
<1>4. CASE Remote!ProbeEnds
  <2>1. wrote' \in OnHost
    <3>1. wrote' = wrote \/ \E s \in Remote!Statuses : wrote' = [wrote EXCEPT !.json = s]
      BY <1>4 DEF Remote!ProbeEnds
    <3>2. wrote \in OnHost
      BY DEF RemoteInv
    <3>3. CASE wrote' = wrote
      BY <3>2, <3>3
    <3>4. ASSUME NEW s \in Remote!Statuses, wrote' = [wrote EXCEPT !.json = s]
          PROVE  wrote' \in OnHost
      BY <3>2, <3>4, HostWrites, Zenon
    <3> QED
      BY <3>1, <3>3, <3>4
  <2>2. ~(local.json # Remote!Unwritten /\ Whole) /\ ~(at \in {"pull", "stamp", "remove", "over"} /\ ~cut)
    BY <1>4 DEF Remote!ProbeEnds
  <2>3. UNCHANGED <<at, dir, local, pulled, cut, remoteExit>> /\ proc = "up" /\ proc' = "over"
        /\ (dir = "gone" => wrote' = wrote)
    BY <1>4 DEF Remote!ProbeEnds
  <2> QED
    BY <2>1, <2>2, <2>3
<1>5. CASE Remote!SshReturns
  BY <1>5 DEF Remote!SshReturns
<1>6. CASE Remote!SshCut
  BY <1>6 DEF Remote!SshCut
<1>7. CASE Remote!Pull
  BY <1>7 DEF Remote!Pull
<1>8. CASE Remote!Stamp
  BY <1>8 DEF Remote!Stamp
<1>9. CASE Remote!Remove
  BY <1>9 DEF Remote!Remove
<1>10. CASE Remote!Over
  BY <1>10 DEF Remote!Over, Remote!vars
<1> QED
  BY <1>1, <1>2, <1>3, <1>4, <1>5, <1>6, <1>7, <1>8, <1>9, <1>10 DEF Remote!Next

\* A remote dir is removed only once what it holds is here, unless ssh was cut and the probe outlived it; a copy stamped
\* as pulled is whole whatever was cut; an exit status is returned only over a whole copy (probes/base.py, remote_probe).
THEOREM RemovedWhole == Spec => []RemovedOncePulled
<1> DEFINE I == command = "remote" => RemoteInv
<1>1. Init => I
  <2> SUFFICES ASSUME Init, command = "remote"
               PROVE  RemoteInv
    OBVIOUS
  <2>1. /\ Remote!NoCopy \in Copies /\ Remote!NoCopy \in OnHost
        /\ ~Remote!NoCopy.pulled /\ Remote!NoCopy.json = Remote!Unwritten
    BY DEF Remote!NoCopy, Copies, OnHost
  <2>2. Remote!Init
    BY DEF Init
  <2> QED
    BY <2>1, <2>2 DEF RemoteInv, Remote!Init
<1>2. I /\ [Next]_vars => I'
  <2>1. CASE Next
    BY <2>1, RemoteNext DEF Next
  <2>2. CASE UNCHANGED vars
    BY <2>2 DEF vars, remoteVars, RemoteInv, Whole
  <2> QED
    BY <2>1, <2>2
<1>3. I => RemovedOncePulled
  BY DEF RemoteInv, Whole, RemovedOncePulled, Remote!RemovedOncePulled
<1> QED
  BY <1>1, <1>2, <1>3, PTL DEF Spec

-------------------------------------------------------------------------------
(* The serving decode grid (DecodeGrid). *)

\* The records a pass can summarize: at least one stream has events.
Records == {g \in [Decode!Reqs -> [stream : Decode!Streams, lag : Decode!Lags]] :
              \E r \in Decode!Reqs : g[r].stream # Decode!NoEvents}
\* The rows an export makes of a pass in which some request streamed.
GridRows == {Decode!Row(g) : g \in Records}

\* A shard streams only once every other was at the barrier with it; the shards joined have ended well.
GridInv ==
  /\ sharded \in BOOLEAN
  /\ shard \in [Decode!Shards -> {"none", "up", "barrier", "streaming", "done", "dead"}]
  /\ got \in [Decode!Reqs -> [stream : Decode!Streams, lag : Decode!Lags]]
  /\ main \in {"idle", "joining", "leaving"} /\ joined \in 0 .. Cardinality(Decode!Spawned)
  /\ main = "idle" => \A w \in Decode!Shards : shard[w] = "none"
  /\ \A w, v \in Decode!Spawned : shard[w] \in {"streaming", "done"} => shard[v] \notin {"none", "up", "barrier"}
  /\ \A w \in 1 .. joined : shard[w] = "done"
  /\ main = "idle" => joined = 0
  /\ history \in Seq(GridRows)

LEMMA CountUpTo == ASSUME NEW n \in Nat PROVE Cardinality(1 .. n) = n
BY FS_Interval

\* Cardinality as the composed module reaches it is the library's.
LEMMA GridCounts == \A S : Decode!Cardinality(S) = Cardinality(S)
BY DEF Decode!Cardinality, Cardinality

\* A cell is shared by one shard or two, of a request each.
LEMMA ShardsSpawned ==
  /\ Decode!Shards = {1, 2} /\ Decode!Reqs = {1, 2}
  /\ Decode!Spawned = 1 .. Cardinality(Decode!Spawned) /\ Decode!Spawned \subseteq Decode!Shards
  /\ Cardinality(Decode!Spawned) \in Nat /\ 1 \in Decode!Spawned
<1>1. Decode!Shards = 1 .. 2 /\ 1 .. 2 = {1, 2} /\ 1 .. 1 = {1}
  BY DEF Decode!Shards
<1>2. Cardinality(1 .. 2) = 2 /\ Cardinality(1 .. 1) = 1
  BY CountUpTo
<1>3. Decode!Spawned = 1 .. 2 \/ Decode!Spawned = 1 .. 1
  BY <1>1 DEF Decode!Spawned
<1>4. CASE Decode!Spawned = 1 .. 2
  BY <1>1, <1>2, <1>4 DEF Decode!Reqs, Decode!Shards
<1>5. CASE Decode!Spawned = 1 .. 1
  BY <1>1, <1>2, <1>5 DEF Decode!Reqs, Decode!Shards
<1> QED
  BY <1>3, <1>4, <1>5

\* A summarized pass has the lag of one of its shards; an ok one is complete.
LEMMA RowSound ==
  ASSUME NEW row \in GridRows
  PROVE  /\ row.lag \in 0 .. 2
         /\ row.ok => row.wide /\ row.n >= MinSamples /\ row.lag = 0
<1>1. PICK g \in Records : row = Decode!Row(g)
  BY DEF GridRows
<1> DEFINE some == {r \in Decode!Reqs : g[r].stream # Decode!NoEvents}
           lags == {g[r].lag : r \in some}
<1>2. lags # {} /\ lags \subseteq {0, 1, 2}
  <2>1. g \in [Decode!Reqs -> [stream : Decode!Streams, lag : 0 .. 2]] /\ some # {} /\ some \subseteq Decode!Reqs
    BY DEF Records, Decode!Lags
  <2>2. \A r \in some : g[r].lag \in 0 .. 2
    BY <2>1
  <2> QED
    BY <2>1, <2>2, SMTT(30)
<1>3. \E x \in lags : \A y \in lags : x >= y
  <2> HIDE DEF lags
  <2>1. CASE 2 \in lags
    BY <1>2, <2>1
  <2>2. CASE 2 \notin lags /\ 1 \in lags
    BY <1>2, <2>2
  <2>3. CASE lags \subseteq {0}
    <3>1. PICK x \in lags : x = 0
      BY <1>2, <2>3
    <3>2. \A y \in lags : x >= y
      BY <2>3, <3>1
    <3> QED
      BY <3>2
  <2> QED
    BY <1>2, <2>1, <2>2, <2>3
<1>4. Decode!Max(lags) \in lags
  BY <1>3, SMTT(30) DEF Decode!Max
<1>5. row.lag = Decode!Max(lags)
  BY <1>1, ZenonT(60) DEF Decode!Row
<1>6. row.ok => row.wide /\ row.n >= MinSamples /\ row.lag = 0
  BY <1>1, ZenonT(60) DEF Decode!Row
<1> QED
  BY <1>2, <1>4, <1>5, <1>6

\* The records of a pass that has just begun.
LEMMA EmptyRecords == Decode!NoRecs \in [Decode!Reqs -> [stream : Decode!Streams, lag : Decode!Lags]]
<1>1. Decode!NoEvents \in Decode!Streams /\ 0 \in Decode!Lags
  BY DEF Decode!Streams, Decode!Lags
<1> QED
  BY <1>1 DEF Decode!NoRecs

\* Every step of a pass keeps the invariant: a barrier opens for all shards or none.
LEMMA GridNext ==
  ASSUME GridInv, Decode!Next
  PROVE  GridInv'
<1> DEFINE N == Cardinality(Decode!Spawned)
<1>0. N \in Nat /\ 1 \in Decode!Spawned /\ Decode!Spawned = 1 .. N /\ Decode!Spawned \subseteq Decode!Shards /\ Decode!Shards = {1, 2}
  BY ShardsSpawned
<1> HIDE DEF N
<1>a. sharded' = sharded => Decode!Spawned' = Decode!Spawned /\ Cardinality(Decode!Spawned)' = Cardinality(Decode!Spawned)
  BY DEF Decode!Spawned
<1>1. CASE Decode!Begin
  <2>1. joined = 0 /\ joined' = 0 /\ 1 .. 0 = {} /\ main' = "joining"
    BY <1>1 DEF Decode!Begin, GridInv
  <2>2. shard' \in [Decode!Shards -> {"none", "up", "barrier", "streaming", "done", "dead"}]
    BY <1>1 DEF Decode!Begin
  <2>3. \A w \in Decode!Spawned : shard'[w] = "up"
    BY <1>0, <1>1 DEF Decode!Begin
  <2> QED
    BY <1>0, <1>1, <1>a, <2>1, <2>2, <2>3 DEF Decode!Begin, GridInv, N
<1>2. CASE Decode!Fire
  <2>1. shard[1] = "barrier"
    BY <1>0, <1>2 DEF Decode!Fire
  <2>2. joined = 0
    <3>1. 1 \notin 1 .. joined
      BY <2>1 DEF GridInv
    <3> QED
      BY <1>0, <3>1 DEF GridInv, N
  <2>3. main # "idle"
    BY <1>0, <2>1 DEF GridInv
  <2> QED
    BY <1>0, <1>2, <1>a, <2>2, <2>3, SMTT(30) DEF Decode!Fire, GridInv
<1>3. CASE Decode!Join
  <2>1. joined \in 0 .. N /\ joined < N
    <3>1. joined \in 0 .. N
      BY DEF GridInv, N
    <3>2. joined < N
      BY <1>3, GridCounts DEF Decode!Join, N
    <3> QED
      BY <3>1, <3>2
  <2>2. CASE shard[joined + 1] = "dead"
    BY <1>0, <1>3, <1>a, <2>2 DEF Decode!Join, GridInv
  <2>3. CASE shard[joined + 1] = "done"
    <3>1. joined' = joined + 1 /\ UNCHANGED <<sharded, upgrade, shard, got, history, main>> /\ main = "joining"
      BY <1>3, <2>3 DEF Decode!Join
    <3>2. joined' \in 0 .. N /\ \A w \in 1 .. joined' : shard[w] = "done"
      <4>1. \A w \in 1 .. joined + 1 : w \in 1 .. joined \/ w = joined + 1
        BY <2>1
      <4> QED
        BY <1>0, <2>1, <2>3, <3>1, <4>1 DEF GridInv
    <3> QED
      BY <1>a, <3>1, <3>2 DEF GridInv, N
  <2> QED
    BY <1>3, <2>2, <2>3 DEF Decode!Join
<1>4. CASE Decode!Conclude
  <2>1. history' \in Seq(GridRows)
    <3>1. CASE \A r \in Decode!Reqs : got[r].stream = Decode!NoEvents
      BY <1>4, <3>1 DEF Decode!Conclude, GridInv
    <3>2. CASE ~(\A r \in Decode!Reqs : got[r].stream = Decode!NoEvents)
      <4>1. Decode!Row(got) \in GridRows
        BY <3>2 DEF GridInv, GridRows, Records
      <4> QED
        BY <1>4, <3>2, <4>1, SMTT(30) DEF Decode!Conclude, GridInv
    <3> QED
      BY <3>1, <3>2
  <2>2. got' \in [Decode!Reqs -> [stream : Decode!Streams, lag : Decode!Lags]]
    BY <1>4, EmptyRecords DEF Decode!Conclude
  <2> QED
    BY <1>0, <1>4, <1>a, <2>1, <2>2 DEF Decode!Conclude, GridInv, N
<1>5. CASE Decode!Leave
  <2>1. got' \in [Decode!Reqs -> [stream : Decode!Streams, lag : Decode!Lags]]
    BY <1>5, EmptyRecords DEF Decode!Leave
  <2> QED
    BY <1>0, <1>5, <1>a, <2>1 DEF Decode!Leave, GridInv, N
<1>6. CASE Decode!Over
  BY <1>6, <1>a DEF Decode!Over, Decode!vars, GridInv
<1>7. ASSUME NEW w \in Decode!Shards, Decode!Connect(w)
      PROVE  GridInv'
  BY <1>0, <1>7, <1>a DEF Decode!Connect, GridInv
<1>8. ASSUME NEW w \in Decode!Shards, Decode!Stream(w)
      PROVE  GridInv'
  BY <1>0, <1>8, <1>a DEF Decode!Stream, GridInv
<1>9. ASSUME NEW w \in Decode!Shards, Decode!Die(w)
      PROVE  GridInv'
  BY <1>0, <1>9, <1>a DEF Decode!Die, GridInv
<1> QED
  BY <1>1, <1>2, <1>3, <1>4, <1>5, <1>6, <1>7, <1>8, <1>9 DEF Decode!Next

\* While one of a cell's streams is read all the others are fired; a dead shard never passes for a joined one; an
\* exported ok is of a last pass that was whole, in its lag limit or agreed on by every pass (probes/serving_decode_grid.py,
\* run_cell and _run_shard; export/quettasim.py, build_decode_grid), for any number of passes and any samples asked for.
THEOREM GridSound == Spec => []GridIsSound
<1> DEFINE I == command = "decode" => GridInv
<1>1. Init => I
  <2> SUFFICES ASSUME Init, command = "decode"
               PROVE  GridInv
    OBVIOUS
  <2>1. Decode!Init
    BY DEF Init
  <2>2. 1 .. 0 = {} /\ <<>> \in Seq(GridRows)
    OBVIOUS
  <2> QED
    BY <2>1, <2>2, ShardsSpawned, EmptyRecords DEF GridInv, Decode!Init
<1>2. I /\ [Next]_vars => I'
  <2>1. CASE Next
    BY <2>1, GridNext DEF Next
  <2>2. CASE UNCHANGED vars
    BY <2>2 DEF vars, decodeVars, GridInv, Decode!Spawned
  <2> QED
    BY <2>1, <2>2
<1>3. I => GridIsSound
  <2> SUFFICES ASSUME GridInv
               PROVE  Decode!GridIsSound
    BY DEF GridIsSound
  <2>1. \A i \in DOMAIN history : history[i] \in GridRows
    BY DEF GridInv
  <2>2. history # <<>> => Len(history) \in DOMAIN history
    BY DEF GridInv
  <2>3. Decode!ExportedOk =>
          /\ Decode!Latest.n >= MinSamples /\ Decode!Latest.wide /\ ~Decode!Latest.dropped
          /\ \/ Decode!Latest.lag = 0
             \/ /\ Decode!Latest.lag = 1
                /\ \A i \in DOMAIN history : ~history[i].dropped /\ history[i].step = Decode!Latest.step
    <3> SUFFICES ASSUME Decode!ExportedOk
                 PROVE  /\ Decode!Latest.n >= MinSamples /\ Decode!Latest.wide /\ ~Decode!Latest.dropped
                        /\ \/ Decode!Latest.lag = 0
                           \/ /\ Decode!Latest.lag = 1
                              /\ \A i \in DOMAIN history :
                                   ~history[i].dropped /\ history[i].step = Decode!Latest.step
      OBVIOUS
    <3>1. /\ Decode!Latest.lag \in 0 .. 2
          /\ Decode!Latest.ok => Decode!Latest.wide /\ Decode!Latest.n >= MinSamples /\ Decode!Latest.lag = 0
      BY <2>1, <2>2, RowSound DEF Decode!ExportedOk, Decode!Latest
    <3>2. CASE Decode!Latest.ok /\ ~Decode!Latest.dropped
      BY <3>1, <3>2
    <3>3. CASE Decode!Upgrades
      BY <2>2, <3>1, <3>3 DEF Decode!Upgrades, Decode!Clean, Decode!Latest, Decode!ExportedOk
    <3> QED
      BY <3>2, <3>3 DEF Decode!ExportedOk
  <2> QED
    <3>1. \A w, v \in Decode!Spawned : shard[w] = "streaming" => shard[v] \notin {"none", "up", "barrier"}
      BY DEF GridInv
    <3>2. joined = Cardinality(Decode!Spawned) => \A w \in Decode!Spawned : shard[w] = "done"
      BY ShardsSpawned DEF GridInv
    <3> QED
      BY <2>3, <3>1, <3>2, GridCounts DEF Decode!GridIsSound
<1> QED
  BY <1>1, <1>2, <1>3, PTL DEF Spec

-------------------------------------------------------------------------------
(* profile: profile.json and the profilers that merge into it (Profiler). *)

\* A section, and what a profile says of it: a cost is of a run.json, an energy per token of the run's own window.
SectionOf(s, e) ==
  /\ s = "cost" => e.run # Profile!NoRun
  /\ e.perToken <=> (s = "energy" /\ e.window = "run")

\* profile.json as a profiler may find or write it: a section for each source that was run.
Complete(out) ==
  /\ out = [sections |-> out.sections, sourcesRun |-> out.sourcesRun, errors |-> out.errors]
  /\ DOMAIN out.sections = out.sourcesRun
  /\ \A s \in DOMAIN out.sections : SectionOf(s, out.sections[s])

\* What a profiler holds: the sections it found and those it added, each source asked for done, failed or still to do.
InPart(q) ==
  /\ q.out = [sections |-> q.out.sections, sourcesRun |-> q.out.sourcesRun, errors |-> q.out.errors]
  /\ q.todo \subseteq q.asked /\ q.asked \subseteq {"energy", "metrics", "cost"} /\ q.errors \cap q.todo = {}
  /\ q.out.sourcesRun = q.began.sourcesRun
  /\ DOMAIN q.out.sections = q.began.sourcesRun \cup (q.asked \ (q.errors \cup q.todo))
  /\ \A s \in DOMAIN q.out.sections : SectionOf(s, q.out.sections[s])

\* A profiler, and one at its sampling, which is energy's.
Profiling(q) ==
  /\ q = [pc |-> q.pc, todo |-> q.todo, asked |-> q.asked, out |-> q.out, fixed |-> q.fixed, errors |-> q.errors,
           began |-> q.began]
  /\ q.pc \in {"next", "sampling"} => InPart(q)

\* Every profiler is in its part, and the file is as one of them may have left it.
ProfileInv ==
  /\ Complete(profile)
  /\ p = [i \in Profilers |-> p[i]]
  /\ \A i \in Profilers : Profiling(p[i])
  /\ \A i \in Profilers : p[i].pc = "sampling" => p[i].todo # {} /\ Profile!Source(i) = "energy"
  /\ \A i \in Profilers : p[i].fixed \in BOOLEAN

\* The source that is next is one of those left.
LEMMA SourceLeft ==
  ASSUME NEW i, p[i].todo \subseteq {"energy", "metrics", "cost"}, p[i].todo # {}
  PROVE  Profile!Source(i) \in p[i].todo
<1>0. Profile!Order = <<"energy", "metrics", "cost">>
  BY DEF Profile!Order
<1> DEFINE First(k) == Profile!Order[k] \in p[i].todo /\ \A j \in 1 .. k - 1 : Profile!Order[j] \notin p[i].todo
<1>1. DOMAIN Profile!Order = 1 .. 3 /\ Profile!Order[1] = "energy" /\ Profile!Order[2] = "metrics" /\ Profile!Order[3] = "cost"
  BY <1>0
<1>2. \E k \in DOMAIN Profile!Order : First(k)
  <2>1. CASE "energy" \in p[i].todo
    <3>1. 1 \in 1 .. 3 /\ \A j \in 1 .. 1 - 1 : FALSE
      OBVIOUS
    <3> QED
      BY <1>1, <2>1, <3>1
  <2>2. CASE "energy" \notin p[i].todo /\ "metrics" \in p[i].todo
    <3>1. 2 \in 1 .. 3 /\ \A j \in 1 .. 2 - 1 : j = 1
      OBVIOUS
    <3> QED
      BY <1>1, <2>2, <3>1
  <2>3. CASE "energy" \notin p[i].todo /\ "metrics" \notin p[i].todo
    <3>1. 3 \in 1 .. 3 /\ \A j \in 1 .. 3 - 1 : j = 1 \/ j = 2
      OBVIOUS
    <3>2. "cost" \in p[i].todo
      BY <2>3
    <3> QED
      BY <1>1, <2>3, <3>1, <3>2
  <2> QED
    BY <2>1, <2>2, <2>3
<1>3. First(CHOOSE k \in DOMAIN Profile!Order : First(k))
  BY <1>2
<1> QED
  BY <1>3 DEF Profile!Source

\* A source's section goes into what the profiler holds.
LEMMA SectionAdded ==
  ASSUME NEW q, InPart(q), NEW s \in q.todo, NEW v, SectionOf(s, v),
         NEW r, r.out = Profile!Section(q.out, s, v), r.todo = q.todo \ {s}, r.asked = q.asked, r.errors = q.errors,
         r.began = q.began
  PROVE  InPart(r)
<1>1. /\ r.out.sections = [t \in DOMAIN q.out.sections \cup {s} |-> IF t = s THEN v ELSE q.out.sections[t]]
      /\ r.out.sourcesRun = q.out.sourcesRun /\ r.out.errors = q.out.errors
      /\ r.out = [sections |-> r.out.sections, sourcesRun |-> r.out.sourcesRun, errors |-> r.out.errors]
  <2>1. q.out = [sections |-> q.out.sections, sourcesRun |-> q.out.sourcesRun, errors |-> q.out.errors]
    BY DEF InPart
  <2> DEFINE sections == [t \in DOMAIN q.out.sections \cup {s} |-> IF t = s THEN v ELSE q.out.sections[t]]
  <2>2. r.out = [q.out EXCEPT !.sections = sections]
    BY DEF Profile!Section
  <2> HIDE DEF sections
  <2>3. [q.out EXCEPT !.sections = sections] =
          [sections |-> sections, sourcesRun |-> q.out.sourcesRun, errors |-> q.out.errors]
    BY <2>1
  <2>4. r.out = [sections |-> sections, sourcesRun |-> q.out.sourcesRun, errors |-> q.out.errors]
    BY <2>2, <2>3
  <2>5. r.out.sections = sections
    BY <2>4
  <2> QED
    BY <2>4, <2>5 DEF sections
<1>2. DOMAIN r.out.sections = DOMAIN q.out.sections \cup {s}
  BY <1>1
<1>3. \A t \in DOMAIN r.out.sections : SectionOf(t, r.out.sections[t])
  BY <1>1 DEF InPart
<1>4. s \in q.asked /\ s \notin q.errors
  BY DEF InPart
<1>5. DOMAIN r.out.sections = r.began.sourcesRun \cup (r.asked \ (r.errors \cup r.todo))
  BY <1>2, <1>4 DEF InPart
<1>6. r.todo \subseteq r.asked /\ r.asked \subseteq {"energy", "metrics", "cost"} /\ r.errors \cap r.todo = {}
  BY DEF InPart
<1> QED
  BY <1>1, <1>3, <1>5, <1>6 DEF InPart

\* One profiler moves; the others stay.
Becomes(i, q) ==
  /\ p' = [j \in Profilers |-> p'[j]] /\ p'[i] = q
  /\ \A j \in Profilers : j # i => p'[j] = p[j]

\* A profiler whose state stands is at the source it was at.
LEMMA SameSource ==
  ASSUME NEW j, p'[j].todo = p[j].todo
  PROVE  Profile!Source(j)' = Profile!Source(j)
BY DEF Profile!Source, Profile!Order

\* A step of one profiler that leaves the file alone and is not into its sampling keeps the invariant.
LEMMA OneProfiles ==
  ASSUME ProfileInv, NEW i \in Profilers, NEW q, Becomes(i, q), profile' = profile,
         Profiling(q), q.fixed \in BOOLEAN, q.pc # "sampling"
  PROVE  ProfileInv'
<1>1. \A j \in Profilers : j # i => Profile!Source(j)' = Profile!Source(j)
  BY SameSource DEF Becomes
<1> QED
  BY <1>1 DEF ProfileInv, Becomes

\* Every step of the profilers keeps the invariant.
LEMMA ProfileNext ==
  ASSUME ProfileInv, Profile!Next
  PROVE  ProfileInv'
<1>1. CASE Profile!RunEnds \/ Profile!Over
  <2>1. profile' = profile /\ p' = p
    BY <1>1 DEF Profile!RunEnds, Profile!Over, Profile!vars
  <2> QED
    BY <2>1 DEF ProfileInv, Profile!Source
<1> SUFFICES ASSUME NEW i \in Profilers,
                    \/ Profile!Begin(i) \/ Profile!StartSampling(i) \/ Profile!StopSampling(i)
                    \/ Profile!RunSource(i) \/ Profile!Write(i) \/ Profile!Interrupt(i)
             PROVE  ProfileInv'
  BY <1>1 DEF Profile!Next
<1> DEFINE q == p[i]
<1>2. /\ q = [pc |-> q.pc, todo |-> q.todo, asked |-> q.asked, out |-> q.out, fixed |-> q.fixed, errors |-> q.errors,
              began |-> q.began]
      /\ q.fixed \in BOOLEAN
      /\ q.pc \in {"next", "sampling"} => InPart(q)
  BY DEF ProfileInv, Profiling
<1>3. q.pc \in {"next", "sampling"} /\ q.todo # {} => Profile!Source(i) \in q.todo
  BY <1>2, SourceLeft DEF InPart
<1> HIDE DEF q
<1>4. ASSUME Profile!Begin(i)
      PROVE  ProfileInv'
  <2>1. PICK sources \in SUBSET {"energy", "metrics", "cost"}, fixed \in BOOLEAN :
          p' = [p EXCEPT ![i] = [Profile!Idle EXCEPT !.pc = "next", !.todo = sources, !.asked = sources,
                                                     !.out = profile, !.fixed = fixed, !.began = profile]]
    <3>1. Profile!ToSet(Profile!Order) = {"energy", "metrics", "cost"}
      BY DEF Profile!ToSet, Profile!Order
    <3> QED
      BY <1>4, <3>1 DEF Profile!Begin
  <2> DEFINE r == [pc |-> "next", todo |-> sources, asked |-> sources, out |-> profile, fixed |-> fixed, errors |-> {},
                   began |-> profile]
  <2>2. Becomes(i, r)
    BY <2>1 DEF Profile!Idle, Becomes, ProfileInv
  <2>3. InPart(r)
    BY DEF ProfileInv, Complete, InPart
  <2>4. profile' = profile
    BY <1>4 DEF Profile!Begin
  <2>5. Profiling(r) /\ r.fixed \in BOOLEAN /\ r.pc # "sampling"
    BY <2>3 DEF Profiling
  <2> HIDE DEF r
  <2> QED
    BY <2>2, <2>4, <2>5, OneProfiles
<1>5. ASSUME NEW s \in q.todo, NEW v, SectionOf(s, v), InPart(q), s = Profile!Source(i), profile' = profile,
             Profile!Succeed(i, v)
      PROVE  ProfileInv'
  <2> DEFINE r == [pc |-> "next", todo |-> q.todo \ {s}, asked |-> q.asked, out |-> Profile!Section(q.out, s, v),
                   fixed |-> q.fixed, errors |-> q.errors, began |-> q.began]
  <2>1. Becomes(i, r)
    <3>1. /\ p'[i] = [q EXCEPT !.pc = "next", !.todo = q.todo \ {s}, !.out = Profile!Section(q.out, s, v)]
          /\ p' = [j \in Profilers |-> p'[j]] /\ \A j \in Profilers : j # i => p'[j] = p[j]
      BY <1>5 DEF Profile!Succeed, ProfileInv, q
    <3>2. p'[i] = r
      BY <1>2, <3>1
    <3> QED
      BY <3>1, <3>2 DEF Becomes
  <2>2. InPart(r)
    BY <1>5, SectionAdded
  <2>3. Profiling(r) /\ r.fixed \in BOOLEAN /\ r.pc # "sampling"
    BY <1>2, <2>2 DEF Profiling
  <2> HIDE DEF r
  <2> QED
    BY <1>5, <2>1, <2>3, OneProfiles
<1>6. ASSUME q.pc \in {"next", "sampling"}, q.todo # {}, Profile!Err(i), profile' = profile
      PROVE  ProfileInv'
  <2> DEFINE s == Profile!Source(i)
             r == [pc |-> "next", todo |-> q.todo \ {s}, asked |-> q.asked, out |-> q.out,
                   fixed |-> q.fixed, errors |-> q.errors \cup {s}, began |-> q.began]
  <2>1. Becomes(i, r)
    <3>1. /\ p'[i] = [q EXCEPT !.pc = "next", !.todo = q.todo \ {s}, !.errors = q.errors \cup {s}]
          /\ p' = [j \in Profilers |-> p'[j]] /\ \A j \in Profilers : j # i => p'[j] = p[j]
      BY <1>6 DEF Profile!Err, ProfileInv, q
    <3>2. p'[i] = r
      BY <1>2, <3>1
    <3> QED
      BY <3>1, <3>2 DEF Becomes
  <2>2. InPart(r)
    BY <1>2, <1>3, <1>6 DEF InPart
  <2>3. Profiling(r) /\ r.fixed \in BOOLEAN /\ r.pc # "sampling"
    BY <1>2, <2>2 DEF Profiling
  <2> HIDE DEF r
  <2> QED
    BY <1>6, <2>1, <2>3, OneProfiles
<1>7. ASSUME Profile!StartSampling(i)
      PROVE  ProfileInv'
  <2>1. CASE Profile!Err(i)
    BY <1>6, <1>7, <2>1 DEF Profile!StartSampling, q
  <2>2. CASE p' = [p EXCEPT ![i].pc = "sampling"]
    <3>1. /\ p'[i] = [q EXCEPT !.pc = "sampling"] /\ (\A j \in Profilers : j # i => p'[j] = p[j])
          /\ p' = [j \in Profilers |-> p'[j]] /\ profile' = profile
          /\ q.pc = "next" /\ q.todo # {} /\ Profile!Source(i) = "energy"
      BY <1>7, <2>2 DEF ProfileInv, Profile!StartSampling, q
    <3>2. p'[i] = [pc |-> "sampling", todo |-> q.todo, asked |-> q.asked, out |-> q.out, fixed |-> q.fixed,
                   errors |-> q.errors, began |-> q.began]
      BY <1>2, <3>1
    <3>3. InPart(q) => InPart(p'[i])
      BY <3>2 DEF InPart
    <3>4. \A j \in Profilers : Profile!Source(j)' = Profile!Source(j)
      <4>1. \A j \in Profilers : p'[j].todo = p[j].todo
        BY <3>1, <3>2 DEF q
      <4> QED
        BY <4>1, SameSource
    <3>5. Profiling(p'[i])
      BY <1>2, <3>1, <3>2, <3>3 DEF Profiling
    <3> QED
      BY <1>2, <3>1, <3>2, <3>4, <3>5 DEF ProfileInv
  <2> QED
    BY <1>7, <2>1, <2>2 DEF Profile!StartSampling
<1>8. ASSUME Profile!StopSampling(i)
      PROVE  ProfileInv'
  <2> DEFINE v == [window |-> IF p[i].fixed THEN "fixed" ELSE "run", run |-> runJson, perToken |-> ~p[i].fixed]
  <2>1. q.pc = "sampling" /\ InPart(q) /\ q.todo # {} /\ Profile!Source(i) = "energy" /\ profile' = profile
    BY <1>2, <1>8 DEF Profile!StopSampling, ProfileInv, q
  <2>2. SectionOf("energy", v)
    BY <1>2 DEF SectionOf, q
  <2> QED
    BY <1>3, <1>5, <1>8, <2>1, <2>2 DEF Profile!StopSampling
<1>9. ASSUME Profile!RunSource(i)
      PROVE  ProfileInv'
  <2>1. q.pc = "next" /\ InPart(q) /\ q.todo # {} /\ Profile!Source(i) # "energy" /\ profile' = profile
    BY <1>2, <1>9 DEF Profile!RunSource, q
  <2> DEFINE v == [window |-> Profile!None, run |-> runJson, perToken |-> FALSE]
  <2>2. CASE Profile!Source(i) = "cost" => runJson # Profile!NoRun
    <3>1. SectionOf(Profile!Source(i), v)
      BY <2>1, <2>2 DEF SectionOf
    <3> QED
      BY <1>3, <1>5, <1>6, <1>9, <2>1, <3>1 DEF Profile!RunSource
  <2> QED
    BY <1>6, <1>9, <2>1, <2>2 DEF Profile!RunSource
<1>10. ASSUME Profile!Write(i)
       PROVE  ProfileInv'
  <2>1. q.pc = "next" /\ InPart(q) /\ q.todo = {} /\ profile' = Profile!Merged(i)
    BY <1>2, <1>10 DEF Profile!Write, q
  <2>2. profile' = [sections |-> q.out.sections, sourcesRun |-> q.out.sourcesRun \cup (q.asked \ q.errors),
                    errors |-> q.errors]
    BY <2>1 DEF Profile!Merged, InPart, q
  <2>3. Complete(profile')
    BY <2>1, <2>2 DEF Complete, InPart
  <2>4. PICK c \in {"exit 0", "exit 1"} : p' = [p EXCEPT ![i].pc = c]
    BY <1>10 DEF Profile!Write
  <2>5. /\ p'[i] = [q EXCEPT !.pc = c] /\ (\A j \in Profilers : j # i => p'[j] = p[j])
        /\ p' = [j \in Profilers |-> p'[j]]
    BY <2>4 DEF ProfileInv, q
  <2> DEFINE r == [pc |-> c, todo |-> q.todo, asked |-> q.asked, out |-> q.out, fixed |-> q.fixed,
                   errors |-> q.errors, began |-> q.began]
  <2>6. p'[i] = r
    BY <1>2, <2>5
  <2>7. \A j \in Profilers : Profile!Source(j)' = Profile!Source(j)
    <3>1. \A j \in Profilers : p'[j].todo = p[j].todo
      BY <2>5, <2>6 DEF q
    <3> QED
      BY <3>1, SameSource
  <2>8. Profiling(r) /\ r.pc # "sampling" /\ r.fixed \in BOOLEAN
    <3>1. c \notin {"next", "sampling"}
      BY <2>4
    <3> QED
      BY <1>2, <3>1 DEF Profiling
  <2> HIDE DEF r
  <2>9. \A j \in Profilers : Profiling(p'[j]) /\ p'[j].fixed \in BOOLEAN
    BY <2>5, <2>6, <2>8 DEF ProfileInv
  <2>10. \A j \in Profilers : p'[j].pc = "sampling" => p'[j].todo # {} /\ Profile!Source(j)' = "energy"
    BY <2>5, <2>6, <2>7, <2>8 DEF ProfileInv
  <2> QED
    BY <2>3, <2>5, <2>9, <2>10 DEF ProfileInv
<1>11. ASSUME Profile!Interrupt(i)
       PROVE  ProfileInv'
  <2> DEFINE r == [pc |-> "interrupted", todo |-> q.todo, asked |-> q.asked, out |-> q.out, fixed |-> q.fixed,
                   errors |-> q.errors, began |-> q.began]
  <2>1. /\ p'[i] = [q EXCEPT !.pc = "interrupted"] /\ profile' = profile
        /\ p' = [j \in Profilers |-> p'[j]] /\ \A j \in Profilers : j # i => p'[j] = p[j]
    BY <1>11 DEF Profile!Interrupt, ProfileInv, q
  <2>2. p'[i] = r
    BY <1>2, <2>1
  <2>3. Profiling(r) /\ r.fixed \in BOOLEAN /\ r.pc # "sampling"
    BY <1>2 DEF Profiling
  <2> HIDE DEF r
  <2> QED
    BY <2>1, <2>2, <2>3, OneProfiles DEF Becomes
<1> QED
  BY <1>4, <1>7, <1>8, <1>9, <1>10, <1>11

\* However profilers of one run overlap, fail or are interrupted, profile.json holds a section for each source it says was
\* run; what one is about to write holds each source there when it began and each it ran since; a cost is of a run.json,
\* an energy per token of the run's own window (profiler.py, profile), for any number of profilers.
THEOREM ProfileWhole == Spec => []ProfileIsWhole
<1> DEFINE I == command = "profile" => ProfileInv
<1>1. Init => I
  <2> SUFFICES ASSUME Init, command = "profile"
               PROVE  ProfileInv
    OBVIOUS
  <2>1. Profile!Init
    BY DEF Init
  <2>2. Complete(Profile!NoOut)
    BY DEF Complete, Profile!NoOut
  <2>3. Profiling(Profile!Idle) /\ Profile!Idle.pc = "idle" /\ Profile!Idle.fixed = FALSE
    BY DEF Profiling, Profile!Idle
  <2> QED
    BY <2>1, <2>2, <2>3 DEF Profile!Init, ProfileInv
<1>2. I /\ [Next]_vars => I'
  <2>1. CASE Next
    BY <2>1, ProfileNext DEF Next
  <2>2. CASE UNCHANGED vars
    BY <2>2 DEF vars, profileVars, ProfileInv, Profile!Source
  <2> QED
    BY <2>1, <2>2
<1>3. I => ProfileIsWhole
  <2> SUFFICES ASSUME ProfileInv
               PROVE  Profile!ProfileIsWhole
    BY DEF ProfileIsWhole
  <2> QED
    BY DEF ProfileInv, Complete, Profiling, InPart, SectionOf, Profile!ProfileIsWhole
<1> QED
  BY <1>1, <1>2, <1>3, PTL DEF Spec

-------------------------------------------------------------------------------
(* export: the kernel tables (Export). *)

\* A probe run, and a row of the table.
ProbeRuns == [keys : SUBSET (Nat \X Nat), mode : Tables!Modes, flag : {"plain", "append", "vllm"}, ok : BOOLEAN]
TableRows == [key : Nat \X Nat, run : 0 .. Len(runs)]

OneEach(rows) == \A x, y \in rows : x.key = y.key => x = y

\* What the manifest and the sidecar say of a table is true, but for the rows of some runs.
Accounted(rows, side, named, but) ==
  /\ Tables!NamedBy(rows) \ {Tables!Own} \subseteq named \cup but
  /\ side # "unknown" => \A x \in rows : x.run \in but \/ Tables!ModeOf(x.run) = side
  /\ OneEach(rows)

\* A flag is its table's: vllm_allreduce only merges with collectives, --append only where there is a reset.
RunsInv ==
  /\ kind \in Tables!Kinds /\ runs \in Seq(ProbeRuns)
  /\ \A r \in DOMAIN runs : /\ runs[r].flag = "vllm" => kind = "collectives"
                            /\ runs[r].flag = "append" => kind = "reset"

\* What an export has planned: rows of the old table or of ok runs, none dropped that a run does not supersede unless told to;
\* rows that are kept were spoken for, and a mode the sidecar will state is that of all of them.
PlanHolds(rows, col) ==
  /\ \A x \in plan.rows \ rows : runs[x.run].ok
  /\ ~plan.replaced => /\ col => plan.column
                       /\ \A x \in rows \ plan.rows : \E y \in plan.rows : Tables!TakesPlaceOf(y, x)

PlanSpeaks(side) ==
  /\ Tables!NamedBy(plan.rows) \ {Tables!Own} \subseteq plan.runs \cup manifest \cup orphans
  /\ ~plan.adopts => Tables!NamedBy(plan.rows) \subseteq plan.runs
  /\ side # "unknown" => \A x \in plan.rows : x.run \in orphans \cup plan.runs \/ Tables!ModeOf(x.run) = side
  /\ plan.mode # "unknown" => \A x \in plan.rows : x.run \in orphans \ plan.runs \/ Tables!ModeOf(x.run) = plan.mode
  /\ OneEach(plan.rows) /\ plan.rows \subseteq TableRows

\* The export at its place among the files it replaces.
TablesInv ==
  /\ RunsInv /\ table \subseteq TableRows
  /\ \/ todo = <<>> /\ Accounted(table, sidecar, manifest, orphans)
     \/ /\ todo = <<"rows", "sidecar", "manifest">>
        /\ Accounted(table, sidecar, manifest, orphans) /\ PlanHolds(table, column) /\ PlanSpeaks(sidecar)
     \/ todo = <<"sidecar", "manifest">> /\ table = plan.rows /\ PlanSpeaks(sidecar)
     \/ todo = <<"manifest">> /\ table = plan.rows /\ sidecar = plan.mode /\ PlanSpeaks(sidecar)

\* A non-empty set of the numbers up to n has a greatest.
LEMMA Greatest ==
  ASSUME NEW n \in Nat, NEW S, S \subseteq 1 .. n, S # {}
  PROVE  \E m \in S : \A s \in S : s <= m
<1> DEFINE T == {n - s : s \in S}
<1>1. T \subseteq Nat /\ T # {}
  <2>1. \A s \in S : n - s \in Nat
    OBVIOUS
  <2> QED
    BY <2>1, Zenon
<1>2. PICK x \in T : \A y \in T : ~ (<<y, x>> \in OpToRel(<, Nat))
  BY <1>1, NatLessThanWellFounded, WFMin
<1>3. \A y \in T : ~ (y < x)
  BY <1>1, <1>2 DEF OpToRel
<1>4. PICK m \in S : x = n - m
  OBVIOUS
<1>5. \A s \in S : ~ (n - s < n - m)
  BY <1>3, <1>4
<1>6. ASSUME NEW s \in S PROVE s <= m
  <2>1. s \in Nat /\ m \in Nat /\ ~ (n - s < n - m)
    BY <1>5
  <2> QED
    BY <2>1
<1> QED
  BY <1>6

\* The runs used, their flags and keys.
LEMMA UsedRuns ==
  ASSUME RunsInv
  PROVE  /\ Tables!Used \subseteq Tables!Found /\ Tables!Found \subseteq 1 .. Len(runs)
         /\ \A r \in Tables!Used : /\ runs[r].ok /\ runs[r] \in ProbeRuns /\ Tables!Brings(r) \subseteq runs[r].keys
                                   /\ runs[r].flag = "vllm" => kind = "collectives"
                                   /\ runs[r].flag = "append" => kind = "reset"
         /\ kind = "collectives" => \A r, s \in Tables!Used : runs[r].flag = runs[s].flag => r = s
<1>1. Tables!Found \subseteq 1 .. Len(runs)
  BY DEF RunsInv, Tables!Found
<1>2. Tables!Used \subseteq Tables!Found
  BY DEF Tables!Used, Tables!LastOf, Tables!Flagged
<1>3. kind = "collectives" => \A r, s \in Tables!Used : runs[r].flag = runs[s].flag => r = s
  <2> SUFFICES ASSUME kind = "collectives", NEW r \in Tables!Used, NEW s \in Tables!Used, runs[r].flag = runs[s].flag
               PROVE  r = s
    OBVIOUS
  <2>1. r \in Nat /\ s \in Nat
    BY <1>1, <1>2
  <2>2. r <= s /\ s <= r
    BY DEF Tables!Used, Tables!LastOf, Tables!Flagged
  <2> QED
    BY <2>1, <2>2
<1>4. \A r \in Tables!Used : /\ runs[r].ok /\ runs[r] \in ProbeRuns /\ Tables!Brings(r) \subseteq runs[r].keys
                             /\ runs[r].flag = "vllm" => kind = "collectives"
                             /\ runs[r].flag = "append" => kind = "reset"
  BY <1>1, <1>2 DEF RunsInv, Tables!Found, Tables!Brings
<1> QED
  BY <1>1, <1>2, <1>3, <1>4

\* The rows the runs put in the table.
LEMMA OursAre ==
  \A x : x \in Tables!Ours <=> \E r \in Tables!Used : \E k \in Tables!Brings(r) :
                                 Tables!Stands(k, Tables!Later(r)) /\ x = [key |-> k, run |-> r]
BY DEF Tables!Ours

\* Of two runs with one key only one has its row in the table.
LEMMA OursOnce ==
  ASSUME RunsInv
  PROVE  OneEach(Tables!Ours)
<1> SUFFICES ASSUME NEW x \in Tables!Ours, NEW y \in Tables!Ours, x.key = y.key PROVE x = y
  BY DEF OneEach
<1>1. PICK r \in Tables!Used : \E k \in Tables!Brings(r) : Tables!Stands(k, Tables!Later(r)) /\ x = [key |-> k, run |-> r]
  BY OursAre
<1>2. PICK s \in Tables!Used : \E k \in Tables!Brings(s) : Tables!Stands(k, Tables!Later(s)) /\ y = [key |-> k, run |-> s]
  BY OursAre
<1> DEFINE k == x.key
<1>3. /\ k \in Tables!Brings(r) /\ Tables!Stands(k, Tables!Later(r)) /\ x = [key |-> k, run |-> r]
      /\ k \in Tables!Brings(s) /\ Tables!Stands(k, Tables!Later(s)) /\ y = [key |-> k, run |-> s]
  BY <1>1, <1>2
<1> HIDE DEF k
<1>4. s \notin Tables!Later(r) /\ r \notin Tables!Later(s)
  BY <1>3 DEF Tables!Stands, Tables!Supersedes
<1>5. r \in Nat /\ s \in Nat
  BY UsedRuns
<1>6. ASSUME r # s PROVE FALSE
  <2>1. CASE kind = "collectives"
    <3>1. runs[r].flag # runs[s].flag
      BY <1>6, <2>1, UsedRuns
    <3>2. runs[r].flag \in {"plain", "vllm"} /\ runs[s].flag \in {"plain", "vllm"}
      BY <2>1, UsedRuns DEF ProbeRuns
    <3> QED
      BY <1>4, <3>1, <3>2 DEF Tables!Later
  <2>2. CASE kind # "collectives"
    <3>1. runs[r].flag # "vllm" /\ runs[s].flag # "vllm"
      BY <2>2, UsedRuns
    <3> QED
      BY <1>4, <1>5, <1>6, <3>1 DEF Tables!Later
  <2> QED
    BY <2>1, <2>2
<1> QED
  BY <1>3, <1>6

\* A key that a run brings has a row in the table, or its head config a later one.
LEMMA BroughtIsThere ==
  ASSUME RunsInv, NEW r \in Tables!Used, NEW k \in Tables!Brings(r)
  PROVE  \E y \in Tables!Ours : /\ y.run \in Tables!Used
                                /\ y.key = k \/ (kind = "geometry" /\ y.key[1] = k[1])
                                /\ kind = "collectives" => y.run = r
<1>1. CASE kind = "collectives"
  <2>1. Tables!Stands(k, Tables!Later(r))
    <3> SUFFICES ASSUME NEW s \in Tables!Later(r), NEW n \in Tables!Brings(s), Tables!Supersedes(s, n, k) PROVE FALSE
      BY DEF Tables!Stands
    <3>1. s \in Tables!Used /\ runs[s].flag = "vllm" /\ runs[r].flag # "vllm"
      <4>1. CASE runs[s].flag = "vllm" \/ runs[r].flag = "vllm"
        BY <4>1 DEF Tables!Later
      <4>2. CASE runs[s].flag # "vllm" /\ runs[r].flag # "vllm"
        <5>1. s \in Tables!Used /\ s > r
          BY <4>2 DEF Tables!Later
        <5>2. runs[r].flag = runs[s].flag
          BY <1>1, <4>2, <5>1, UsedRuns DEF ProbeRuns
        <5> QED
          BY <1>1, <5>1, <5>2, UsedRuns
      <4> QED
        BY <4>1, <4>2
    <3>2. Tables!Flagged(Tables!Used, "vllm") # {}
      BY <3>1 DEF Tables!Flagged
    <3>3. ~Tables!AllReduce(k)
      BY <1>1, <3>1, <3>2 DEF Tables!Brings
    <3>4. Tables!AllReduce(n)
      BY <1>1, <3>1 DEF Tables!Brings
    <3> QED
      BY <1>1, <3>3, <3>4 DEF Tables!Supersedes
  <2>2. [key |-> k, run |-> r] \in Tables!Ours
    BY <2>1, OursAre
  <2> QED
    BY <2>2
<1>2. CASE kind # "collectives"
  <2> DEFINE S == {s \in Tables!Used : \E n \in Tables!Brings(s) : n = k \/ (kind = "geometry" /\ n[1] = k[1])}
  <2>1. r \in S /\ S \subseteq 1 .. Len(runs)
    BY UsedRuns
  <2>2. PICK m \in S : \A s \in S : s <= m
    <3>1. Len(runs) \in Nat
      BY DEF RunsInv
    <3> HIDE DEF S
    <3> QED
      BY <2>1, <3>1, Greatest
  <2>3. PICK n \in Tables!Brings(m) : n = k \/ (kind = "geometry" /\ n[1] = k[1])
    OBVIOUS
  <2>4. Tables!Stands(n, Tables!Later(m))
    <3> SUFFICES ASSUME NEW s \in Tables!Later(m), NEW o \in Tables!Brings(s), Tables!Supersedes(s, o, n) PROVE FALSE
      BY DEF Tables!Stands
    <3>1. s \in Tables!Used /\ s > m /\ runs[s].flag # "vllm"
      BY <1>2, UsedRuns DEF Tables!Later
    <3>2. o = n \/ (kind = "geometry" /\ o[1] = n[1])
      BY <3>1 DEF Tables!Supersedes
    <3>3. s \in S
      BY <2>3, <3>1, <3>2
    <3>4. s <= m /\ s \in Nat /\ m \in Nat
      BY <2>1, <2>2, <3>3
    <3> QED
      BY <3>1, <3>4
  <2>5. m \in Tables!Used
    OBVIOUS
  <2>6. [key |-> n, run |-> m] \in Tables!Ours
    BY <2>4, <2>5, OursAre
  <2> QED
    BY <1>2, <2>3, <2>5, <2>6
<1> QED
  BY <1>1, <1>2

\* A mode that several runs' rows share is each one's.
LEMMA SharedMode ==
  ASSUME NEW S, S \subseteq Tables!Modes, Tables!Mode(S) # "unknown"
  PROVE  S = {Tables!Mode(S)}
<1>1. IsFiniteSet(S)
  <2>1. IsFiniteSet({"graph_replay"}) /\ IsFiniteSet({"ncu"})
    BY FS_Singleton
  <2>2. IsFiniteSet({"graph_replay"} \cup {"ncu"})
    BY <2>1, FS_Union
  <2>3. S \in SUBSET ({"graph_replay"} \cup {"ncu"})
    BY DEF Tables!Modes
  <2> QED
    BY <2>2, <2>3, FS_Subset
<1>2. Tables!Cardinality(S) = Cardinality(S)
  BY DEF Tables!Cardinality, Cardinality
<1>3. Cardinality(S) = 1 /\ Tables!Mode(S) = CHOOSE m \in S : TRUE
  BY <1>2 DEF Tables!Mode
<1>4. PICK m : S = {m}
  BY <1>1, <1>3, FS_Singleton
<1> QED
  BY <1>3, <1>4

\* What an export plans holds, and speaks for its rows.
LEMMA PlanIs ==
  ASSUME TablesInv, todo = <<>>, NEW replaced \in BOOLEAN, plan' = Tables!Planned(replaced), replaced \/ ~Tables!Loses,
         UNCHANGED <<kind, runs, table, column, sidecar, manifest, orphans>>
  PROVE  PlanHolds(table, column)' /\ PlanSpeaks(sidecar)'
<1> DEFINE kept == IF Tables!Anew THEN {} ELSE Tables!Stays
           fromRuns == Tables!Ours
           named == {runs[r].mode : r \in Tables!NamedBy(fromRuns)}
           mode == Tables!Mode(named)
<1>1. /\ plan'.rows = kept \cup fromRuns /\ plan'.runs = Tables!NamedBy(fromRuns) /\ plan'.adopts = (kept # {})
      /\ plan'.replaced = replaced /\ plan'.column = (column /\ ~Tables!Anew)
      /\ plan'.mode = IF kept # {} /\ sidecar # mode THEN "unknown" ELSE mode
  BY DEF Tables!Planned
<1>2. RunsInv /\ Accounted(table, sidecar, manifest, orphans) /\ table \subseteq TableRows
  BY DEF TablesInv
<1>3. kept \subseteq table
  BY DEF Tables!Stays
<1>4. \A x \in fromRuns : /\ x.run \in Tables!Used /\ x.run \in 1 .. Len(runs) /\ runs[x.run].ok /\ x.run # Tables!Own
                      /\ x \in TableRows /\ x.key \in Tables!Brings(x.run) /\ runs[x.run].mode \in Tables!Modes
  <2> TAKE x \in fromRuns
  <2>0. PICK r \in Tables!Used : \E k \in Tables!Brings(r) : x = [key |-> k, run |-> r]
    BY OursAre
  <2>1. PICK k \in Tables!Brings(r) : x = [key |-> k, run |-> r]
    BY <2>0
  <2>2. r \in 1 .. Len(runs) /\ runs[r].ok /\ runs[r] \in ProbeRuns /\ k \in runs[r].keys
    BY <1>2, UsedRuns
  <2>3. k \in Nat \X Nat /\ runs[r].mode \in Tables!Modes
    BY <2>2 DEF ProbeRuns
  <2>4. r # 0 /\ r \in 0 .. Len(runs)
    BY <1>2, <2>2 DEF RunsInv
  <2> QED
    BY <2>1, <2>2, <2>3, <2>4 DEF TableRows, Tables!Own
<1>5. \A x \in kept, y \in fromRuns : x.key # y.key
  BY <1>4 DEF Tables!Stays, Tables!Stands, Tables!Supersedes
<1>6. OneEach(kept \cup fromRuns) /\ kept \cup fromRuns \subseteq TableRows
  <2>1. OneEach(fromRuns) /\ OneEach(table)
    BY <1>2, OursOnce DEF Accounted
  <2> QED
    BY <1>2, <1>3, <1>4, <1>5, <2>1 DEF OneEach
<1>7. mode # "unknown" => \A x \in fromRuns : Tables!ModeOf(x.run) = mode
  <2> SUFFICES ASSUME mode # "unknown", NEW x \in fromRuns PROVE Tables!ModeOf(x.run) = mode
    OBVIOUS
  <2>1. named \subseteq Tables!Modes /\ runs[x.run].mode \in named
    BY <1>4 DEF Tables!NamedBy
  <2>2. named = {mode}
    BY <2>1, SharedMode
  <2> QED
    BY <1>4, <2>1, <2>2 DEF Tables!ModeOf
<1>8. ASSUME ~replaced, NEW x \in table, x \notin kept \cup fromRuns
      PROVE  \E y \in fromRuns : Tables!TakesPlaceOf(y, x)
  <2>1. x \notin Tables!Lost /\ (Tables!Anew \/ x \notin Tables!Stays)
    BY <1>8 DEF Tables!Loses
  <2>2. PICK r \in Tables!Used : \E k \in Tables!Brings(r) : Tables!Supersedes(r, k, x.key)
    <3>1. CASE Tables!Anew
      BY <1>8, <2>1, <3>1 DEF Tables!Lost, Tables!Supersedes
    <3>2. CASE ~Tables!Anew
      BY <2>1, <3>2 DEF Tables!Stays, Tables!Stands
    <3> QED
      BY <3>1, <3>2
  <2>3. PICK k \in Tables!Brings(r) : Tables!Supersedes(r, k, x.key)
    BY <2>2
  <2>4. PICK y \in fromRuns : /\ y.key = k \/ (kind = "geometry" /\ y.key[1] = k[1])
                              /\ kind = "collectives" => y.run = r
    BY <1>2, BroughtIsThere
  <2>5. y.run # Tables!Own
    BY <1>4
  <2>6. CASE runs[r].flag = "vllm" /\ Tables!AllReduce(x.key) /\ k[1] = x.key[1]
    <3>1. kind = "collectives"
      BY <1>2, <2>6, UsedRuns
    <3>2. Tables!AllReduce(k)
      BY <2>6, <3>1 DEF Tables!Brings, Tables!AllReduce
    <3>3. kind # "geometry"
      BY <3>1
    <3>4. y.key = k /\ y.run = r
      BY <2>4, <3>1, <3>3, Zenon
    <3> QED
      BY <2>5, <2>6, <3>2, <3>4, Zenon DEF Tables!TakesPlaceOf
  <2>7. CASE k = x.key \/ (kind = "geometry" /\ k[1] = x.key[1])
    <3>1. y.key = x.key \/ (kind = "geometry" /\ y.key[1] = x.key[1])
      BY <2>4, <2>7, Zenon
    <3> QED
      BY <2>5, <3>1, Zenon DEF Tables!TakesPlaceOf
  <2> QED
    BY <2>3, <2>6, <2>7 DEF Tables!Supersedes
<1> HIDE DEF kept, fromRuns, named, mode
<1>9. \A x \in table : x.run # Tables!Own => x.run \in manifest \cup orphans
  BY <1>2 DEF Accounted, Tables!NamedBy
<1>10. \A r : Tables!ModeOf(r)' = Tables!ModeOf(r)
  BY DEF Tables!ModeOf
<1>11. PlanHolds(table, column)'
  <2>1. ~replaced => (column => plan'.column)
    BY <1>1 DEF Tables!Loses
  <2>2. \A x \in plan'.rows \ table : runs[x.run].ok
    BY <1>1, <1>3, <1>4
  <2>3. ~replaced => \A x \in table \ plan'.rows : \E y \in plan'.rows : Tables!TakesPlaceOf(y, x)
    BY <1>1, <1>8
  <2>4. \A y, x : Tables!TakesPlaceOf(y, x)' = Tables!TakesPlaceOf(y, x)
    BY DEF Tables!TakesPlaceOf
  <2> QED
    BY <1>1, <2>1, <2>2, <2>3, <2>4 DEF PlanHolds
<1>12. Tables!NamedBy(plan'.rows) \ {Tables!Own} \subseteq plan'.runs \cup manifest \cup orphans
  BY <1>1, <1>3, <1>9 DEF Tables!NamedBy
<1>13. ~plan'.adopts => Tables!NamedBy(plan'.rows) \subseteq plan'.runs
  BY <1>1 DEF Tables!NamedBy
<1>14. \A x \in fromRuns : x.run \in plan'.runs
  BY <1>1 DEF Tables!NamedBy
<1>15. sidecar # "unknown" => \A x \in kept : x.run \in orphans \/ Tables!ModeOf(x.run) = sidecar
  BY <1>2, <1>3 DEF Accounted
<1>16. sidecar # "unknown" => \A x \in plan'.rows : x.run \in orphans \cup plan'.runs \/ Tables!ModeOf(x.run) = sidecar
  BY <1>1, <1>14, <1>15
<1>17. ASSUME plan'.mode # "unknown", NEW x \in plan'.rows
       PROVE  x.run \in orphans \ plan'.runs \/ Tables!ModeOf(x.run) = plan'.mode
  <2>1. plan'.mode = mode /\ mode # "unknown" /\ (kept # {} => sidecar = mode)
    BY <1>1, <1>17
  <2>2. CASE x.run \in plan'.runs
    <3>1. PICK y \in fromRuns : y.run = x.run
      BY <1>1, <2>2 DEF Tables!NamedBy
    <3> QED
      BY <1>7, <2>1, <3>1
  <2>3. CASE x.run \notin plan'.runs
    BY <1>1, <1>14, <1>15, <2>1, <2>3
  <2> QED
    BY <2>2, <2>3
<1>18. PlanSpeaks(sidecar)'
  <2>1. OneEach(plan'.rows) /\ plan'.rows \subseteq TableRows'
    BY <1>1, <1>6 DEF TableRows
  <2>2. Tables!NamedBy(plan.rows)' = Tables!NamedBy(plan'.rows) /\ OneEach(plan.rows)' = OneEach(plan'.rows)
    BY DEF Tables!NamedBy, OneEach
  <2>3. \A x \in plan'.rows : Tables!ModeOf(x.run)' = Tables!ModeOf(x.run)
    BY <1>10
  <2> QED
    BY <1>12, <1>13, <1>16, <1>17, <2>1, <2>2, <2>3 DEF PlanSpeaks
<1> QED
  BY <1>11, <1>18

LEMMA RunTyped ==
  \A keys \in SUBSET (Nat \X Nat), mode \in Tables!Modes, flag \in {"plain", "append", "vllm"}, ok \in BOOLEAN :
    [keys |-> keys, mode |-> mode, flag |-> flag, ok |-> ok] \in ProbeRuns
BY Zenon DEF ProbeRuns

\* Runs that finish or are cleared change nothing of a row's mode.
LEMMA RunsStep ==
  ASSUME TablesInv, Tables!RunEnds \/ Tables!ClearRun
  PROVE  TablesInv'
<1>1. /\ todo = <<>> /\ RunsInv /\ Accounted(table, sidecar, manifest, orphans) /\ table \subseteq TableRows
      /\ UNCHANGED <<kind, table, column, sidecar, manifest, plan, todo, orphans>>
  BY DEF TablesInv, Tables!RunEnds, Tables!ClearRun, Tables!Idle
<1>2. Len(runs) \in Nat /\ DOMAIN runs = 1 .. Len(runs)
  BY <1>1 DEF RunsInv
<1>3. RunsInv' /\ Len(runs) <= Len(runs') /\ Len(runs') \in Nat /\ \A r \in 1 .. Len(runs) : runs'[r].mode = runs[r].mode
  <2>1. CASE Tables!RunEnds
    <3>1. PICK keys \in {k \in SUBSET Tables!Keys : Tables!Cardinality(k) \in 1 .. 2}, mode \in Tables!Modes,
               flag \in Tables!Flags, ok \in BOOLEAN :
                 runs' = Append(runs, [keys |-> keys, mode |-> mode, flag |-> flag, ok |-> ok])
      BY <2>1 DEF Tables!RunEnds
    <3> DEFINE new == [keys |-> keys, mode |-> mode, flag |-> flag, ok |-> ok]
    <3>2. keys \in SUBSET (Nat \X Nat)
      BY DEF Tables!Keys
    <3>3. /\ flag \in {"plain", "append", "vllm"}
          /\ flag = "vllm" => kind = "collectives"
          /\ flag = "append" => kind = "reset"
      BY <1>1 DEF Tables!Flags, RunsInv, Tables!Kinds
    <3>4. new \in ProbeRuns
      BY <3>2, <3>3, RunTyped
    <3>5. new.flag = flag
      OBVIOUS
    <3> HIDE DEF new
    <3>6. runs' \in Seq(ProbeRuns) /\ Len(runs') = Len(runs) + 1 /\ runs'[Len(runs) + 1] = new
          /\ \A r \in 1 .. Len(runs) : runs'[r] = runs[r]
      <4>1. runs' = Append(runs, new)
        BY <3>1 DEF new
      <4> QED
        BY <1>1, <3>4, <4>1 DEF RunsInv
    <3>7. DOMAIN runs' = 1 .. Len(runs) + 1
      BY <3>6
    <3> QED
      BY <1>1, <1>2, <3>3, <3>5, <3>6, <3>7 DEF RunsInv
  <2>2. CASE Tables!ClearRun
    <3>1. PICK c \in DOMAIN runs : runs' = [runs EXCEPT ![c].ok = FALSE]
      BY <2>2 DEF Tables!ClearRun
    <3>2. \A r \in 1 .. Len(runs) : /\ runs'[r].mode = runs[r].mode /\ runs'[r].flag = runs[r].flag
                                    /\ runs'[r] \in ProbeRuns
      <4> TAKE r \in 1 .. Len(runs)
      <4>1. runs[r] \in ProbeRuns
        BY <1>1, <1>2 DEF RunsInv
      <4>2. runs'[r] = [runs[r] EXCEPT !.ok = FALSE] \/ runs'[r] = runs[r]
        BY <1>2, <3>1
      <4> QED
        BY <4>1, <4>2 DEF ProbeRuns
    <3>3. runs' = [q \in 1 .. Len(runs) |-> runs'[q]]
      BY <1>2, <3>1
    <3>4. runs' \in Seq(ProbeRuns) /\ DOMAIN runs' = 1 .. Len(runs) /\ Len(runs') = Len(runs)
      BY <1>2, <3>2, <3>3
    <3> QED
      BY <1>1, <1>2, <3>2, <3>4 DEF RunsInv
  <2> QED
    BY <2>1, <2>2
<1>4. \A x \in table : Tables!ModeOf(x.run)' = Tables!ModeOf(x.run)
  <2> SUFFICES ASSUME NEW x \in table PROVE Tables!ModeOf(x.run)' = Tables!ModeOf(x.run)
    BY <1>1
  <2>1. x.run \in 0 .. Len(runs)
    BY <1>1 DEF TableRows
  <2> QED
    BY <1>2, <1>3, <2>1 DEF Tables!ModeOf, Tables!Own
<1>5. table' \subseteq TableRows'
  <2>1. 0 .. Len(runs) \subseteq 0 .. Len(runs')
    BY <1>2, <1>3
  <2> QED
    BY <1>1, <2>1 DEF TableRows
<1>6. Accounted(table, sidecar, manifest, orphans)'
  BY <1>1, <1>4 DEF Accounted, Tables!NamedBy, OneEach
<1> QED
  BY <1>1, <1>3, <1>5, <1>6 DEF TablesInv

\* The files in their order.
LEMMA FirstOfThree ==
  /\ Head(<<"rows", "sidecar", "manifest">>) = "rows" /\ Head(<<"sidecar", "manifest">>) = "sidecar"
  /\ Head(<<"manifest">>) = "manifest"
  /\ Tail(<<"rows", "sidecar", "manifest">>) = <<"sidecar", "manifest">> /\ Tail(<<"sidecar", "manifest">>) = <<"manifest">>
OBVIOUS

\* Every step of the export keeps its invariant.
LEMMA TablesNext ==
  ASSUME TablesInv, Tables!Next
  PROVE  TablesInv'
<1>1. CASE Tables!RunEnds \/ Tables!ClearRun
  BY <1>1, RunsStep
<1>2. ASSUME NEW replace \in BOOLEAN, Tables!Begin(replace)
      PROVE  TablesInv'
  <2>1. todo = <<>> /\ UNCHANGED <<kind, runs, table, column, sidecar, manifest, orphans>>
    BY <1>2 DEF Tables!Begin, Tables!Idle
  <2>2. RunsInv' /\ table' \subseteq TableRows' /\ Accounted(table, sidecar, manifest, orphans)'
    BY <2>1 DEF TablesInv, RunsInv, TableRows, Accounted, Tables!NamedBy, Tables!ModeOf, OneEach
  <2>3. CASE todo' = todo
    BY <2>1, <2>2, <2>3 DEF TablesInv
  <2>4. CASE plan' = Tables!Planned(Tables!Loses) /\ todo' = <<"rows", "sidecar", "manifest">>
    <3>1. PlanHolds(table, column)' /\ PlanSpeaks(sidecar)'
      BY <2>1, <2>4, PlanIs DEF Tables!Loses
    <3> QED
      BY <2>2, <2>4, <3>1 DEF TablesInv
  <2> QED
    BY <1>2, <2>3, <2>4 DEF Tables!Begin
<1>3. CASE Tables!ReplaceRows
  <2>1. /\ todo = <<"rows", "sidecar", "manifest">> /\ todo' = <<"sidecar", "manifest">> /\ table' = plan.rows
        /\ UNCHANGED <<kind, runs, sidecar, manifest, plan, orphans>>
    BY <1>3, FirstOfThree DEF Tables!ReplaceRows, Tables!Idle, TablesInv
  <2>2. RunsInv /\ PlanSpeaks(sidecar)
    BY <2>1 DEF TablesInv
  <2>3. RunsInv' /\ PlanSpeaks(sidecar)'
    BY <2>1, <2>2 DEF RunsInv, PlanSpeaks, TableRows, Tables!NamedBy, Tables!ModeOf, OneEach
  <2> QED
    BY <2>1, <2>3 DEF TablesInv, PlanSpeaks
<1>4. CASE Tables!ReplaceSidecar
  <2>1. /\ todo = <<"sidecar", "manifest">> /\ todo' = <<"manifest">> /\ sidecar' = plan.mode
        /\ UNCHANGED <<kind, runs, table, manifest, plan, orphans>>
    BY <1>4, FirstOfThree DEF Tables!ReplaceSidecar, Tables!Idle, TablesInv
  <2>2. RunsInv /\ PlanSpeaks(sidecar) /\ table = plan.rows
    BY <2>1 DEF TablesInv
  <2>3. RunsInv' /\ PlanSpeaks(sidecar)'
    BY <2>1, <2>2 DEF RunsInv, PlanSpeaks, TableRows, Tables!NamedBy, Tables!ModeOf, OneEach
  <2> QED
    BY <2>1, <2>2, <2>3 DEF TablesInv, PlanSpeaks
<1>5. CASE Tables!WriteManifest
  <2>1. /\ todo = <<"manifest">> /\ todo' = <<>> /\ orphans' = orphans \ plan.runs
        /\ manifest' = plan.runs \cup (IF ~plan.adopts THEN {} ELSE IF manifest = {} THEN {Tables!Own} ELSE manifest)
        /\ UNCHANGED <<kind, runs, table, sidecar>>
    BY <1>5 DEF Tables!WriteManifest, Tables!Idle, TablesInv
  <2>2. RunsInv /\ PlanSpeaks(sidecar) /\ table = plan.rows /\ sidecar = plan.mode
    BY <2>1 DEF TablesInv
  <2>3. RunsInv' /\ table' \subseteq TableRows'
    BY <2>1, <2>2 DEF RunsInv, PlanSpeaks, TableRows
  <2>4. Tables!NamedBy(table) \ {Tables!Own} \subseteq manifest' \cup orphans'
    BY <2>1, <2>2 DEF PlanSpeaks
  <2>5. sidecar # "unknown" => \A x \in table : x.run \in orphans' \/ Tables!ModeOf(x.run) = sidecar
    BY <2>1, <2>2 DEF PlanSpeaks
  <2>6. OneEach(table)
    BY <2>2 DEF PlanSpeaks
  <2>7. Accounted(table, sidecar, manifest, orphans)'
    BY <2>1, <2>4, <2>5, <2>6 DEF Accounted, Tables!NamedBy, Tables!ModeOf, OneEach
  <2> QED
    BY <2>1, <2>3, <2>7 DEF TablesInv
<1>6. CASE Tables!Kill
  <2>1. todo # <<>> /\ todo' = <<>> /\ orphans' = orphans \cup plan.runs /\ UNCHANGED <<kind, runs, table, sidecar, manifest>>
    BY <1>6 DEF Tables!Kill, Tables!Idle
  <2>2. RunsInv' /\ table' \subseteq TableRows'
    BY <2>1 DEF TablesInv, RunsInv, TableRows
  <2>3. Accounted(table, sidecar, manifest, orphans \cup plan.runs)
    BY <2>1 DEF TablesInv, Accounted, PlanSpeaks
  <2>4. Accounted(table, sidecar, manifest, orphans)'
    BY <2>1, <2>3 DEF Accounted, Tables!NamedBy, Tables!ModeOf, OneEach
  <2> QED
    BY <2>1, <2>2, <2>4 DEF TablesInv
<1>7. CASE Tables!Over
  BY <1>7 DEF Tables!Over, Tables!vars, TablesInv, RunsInv, TableRows, Accounted, PlanHolds, PlanSpeaks, Tables!NamedBy,
     Tables!TakesPlaceOf, Tables!ModeOf, OneEach
<1> QED
  BY <1>1, <1>2, <1>3, <1>4, <1>5, <1>6, <1>7 DEF Tables!Next

\* Only the first replace changes the table, and what it puts there was planned on it.
LEMMA TablesStep ==
  ASSUME TablesInv, Tables!Next
  PROVE  Tables!Kept
<1>1. CASE table' = table /\ column' = column
  BY <1>1 DEF Tables!Kept
<1>2. CASE Tables!ReplaceRows
  <2>1. todo = <<"rows", "sidecar", "manifest">> /\ table' = plan.rows /\ column' = plan.column
    BY <1>2 DEF Tables!ReplaceRows, Tables!Idle, TablesInv
  <2>2. PlanHolds(table, column)
    BY <2>1 DEF TablesInv
  <2> QED
    BY <2>1, <2>2 DEF PlanHolds, Tables!Kept
<1>3. \/ table' = table /\ column' = column
      \/ Tables!ReplaceRows
  BY DEF Tables!Next, Tables!RunEnds, Tables!ClearRun, Tables!Begin, Tables!ReplaceSidecar, Tables!WriteManifest,
     Tables!Kill, Tables!Over, Tables!vars
<1> QED
  BY <1>1, <1>2, <1>3

\* Between exports the manifest names every run with rows in a table, but for those of a killed export not yet repeated, the
\* sidecar's mode is every row's, and a key has one row; an export brings in rows of ok runs alone and drops none they do
\* not supersede (quettasim.py), for any number of runs and exports.
THEOREM TablesHold == Spec => TablesStand
<1> DEFINE I == command = "export" => TablesInv
<1>1. Init => I
  <2> SUFFICES ASSUME Init, command = "export"
               PROVE  TablesInv
    OBVIOUS
  <2>1. Tables!Init
    BY DEF Init
  <2>2. RunsInv /\ todo = <<>> /\ sidecar = "graph_replay" /\ Len(runs) = 0
    BY <2>1 DEF Tables!Init, RunsInv
  <2>3. PICK had \in {{}, {<<1, 1>>}, {<<1, 1>>, <<1, 2>>}} : table = {[key |-> k, run |-> Tables!Own] : k \in had}
    BY <2>1 DEF Tables!Init
  <2>4. \A x \in table : x.run = Tables!Own /\ x.key \in Nat \X Nat /\ x = [key |-> x.key, run |-> x.run]
    BY <2>3
  <2>5. table \subseteq TableRows
    BY <2>2, <2>4 DEF TableRows, Tables!Own
  <2>6. Accounted(table, sidecar, manifest, orphans)
    BY <2>2, <2>4 DEF Accounted, Tables!NamedBy, Tables!ModeOf, OneEach
  <2> QED
    BY <2>2, <2>5, <2>6 DEF TablesInv
<1>2. I /\ [Next]_vars => I'
  <2>1. CASE Next
    BY <2>1, TablesNext, SMTT(30) DEF Next
  <2>2. CASE UNCHANGED vars
    BY <2>2 DEF vars, exportVars, TablesInv, RunsInv, TableRows, Accounted, PlanHolds, PlanSpeaks, Tables!NamedBy,
       Tables!TakesPlaceOf, Tables!ModeOf, OneEach
  <2> QED
    BY <2>1, <2>2
<1>3. I => (command = "export" => Tables!AccountIsTrue)
  BY DEF TablesInv, Accounted, OneEach, Tables!AccountIsTrue, Tables!Idle
<1>4. I /\ [Next]_vars => [command = "export" => Tables!Kept]_vars
  BY TablesStep DEF Next
<1> QED
  BY <1>1, <1>2, <1>3, <1>4, PTL DEF Spec, TablesStand

-------------------------------------------------------------------------------
(* run --dry-run: the layers of a config (ConfigLayers). *)

LayerNames == {"hardware", "model", "run", "env", "cli"}

\* Each ask is a legal one, and no layer gives a path twice by one name.
AsksInv ==
  /\ \A a \in asks : a.path \in Config!Paths /\ a.layer \in Config!Layers(a.path) /\ a.var \in {1, 2}
                     /\ (a.var = 2 => a.layer = "env")
                     /\ (a.whole => a.path \in Config!Keys)
  /\ \A a, b \in asks : a.layer = b.layer /\ a.path = b.path /\ a.var = b.var => a = b

\* What a layer gives a path it has one value for.
LEMMA OneSaid ==
  ASSUME AsksInv, NEW l, NEW pt, NEW a \in Config!Layer(l, pt), NEW b \in Config!Layer(l, pt), a.path = b.path
  PROVE  a = b
<1>1. a \in asks /\ b \in asks /\ a.layer = l /\ b.layer = l /\ ~Config!Shadowed(a) /\ ~Config!Shadowed(b)
  BY DEF Config!Layer
<1>2. a.var = b.var
  <2>1. a.var \in {1, 2} /\ b.var \in {1, 2} /\ (a.var = 2 => a.layer = "env") /\ (b.var = 2 => b.layer = "env")
    BY <1>1 DEF AsksInv
  <2> QED
    BY <1>1, <2>1 DEF Config!Shadowed
<1> QED
  BY <1>1, <1>2, Zenon DEF AsksInv

\* A config under construction.
Shaped(c) == /\ c = [values |-> c.values, origins |-> c.origins, refused |-> c.refused]
             /\ DOMAIN c.values = Config!Paths /\ DOMAIN c.origins = Config!Paths

\* One layer over a config: each path it states has its word and, but for the keys of a dict, its name; the others stay.
LEMMA ApplyLayer ==
  ASSUME AsksInv, NEW pt, NEW l, NEW c, Shaped(c)
  PROVE  /\ Shaped(Config!Apply(c, l, pt))
         /\ \A q \in Config!Paths :
              IF l \in Config!Stated(q, pt)
              THEN /\ Config!Apply(c, l, pt).values[q] = Config!WordOf(l, q, pt)
                   /\ q \notin Config!Keys => Config!Apply(c, l, pt).origins[q] = l
              ELSE /\ Config!Apply(c, l, pt).values[q] = c.values[q]
                   /\ q \notin Config!Keys => Config!Apply(c, l, pt).origins[q] = c.origins[q]
<1> DEFINE G == Config!Layer(l, pt)
           set(q) == \E a \in G : a.path = q
           value(q) == (CHOOSE a \in G : a.path = q).value
           replaced(q) == q \in Config!Keys /\ \E a \in G : a.whole
           named(q) == \E a \in G : a.path = q /\ ~a.whole
           V == [q \in Config!Paths |-> IF q \in Config!Pointed(l, pt) THEN pt[q] ELSE IF set(q) THEN value(q)
                                        ELSE IF replaced(q) THEN Config!None ELSE c.values[q]]
           O == [q \in Config!Paths |-> IF named(q) \/ q \in Config!Pointed(l, pt) THEN l ELSE c.origins[q]]
           D == Config!Apply(c, l, pt)
<1>1. D = [c EXCEPT !.values = V, !.origins = O]
  BY DEF Config!Apply
<1>2. D = [values |-> V, origins |-> O, refused |-> c.refused]
  BY <1>1, Zenon DEF Shaped
<1>3. D.values = V /\ D.origins = O /\ Shaped(D)
  <2> DOMAIN V = Config!Paths /\ DOMAIN O = Config!Paths
    OBVIOUS
  <2> HIDE DEF V, O, D
  <2>1. D.values = V /\ D.origins = O /\ D.refused = c.refused
    BY <1>2
  <2> QED
    BY <1>2, <2>1 DEF Shaped
<1>4. ASSUME NEW q \in Config!Paths
      PROVE  l \in Config!Stated(q, pt) <=> q \in Config!Pointed(l, pt) \/ set(q) \/ replaced(q)
  <2>1. \A b \in asks : b \in Config!Layer(b.layer, pt) /\ b.layer = l <=> b \in G
    BY DEF Config!Layer
  <2>2. q \in Config!Pointed("run", pt) /\ l = "run" <=> q \in Config!Pointed(l, pt)
    BY DEF Config!Pointed
  <2>3. G \subseteq asks
    BY DEF Config!Layer
  <2> HIDE DEF G
  <2> QED
    BY <2>1, <2>2, <2>3 DEF Config!Stated
<1>5. ASSUME NEW q \in Config!Paths, set(q), q \notin Config!Pointed(l, pt)
      PROVE  Config!WordOf(l, q, pt) = value(q)
  <2> DEFINE said == {a \in G : a.path = q}
             x == CHOOSE a \in G : a.path = q
             y == CHOOSE a \in said : TRUE
  <2>1. x \in G /\ x.path = q
    BY <1>5
  <2>2. y \in G /\ y.path = q
    BY <1>5
  <2>3. x = y
    BY <2>1, <2>2, OneSaid, Zenon
  <2>4. Config!WordOf(l, q, pt) = y.value
    BY <1>5 DEF Config!WordOf
  <2> QED
    BY <2>3, <2>4
<1>6. ASSUME NEW q \in Config!Paths, ~set(q), q \notin Config!Pointed(l, pt)
      PROVE  Config!WordOf(l, q, pt) = Config!None
  BY <1>6 DEF Config!WordOf
<1>7. ASSUME NEW q \in Config!Paths, q \in Config!Pointed(l, pt)
      PROVE  Config!WordOf(l, q, pt) = pt[q]
  BY <1>7 DEF Config!WordOf
<1>8. ASSUME NEW q \in Config!Paths, q \notin Config!Keys, set(q) PROVE named(q)
  <2>1. PICK a \in G : a.path = q
    BY <1>8
  <2>2. ~a.whole
    BY <1>8, <2>1 DEF AsksInv, Config!Layer
  <2> QED
    BY <2>1, <2>2
<1> HIDE DEF G, set, value, replaced, named, D
<1>9. \A q \in Config!Paths :
        /\ V[q] = IF q \in Config!Pointed(l, pt) THEN pt[q] ELSE IF set(q) THEN value(q)
                  ELSE IF replaced(q) THEN Config!None ELSE c.values[q]
        /\ O[q] = IF named(q) \/ q \in Config!Pointed(l, pt) THEN l ELSE c.origins[q]
  OBVIOUS
<1> HIDE DEF V, O
<1>10. \A q \in Config!Paths : named(q) => set(q)
  BY DEF named, set
<1>11. \A q \in Config!Paths : q \notin Config!Keys => ~replaced(q)
  BY DEF replaced
<1>12. ASSUME NEW q \in Config!Paths
       PROVE  IF l \in Config!Stated(q, pt)
              THEN /\ D.values[q] = Config!WordOf(l, q, pt)
                   /\ q \notin Config!Keys => D.origins[q] = l
              ELSE /\ D.values[q] = c.values[q]
                   /\ q \notin Config!Keys => D.origins[q] = c.origins[q]
  BY <1>3, <1>4, <1>5, <1>6, <1>7, <1>8, <1>9, <1>10, <1>11, Zenon
<1> QED
  BY <1>3, <1>12 DEF D

\* The config after k layers.
After(pt) ==
  [k \in 0 .. 5 |->
     LET one == Config!Apply(Config!Start, "hardware", pt)
         two == Config!Apply(one, "model", pt)
         three == Config!Apply(two, "run", pt)
         four == Config!Apply(three, "env", pt)
     IN  CASE k = 0 -> Config!Start [] k = 1 -> one [] k = 2 -> two [] k = 3 -> three [] k = 4 -> four
           [] k = 5 -> Config!Apply(four, "cli", pt)]

\* The recursion over the layers, unrolled.
LEMMA FiveLayers ==
  ASSUME NEW pt
  PROVE  Config!Layered(pt) =
           Config!Apply(Config!Apply(Config!Apply(Config!Apply(Config!Apply(Config!Start,
             "hardware", pt), "model", pt), "run", pt), "env", pt), "cli", pt)
<1> DEFINE F(f) == [k \in 0 .. Len(Config!Precedence) |->
                     IF k = 0 THEN Config!Start ELSE Config!Apply(f[k - 1], Config!Precedence[k], pt)]
           u == CHOOSE f : f = F(f)
<1>1. /\ Len(Config!Precedence) = 5 /\ Config!Precedence[1] = "hardware" /\ Config!Precedence[2] = "model"
      /\ Config!Precedence[3] = "run" /\ Config!Precedence[4] = "env" /\ Config!Precedence[5] = "cli"
  BY DEF Config!Precedence
<1>2. After(pt) = F(After(pt))
  <2> DEFINE A == After(pt)
  <2>1. /\ A[0] = Config!Start
        /\ A[1] = Config!Apply(A[0], "hardware", pt) /\ A[2] = Config!Apply(A[1], "model", pt)
        /\ A[3] = Config!Apply(A[2], "run", pt) /\ A[4] = Config!Apply(A[3], "env", pt)
        /\ A[5] = Config!Apply(A[4], "cli", pt)
    BY DEF After
  <2>2. A = [k \in 0 .. 5 |-> A[k]]
    BY DEF After
  <2> HIDE DEF A
  <2>3. \A k \in 0 .. 5 : A[k] = IF k = 0 THEN Config!Start ELSE Config!Apply(A[k - 1], Config!Precedence[k], pt)
    <3> TAKE k \in 0 .. 5
    <3>1. k = 0 \/ k = 1 \/ k = 2 \/ k = 3 \/ k = 4 \/ k = 5
      OBVIOUS
    <3> QED
      BY <3>1, <2>1, <1>1
  <2>4. A = F(A)
    BY <1>1, <2>2, <2>3
  <2> QED
    BY <2>4 DEF A
<1>3. u = F(u)
  BY <1>2
<1>4. Config!Layered(pt) = u[5]
  BY <1>1 DEF Config!Layered
<1> HIDE DEF u
<1>5. \A k \in 0 .. 5 : u[k] = IF k = 0 THEN Config!Start ELSE Config!Apply(u[k - 1], Config!Precedence[k], pt)
  BY <1>1, <1>3
<1>6. u[0] = Config!Start
  BY <1>5
<1>7. u[1] = Config!Apply(u[0], "hardware", pt) /\ u[2] = Config!Apply(u[1], "model", pt)
  BY <1>1, <1>5
<1>8. u[3] = Config!Apply(u[2], "run", pt) /\ u[4] = Config!Apply(u[3], "env", pt)
      /\ u[5] = Config!Apply(u[4], "cli", pt)
  BY <1>1, <1>5
<1> QED
  BY <1>4, <1>6, <1>7, <1>8

\* The layers that may state a path.
LEMMA StatedBy ==
  ASSUME AsksInv, NEW pt, NEW q \in Config!Paths
  PROVE  Config!Stated(q, pt) \subseteq LayerNames
<1>1. \A a \in asks : Config!Layers(a.path) \subseteq LayerNames
  BY DEF Config!Layers, LayerNames
<1> QED
  BY <1>1 DEF Config!Stated, Config!Layer, AsksInv, LayerNames

\* The last of the layers that state a path has the last word.
LEMMA TopIs ==
  ASSUME AsksInv, NEW pt, NEW q \in Config!Paths, NEW l \in Config!Stated(q, pt),
         \A m \in Config!Stated(q, pt) : Config!Rank(m) <= Config!Rank(l)
  PROVE  Config!Top(q, pt) = l
<1> DEFINE S == Config!Stated(q, pt)
           t == CHOOSE x \in S : \A m \in S : Config!Rank(m) <= Config!Rank(x)
<1>1. S \subseteq LayerNames
  BY StatedBy
<1>2. t \in S /\ \A m \in S : Config!Rank(m) <= Config!Rank(t)
  OBVIOUS
<1>3. Config!Top(q, pt) = t
  BY DEF Config!Top
<1> HIDE DEF S, t
<1>4. \A x, y \in LayerNames : Config!Rank(x) <= Config!Rank(y) /\ Config!Rank(y) <= Config!Rank(x) => x = y
  BY DEF Config!Rank, LayerNames
<1>5. l \in S /\ Config!Rank(l) <= Config!Rank(t)
  BY <1>2 DEF S
<1>6. Config!Rank(t) <= Config!Rank(l)
  BY <1>2 DEF S
<1> QED
  BY <1>1, <1>2, <1>3, <1>4, <1>5, <1>6

LEMMA StartShaped == Shaped(Config!Start) /\ Config!Start.values = Config!Default
                     /\ \A q \in Config!Paths : Config!Start.origins[q] = "default"
BY DEF Shaped, Config!Start, Config!Paths

\* After the layers each path has its last word and, but for the keys of a dict, its origin.
LEMMA LayersStand ==
  ASSUME AsksInv, NEW pt
  PROVE  /\ Shaped(Config!Layered(pt))
         /\ \A q \in Config!Paths :
              /\ Config!Layered(pt).values[q] = Config!Word(q, pt)
              /\ q \notin Config!Keys => Config!Layered(pt).origins[q] = Config!Top(q, pt)
<1> DEFINE c0 == Config!Start
           c1 == Config!Apply(c0, "hardware", pt)
           c2 == Config!Apply(c1, "model", pt)
           c3 == Config!Apply(c2, "run", pt)
           c4 == Config!Apply(c3, "env", pt)
           c5 == Config!Apply(c4, "cli", pt)
           Steps(c, d, l) ==
             \A q \in Config!Paths :
              IF l \in Config!Stated(q, pt)
              THEN /\ d.values[q] = Config!WordOf(l, q, pt)
                   /\ q \notin Config!Keys => d.origins[q] = l
              ELSE /\ d.values[q] = c.values[q]
                   /\ q \notin Config!Keys => d.origins[q] = c.origins[q]
<1>1. Config!Layered(pt) = c5
  BY FiveLayers
<1> HIDE DEF c0, c1, c2, c3, c4, c5
<1>2. Shaped(c0)
  BY StartShaped DEF c0
<1>3. Shaped(c1) /\ Steps(c0, c1, "hardware")
  BY <1>2, ApplyLayer DEF c1
<1>4. Shaped(c2) /\ Steps(c1, c2, "model")
  BY <1>3, ApplyLayer DEF c2
<1>5. Shaped(c3) /\ Steps(c2, c3, "run")
  BY <1>4, ApplyLayer DEF c3
<1>6. Shaped(c4) /\ Steps(c3, c4, "env")
  BY <1>5, ApplyLayer DEF c4
<1>7. Shaped(c5) /\ Steps(c4, c5, "cli")
  BY <1>6, ApplyLayer DEF c5
<1>8. ASSUME NEW q \in Config!Paths
      PROVE  /\ c5.values[q] = Config!Word(q, pt)
             /\ q \notin Config!Keys => c5.origins[q] = Config!Top(q, pt)
  <2> DEFINE S == Config!Stated(q, pt)
  <2>1. S \subseteq LayerNames
    BY StatedBy
  <2>2. ASSUME NEW l \in S, \A m \in S : Config!Rank(m) <= Config!Rank(l)
        PROVE  Config!Top(q, pt) = l /\ Config!Word(q, pt) = Config!WordOf(l, q, pt)
    <3>1. Config!Top(q, pt) = l
      BY <2>2, TopIs
    <3>2. l # "default"
      BY <2>1, <2>2 DEF LayerNames
    <3> QED
      BY <3>1, <3>2 DEF Config!Word
  <2>3. S = {} => Config!Top(q, pt) = "default" /\ Config!Word(q, pt) = Config!Default[q]
    BY DEF Config!Top, Config!Word
  <2>4. c0.values[q] = Config!Default[q] /\ c0.origins[q] = "default"
    BY StartShaped DEF c0
  <2> HIDE DEF S
  <2>5. \A m \in S : m \in {"hardware", "model", "run", "env", "cli"}
    BY <2>1 DEF LayerNames
  <2>6. /\ Config!Rank("hardware") = 1 /\ Config!Rank("model") = 2 /\ Config!Rank("run") = 3
        /\ Config!Rank("env") = 4 /\ Config!Rank("cli") = 5
    BY DEF Config!Rank
  <2>7. CASE "cli" \in S
    <3>1. \A m \in S : Config!Rank(m) <= Config!Rank("cli")
      BY <2>5, <2>6
    <3> QED
      BY <2>2, <2>7, <3>1, <1>7 DEF S
  <2>8. CASE "cli" \notin S /\ "env" \in S
    <3>1. \A m \in S : Config!Rank(m) <= Config!Rank("env")
      BY <2>5, <2>6, <2>8
    <3> QED
      BY <2>2, <2>8, <3>1, <1>6, <1>7 DEF S
  <2>9. CASE "cli" \notin S /\ "env" \notin S /\ "run" \in S
    <3>1. \A m \in S : Config!Rank(m) <= Config!Rank("run")
      BY <2>5, <2>6, <2>9
    <3> QED
      BY <2>2, <2>9, <3>1, <1>5, <1>6, <1>7 DEF S
  <2>10. CASE "cli" \notin S /\ "env" \notin S /\ "run" \notin S /\ "model" \in S
    <3>1. \A m \in S : Config!Rank(m) <= Config!Rank("model")
      BY <2>5, <2>6, <2>10
    <3> QED
      BY <2>2, <2>10, <3>1, <1>4, <1>5, <1>6, <1>7 DEF S
  <2>11. CASE "cli" \notin S /\ "env" \notin S /\ "run" \notin S /\ "model" \notin S /\ "hardware" \in S
    <3>1. \A m \in S : Config!Rank(m) <= Config!Rank("hardware")
      BY <2>5, <2>6, <2>11
    <3> QED
      BY <2>2, <2>11, <3>1, <1>3, <1>4, <1>5, <1>6, <1>7 DEF S
  <2>12. CASE S = {}
    BY <2>3, <2>4, <2>12, <1>3, <1>4, <1>5, <1>6, <1>7 DEF S
  <2> QED
    BY <2>5, <2>7, <2>8, <2>9, <2>10, <2>11, <2>12
<1> QED
  BY <1>1, <1>7, <1>8

\* A forced value changes what nobody asked for, or the config is refused.
LEMMA ForceStands ==
  ASSUME NEW c, Shaped(c), NEW q \in Config!Paths, NEW v
  PROVE  /\ Shaped(Config!Force(c, q, v))
         /\ \A r \in Config!Paths : r # q => /\ Config!Force(c, q, v).values[r] = c.values[r]
                                            /\ Config!Force(c, q, v).origins[r] = c.origins[r]
         /\ Config!Force(c, q, v).values[q] = v /\ Config!Force(c, q, v).origins[q] = c.origins["serve_profile"]
         /\ ~Config!Force(c, q, v).refused => ~c.refused /\ (c.values[q] = v \/ c.origins[q] = "default")
<1> DEFINE V == [c.values EXCEPT ![q] = v]
           O == [c.origins EXCEPT ![q] = c.origins["serve_profile"]]
           R == c.refused \/ (c.values[q] # v /\ c.origins[q] # "default")
           D == Config!Force(c, q, v)
<1>1. D = [c EXCEPT !.refused = R, !.values = V, !.origins = O]
  BY DEF Config!Force
<1>2. D = [values |-> V, origins |-> O, refused |-> R]
  BY <1>1, Zenon DEF Shaped
<1>3. /\ DOMAIN V = Config!Paths /\ DOMAIN O = Config!Paths
      /\ \A r \in Config!Paths : r # q => V[r] = c.values[r] /\ O[r] = c.origins[r]
      /\ V[q] = v /\ O[q] = c.origins["serve_profile"]
  BY DEF Shaped
<1> HIDE DEF V, O, R, D
<1>4. D.values = V /\ D.origins = O /\ D.refused = R
  BY <1>2
<1>5. ASSUME ~D.refused PROVE ~c.refused /\ (c.values[q] = v \/ c.origins[q] = "default")
  BY <1>4, <1>5, Zenon DEF R
<1>6. Shaped(D)
  BY <1>2, <1>3, <1>4 DEF Shaped
<1> QED
  BY <1>3, <1>4, <1>5, <1>6, Zenon DEF D

\* A value a workload requires is set where nobody asked, or the config is refused.
LEMMA RequireStands ==
  ASSUME NEW c, Shaped(c), NEW q \in Config!Paths, NEW wanted
  PROVE  /\ Shaped(Config!Require(c, q, wanted))
         /\ \A r \in Config!Paths : r # q => /\ Config!Require(c, q, wanted).values[r] = c.values[r]
                                            /\ Config!Require(c, q, wanted).origins[r] = c.origins[r]
         /\ ~Config!Require(c, q, wanted).refused =>
               ~c.refused /\ (Config!Require(c, q, wanted).values[q] = c.values[q] \/ c.origins[q] \in Config!NotAsked)
<1>1. CASE ~wanted \/ c.values[q]
  <2>1. Config!Require(c, q, wanted) = c
    BY <1>1 DEF Config!Require
  <2> QED
    BY <2>1, Zenon
<1>2. CASE ~(~wanted \/ c.values[q])
  <2> DEFINE V == [c.values EXCEPT ![q] = TRUE]
             O == [c.origins EXCEPT ![q] = "profile"]
             R == c.refused \/ c.origins[q] \notin Config!NotAsked
             D == Config!Require(c, q, wanted)
  <2>1. D = [c EXCEPT !.refused = R, !.values = V, !.origins = O]
    BY <1>2 DEF Config!Require
  <2>2. D = [values |-> V, origins |-> O, refused |-> R]
    BY <2>1, Zenon DEF Shaped
  <2>3. /\ DOMAIN V = Config!Paths /\ DOMAIN O = Config!Paths
        /\ \A r \in Config!Paths : r # q => V[r] = c.values[r] /\ O[r] = c.origins[r]
    BY DEF Shaped
  <2> HIDE DEF V, O, R, D
  <2>4. D.values = V /\ D.origins = O /\ D.refused = R
    BY <2>2
  <2>5. ASSUME ~D.refused PROVE ~c.refused /\ c.origins[q] \in Config!NotAsked
    BY <2>4, <2>5, Zenon DEF R
  <2>6. Shaped(D)
    BY <2>2, <2>3, <2>4 DEF Shaped
  <2> QED
    BY <2>3, <2>4, <2>5, <2>6, Zenon DEF D
<1> QED
  BY <1>1, <1>2

LEMMA DrawnStands ==
  ASSUME NEW c, Shaped(c), ~Config!Drawn(c).refused
  PROVE  ~c.refused /\ Config!Drawn(c).values = c.values
<1> DEFINE R == c.refused \/ (~source.live /\ c.origins["num_requests"] # "default")
           D == Config!Drawn(c)
<1>1. D = [c EXCEPT !.refused = R]
  BY DEF Config!Drawn
<1>2. D = [values |-> c.values, origins |-> c.origins, refused |-> R]
  BY <1>1, Zenon DEF Shaped
<1> HIDE DEF R, D
<1>3. D.values = c.values /\ D.refused = R
  BY <1>2
<1>4. ~c.refused
  BY <1>3, Zenon DEF D, R
<1> QED
  BY <1>3, <1>4 DEF D

\* The paths the rules may set.
Ruled == {"ignore_eos", "prefix_caching", "exact_output_length"}

LEMMA PathNames ==
  /\ Ruled \cup {"serve_profile"} \subseteq Config!Paths \ Config!Keys
  /\ Config!Default["serve_profile"] = "none" /\ Config!Keys \subseteq Config!Paths
BY DEF Ruled, Config!Paths, Config!Default, Config!Keys, Config!None

\* Each path of a config still has c's value, or is one the rules may set and nobody asked for.
Kept(c, d) == \A q \in Config!Paths : d.values[q] = c.values[q] \/ (q \in Ruled /\ c.origins[q] = "default")

\* A path a workload may require has c's origin, or that of the serve profile that forced it.
Open(c, d, q) == d.origins[q] \in {"run", "cli"} \/ (d.origins[q] = c.origins[q] /\ d.values[q] = c.values[q])

LEMMA ProfileKeeps ==
  ASSUME NEW c, Shaped(c),
         c.values["serve_profile"] # "none" => c.origins["serve_profile"] \in {"run", "cli"}
  PROVE  /\ Shaped(Config!ServeProfile(c))
         /\ Open(c, Config!ServeProfile(c), "prefix_caching") /\ Open(c, Config!ServeProfile(c), "exact_output_length")
         /\ ~Config!ServeProfile(c).refused => ~c.refused /\ Kept(c, Config!ServeProfile(c))
<1> DEFINE yes == TRUE
           no == FALSE
           s == Config!ServeProfile(c)
           one == Config!Force(c, "ignore_eos", yes)
           two == Config!Force(one, "prefix_caching", no)
           only == Config!Force(c, "prefix_caching", yes)
           chosen == c.values["serve_profile"]
           prefix == "prefix_caching"
           exact == "exact_output_length"
           eos == "ignore_eos"
           by == "serve_profile"
<1>1. {prefix, exact, eos, by} \subseteq Config!Paths /\ Ruled = {eos, prefix, exact}
  BY PathNames, Zenon DEF Ruled
<1>2. prefix # exact /\ prefix # eos /\ exact # eos /\ by # eos /\ by # prefix /\ by # exact
  OBVIOUS
<1>3. CASE chosen = "stress-test"
  <2>1. s = two
    BY <1>3 DEF Config!ServeProfile
  <2>2. c.origins[by] \in {"run", "cli"}
    BY <1>3
  <2> HIDE DEF chosen, prefix, exact, eos, by, yes, no
  <2>3. /\ Shaped(one) /\ \A r \in Config!Paths : r # eos => one.values[r] = c.values[r] /\ one.origins[r] = c.origins[r]
        /\ one.values[eos] = yes
        /\ ~one.refused => ~c.refused /\ (c.values[eos] = yes \/ c.origins[eos] = "default")
    BY <1>1, ForceStands DEF eos
  <2>4. /\ Shaped(two) /\ \A r \in Config!Paths : r # prefix => two.values[r] = one.values[r] /\ two.origins[r] = one.origins[r]
        /\ two.values[prefix] = no /\ two.origins[prefix] = one.origins[by]
        /\ ~two.refused => ~one.refused /\ (one.values[prefix] = no \/ one.origins[prefix] = "default")
    BY <1>1, <2>3, ForceStands DEF prefix, by
  <2> HIDE DEF one, two, s
  <2>5. two.origins[prefix] \in {"run", "cli"}
    BY <1>1, <1>2, <2>2, <2>3, <2>4, Zenon
  <2>6. two.origins[exact] = c.origins[exact] /\ two.values[exact] = c.values[exact]
    BY <1>1, <1>2, <2>3, <2>4, Zenon
  <2>7. ASSUME ~two.refused PROVE ~c.refused /\ Kept(c, two)
    <3>1. /\ ~c.refused /\ (c.values[eos] = yes \/ c.origins[eos] = "default")
          /\ (c.values[prefix] = no \/ c.origins[prefix] = "default")
      BY <1>1, <1>2, <2>3, <2>4, <2>7, Zenon
    <3>2. ASSUME NEW q \in Config!Paths PROVE two.values[q] = c.values[q] \/ (q \in Ruled /\ c.origins[q] = "default")
      <4>1. CASE q = eos
        BY <1>1, <1>2, <2>3, <2>4, <3>1, <4>1, Zenon
      <4>2. CASE q = prefix
        BY <1>1, <2>4, <3>1, <4>2, Zenon
      <4>3. CASE q # eos /\ q # prefix
        BY <2>3, <2>4, <4>3, Zenon
      <4> QED
        BY <4>1, <4>2, <4>3
    <3> QED
      BY <3>1, <3>2 DEF Kept
  <2>8. Shaped(s) /\ Open(c, s, prefix) /\ Open(c, s, exact) /\ (~s.refused => ~c.refused /\ Kept(c, s))
    BY <2>1, <2>4, <2>5, <2>6, <2>7, Zenon DEF Open
  <2> QED
    BY <2>8 DEF s, prefix, exact
<1>4. CASE chosen = "multi-turn"
  <2>1. s = only
    BY <1>4 DEF Config!ServeProfile
  <2>2. c.origins[by] \in {"run", "cli"}
    BY <1>4
  <2> HIDE DEF chosen, prefix, exact, eos, by, yes, no
  <2>3. /\ Shaped(only) /\ \A r \in Config!Paths : r # prefix => only.values[r] = c.values[r] /\ only.origins[r] = c.origins[r]
        /\ only.values[prefix] = yes /\ only.origins[prefix] = c.origins[by]
        /\ ~only.refused => ~c.refused /\ (c.values[prefix] = yes \/ c.origins[prefix] = "default")
    BY <1>1, ForceStands DEF prefix, by
  <2> HIDE DEF only, s
  <2>4. ASSUME ~only.refused PROVE Kept(c, only)
    <3>1. ASSUME NEW q \in Config!Paths PROVE only.values[q] = c.values[q] \/ (q \in Ruled /\ c.origins[q] = "default")
      <4>1. CASE q = prefix
        BY <1>1, <2>3, <2>4, <4>1, Zenon
      <4>2. CASE q # prefix
        BY <2>3, <4>2, Zenon
      <4> QED
        BY <4>1, <4>2
    <3> QED
      BY <3>1 DEF Kept
  <2>5. only.origins[prefix] \in {"run", "cli"} /\ only.origins[exact] = c.origins[exact] /\ only.values[exact] = c.values[exact]
    BY <1>1, <1>2, <2>2, <2>3, Zenon
  <2>6. Shaped(s) /\ Open(c, s, prefix) /\ Open(c, s, exact) /\ (~s.refused => ~c.refused /\ Kept(c, s))
    BY <2>1, <2>3, <2>4, <2>5, Zenon DEF Open
  <2> QED
    BY <2>6 DEF s, prefix, exact
<1>5. CASE chosen # "stress-test" /\ chosen # "multi-turn"
  <2>1. s = c
    BY <1>5 DEF Config!ServeProfile
  <2> HIDE DEF s
  <2>2. Open(c, c, prefix) /\ Open(c, c, exact) /\ Kept(c, c)
    BY DEF Open, Kept
  <2> QED
    BY <2>1, <2>2 DEF s, prefix, exact
<1> QED
  BY <1>3, <1>4, <1>5

\* A required value is c's, or set where nobody asked.
LEMMA RequireKeeps ==
  ASSUME NEW c, NEW s, Shaped(s), NEW q \in Ruled, NEW wanted, Open(c, s, q), c.origins[q] \in {"default", "run", "cli"},
         ~s.refused => Kept(c, s)
  PROVE  /\ Shaped(Config!Require(s, q, wanted))
         /\ \A r \in Ruled : r # q /\ Open(c, s, r) => Open(c, Config!Require(s, q, wanted), r)
         /\ ~Config!Require(s, q, wanted).refused => ~s.refused /\ Kept(c, Config!Require(s, q, wanted))
<1> DEFINE t == Config!Require(s, q, wanted)
<1>1. q \in Config!Paths /\ Ruled \subseteq Config!Paths
  BY PathNames
<1>2. /\ Shaped(t) /\ \A r \in Config!Paths : r # q => t.values[r] = s.values[r] /\ t.origins[r] = s.origins[r]
      /\ ~t.refused => ~s.refused /\ (t.values[q] = s.values[q] \/ s.origins[q] \in Config!NotAsked)
  <2>1. q \in Config!Paths /\ Shaped(s)
    BY <1>1
  <2> QED
    BY <2>1, RequireStands, ZenonT(60)
<1> HIDE DEF t
<1>3. ASSUME NEW r \in Ruled, r # q, Open(c, s, r) PROVE Open(c, t, r)
  BY <1>1, <1>2, <1>3, Zenon DEF Open
<1>4. s.origins[q] \in Config!NotAsked => c.origins[q] = "default"
  BY DEF Open, Config!NotAsked
<1>5. ASSUME ~t.refused PROVE ~s.refused /\ Kept(c, t)
  <2>1. ASSUME NEW r \in Config!Paths PROVE t.values[r] = c.values[r] \/ (r \in Ruled /\ c.origins[r] = "default")
    <3>1. s.values[r] = c.values[r] \/ (r \in Ruled /\ c.origins[r] = "default")
      BY <1>2, <1>5, Zenon DEF Kept
    <3>2. CASE r = q
      BY <1>2, <1>4, <1>5, <3>1, <3>2, Zenon
    <3>3. CASE r # q
      BY <1>2, <3>1, <3>3, Zenon
    <3> QED
      BY <3>2, <3>3
  <2> QED
    BY <1>2, <1>5, <2>1, Zenon DEF Kept
<1> QED
  BY <1>2, <1>3, <1>5, Zenon DEF t

\* A config the rules do not refuse has every value anybody asked for: they set what has its default's origin only.
LEMMA RulesStand ==
  ASSUME NEW c, Shaped(c),
         c.values["serve_profile"] # "none" => c.origins["serve_profile"] \in {"run", "cli"},
         \A q \in Ruled : c.origins[q] \in {"default", "run", "cli"},
         NEW one, NEW two,
         NEW d, d = Config!Drawn(Config!Require(Config!Require(Config!ServeProfile(c), "prefix_caching", one),
                                                "exact_output_length", two)),
         ~d.refused
  PROVE  Kept(c, d)
<1> DEFINE s == Config!ServeProfile(c)
           t == Config!Require(s, "prefix_caching", one)
           u == Config!Require(t, "exact_output_length", two)
<1>1. "prefix_caching" \in Ruled /\ "exact_output_length" \in Ruled /\ "exact_output_length" # "prefix_caching"
  BY DEF Ruled
<1>2. Shaped(s) /\ Open(c, s, "prefix_caching") /\ Open(c, s, "exact_output_length") /\ (~s.refused => Kept(c, s))
  BY ProfileKeeps, Zenon
<1>3. d = Config!Drawn(u)
  OBVIOUS
<1> HIDE DEF s
<1>4. Shaped(t) /\ Open(c, t, "exact_output_length") /\ (~t.refused => Kept(c, t))
  BY <1>1, <1>2, RequireKeeps, Zenon
<1> HIDE DEF t
<1>5. Shaped(u) /\ (~u.refused => Kept(c, u))
  BY <1>1, <1>4, RequireKeeps, Zenon
<1> HIDE DEF u
<1>6. ~u.refused /\ d.values = u.values
  BY <1>3, <1>5, DrawnStands, Zenon
<1> QED
  BY <1>5, <1>6, Zenon DEF Kept

\* What the rules leave of the paths they look at: nobody but the run and --set gives them.
LEMMA RuledBy ==
  ASSUME AsksInv, NEW pt, NEW q \in Ruled \cup {"serve_profile"}
  PROVE  Config!Top(q, pt) \in {"default", "run", "cli"}
<1>1. Config!Layers(q) = {"run", "cli"} /\ q \notin Config!Keys
  BY DEF Ruled, Config!Layers, Config!Keys
<1>2. Config!Stated(q, pt) \subseteq {"run", "cli"}
  BY <1>1 DEF Config!Stated, Config!Layer, AsksInv
<1>3. Config!Stated(q, pt) # {} =>
        \E l \in Config!Stated(q, pt) : \A m \in Config!Stated(q, pt) : Config!Rank(m) <= Config!Rank(l)
  BY <1>2 DEF Config!Rank
<1> DEFINE S == Config!Stated(q, pt)
<1>4. Config!Top(q, pt) = IF S = {} THEN "default" ELSE CHOOSE l \in S : \A m \in S : Config!Rank(m) <= Config!Rank(l)
  BY DEF Config!Top
<1> QED
  BY <1>2, <1>3, <1>4

\* A point that resolves has every path's last word, or a value the rules set where nobody asked.
LEMMA PointStands ==
  ASSUME AsksInv, NEW pt, ~Config!Resolve(pt).refused, NEW q \in Config!Paths
  PROVE  Config!Resolve(pt).values[q] = Config!Word(q, pt) \/ Config!Top(q, pt) = "default"
<1>1. PICK c : /\ c = Config!Layered(pt) /\ Shaped(c)
               /\ \A r \in Config!Paths : c.values[r] = Config!Word(r, pt)
               /\ \A r \in Config!Paths : r \notin Config!Keys => c.origins[r] = Config!Top(r, pt)
  BY LayersStand
<1>2. PICK d : /\ d = Config!Resolve(pt)
               /\ d = Config!Drawn(Config!Require(Config!Require(Config!ServeProfile(c), "prefix_caching", source.required),
                                                 "exact_output_length", source.recorded))
  BY <1>1 DEF Config!Resolve
<1>3. \A r \in Ruled \cup {"serve_profile"} : c.origins[r] = Config!Top(r, pt) /\ c.origins[r] \in {"default", "run", "cli"}
  <2>1. \A r \in Ruled \cup {"serve_profile"} : r \in Config!Paths /\ r \notin Config!Keys
    BY PathNames, Zenon
  <2>2. \A r \in Ruled \cup {"serve_profile"} : Config!Top(r, pt) \in {"default", "run", "cli"}
    BY RuledBy, Zenon
  <2> QED
    BY <1>1, <2>1, <2>2
<1>4. c.values["serve_profile"] # "none" => c.origins["serve_profile"] \in {"run", "cli"}
  <2>1. c.values["serve_profile"] = Config!Word("serve_profile", pt)
    BY <1>1, PathNames
  <2>2. Config!Top("serve_profile", pt) = "default" => Config!Word("serve_profile", pt) = Config!Default["serve_profile"]
    BY Zenon DEF Config!Word
  <2> QED
    BY <1>3, <2>1, <2>2, PathNames
<1>5. Kept(c, d)
  <2>1. ~d.refused
    BY <1>2, Zenon
  <2> QED
    BY <1>1, <1>2, <1>3, <1>4, <2>1, RulesStand, Zenon
<1> QED
  BY <1>1, <1>2, <1>3, <1>5 DEF Kept

\* What the asks and the matrix say changes with neither of them.
LEMMA SameWords ==
  ASSUME UNCHANGED <<axis, asks>>
  PROVE  /\ Config!Points' = Config!Points
         /\ \A q, pt : Config!Word(q, pt)' = Config!Word(q, pt) /\ Config!Top(q, pt)' = Config!Top(q, pt)
<1>1. \A a : Config!RestrictedBy(a)' = Config!RestrictedBy(a) /\ Config!Shadowed(a)' = Config!Shadowed(a)
  BY DEF Config!RestrictedBy, Config!Shadowed
<1>2. Config!Points' = Config!Points
  BY DEF Config!Points, Config!RestrictedBy
<1>3. \A l, pt : Config!Layer(l, pt)' = Config!Layer(l, pt)
  BY DEF Config!Layer, Config!RestrictedBy, Config!Shadowed
<1>4. \A l, pt : Config!Pointed(l, pt)' = Config!Pointed(l, pt)
  BY DEF Config!Pointed
<1>5. \A q, pt : Config!Stated(q, pt)' = Config!Stated(q, pt)
  BY <1>3, <1>4 DEF Config!Stated
<1>6. \A q, pt : Config!Top(q, pt)' = Config!Top(q, pt)
  BY DEF Config!Top, Config!Rank, Config!Stated, Config!Layer, Config!RestrictedBy, Config!Shadowed, Config!Pointed
<1>7. \A l, q, pt : Config!WordOf(l, q, pt)' = Config!WordOf(l, q, pt)
  BY DEF Config!WordOf, Config!Layer, Config!RestrictedBy, Config!Shadowed, Config!Pointed
<1>8. \A q, pt : Config!Word(q, pt)' = Config!Word(q, pt)
  BY <1>6, <1>7 DEF Config!Word
<1> QED
  BY <1>2, <1>6, <1>8

LEMMA ConfigNext ==
  ASSUME AsksInv, Config!LastWordStands, Config!Next
  PROVE  AsksInv' /\ Config!LastWordStands'
<1>1. CASE Config!Ask
  <2>1. loaded' = loaded /\ loaded = Config!NotYet
    BY <1>1 DEF Config!Ask
  <2>2. Config!LastWordStands'
    BY <2>1 DEF Config!LastWordStands, Config!NotYet
  <2>3. PICK paths \in {s \in Config!Subjects : {b.path : b \in asks} \subseteq s} : \E r \in paths : \E a \in Config!AsksOf(r) :
          /\ ~\E b \in asks : /\ b.layer = a.layer /\ b.var = a.var
                              /\ b.path = r \/ ((a.whole \/ b.whole) /\ {r, b.path} \subseteq Config!Keys)
          /\ asks' = asks \cup {a}
    BY <1>1, Zenon DEF Config!Ask
  <2>6. PICK r \in paths : \E a \in Config!AsksOf(r) :
          /\ ~\E b \in asks : /\ b.layer = a.layer /\ b.var = a.var
                              /\ b.path = r \/ ((a.whole \/ b.whole) /\ {r, b.path} \subseteq Config!Keys)
          /\ asks' = asks \cup {a}
    BY <2>3
  <2>7. PICK a \in Config!AsksOf(r) :
          /\ ~\E b \in asks : /\ b.layer = a.layer /\ b.var = a.var
                              /\ b.path = r \/ ((a.whole \/ b.whole) /\ {r, b.path} \subseteq Config!Keys)
          /\ asks' = asks \cup {a}
    BY <2>6
  <2>4. a.path = r /\ a.layer \in Config!Layers(r) /\ a.var \in 1 .. 2 /\ (a.var = 2 => a.layer = "env")
        /\ (a.whole => r \in Config!Keys)
    BY DEF Config!AsksOf, Config!Legal
  <2>5. r \in Config!Paths
    BY <2>3 DEF Config!Subjects, Config!Paths, Config!Default, Config!Keys
  <2> QED
    BY <2>2, <2>7, <2>4, <2>5 DEF AsksInv
<1>2. CASE Config!Load
  <2>1. UNCHANGED <<axis, asks>>
    BY <1>2 DEF Config!Load
  <2>2. AsksInv'
    BY <2>1 DEF AsksInv
  <2> DEFINE points == Config!Points
  <2>3. \A k \in DOMAIN loaded'.points : /\ k \in DOMAIN points /\ loaded'.points[k] = Config!Resolve(points[k])
                                        /\ ~Config!Resolve(points[k]).refused
    BY <1>2 DEF Config!Load
  <2> HIDE DEF points
  <2>4. ASSUME NEW k \in DOMAIN loaded'.points, NEW q \in Config!Paths
        PROVE  loaded'.points[k].values[q] = Config!Word(q, points[k]) \/ Config!Top(q, points[k]) = "default"
    BY <2>3, PointStands
  <2> QED
    BY <2>1, <2>2, <2>4, SameWords DEF Config!LastWordStands, points
<1>3. CASE UNCHANGED <<source, axis, asks, loaded>>
  <2>1. AsksInv'
    BY <1>3 DEF AsksInv
  <2> QED
    BY <1>3, <2>1, SameWords DEF Config!LastWordStands
<1> QED
  BY <1>1, <1>2, <1>3 DEF Config!Next, Config!Loaded, Config!vars

\* In every config that is run a value is the last word of --set, environment, run or matrix, model, hardware and default,
\* and the rules change what nobody asked for only (config/loader.py), whatever the layers give and however many asks.
THEOREM LastWords == Spec => []LastWordStands
<1> DEFINE I == command = "config" => AsksInv /\ Config!LastWordStands
<1>1. Init => I
  <2> SUFFICES ASSUME Init, command = "config"
               PROVE  AsksInv /\ Config!LastWordStands
    OBVIOUS
  <2>1. asks = {} /\ loaded = Config!NotYet
    BY DEF Init, Config!Init
  <2> QED
    BY <2>1 DEF AsksInv, Config!LastWordStands, Config!NotYet
<1>2. I /\ [Next]_vars => I'
  <2>1. CASE Next
    BY <2>1, ConfigNext DEF Next
  <2>2. CASE UNCHANGED vars
    <3>1. command' = command /\ loaded' = loaded /\ UNCHANGED <<axis, asks>>
      BY <2>2 DEF vars, configVars
    <3>2. AsksInv => AsksInv'
      BY <3>1 DEF AsksInv
    <3>3. Config!LastWordStands => Config!LastWordStands'
      BY <3>1, SameWords DEF Config!LastWordStands
    <3> QED
      BY <3>1, <3>2, <3>3
  <2> QED
    BY <2>1, <2>2
<1>3. I => LastWordStands
  BY DEF LastWordStands
<1> QED
  BY <1>1, <1>2, <1>3, PTL DEF Spec

\* A set of naturals has a least member.
LEMMA Least ==
  ASSUME NEW T \in SUBSET Nat, T # {}
  PROVE  \E k \in T : \A j \in T : k <= j
<1>1. PICK x \in T : \A y \in T : ~ (<<y, x>> \in OpToRel(<, Nat))
  BY NatLessThanWellFounded, WFMin
<1>2. \A y \in T : ~ (y < x)
  BY <1>1 DEF OpToRel
<1> QED
  BY <1>2

-------------------------------------------------------------------------------
(* compare (Compare). *)

Sides == {"ours", "theirs", "floor"}
AnswerRows == Seq([came : BOOLEAN, tokens : Seq({1, 2}), near : BOOLEAN])
Lines == Seq([kind : {"loop", "batch", "criterion"}, pref : 1 .. 4])
CompareInv ==
  /\ DOMAIN answers = Sides /\ \A side \in Sides : answers[side] \in AnswerRows
  /\ log \in Lines

LEMMA CompareCounts == \A S : Comparison!Cardinality(S) = Cardinality(S)
BY DEF Comparison!Cardinality, Cardinality

\* A published pair differs in nothing both sides know, and swapped it is published too.
LEMMA RatioFair == Comparison!RatioIsFair
<1>1. ASSUME NEW o, NEW t, Comparison!Published(o, t)
      PROVE  /\ o.shared /\ t.shared /\ ~Comparison!NotComparable(o) /\ ~Comparison!NotComparable(t)
             /\ o.kv = "?" \/ o.kv = t.kv
             /\ o.quant = "?" \/ o.quant = t.quant
             /\ ~Comparison!CommBound(o, t) /\ Comparison!MethodMatched(o, t)
             /\ Comparison!Style(o) = Comparison!Style(t) /\ ~Comparison!Differs("hash", o, t) /\ o.mix = t.mix
  <2>1. o.shared /\ t.shared /\ Comparison!Withheld(o, t) = {}
    BY <1>1 DEF Comparison!Published
  <2>2. \A P : (IF P THEN {"x"} ELSE {}) = {} => ~P
    OBVIOUS
  <2> QED
    BY <2>1 DEF Comparison!Withheld, Comparison!Unknown
<1>2. ASSUME NEW o, NEW t, o.shared, t.shared, ~Comparison!NotComparable(o), ~Comparison!NotComparable(t),
             o.kv = "?" \/ o.kv = t.kv,
             o.quant = "?" \/ o.quant = t.quant,
             ~Comparison!CommBound(o, t), Comparison!MethodMatched(o, t),
             Comparison!Style(o) = Comparison!Style(t), ~Comparison!Differs("hash", o, t), o.mix = t.mix
      PROVE  Comparison!Published(o, t)
  BY <1>2 DEF Comparison!Published, Comparison!Withheld, Comparison!Unknown
<1>3. ASSUME Comparison!Published(ours, theirs)
      PROVE  /\ \A side \in {ours, theirs} : side.latencyValid /\ side.status = "ok" /\ (side.method \in Comparison!Marginal \/ allow)
             /\ \A f \in {"quant", "kv", "serving", "hash", "mix"} : ~Comparison!Differs(f, ours, theirs)
  <2>1. \A side \in {ours, theirs} : side.latencyValid /\ side.status = "ok"
    BY <1>1, <1>3, Zenon DEF Comparison!NotComparable
  <2>2. \A side \in {ours, theirs} : side.method \in Comparison!Marginal \/ allow
    BY <1>1, <1>3, Zenon DEF Comparison!MethodMatched
  <2>3. ~Comparison!Differs("quant", ours, theirs) /\ ~Comparison!Differs("kv", ours, theirs) /\ ~Comparison!Differs("mix", ours, theirs)
        /\ ~Comparison!Differs("hash", ours, theirs)
    BY <1>1, <1>3 DEF Comparison!Differs, Comparison!Unknown
  <2>4. ~Comparison!Differs("serving", ours, theirs)
    BY <1>1, <1>3 DEF Comparison!Differs, Comparison!Style
  <2> QED
    BY <2>1, <2>2, <2>3, <2>4
<1>4. ASSUME NEW o, NEW t, Comparison!Known(o), Comparison!Known(t), o.comm = t.comm, Comparison!Published(o, t)
      PROVE  Comparison!Published(t, o)
  <2>1. o.kv = t.kv /\ o.quant = t.quant
    BY <1>1, <1>4 DEF Comparison!Known, Comparison!Unknown
  <2>2. ~Comparison!CommBound(t, o)
    BY <1>1, <1>4 DEF Comparison!CommBound
  <2>3. Comparison!MethodMatched(t, o)
    BY <1>1, <1>4 DEF Comparison!MethodMatched
  <2>4. ~Comparison!Differs("hash", t, o)
    BY <1>1, <1>4 DEF Comparison!Differs
  <2> QED
    BY <1>1, <1>2, <1>4, <2>1, <2>2, <2>3, <2>4
<1>5. Comparison!Known(ours) /\ Comparison!Known(theirs) /\ ours.comm = theirs.comm =>
        (Comparison!Published(ours, theirs) <=> Comparison!Published(theirs, ours))
  BY <1>4
<1> QED
  BY <1>3, <1>5, Zenon DEF Comparison!RatioIsFair

\* The last of the best lines of S.
IsBest(k, S) == k \in S /\ \A j \in S : log[k].pref <= log[j].pref /\ (log[j].pref = log[k].pref => j <= k)

LEMMA LinesTyped ==
  ASSUME log \in Lines
  PROVE  Len(log) \in Nat /\ DOMAIN log = 1 .. Len(log) /\ \A k \in 1 .. Len(log) : log[k].pref \in 1 .. 4
<1> DEFINE R == [kind : {"loop", "batch", "criterion"}, pref : 1 .. 4]
<1>1. log \in Seq(R)
  BY DEF Lines
<1>2. \A r \in R : r.pref \in 1 .. 4
  OBVIOUS
<1> HIDE DEF R
<1>3. Len(log) \in Nat /\ DOMAIN log = 1 .. Len(log) /\ \A k \in 1 .. Len(log) : log[k] \in R
  BY <1>1
<1> QED
  BY <1>2, <1>3

LEMMA BestExists ==
  ASSUME log \in Lines, NEW S, S \subseteq DOMAIN log, S # {}
  PROVE  \E k : IsBest(k, S)
<1>1. \A k \in S : log[k].pref \in 1 .. 4
  BY LinesTyped
<1>2. \E p1 \in 1 .. 4 : (\E k \in S : log[k].pref = p1) /\ \A k \in S : p1 <= log[k].pref
  <2> DEFINE has(r) == \E k \in S : log[k].pref = r
  <2>1. has(1) \/ has(2) \/ has(3) \/ has(4)
    BY <1>1
  <2>2. \A r \in 1 .. 4 : (\A s \in 1 .. 4 : s < r => ~has(s)) => \A k \in S : r <= log[k].pref
    BY <1>1
  <2> HIDE DEF has
  <2>3. \E r \in 1 .. 4 : has(r) /\ \A s \in 1 .. 4 : s < r => ~has(s)
    <3>1. CASE has(1)
      BY <3>1
    <3>2. CASE ~has(1) /\ has(2)
      BY <3>2
    <3>3. CASE ~has(1) /\ ~has(2) /\ has(3)
      BY <3>3
    <3>4. CASE ~has(1) /\ ~has(2) /\ ~has(3) /\ has(4)
      BY <3>4
    <3> QED
      BY <2>1, <3>1, <3>2, <3>3, <3>4
  <2> QED
    BY <2>2, <2>3 DEF has
<1>3. PICK p1 \in 1 .. 4 : (\E k \in S : log[k].pref = p1) /\ \A k \in S : p1 <= log[k].pref
  BY <1>2
<1> DEFINE T == {k \in S : log[k].pref = p1}
<1>4. T \subseteq 1 .. Len(log) /\ T # {} /\ Len(log) \in Nat
  BY <1>3, LinesTyped
<1>5. PICK k \in T : \A j \in T : j <= k
  BY <1>4, Greatest
<1>6. IsBest(k, S)
  BY <1>3, <1>5 DEF IsBest
<1> QED
  BY <1>6

\* One more line, later than the others.
LEMMA LaterBest ==
  ASSUME log \in Lines, NEW S, S \subseteq DOMAIN log, NEW m \in S, \A s \in S : s <= m,
         NEW v, IF S \ {m} = {} THEN v = 0 ELSE IsBest(v, S \ {m})
  PROVE  IsBest(Comparison!Later(v, m), S)
<1>1. \A k \in S : log[k].pref \in 1 .. 4 /\ k \in 1 .. Len(log) /\ Len(log) \in Nat
  BY LinesTyped
<1>2. CASE S \ {m} = {}
  <2>1. S = {m} /\ Comparison!Later(v, m) = m
    BY <1>2 DEF Comparison!Later
  <2> QED
    BY <1>1, <2>1 DEF IsBest
<1>3. CASE S \ {m} # {}
  <2>1. v \in S /\ v # m /\ v # 0
        /\ \A j \in S : j # m => log[v].pref <= log[j].pref /\ (log[j].pref = log[v].pref => j <= v)
    BY <1>1, <1>3 DEF IsBest
  <2>2. CASE log[m].pref <= log[v].pref
    <3>1. Comparison!Later(v, m) = m
      BY <2>2 DEF Comparison!Later
    <3> QED
      BY <1>1, <2>1, <2>2, <3>1 DEF IsBest
  <2>3. CASE ~(log[m].pref <= log[v].pref)
    <3>1. Comparison!Later(v, m) = v
      BY <2>1, <2>3 DEF Comparison!Later
    <3> QED
      BY <1>1, <2>1, <2>3, <3>1 DEF IsBest
  <2> QED
    BY <2>2, <2>3
<1> QED
  BY <1>2, <1>3

LEMMA OneBest ==
  ASSUME log \in Lines, NEW S, S \subseteq DOMAIN log, NEW k, NEW j, IsBest(k, S), IsBest(j, S)
  PROVE  k = j
<1>1. \A i \in S : log[i].pref \in 1 .. 4 /\ i \in Nat
  BY LinesTyped
<1> QED
  BY <1>1 DEF IsBest

LEMMA FoldBest ==
  ASSUME log \in Lines, log # <<>>
  PROVE  IsBest(Comparison!FoldLeftDomain(Comparison!Later, 0, log), DOMAIN log)
<1> DEFINE D == DOMAIN log
           n == Len(log)
           top(S) == Comparison!Max(S)
           places == [i \in DOMAIN log |-> i]
           F(f) == [S \in SUBSET (DOMAIN places) |->
                     IF S = {} THEN 0 ELSE Comparison!Later(f[S \ {top(S)}], places[top(S)])]
           u == CHOOSE f : f = F(f)
           h == [S \in SUBSET D |-> IF S = {} THEN 0 ELSE CHOOSE k : IsBest(k, S)]
<1>1. n \in Nat /\ n > 0 /\ D = 1 .. n
  BY LinesTyped DEF Lines
<1>0. DOMAIN places = D /\ \A i \in D : places[i] = i
  OBVIOUS
<1>2. \A S \in SUBSET D : S # {} => top(S) \in S /\ \A s \in S : s <= top(S)
  <2> TAKE S \in SUBSET D
  <2>1. S # {} => \E m \in S : \A s \in S : s <= m
    BY <1>1, Greatest
  <2> QED
    BY <2>1 DEF Comparison!Max
<1>3. h = F(h)
  <2> HIDE DEF D, n, top, places
  <2>1. ASSUME NEW S \in SUBSET D, S # {}
        PROVE  h[S] = Comparison!Later(h[S \ {top(S)}], top(S))
    <3>1. top(S) \in S /\ (\A s \in S : s <= top(S)) /\ S \subseteq D
      BY <1>2, <2>1
    <3>2. IF S \ {top(S)} = {} THEN h[S \ {top(S)}] = 0 ELSE IsBest(h[S \ {top(S)}], S \ {top(S)})
      BY <3>1, BestExists DEF D
    <3>3. IsBest(h[S], S)
      BY <2>1, BestExists DEF D
    <3> HIDE DEF h
    <3>4. IsBest(Comparison!Later(h[S \ {top(S)}], top(S)), S)
      BY <3>1, <3>2, LaterBest DEF D
    <3> QED
      BY <3>1, <3>3, <3>4, OneBest DEF D
  <2>2. h[{}] = 0
    OBVIOUS
  <2>3. DOMAIN h = SUBSET D /\ h = [S \in SUBSET D |-> h[S]]
    OBVIOUS
  <2> HIDE DEF h
  <2>4. \A S \in SUBSET D : h[S] = IF S = {} THEN 0 ELSE Comparison!Later(h[S \ {top(S)}], places[top(S)])
    BY <1>0, <1>2, <2>1, <2>2
  <2> QED
    BY <1>0, <2>3, <2>4
<1>4. u = F(u)
  BY <1>3
<1>5. Comparison!FoldLeftDomain(Comparison!Later, 0, log) = u[DOMAIN places]
  BY DEF Comparison!FoldLeftDomain, Comparison!FoldLeft, Comparison!MapThenFoldSet
<1> HIDE DEF u, h
<1>6. \A S \in SUBSET D : u[S] = IF S = {} THEN 0 ELSE Comparison!Later(u[S \ {top(S)}], top(S))
  <2> HIDE DEF D, places, top
  <2>1. \A S \in SUBSET D : u[S] = IF S = {} THEN 0 ELSE Comparison!Later(u[S \ {top(S)}], places[top(S)])
    BY <1>0, <1>4
  <2> QED
    BY <1>0, <1>2, <2>1
<1>7. ASSUME NEW k \in 1 .. n, k > 1 => IsBest(u[1 .. (k - 1)], 1 .. (k - 1)) PROVE IsBest(u[1 .. k], 1 .. k)
  <2> DEFINE S == 1 .. k
  <2> HIDE DEF D, n, u
  <2>0. k \in Nat /\ k > 0 /\ k <= n /\ n \in Nat
    BY <1>1
  <2>1. S \in SUBSET D /\ S # {} /\ k \in S /\ (\A s \in S : s <= k) /\ S \ {k} = 1 .. (k - 1)
    <3>1. S \in SUBSET D
      BY <1>1, <2>0
    <3>2. k \in S /\ \A s \in S : s <= k
      BY <2>0
    <3>3. S \ {k} = 1 .. (k - 1)
      BY <2>0
    <3> QED
      BY <3>1, <3>2, <3>3
  <2>2. top(S) = k
    <3>1. top(S) \in S /\ \A s \in S : s <= top(S)
      BY <1>2, <2>1
    <3> HIDE DEF top
    <3> QED
      BY <1>1, <2>1, <3>1
  <2>3. S \ {k} = {} <=> k = 1
    BY <1>1, <1>7, <2>1
  <2>4. IF S \ {k} = {} THEN u[S \ {k}] = 0 ELSE IsBest(u[S \ {k}], S \ {k})
    <3>1. CASE k = 1
      BY <1>6, <2>3, <3>1
    <3>2. CASE k # 1
      <4>1. k > 1
        BY <1>1, <3>2
      <4> QED
        BY <1>7, <2>1, <2>3, <3>2, <4>1
    <3> QED
      BY <3>1, <3>2
  <2>5. u[S] = Comparison!Later(u[S \ {k}], k)
    BY <1>6, <2>1, <2>2
  <2> HIDE DEF S
  <2>6. IsBest(u[S], S)
    BY <2>1, <2>4, <2>5, LaterBest DEF D
  <2> QED
    BY <2>6 DEF S
<1>8. \A k \in 1 .. n : IsBest(u[1 .. k], 1 .. k)
  <2> DEFINE T == {k \in 1 .. n : ~IsBest(u[1 .. k], 1 .. k)}
  <2>1. SUFFICES ASSUME T # {} PROVE FALSE
    OBVIOUS
  <2>2. PICK k \in T : \A j \in T : k <= j
    <3>1. T \in SUBSET Nat
      BY <1>1
    <3> HIDE DEF T
    <3> QED
      BY <2>1, <3>1, Least, Zenon
  <2>3. k > 1 => k - 1 \in 1 .. n /\ k - 1 \notin T
    BY <1>1, <2>2
  <2>4. IsBest(u[1 .. k], 1 .. k)
    BY <1>7, <2>3
  <2> QED
    BY <2>4
<1>9. IsBest(u[D], D)
  BY <1>1, <1>8
<1> QED
  BY <1>0, <1>5, <1>9

LEMMA LastBest ==
  ASSUME log \in Lines
  PROVE  Comparison!LastOfBest
<1> SUFFICES ASSUME log # <<>>, \A k \in DOMAIN log : log[k].kind = "criterion"
             PROVE  IsBest(Comparison!Point, DOMAIN log)
  <2>1. IsBest(Comparison!Point, DOMAIN log) =>
          /\ \A k \in DOMAIN log : log[Comparison!Point].pref <= log[k].pref
          /\ \A k \in DOMAIN log : log[k].pref = log[Comparison!Point].pref => k <= Comparison!Point
    BY Zenon DEF IsBest
  <2> QED
    BY <2>1 DEF Comparison!LastOfBest
<1>1. {k \in DOMAIN log : log[k].kind = "loop"} = {} /\ {k \in DOMAIN log : log[k].kind = "batch"} = {}
  OBVIOUS
<1>2. Comparison!Point = Comparison!FoldLeftDomain(Comparison!Later, 0, log)
  BY <1>1 DEF Comparison!Point
<1> QED
  BY <1>2, FoldBest

-------------------------------------------------------------------------------
(* The rows that came. *)

UpTo(c, k) == Cardinality({i \in c : i <= k})

\* A step up counts one more where there is a member.
Climbs(c) ==
  \A k \in Nat : (k + 1 \in c => UpTo(c, k + 1) = UpTo(c, k) + 1) /\ (k + 1 \notin c => UpTo(c, k + 1) = UpTo(c, k))

LEMMA UpToStep ==
  ASSUME NEW n \in Nat, NEW c, c \subseteq 1 .. n
  PROVE  /\ IsFiniteSet(c) /\ Cardinality(c) \in Nat /\ Cardinality(c) <= n
         /\ \A k \in Nat : UpTo(c, k) \in Nat
         /\ UpTo(c, 0) = 0 /\ UpTo(c, n) = Cardinality(c)
         /\ Climbs(c)
<1>1. IsFiniteSet(1 .. n) /\ Cardinality(1 .. n) = n
  BY FS_Interval
<1>2. IsFiniteSet(c) /\ Cardinality(c) \in Nat /\ Cardinality(c) <= n
  BY <1>1, FS_Subset, FS_CardinalityType
<1>3. \A k \in Nat : IsFiniteSet({i \in c : i <= k}) /\ UpTo(c, k) \in Nat
  <2> TAKE k \in Nat
  <2>1. {i \in c : i <= k} \subseteq c
    OBVIOUS
  <2> QED
    BY <1>2, <2>1, FS_Subset, FS_CardinalityType DEF UpTo
<1>0. \A i \in c : i \in Nat /\ i > 0 /\ i <= n
  OBVIOUS
<1>4. UpTo(c, 0) = 0
  <2>1. {i \in c : i <= 0} = {}
    <3>1. \A i \in c : ~(i <= 0)
      BY <1>0
    <3> QED
      BY <3>1, Zenon
  <2> QED
    BY <2>1, FS_EmptySet DEF UpTo
<1>5. UpTo(c, n) = Cardinality(c)
  <2>1. {i \in c : i <= n} = c
    BY <1>0
  <2> QED
    BY <2>1 DEF UpTo
<1>6. ASSUME NEW k \in Nat
      PROVE  (k + 1 \in c => UpTo(c, k + 1) = UpTo(c, k) + 1) /\ (k + 1 \notin c => UpTo(c, k + 1) = UpTo(c, k))
  <2> DEFINE S == {i \in c : i <= k}
             T == {i \in c : i <= k + 1}
  <2>0. \A i \in c : i \in Nat
    BY <1>0
  <2>00. \A i \in Nat : i <= k + 1 <=> (i <= k \/ i = k + 1)
    OBVIOUS
  <2>1. CASE k + 1 \in c
    <3>1. T = S \cup {k + 1} /\ k + 1 \notin S
      <4>1. ~(k + 1 <= k)
        OBVIOUS
      <4>2. \A i : i \in T <=> i \in S \cup {k + 1}
        BY <2>0, <2>00, <2>1, Zenon
      <4> QED
        BY <4>1, <4>2, Zenon
    <3>2. IsFiniteSet(S)
      BY <1>3
    <3> HIDE DEF S, T
    <3>3. Cardinality(T) = Cardinality(S) + 1
      BY <3>1, <3>2, FS_AddElement
    <3> QED
      BY <2>1, <3>3 DEF S, T, UpTo
  <2>2. CASE k + 1 \notin c
    <3>1. T = S
      BY <2>0, <2>00, <2>2, Zenon
    <3> QED
      BY <2>2, <3>1 DEF UpTo
  <2> QED
    BY <2>1, <2>2
<1>7. Climbs(c)
  BY <1>6, Zenon DEF Climbs
<1> QED
  BY <1>2, <1>3, <1>4, <1>5, <1>7

\* The j-th member is there.
LEMMA NthThere ==
  ASSUME NEW n \in Nat, NEW c, c \subseteq 1 .. n, NEW j \in 1 .. Cardinality(c)
  PROVE  \E k \in c : UpTo(c, k) = j
<1>0. /\ Cardinality(c) \in Nat /\ UpTo(c, 0) = 0 /\ UpTo(c, n) = Cardinality(c) /\ \A k \in Nat : UpTo(c, k) \in Nat
      /\ \A k \in Nat : (k + 1 \in c => UpTo(c, k + 1) = UpTo(c, k) + 1) /\ (k + 1 \notin c => UpTo(c, k + 1) = UpTo(c, k))
  <2>1. Cardinality(c) \in Nat /\ UpTo(c, 0) = 0 /\ UpTo(c, n) = Cardinality(c)
    BY UpToStep
  <2>2. \A k \in Nat : UpTo(c, k) \in Nat
    BY UpToStep
  <2>3. Climbs(c)
    BY UpToStep
  <2> QED
    BY <2>1, <2>2, <2>3, Zenon DEF Climbs
<1> DEFINE T == {k \in Nat : UpTo(c, k) >= j}
<1>1. j \in Nat /\ j > 0 /\ j <= Cardinality(c) /\ Cardinality(c) \in Nat
  BY <1>0
<1>2. T \in SUBSET Nat /\ n \in T
  BY <1>1, <1>0
<1>3. PICK k \in T : \A i \in T : k <= i
  <2> HIDE DEF T
  <2> QED
    BY <1>2, Least
<1>4. k \in Nat /\ UpTo(c, k) \in Nat /\ UpTo(c, k) >= j
  BY <1>0
<1>5. k # 0
  BY <1>1, <1>4, <1>0
<1>6. k - 1 \in Nat /\ k - 1 \notin T /\ (k - 1) + 1 = k
  BY <1>3, <1>4, <1>5
<1>7. UpTo(c, k - 1) \in Nat /\ UpTo(c, k - 1) < j
  BY <1>1, <1>6, <1>0
<1>8. (k \in c => UpTo(c, k) = UpTo(c, k - 1) + 1) /\ (k \notin c => UpTo(c, k) = UpTo(c, k - 1))
  BY <1>6, <1>0
<1> QED
  BY <1>1, <1>4, <1>7, <1>8

\* Two members have two places.
LEMMA PlacesGrow ==
  ASSUME NEW n \in Nat, NEW c, c \subseteq 1 .. n, NEW k \in c, NEW l \in c, k < l
  PROVE  UpTo(c, k) < UpTo(c, l)
<1> DEFINE S == {i \in c : i <= k}
           T == {i \in c : i <= l}
<1>1. k \in Nat /\ l \in Nat /\ \A i \in c : i \in Nat
  OBVIOUS
<1>6. ~(l <= k) /\ l <= l /\ \A i \in Nat : i <= k => i <= l
  BY <1>1
<1>2. S \subseteq T /\ l \in T /\ l \notin S
  BY <1>1, <1>6, Zenon
<1>3. IsFiniteSet(T)
  <2>1. T \subseteq c
    OBVIOUS
  <2> QED
    BY <2>1, UpToStep, FS_Subset
<1> HIDE DEF S, T
<1>4. Cardinality(S) \in Nat /\ Cardinality(T) \in Nat /\ Cardinality(S) <= Cardinality(T) /\ (Cardinality(S) = Cardinality(T) => S = T)
  BY <1>2, <1>3, FS_Subset, FS_CardinalityType
<1>5. Cardinality(S) < Cardinality(T)
  BY <1>2, <1>4
<1> QED
  BY <1>5 DEF S, T, UpTo

\* While none is missing, the j-th is j.
LEMMA NthOfAll ==
  ASSUME NEW n \in Nat, NEW c, c \subseteq 1 .. n, NEW m \in Nat, 1 .. m \subseteq c, NEW j \in 1 .. m
  PROVE  /\ j <= Cardinality(c) /\ UpTo(c, j) = j
         /\ \A k \in c : UpTo(c, k) = j => k = j
<1>0. j \in Nat /\ j > 0 /\ j <= m /\ \A i \in c : i \in Nat /\ i > 0
  OBVIOUS
<1>1. {i \in c : i <= j} = 1 .. j
  <2>1. \A i : i \in 1 .. j => i \in c /\ i <= j
    BY <1>0
  <2>2. \A i \in c : i <= j => i \in 1 .. j
    BY <1>0
  <2> QED
    BY <2>1, <2>2, Zenon
<1>2. UpTo(c, j) = j
  BY <1>0, <1>1, CountUpTo, Zenon DEF UpTo
<1>3. ASSUME NEW k \in c, UpTo(c, k) = j PROVE k = j
  <2>1. j \in c /\ j \in Nat /\ k \in Nat
    OBVIOUS
  <2>2. ~(k < j) /\ ~(j < k)
    <3>1. (k < j => UpTo(c, k) < UpTo(c, j)) /\ (j < k => UpTo(c, j) < UpTo(c, k))
      BY <2>1, PlacesGrow, Zenon
    <3> QED
      BY <1>0, <1>2, <1>3, <3>1
  <2> QED
    BY <2>1, <2>2
<1>4. j <= Cardinality(c)
  <2>1. 1 .. j \subseteq c /\ j \in Nat
    OBVIOUS
  <2> QED
    <3>1. IsFiniteSet(c) /\ Cardinality(1 .. j) = j
      BY <2>1, UpToStep, CountUpTo, Zenon
    <3>2. Cardinality(1 .. j) <= Cardinality(c)
      BY <2>1, <3>1, FS_Subset
    <3> QED
      BY <3>1, <3>2
<1> QED
  BY <1>2, <1>3, <1>4

LEMMA CameThere ==
  ASSUME NEW rows \in AnswerRows
  PROVE  /\ Len(rows) \in Nat /\ DOMAIN rows = 1 .. Len(rows) /\ Comparison!Came(rows) \subseteq 1 .. Len(rows)
         /\ \A k \in DOMAIN rows : rows[k].tokens \in Seq({1, 2})
<1> DEFINE R == [came : BOOLEAN, tokens : Seq({1, 2}), near : BOOLEAN]
<1>1. rows \in Seq(R)
  BY DEF AnswerRows
<1>2. \A r \in R : r.tokens \in Seq({1, 2})
  OBVIOUS
<1> HIDE DEF R
<1>3. Len(rows) \in Nat /\ DOMAIN rows = 1 .. Len(rows) /\ \A k \in DOMAIN rows : rows[k] \in R
  BY <1>1
<1>4. Comparison!Came(rows) \subseteq DOMAIN rows
  BY DEF Comparison!Came
<1> QED
  BY <1>2, <1>3, <1>4

\* What is returned of a run's rows is rows of it, of a repetition the next that came.
LEMMA ReturnedRows ==
  ASSUME NEW rows \in AnswerRows
  PROVE  /\ DOMAIN Comparison!Returned(rows) \subseteq 1 .. Len(rows)
         /\ \A k \in DOMAIN Comparison!Returned(rows) : Len(Comparison!Returned(rows)[k].tokens) \in Nat
         /\ ~grid => /\ DOMAIN Comparison!Returned(rows) = Comparison!Came(rows)
                     /\ \A k \in Comparison!Came(rows) : Comparison!Returned(rows)[k] = rows[k]
         /\ grid => \A m \in Nat : 1 .. m \subseteq Comparison!Came(rows) =>
              \A k \in 1 .. m : k \in DOMAIN Comparison!Returned(rows) /\ Comparison!Returned(rows)[k] = rows[k]
<1> DEFINE c == Comparison!Came(rows)
           n == Len(rows)
           R == Comparison!Returned(rows)
<1>1. n \in Nat /\ c \subseteq 1 .. n /\ DOMAIN rows = 1 .. n /\ \A k \in DOMAIN rows : rows[k].tokens \in Seq({1, 2})
  BY CameThere
<1>2. \A k \in DOMAIN rows : Len(rows[k].tokens) \in Nat
  BY <1>1
<1>3. CASE ~grid
  <2>1. R = [k \in c |-> rows[k]]
    BY <1>3 DEF Comparison!Returned, Comparison!Restrict
  <2> HIDE DEF R, c, n
  <2>2. DOMAIN R = c /\ \A k \in c : R[k] = rows[k]
    BY <2>1
  <2>3. \A k \in DOMAIN R : Len(R[k].tokens) \in Nat
    BY <1>1, <1>2, <2>2
  <2> QED
    BY <1>1, <1>3, <2>2, <2>3 DEF R, c, n
<1>4. CASE grid
  <2>1. R = [j \in 1 .. Cardinality(c) |-> rows[Comparison!Nth(rows, j)]]
    BY <1>4, CompareCounts DEF Comparison!Returned
  <2>2. \A j : Comparison!Nth(rows, j) = CHOOSE k \in c : UpTo(c, k) = j
    BY CompareCounts DEF Comparison!Nth, UpTo
  <2> HIDE DEF R, c, n
  <2>3. DOMAIN R = 1 .. Cardinality(c) /\ \A j \in 1 .. Cardinality(c) : R[j] = rows[Comparison!Nth(rows, j)]
    BY <2>1
  <2>4. ASSUME NEW j \in 1 .. Cardinality(c) PROVE Comparison!Nth(rows, j) \in c /\ UpTo(c, Comparison!Nth(rows, j)) = j
    <3>1. \E k \in c : UpTo(c, k) = j
      BY <1>1, NthThere
    <3> QED
      BY <2>2, <3>1
  <2>5. \A k \in DOMAIN R : Len(R[k].tokens) \in Nat
    BY <1>1, <1>2, <2>3, <2>4
  <2>6. DOMAIN R \subseteq 1 .. n
    <3>1. Cardinality(c) \in Nat /\ Cardinality(c) <= n
      BY <1>1, UpToStep, Zenon
    <3> QED
      BY <1>1, <2>3, <3>1
  <2>7. ASSUME NEW m \in Nat, 1 .. m \subseteq c, NEW k \in 1 .. m
        PROVE  k \in DOMAIN R /\ R[k] = rows[k]
    <3>1. k <= Cardinality(c) /\ \A l \in c : UpTo(c, l) = k => l = k
      BY <1>1, <2>7, NthOfAll
    <3>2. k \in 1 .. Cardinality(c)
      BY <1>1, <3>1, UpToStep
    <3> QED
      BY <2>3, <2>4, <3>1, <3>2
  <2> QED
    BY <1>4, <2>5, <2>6, <2>7 DEF R, c, n
<1> QED
  BY <1>3, <1>4

-------------------------------------------------------------------------------
(* The tokens compared. *)

LEMMA PosBound == MaxPos \in Nat
BY CommandsAssumption DEF Comparison!CompareAssumption

\* Every position before a compared one is compared too.
LEMMA PositionsHold ==
  ASSUME NEW o \in AnswerRows, NEW t \in AnswerRows
  PROVE  /\ IsFiniteSet(Comparison!Positions(o, t))
         /\ \A x \in Comparison!Positions(o, t) : /\ x = <<x[1], x[2]>> /\ x[1] \in Comparison!Keys(o, t) /\ x[2] \in 1 .. MaxPos
                                                /\ \A p1 \in 1 .. x[2] : <<x[1], p1>> \in Comparison!Positions(o, t)
<1> DEFINE K == Comparison!Keys(o, t)
           long(rows, x) == x[2] <= Len(Comparison!Returned(rows)[x[1]].tokens)
<1>1. Comparison!Positions(o, t) = {x \in K \X (1 .. MaxPos) : long(o, x) /\ long(t, x)}
  BY DEF Comparison!Positions
<1>2. IsFiniteSet(K)
  <2>1. K \subseteq 1 .. Len(o) /\ Len(o) \in Nat
    BY ReturnedRows, CameThere DEF Comparison!Keys
  <2>2. IsFiniteSet(1 .. Len(o))
    BY <2>1, FS_Interval
  <2> HIDE DEF K
  <2> QED
    BY <2>1, <2>2, FS_Subset
<1>3. IsFiniteSet(K \X (1 .. MaxPos))
  <2>1. IsFiniteSet(1 .. MaxPos)
    BY PosBound, FS_Interval
  <2> HIDE DEF K
  <2> QED
    BY <1>2, <2>1, FS_Product
<1>4. \A k \in K : Len(Comparison!Returned(o)[k].tokens) \in Nat /\ Len(Comparison!Returned(t)[k].tokens) \in Nat
  BY ReturnedRows DEF Comparison!Keys
<1>5. IsFiniteSet(Comparison!Positions(o, t))
  <2>1. Comparison!Positions(o, t) \subseteq K \X (1 .. MaxPos)
    BY <1>1, Zenon
  <2> QED
    BY <2>1, <1>3, FS_Subset
<1>6. ASSUME NEW x \in Comparison!Positions(o, t)
      PROVE  /\ x = <<x[1], x[2]>> /\ x[1] \in K /\ x[2] \in 1 .. MaxPos
             /\ \A p1 \in 1 .. x[2] : <<x[1], p1>> \in Comparison!Positions(o, t)
  <2> HIDE DEF K
  <2>1. x \in K \X (1 .. MaxPos) /\ long(o, x) /\ long(t, x)
    BY <1>1, Zenon
  <2>2. x = <<x[1], x[2]>> /\ x[1] \in K /\ x[2] \in 1 .. MaxPos
    BY <2>1
  <2>3. ASSUME NEW p1 \in 1 .. x[2] PROVE <<x[1], p1>> \in Comparison!Positions(o, t)
    <3>1. p1 \in 1 .. MaxPos
      BY <2>2, PosBound
    <3>2. long(o, <<x[1], p1>>) /\ long(t, <<x[1], p1>>)
      <4>1. Len(Comparison!Returned(o)[x[1]].tokens) \in Nat /\ Len(Comparison!Returned(t)[x[1]].tokens) \in Nat
        BY <1>4, <2>2
      <4> QED
        BY <2>1, <2>2, <3>1, <4>1, PosBound
    <3> HIDE DEF long
    <3>3. <<x[1], p1>> \in K \X (1 .. MaxPos)
      BY <2>2, <3>1
    <3> QED
      BY <1>1, <3>2, <3>3, Zenon
  <2> QED
    BY <2>2, <2>3
<1> QED
  BY <1>5, <1>6

LEMMA EitherWay ==
  ASSUME NEW o, NEW t
  PROVE  /\ Comparison!Keys(o, t) = Comparison!Keys(t, o) /\ Comparison!Positions(o, t) = Comparison!Positions(t, o)
         /\ \A k, p1 : Comparison!Same(o, t, k, p1) <=> Comparison!Same(t, o, k, p1)
<1>1. Comparison!Keys(o, t) = Comparison!Keys(t, o)
  BY Zenon DEF Comparison!Keys
<1>2. {o, t} = {t, o}
  OBVIOUS
<1>3. Comparison!Positions(o, t) = Comparison!Positions(t, o)
  BY <1>1, <1>2 DEF Comparison!Positions
<1>4. \A k, p1 : Comparison!Same(o, t, k, p1) <=> Comparison!Same(t, o, k, p1)
  BY Zenon DEF Comparison!Same
<1> QED
  BY <1>1, <1>3, <1>4

\* Greedy's prefix is the same from either side, and whole only without a flip.
LEMMA PrefixHolds ==
  ASSUME NEW o \in AnswerRows, NEW t \in AnswerRows, NEW k \in Comparison!Keys(o, t)
  PROVE  /\ Comparison!Prefix(o, t, k) = Comparison!Prefix(t, o, k)
         /\ Comparison!Prefix(o, t, k) = Comparison!Cardinality({x \in Comparison!Positions(o, t) : x[1] = k})
              <=> \A x \in Comparison!Flips(o, t) : x[1] # k
<1> DEFINE P == Comparison!Positions(o, t)
           A == {x \in P : x[1] = k /\ \A p1 \in 1 .. x[2] : Comparison!Same(o, t, k, p1)}
           B == {x \in P : x[1] = k}
<1>1. Comparison!Prefix(o, t, k) = Cardinality(A)
  BY CompareCounts DEF Comparison!Prefix
<1>2. Comparison!Prefix(t, o, k) = Cardinality(A)
  <2>1. Comparison!Prefix(t, o, k) = Cardinality({x \in P : x[1] = k /\ \A p1 \in 1 .. x[2] : Comparison!Same(t, o, k, p1)})
    BY CompareCounts, EitherWay DEF Comparison!Prefix
  <2>2. {x \in P : x[1] = k /\ \A p1 \in 1 .. x[2] : Comparison!Same(t, o, k, p1)} = A
    BY EitherWay, Zenon
  <2> QED
    BY <2>1, <2>2
<1>3. A \subseteq B /\ B \subseteq P /\ IsFiniteSet(P)
  BY PositionsHold
<1>4. Cardinality(A) = Cardinality(B) <=> A = B
  <2> HIDE DEF A, B, P
  <2>1. IsFiniteSet(B)
    BY <1>3, FS_Subset
  <2> QED
    BY <1>3, <2>1, FS_Subset
<1>5. A = B <=> \A x \in Comparison!Flips(o, t) : x[1] # k
  <2>1. ASSUME A = B, NEW x \in Comparison!Flips(o, t), x[1] = k PROVE FALSE
    <3>1. x \in P /\ ~Comparison!Same(o, t, x[1], x[2])
      BY <2>1 DEF Comparison!Flips
    <3>2. x \in A
      BY <2>1, <3>1, Zenon
    <3>3. x[2] \in 1 .. x[2]
      BY <3>1, PositionsHold, PosBound
    <3>4. Comparison!Same(o, t, k, x[2])
      BY <3>2, <3>3, Zenon
    <3> QED
      BY <2>1, <3>1, <3>4
  <2>2. ASSUME \A x \in Comparison!Flips(o, t) : x[1] # k, NEW x \in B PROVE x \in A
    <3>1. x \in P /\ x[1] = k
      OBVIOUS
    <3>2. ASSUME NEW p1 \in 1 .. x[2] PROVE Comparison!Same(o, t, k, p1)
      <4> DEFINE y == <<x[1], p1>>
      <4>1. y \in P /\ y[1] = k /\ y[2] = p1
        BY <3>1, PositionsHold
      <4> HIDE DEF y
      <4>2. y \notin Comparison!Flips(o, t)
        BY <2>2, <4>1
      <4> QED
        BY <4>1, <4>2, Zenon DEF Comparison!Flips
    <3> QED
      BY <3>1, <3>2, Zenon
  <2> QED
    BY <1>3, <2>1, <2>2, Zenon
<1>6. Comparison!Cardinality(B) = Cardinality(B)
  BY CompareCounts
<1> QED
  BY <1>1, <1>2, <1>4, <1>5, <1>6

LEMMA FlipsCount ==
  ASSUME NEW o \in AnswerRows, NEW t \in AnswerRows
  PROVE  Comparison!Cardinality(Comparison!Flips(o, t)) \in Nat /\ Comparison!Cardinality(Comparison!Positions(o, t)) \in Nat
<1>1. Comparison!Flips(o, t) \subseteq Comparison!Positions(o, t)
  BY Zenon DEF Comparison!Flips
<1>2. IsFiniteSet(Comparison!Positions(o, t)) /\ IsFiniteSet(Comparison!Flips(o, t))
  BY <1>1, PositionsHold, FS_Subset
<1> QED
  BY <1>2, CompareCounts, FS_CardinalityType

\* A run is within the band of itself, and one more floor run fails none that was within it.
LEMMA BandHolds ==
  ASSUME NEW o \in AnswerRows, NEW t \in AnswerRows, NEW r \in AnswerRows
  PROVE  /\ Comparison!Band(o, t, {o}) # "FAIL"
         /\ Comparison!Band(o, t, {r}) = "PASS" => Comparison!Band(o, t, {r, t}) # "FAIL"
<1>1. Comparison!Band(o, t, {o}) # "FAIL"
  <2>1. Comparison!Cardinality(Comparison!Flips(o, t)) <= Comparison!Cardinality(Comparison!Flips(o, t))
    BY FlipsCount
  <2> QED
    BY <2>1, Zenon DEF Comparison!Band
<1>2. Comparison!Band(o, t, {r}) = "PASS" => Comparison!Cardinality(Comparison!Flips(o, t)) <= Comparison!Cardinality(Comparison!Flips(r, t))
  BY DEF Comparison!Band
<1>3. Comparison!Cardinality(Comparison!Flips(o, t)) <= Comparison!Cardinality(Comparison!Flips(r, t)) => Comparison!Band(o, t, {r, t}) # "FAIL"
  BY DEF Comparison!Band
<1> QED
  BY <1>1, <1>2, <1>3

\* Where no row is left out the verdict is on the tokens both sides returned.
LEMMA VerdictHolds ==
  ASSUME NEW o \in AnswerRows, NEW t \in AnswerRows,
         ~grid \/ \A k \in (DOMAIN o) \cap (DOMAIN t) : o[k].came /\ t[k].came,
         NEW both, both = {x \in ((DOMAIN o) \cap (DOMAIN t)) \X (1 .. MaxPos) :
                            \A rows \in {o, t} : rows[x[1]].came /\ x[2] <= Len(rows[x[1]].tokens)}
  PROVE  Comparison!Fidelity(o, t) = "FAIL" <=> \E x \in both : o[x[1]].tokens[x[2]] # t[x[1]].tokens[x[2]] /\ ~t[x[1]].near
<1> DEFINE K == Comparison!Keys(o, t)
           C == {k \in (DOMAIN o) \cap (DOMAIN t) : o[k].came /\ t[k].came}
<1>1. K = C /\ \A k \in K : Comparison!Returned(o)[k] = o[k] /\ Comparison!Returned(t)[k] = t[k]
  <2>1. CASE ~grid
    <3>1. K = Comparison!Came(o) \cap Comparison!Came(t)
      BY <2>1, ReturnedRows DEF Comparison!Keys
    <3>2. Comparison!Came(o) \cap Comparison!Came(t) = C
      BY Zenon DEF Comparison!Came
    <3> HIDE DEF C, K
    <3> QED
      BY <2>1, <3>1, <3>2, ReturnedRows
  <2>2. CASE grid
    <3>1. \A k \in (DOMAIN o) \cap (DOMAIN t) : o[k].came /\ t[k].came
      BY <2>2, Zenon
    <3>2. C = (DOMAIN o) \cap (DOMAIN t)
      BY <3>1, Zenon
    <3>3. Len(o) \in Nat /\ Len(t) \in Nat /\ DOMAIN o = 1 .. Len(o) /\ DOMAIN t = 1 .. Len(t)
      BY CameThere
    <3> DEFINE m == IF Len(o) <= Len(t) THEN Len(o) ELSE Len(t)
    <3>4. m \in Nat /\ (DOMAIN o) \cap (DOMAIN t) = 1 .. m
      BY <3>3
    <3>5. 1 .. m \subseteq Comparison!Came(o) /\ 1 .. m \subseteq Comparison!Came(t)
      <4> HIDE DEF m
      <4> QED
        BY <3>1, <3>4, Zenon DEF Comparison!Came
    <3> HIDE DEF m, C
    <3>6. \A k \in 1 .. m : /\ k \in DOMAIN Comparison!Returned(o) /\ Comparison!Returned(o)[k] = o[k]
                             /\ k \in DOMAIN Comparison!Returned(t) /\ Comparison!Returned(t)[k] = t[k]
      BY <2>2, <3>4, <3>5, ReturnedRows
    <3>7. DOMAIN Comparison!Returned(o) \subseteq DOMAIN o /\ DOMAIN Comparison!Returned(t) \subseteq DOMAIN t
      BY <3>3, ReturnedRows
    <3>8. K = 1 .. m
      BY <3>4, <3>6, <3>7, Zenon DEF Comparison!Keys
    <3> HIDE DEF K
    <3> QED
      BY <3>2, <3>4, <3>6, <3>8
  <2> QED
    BY <2>1, <2>2
<1>2. Comparison!Positions(o, t) = both
  <2>1. Comparison!Positions(o, t) = {x \in C \X (1 .. MaxPos) : \A rows \in {o, t} : x[2] <= Len(rows[x[1]].tokens)}
    <3>1. \A x \in K \X (1 .. MaxPos) : x[1] \in K
      OBVIOUS
    <3> HIDE DEF C, K
    <3>2. \A x \in K \X (1 .. MaxPos) : (\A rows \in {o, t} : x[2] <= Len(Comparison!Returned(rows)[x[1]].tokens))
                                          <=> \A rows \in {o, t} : x[2] <= Len(rows[x[1]].tokens)
      BY <1>1, <3>1
    <3>3. Comparison!Positions(o, t) = {x \in K \X (1 .. MaxPos) : \A rows \in {o, t} : x[2] <= Len(Comparison!Returned(rows)[x[1]].tokens)}
      BY DEF Comparison!Positions, K
    <3> QED
      BY <1>1, <3>2, <3>3
  <2>2. \A x : x \in C \X (1 .. MaxPos) <=> x \in ((DOMAIN o) \cap (DOMAIN t)) \X (1 .. MaxPos) /\ o[x[1]].came /\ t[x[1]].came
    OBVIOUS
  <2> HIDE DEF C
  <2> QED
    BY <2>1, <2>2, Zenon
<1>3. \A x \in Comparison!Positions(o, t) : x[1] \in K
  BY PositionsHold
<1>4. Comparison!Fidelity(o, t) = "FAIL" <=> Comparison!Hard(o, t) # {}
  <2>1. Comparison!Hard(o, t) \subseteq Comparison!Positions(o, t)
    BY Zenon DEF Comparison!Hard, Comparison!Flips
  <2>2. Comparison!Hard(o, t) # {} => Comparison!Positions(o, t) # {} /\ Comparison!Keys(o, t) # {}
    BY <1>3, <2>1
  <2> QED
    BY <2>2 DEF Comparison!Fidelity
<1>5. \A x \in both : x \in Comparison!Hard(o, t) <=> o[x[1]].tokens[x[2]] # t[x[1]].tokens[x[2]] /\ ~t[x[1]].near
  <2> HIDE DEF K
  <2> QED
    BY <1>1, <1>2, <1>3, Zenon DEF Comparison!Hard, Comparison!Flips, Comparison!Same
<1>6. Comparison!Hard(o, t) \subseteq both
  BY <1>2, Zenon DEF Comparison!Hard, Comparison!Flips
<1> QED
  BY <1>4, <1>5, <1>6, Zenon

LEMMA AgreementRight ==
  ASSUME CompareInv
  PROVE  Comparison!AgreementIsRight
<1> DEFINE o == answers.ours
           t == answers.theirs
           both == {x \in ((DOMAIN o) \cap (DOMAIN t)) \X (1 .. MaxPos) :
                     \A rows \in {o, t} : rows[x[1]].came /\ x[2] <= Len(rows[x[1]].tokens)}
           differ == {x \in both : o[x[1]].tokens[x[2]] # t[x[1]].tokens[x[2]]}
           whole == \A k \in (DOMAIN o) \cap (DOMAIN t) : o[k].came /\ t[k].came
<1>1. o \in AnswerRows /\ t \in AnswerRows /\ answers.floor \in AnswerRows
  BY DEF CompareInv, Sides
<1>2. ~grid \/ whole => (Comparison!Fidelity(o, t) = "FAIL" <=> \E x \in differ : ~t[x[1]].near)
  <2> SUFFICES ASSUME ~grid \/ whole
               PROVE  Comparison!Fidelity(o, t) = "FAIL" <=> \E x \in differ : ~t[x[1]].near
    OBVIOUS
  <2> HIDE DEF o, t
  <2>1. Comparison!Fidelity(o, t) = "FAIL" <=> \E x \in both : o[x[1]].tokens[x[2]] # t[x[1]].tokens[x[2]] /\ ~t[x[1]].near
    BY <1>1, VerdictHolds, Zenon
  <2> HIDE DEF both
  <2> QED
    BY <2>1, Zenon
<1>3. \A k \in Comparison!Keys(o, t) :
        /\ Comparison!Prefix(o, t, k) = Comparison!Prefix(t, o, k)
        /\ Comparison!Prefix(o, t, k) = Comparison!Cardinality({x \in Comparison!Positions(o, t) : x[1] = k})
             <=> \A x \in Comparison!Flips(o, t) : x[1] # k
  BY <1>1, PrefixHolds, Zenon
<1>4. Comparison!Band(o, t, {o}) # "FAIL"
      /\ (Comparison!Band(o, t, {answers.floor}) = "PASS" => Comparison!Band(o, t, {answers.floor, t}) # "FAIL")
  BY <1>1, BandHolds, Zenon
<1> QED
  BY <1>2, <1>3, <1>4, Zenon DEF Comparison!AgreementIsRight

LEMMA CompareNext ==
  ASSUME CompareInv, Comparison!Next
  PROVE  CompareInv'
<1>1. CASE UNCHANGED <<answers, log>>
  BY <1>1 DEF CompareInv
<1>2. CASE Comparison!Row
  <2>1. PICK side \in DOMAIN answers, came \in BOOLEAN, near \in BOOLEAN,
             tokens \in UNION {[1 .. n -> 1 .. 2] : n \in 0 .. MaxPos} :
          answers' = [answers EXCEPT ![side] = Append(@, [came |-> came, tokens |-> tokens, near |-> near])]
    BY <1>2, Zenon DEF Comparison!Row
  <2>2. tokens \in Seq({1, 2})
    <3>1. PICK n \in 0 .. MaxPos : tokens \in [1 .. n -> 1 .. 2]
      OBVIOUS
    <3>2. n \in Nat /\ tokens \in [1 .. n -> {1, 2}]
      BY <3>1, PosBound
    <3> QED
      BY <3>2
  <2>3. [came |-> came, tokens |-> tokens, near |-> near] \in [came : BOOLEAN, tokens : Seq({1, 2}), near : BOOLEAN]
    BY <2>2
  <2>4. Append(answers[side], [came |-> came, tokens |-> tokens, near |-> near]) \in AnswerRows
    <3> DEFINE R == [came : BOOLEAN, tokens : Seq({1, 2}), near : BOOLEAN]
               r == [came |-> came, tokens |-> tokens, near |-> near]
    <3>1. r \in R /\ answers[side] \in Seq(R)
      BY <2>3 DEF CompareInv, AnswerRows
    <3> HIDE DEF R, r
    <3>2. Append(answers[side], r) \in Seq(R)
      BY <3>1
    <3> QED
      BY <3>2 DEF AnswerRows, R, r
  <2>5. DOMAIN answers' = Sides /\ \A s \in Sides : answers'[s] \in AnswerRows
    BY <2>1, <2>4, Zenon DEF CompareInv
  <2>6. log' = log
    BY <1>2 DEF Comparison!Row
  <2> QED
    BY <2>5, <2>6 DEF CompareInv
<1>3. CASE Comparison!Line
  <2>1. PICK kind1 \in {"loop", "batch", "criterion"}, pref \in 1 .. 4 : log' = Append(log, [kind |-> kind1, pref |-> pref])
    BY <1>3 DEF Comparison!Line
  <2>2. answers' = answers
    BY <1>3 DEF Comparison!Line
  <2> QED
    BY <2>1, <2>2 DEF CompareInv, Lines
<1> QED
  BY <1>1, <1>2, <1>3 DEF Comparison!Next, Comparison!Differ, Comparison!Main, Comparison!Done, Comparison!vars

\* A ratio is of two sides that measured the same thing, the point kept of a bench's criterion lines is the last of the
\* best group's, and a FAIL is a token that differs (compare.py), for any facts, any log and any rows.
THEOREM ComparisonFair == Spec => []ComparisonIsFair
<1> DEFINE I == command = "compare" => CompareInv
<1>1. Init => I
  <2> SUFFICES ASSUME Init, command = "compare"
               PROVE  CompareInv
    OBVIOUS
  <2>1. answers = [ours |-> <<>>, theirs |-> <<>>, floor |-> <<>>] /\ log = <<>>
    BY DEF Init, Comparison!Init
  <2>2. <<>> \in AnswerRows
    BY DEF AnswerRows
  <2> QED
    BY <2>1, <2>2 DEF CompareInv, Sides, Lines
<1>2. I /\ [Next]_vars => I'
  <2>1. CASE Next
    BY <2>1, CompareNext DEF Next
  <2>2. CASE UNCHANGED vars
    BY <2>2 DEF vars, compareVars, CompareInv
  <2> QED
    BY <2>1, <2>2
<1>3. I => ComparisonIsFair
  BY RatioFair, LastBest, AgreementRight DEF ComparisonIsFair, CompareInv
<1> QED
  BY <1>1, <1>2, <1>3, PTL DEF Spec
================================================================================
