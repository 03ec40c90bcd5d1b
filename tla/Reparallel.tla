------------------------------- MODULE Reparallel -------------------------------
(***************************************************************************)
(* The reparallel probe (quettabench/probes/reparallel.py): ranks under    *)
(* torchrun time the moves of a change of layout, point by point behind a  *)
(* barrier, each rank working out alone what it sends and receives.        *)
(* Weights are a grid of Units rows and columns, numbered row by row.      *)
(***************************************************************************)
EXTENDS Integers, Sequences, FiniteSets, FiniteSetsExt, SequencesExt

CONSTANTS Worlds,  \* worlds launched
          Units    \* _UNITS

ReparallelAssumption == Worlds \subseteq Nat \ {0} /\ Units \in Nat \ {0}

VARIABLES
  job,    \* what the ranks were launched to measure: mode, world, ranks of a node, and the mode's own argument
  point,  \* points timed
  rank,   \* each rank: "barrier", "in" its operation, "raised" or "over"
  plan,   \* of a plan: the old layout, the slot each rank takes, the layout it ends with, and its messages
  own     \* the cells each rank holds

vars == <<job, point, rank, plan, own>>

world == job.world
Ranks == 0 .. world - 1
Node(r) == r \div job.gpn
Nodes == world \div job.gpn

\* --plans: a side is one or two pools tp:pp:dp whose ranks add up to the world (_plan_owner_units raises otherwise).
Pools == [tp : 1 .. 2, pp : 1 .. 2, dp : 1 .. 2]
Size(pool) == pool.tp * pool.pp * pool.dp
Sides(w) == {s \in UNION {[1 .. n -> Pools] : n \in 1 .. 2} : w = IF Len(s) = 1 THEN Size(s[1]) ELSE Size(s[1]) + Size(s[2])}

Jobs == UNION {UNION {
  [mode : {"tp", "pp"}, world : {w}, gpn : {w}, from : {1, 2, 4}, to : {1, 2, 4}]
  \cup [mode : {"dp", "ep", "kv"}, world : {w}, gpn : {w}]
  \cup [mode : {"cross_node"}, world : {w}, gpn : {g}]
  \cup [mode : {"plan"}, world : {w}, gpn : {g}, old : Sides(w), new : Sides(w)]
  : g \in {n \in {2, w} : w % n = 0}} : w \in Worlds}

-------------------------------------------------------------------------------
(* A plan. *)

\* _pool_cells: a stage holds a row band, a tp rank a column band.
PoolCells(pool, stage, t) ==
  {r * Units + c : r \in ((stage * Units) \div pool.pp) .. (((stage + 1) * Units) \div pool.pp - 1),
                   c \in ((t * Units) \div pool.tp) .. (((t + 1) * Units) \div pool.tp - 1)}

\* _plan_owner_units: ranks run over the pools, replicas, stages and tp ranks.
Owner(side) ==
  [r \in Ranks |->
     LET second == r >= Size(side[1])
         pool == IF second THEN side[2] ELSE side[1]
         i == IF second THEN r - Size(side[1]) ELSE r
     IN PoolCells(pool, (i \div pool.tp) % pool.pp, i % pool.tp)]

\* Mutant: any rank may take any slot.
SlotsAnywhere(p) == Ranks

\* Slots of its own node only.
Slots(p) == {s \in Ranks : Node(s) = Node(p)}

\* _plan_relabel: the greatest overlap first, then the lowest rank and slot.
Relabel(overlap) ==
  LET Match(slot, n) ==
        LET edges == {e \in (Ranks \ DOMAIN slot) \X (Ranks \ Range(slot)) : e[2] \in Slots(e[1])}
            most == Max({overlap[e] : e \in edges})
            p == Min({e[1] : e \in {d \in edges : overlap[d] = most}})
            s == Min({e[2] : e \in {d \in edges : overlap[d] = most /\ d[1] = p}})
        IN (p :> s) @@ slot
  IN FoldLeft(Match, <<>>, [n \in 1 .. world |-> n])

\* Mutant: the lowest holder anywhere.
SrcAnywhere(old, u, dst) == Min({r \in Ranks : u \in old[r]})

\* _src_for: the lowest holder on the destination's node, else the lowest anywhere.
Src(old, u, dst) ==
  LET holders == {r \in Ranks : u \in old[r]} IN Min(IF \E r \in holders : Node(r) = Node(dst)
                                                     THEN {r \in holders : Node(r) = Node(dst)} ELSE holders)

\* _coalesce_runs: adjacent cells with one peer become one message.
Runs(cells, peer(_)) ==
  LET starts == SetToSortSeq({u \in cells : u - 1 \notin cells \/ peer(u - 1) # peer(u)}, <)
  IN [i \in DOMAIN starts |->
       [peer |-> peer(starts[i]),
        cells |-> {u \in cells : u >= starts[i] /\ (i < Len(starts) => u < starts[i + 1])}]]

\* _measure_plan on each rank: the layout it ends with, the messages it receives and those it sends.
Planned ==
  LET old == Owner(job.old)
      new == Owner(job.new)
      slot == Relabel([e \in Ranks \X Ranks |-> Cardinality(old[e[1]] \cap new[e[2]])])
      final == [r \in Ranks |-> new[slot[r]]]
      fetch(r) == final[r] \ old[r]
  IN [old |-> old, slot |-> slot, final |-> final,
      recvs |-> [r \in Ranks |-> Runs(fetch(r), LAMBDA u : Src(old, u, r))],
      sends |-> [r \in Ranks |-> [d \in Ranks \ {r} |-> Runs({u \in fetch(d) : Src(old, u, d) = r}, LAMBDA u : d)]]]

-------------------------------------------------------------------------------
(* The points each rank times. *)

None == [op |-> "none"]
All(group) == [op |-> "all", group |-> group]

\* _groups_of; a last group past the world makes new_group raise on every rank.
Groups(k) == [i \in 0 .. (world - 1) \div k |-> (i * k) .. ((i + 1) * k - 1)]
Group(k, r) == IF world % k # 0 THEN [op |-> "bad"] ELSE All(Groups(k)[r \div k])

\* One rank's operations; a skipped switch times nothing.
Ops(r) ==
  CASE job.mode \in {"tp", "pp"} ->
         IF world % job.from # 0 \/ world % job.to # 0 THEN <<>>
         ELSE IF job.to < job.from THEN <<Group(job.from \div job.to, r)>>
         ELSE IF job.mode = "tp" THEN <<None>> ELSE <<>>
    [] job.mode = "kv" -> <<Group(2, r)>>
    [] job.mode = "ep" -> IF world < 2 THEN <<>> ELSE <<All(Ranks)>>
    [] job.mode = "dp" ->
         IF world < 2 THEN <<>>
         ELSE IF r % 2 = 1 THEN <<[op |-> "recv", peer |-> r - 1]>>
         ELSE IF r + 1 \in Ranks THEN <<[op |-> "send", peer |-> r + 1]>> ELSE <<[op |-> "bad"]>>
    [] job.mode = "cross_node" ->
         IF Nodes < 2 THEN <<>>
         ELSE LET local == r % job.gpn
                  pair(n) == IF Node(r) >= 2 \/ local >= n THEN None
                             ELSE IF Node(r) = 0 THEN [op |-> "send", peer |-> job.gpn + local]
                             ELSE [op |-> "recv", peer |-> local]
              IN [i \in 1 .. Cardinality({n \in {1, 2, 4, 8} : n <= job.gpn}) |-> pair(<<1, 2, 4, 8>>[i])]
                 \o <<IF Node(r) < 2 THEN All({local, job.gpn + local}) ELSE None>>
    [] job.mode = "plan" -> <<[op |-> "batch"]>>

Init ==
  /\ job \in Jobs
  /\ point = 0
  /\ rank = [r \in Ranks |-> "barrier"]
  /\ plan = <<>>
  /\ own = IF job.mode = "plan" THEN Owner(job.old) ELSE [r \in Ranks |-> {}]

Op(r) == Ops(r)[point]

\* _time_ms: a barrier before every timed call; a rank with nothing left to time has returned.
Barrier ==
  /\ \A r \in Ranks : rank[r] = "barrier" /\ Len(Ops(r)) > point
  /\ point' = point + 1
  /\ rank' = [r \in Ranks |-> "in"]
  /\ plan' = IF job.mode = "plan" THEN Planned ELSE plan
  /\ UNCHANGED <<job, own>>

Raise(r) ==
  /\ rank[r] = "in" /\ Op(r).op = "bad"
  /\ rank' = [rank EXCEPT ![r] = "raised"]
  /\ UNCHANGED <<job, point, plan, own>>

Leave(rs) == rank' = [r \in Ranks |-> IF r \in rs THEN "barrier" ELSE rank[r]]

\* An operation ends when all its ranks are in it; a batch waits for no one else, the barrier having let every rank in.
Complete(r) ==
  /\ rank[r] = "in"
  /\ \/ Op(r).op = "none" /\ Leave({r}) /\ UNCHANGED own
     \/ /\ Op(r).op = "all" /\ \A q \in Op(r).group : rank[q] = "in" /\ Op(q) = Op(r)
        /\ Leave(Op(r).group) /\ UNCHANGED own
     \/ /\ Op(r).op = "send" /\ rank[Op(r).peer] = "in" /\ Op(Op(r).peer) = [op |-> "recv", peer |-> r]
        /\ Leave({r, Op(r).peer}) /\ UNCHANGED own
     \/ /\ Op(r).op = "batch"
        /\ Leave({r})
        /\ own' = [own EXCEPT ![r] = @ \cup UNION {m.cells : m \in ToSet(plan.recvs[r])}]
  /\ UNCHANGED <<job, point, plan>>

\* A rank that raised ends the job; torchrun kills the others.
Over == UNCHANGED vars /\ ((\E r \in Ranks : rank[r] = "raised")
                           \/ \A r \in Ranks : rank[r] = "barrier" /\ Len(Ops(r)) = point)

Next == Barrier \/ Over \/ \E r \in Ranks : Raise(r) \/ Complete(r)

Spec == Init /\ [][Next]_vars

-------------------------------------------------------------------------------
(* Properties. *)

Stuck == rank # [r \in Ranks |-> "barrier"] /\ ~(ENABLED \E r \in Ranks : Raise(r) \/ Complete(r))

\* Ranks that work out their operations alone agree: none waits for ever unless one raised (dp or kv on an odd world, a
\* switch whose group size does not divide it), all time the same number of points; and every plan relabels a node's
\* ranks among themselves, pairs each message sent with the one received ("so messages pair one-to-one"), fetches no
\* cell from another node that its own holds, and ends with every rank holding its new cells.
RanksAgree ==
  /\ Stuck => \E r \in Ranks : rank[r] = "raised"
  /\ \A r, q \in Ranks : Len(Ops(r)) = Len(Ops(q))
  /\ job.mode = "plan" /\ point = 1 =>
       LET From(r, s) == SelectSeq(plan.recvs[r], LAMBDA m : m.peer = s)
       IN /\ {plan.slot[r] : r \in Ranks} = Ranks /\ \A r \in Ranks : Node(plan.slot[r]) = Node(r)
          /\ \A r \in Ranks : \A s \in Ranks \ {r} :
               /\ Len(From(r, s)) = Len(plan.sends[s][r])
               /\ \A i \in DOMAIN From(r, s) : From(r, s)[i].cells = plan.sends[s][r][i].cells
               /\ Node(s) # Node(r) => \A m \in ToSet(From(r, s)) : \A q \in Ranks :
                    Node(q) = Node(r) => plan.old[q] \cap m.cells = {}
          /\ \A r \in Ranks : rank[r] = "barrier" => plan.final[r] \subseteq own[r]
================================================================================
