-------------------------------- MODULE Compare --------------------------------
(***************************************************************************)
(* qbench compare (quettabench/compare.py): reads two sides, pairs their   *)
(* cells, and publishes a ratio or withholds it.  A header's fact is       *)
(* unknown, or one of two values; a side has one cell, or none the other   *)
(* shares.  The points of a bench's log are read by their own rule, and so *)
(* are the tokens that the rows of two run dirs returned.                  *)
(***************************************************************************)
EXTENDS Integers, Sequences, FiniteSets, SequencesExt

CONSTANTS MaxFacts,  \* bound: facts in which two sides differ from a pair without a fault
          MaxLines,  \* bound: lines of a bench's log
          MaxReturned, \* bound: rows of the runs whose tokens are compared
          MaxPos     \* bound: tokens a row returned

CompareAssumption == MaxFacts \in Nat /\ MaxLines \in Nat /\ MaxReturned \in Nat /\ MaxPos \in Nat

Unknown == "?"

\* What a run dir, a baseline or a bench's log says of itself, and what may be known of it instead.
Fair == [method |-> "slope", quant |-> "q8", serving |-> "aggregated", hash |-> "h1", comm |-> 0, status |-> "ok",
         latencyValid |-> TRUE, listed |-> Unknown, mix |-> "m1", kv |-> "fp16", evalPos |-> 1, shared |-> TRUE,
         engine |-> "seen", observed |-> "s1"]
Facts(f) ==
  CASE f = "method" -> {"slope", "loop", "criterion", "slope+loop"} [] f = "quant" -> {Unknown, "q8", "q4"}
    [] f = "serving" -> {Unknown, "aggregated", "disagg"} [] f = "hash" -> {Unknown, "h1", "h2"}
    [] f = "comm" -> {0, 8} [] f = "status" -> {"ok", "partial"} [] f = "latencyValid" -> BOOLEAN
    [] f = "listed" -> {Unknown, "yes", "no"} [] f = "mix" -> {Unknown, "m1", "m2"} [] f = "kv" -> {Unknown, "fp16", "fp8"}
    [] f = "evalPos" -> {0, 1, 2} [] f = "shared" -> BOOLEAN [] f = "engine" -> {"seen", "unseen"}
    [] f = "observed" -> {Unknown, "s1", "s2"}

\* The batch of the paired cell.
Batch == 8

VARIABLES
  ours, theirs,  \* the two sides
  given,         \* the sides' facts that are not a fair pair's
  allow,         \* --allow-method-mismatch
  log,           \* lines of a bench's log, all of one cell
  grid,          \* whether the rows compared are of one cell's repetitions, or of requests with an index
  answers,       \* the rows of our run, theirs and a --floor run: whether one returned its tokens, which, and near ties
  exit           \* of main: "running", then the exit code

vars == <<ours, theirs, given, allow, log, grid, answers, exit>>

Init ==
  /\ ours = Fair /\ theirs = Fair /\ given = 0
  /\ allow \in BOOLEAN
  /\ log = <<>> /\ exit = "running"
  /\ grid \in BOOLEAN /\ answers = [ours |-> <<>>, theirs |-> <<>>, floor |-> <<>>]

NoRows == \A side \in DOMAIN answers : answers[side] = <<>>

\* The next fact, in which one of the sides is another one.  Bound: no rows are compared beside facts that differ, which
\* are all allow is about and no concern of grid.
Differ ==
  /\ exit = "running" /\ given < MaxFacts /\ log = <<>> /\ NoRows /\ ~grid
  /\ \E f \in DOMAIN Fair : \E v \in Facts(f) :
       \/ v # ours[f] /\ ours' = [ours EXCEPT ![f] = v] /\ UNCHANGED theirs
       \/ v # theirs[f] /\ theirs' = [theirs EXCEPT ![f] = v] /\ UNCHANGED ours
  /\ given' = given + 1
  /\ UNCHANGED <<allow, log, grid, answers, exit>>

-------------------------------------------------------------------------------
(* Pairing. *)

\* not_comparable.
NotComparable(side) == ~side.latencyValid \/ side.status # "ok" \/ side.listed = "no"

\* Known on both sides and not the same.
Differs(f, o, t) == o[f] # Unknown /\ t[f] # Unknown /\ o[f] # t[f]

Marginal == {"loop", "slope"}
MethodMatched(o, t) == (o.method \in Marginal /\ t.method \in Marginal) \/ allow
Style(side) == IF side.serving = Unknown THEN "aggregated" ELSE side.serving
CommBound(o, t) == LET bound == IF t.comm # 0 THEN t.comm ELSE o.comm IN bound # 0 /\ Batch >= bound

\* Mutant: ours is not asked whether it may be compared.
WithheldTheirs(o, t) ==
  (IF o.kv # Unknown /\ o.kv # t.kv THEN {"kv"} ELSE {}) \cup (IF NotComparable(t) THEN {"run"} ELSE {})

\* pair and pair_row: a fact ours does not know is taken to be theirs; a mix in one run only differs.
Withheld(o, t) ==
  (IF o.kv # Unknown /\ o.kv # t.kv THEN {"kv"} ELSE {})
    \cup (IF o.quant # Unknown /\ o.quant # t.quant THEN {"quant"} ELSE {})
    \cup (IF CommBound(o, t) THEN {"comm"} ELSE {})
    \cup (IF ~MethodMatched(o, t) THEN {"method"} ELSE {})
    \cup (IF Style(o) # Style(t) THEN {"serving"} ELSE {})
    \cup (IF Differs("hash", o, t) THEN {"workload"} ELSE {})
    \cup (IF NotComparable(o) \/ NotComparable(t) THEN {"run"} ELSE {})
    \cup (IF o.mix # t.mix THEN {"mix"} ELSE {})

Published(o, t) == o.shared /\ t.shared /\ Withheld(o, t) = {}

\* server_parity: what one run did not observe is a difference.
ServerDiff(o, t) == o.engine = "unseen" \/ t.engine = "unseen" \/ o.observed = Unknown \/ o.observed # t.observed

-------------------------------------------------------------------------------
(* Agreement of what the rows returned. *)

\* A row that returned nothing has no repetition number, so the cell's next one takes it.
Came(rows) == {k \in DOMAIN rows : rows[k].came}
Nth(rows, j) == CHOOSE k \in Came(rows) : Cardinality({i \in Came(rows) : i <= k}) = j
Returned(rows) ==
  IF grid THEN [j \in 1 .. Cardinality(Came(rows)) |-> rows[Nth(rows, j)]] ELSE Restrict(rows, Came(rows))

Keys(o, t) == DOMAIN Returned(o) \cap DOMAIN Returned(t)
Positions(o, t) ==
  {x \in Keys(o, t) \X (1 .. MaxPos) : \A rows \in {o, t} : x[2] <= Len(Returned(rows)[x[1]].tokens)}
Same(o, t, k, p) == Returned(o)[k].tokens[p] = Returned(t)[k].tokens[p]

\* greedy: the tokens before the first that differs.
Prefix(o, t, k) == Cardinality({x \in Positions(o, t) : x[1] = k /\ \A p \in 1 .. x[2] : Same(o, t, k, p)})

Flips(o, t) == {x \in Positions(o, t) : ~Same(o, t, x[1], x[2])}

\* Mutant: a near tie is by either side's gap.
HardEither(o, t) == {x \in Flips(o, t) : ~Returned(t)[x[1]].near /\ ~Returned(o)[x[1]].near}

\* logit: a flip at a near tie of the reference is forgiven.
Hard(o, t) == {x \in Flips(o, t) : ~Returned(t)[x[1]].near}
Fidelity(o, t) ==
  IF Keys(o, t) = {} THEN "none" ELSE IF Positions(o, t) = {} THEN "SKIP" ELSE IF Hard(o, t) = {} THEN "PASS" ELSE "FAIL"

\* band: no more flips against the anchor than the worst floor run has, over as many positions.
Band(o, t, floors) ==
  LET n(rows) == Cardinality(Positions(rows, t))
  IN  IF n(o) = 0 \/ \E f \in floors : n(f) # n(o) THEN "WITHHELD"
      ELSE IF \E f \in floors : Cardinality(Flips(o, t)) <= Cardinality(Flips(f, t)) THEN "PASS" ELSE "FAIL"

\* The next row of one of the runs.
Row ==
  /\ exit = "running" /\ given = 0 /\ log = <<>> /\ ~allow
  /\ Len(answers.ours) + Len(answers.theirs) + Len(answers.floor) < MaxReturned
  /\ \E side \in DOMAIN answers, came, near \in BOOLEAN, tokens \in UNION {[1 .. n -> 1 .. 2] : n \in 0 .. MaxPos} :
       /\ (~came => tokens = <<>>) /\ (near => came)
       /\ answers' = [answers EXCEPT ![side] = Append(@, [came |-> came, tokens |-> tokens, near |-> near])]
  /\ UNCHANGED <<ours, theirs, given, allow, log, grid, exit>>

\* main: --servers asks the servers only, whatever the rows (bound: none there); otherwise no common cell and no agreement, or a failed verdict, is an error.
Main(servers, floor) ==
  /\ exit = "running" /\ log = <<>> /\ (servers => NoRows)
  /\ LET fidelity == Fidelity(answers.ours, answers.theirs)
         verdicts == {fidelity} \cup IF floor THEN {Band(answers.ours, answers.theirs, {answers.floor})} ELSE {}
     IN  exit' = IF servers THEN (IF ServerDiff(ours, theirs) THEN "1" ELSE "0")
                 ELSE IF ~(ours.shared /\ theirs.shared) /\ verdicts = {"none"} THEN "no overlap"
                 ELSE IF "FAIL" \in verdicts THEN "1" ELSE "0"
  /\ UNCHANGED <<ours, theirs, given, allow, log, grid, answers>>

-------------------------------------------------------------------------------
(* The log of a bench. *)

\* A line: of the loop bench, of the batch bench, or of a criterion group by its place in GROUP_PREF, the first the best.
Line ==
  /\ exit = "running" /\ given = 0 /\ NoRows /\ Len(log) < MaxLines
  /\ \E kind \in {"loop", "batch", "criterion"}, pref \in 1 .. 4 :
       /\ kind # "criterion" => pref = 1
       /\ log' = Append(log, [kind |-> kind, pref |-> pref])
  /\ UNCHANGED <<ours, theirs, given, allow, grid, answers, exit>>

\* Mutant: a line counts only if its group is better.
LaterBetter(kept, k) == IF kept = 0 \/ log[k].pref < log[kept].pref THEN k ELSE kept

\* An equal group's later line wins: an appended log supersedes the run before.
Later(kept, k) == IF kept = 0 \/ log[k].pref <= log[kept].pref THEN k ELSE kept

\* bench_log_points: the LOOP lines, else the batch bench's, else the criterion groups', of which the line kept.
Point ==
  LET of(test(_)) == {k \in DOMAIN log : test(log[k])}
      latest(S) == CHOOSE k \in S : \A j \in S : j <= k
      loops == of(LAMBDA e : e.kind = "loop")
      benches == of(LAMBDA e : e.kind = "batch")
  IN  IF loops # {} THEN latest(loops) ELSE IF benches # {} THEN latest(benches)
      ELSE FoldLeftDomain(Later, 0, log)

Done == (exit # "running" \/ Len(log) = MaxLines) /\ UNCHANGED vars

Next == Differ \/ Line \/ Row \/ Done \/ Main(TRUE, FALSE) \/ \E floor \in BOOLEAN : Main(FALSE, floor)

Spec == Init /\ [][Next]_vars

-------------------------------------------------------------------------------
(* Properties. *)

Known(side) == \A f \in {"quant", "serving", "kv", "mix"} : side[f] # Unknown

\* A ratio that is published is one of two runs that may each be compared, timed by marginal methods unless asked, of
\* the same workload mix and, where both know it, quantization, KV type, serving style and workload; and once both know
\* these and agree on what is comm-bound, neither side decides it: swapped, they publish the same.
RatioIsFair ==
  /\ Published(ours, theirs) =>
       /\ \A side \in {ours, theirs} : side.latencyValid /\ side.status = "ok" /\ (side.method \in Marginal \/ allow)
       /\ \A f \in {"quant", "kv", "serving", "hash", "mix"} : ~Differs(f, ours, theirs)
  /\ Known(ours) /\ Known(theirs) /\ ours.comm = theirs.comm => (Published(ours, theirs) <=> Published(theirs, ours))

\* The point kept of a cell's criterion lines is the last of the best group's.
LastOfBest ==
  log # <<>> /\ (\A k \in DOMAIN log : log[k].kind = "criterion") =>
    /\ \A k \in DOMAIN log : log[Point].pref <= log[k].pref
    /\ \A k \in DOMAIN log : log[k].pref = log[Point].pref => k <= Point

\* A comparison that exits 0 found no far flip: of every request, and of every repetition of a cell whose rows all came,
\* the tokens both sides returned agree but at near ties of the reference.  Where the verdict is FAIL some token differs.
\* Greedy's prefix is the same from either side and whole only without a flip.  A run is within the band of itself, and
\* one more floor run never fails one that was within it.
AgreementIsRight ==
  LET o == answers.ours
      t == answers.theirs
      whole == \A k \in (DOMAIN o) \cap (DOMAIN t) : o[k].came /\ t[k].came
      both == {x \in ((DOMAIN o) \cap (DOMAIN t)) \X (1 .. MaxPos) :
                 \A rows \in {o, t} : rows[x[1]].came /\ x[2] <= Len(rows[x[1]].tokens)}
      differ == {x \in both : o[x[1]].tokens[x[2]] # t[x[1]].tokens[x[2]]}
  IN  /\ ~grid \/ whole => (Fidelity(o, t) = "FAIL" <=> \E x \in differ : ~t[x[1]].near)
      /\ \A k \in Keys(o, t) : /\ Prefix(o, t, k) = Prefix(t, o, k)
                              /\ Prefix(o, t, k) = Cardinality({x \in Positions(o, t) : x[1] = k})
                                   <=> \A x \in Flips(o, t) : x[1] # k
      /\ Band(o, t, {o}) # "FAIL"
      /\ Band(o, t, {answers.floor}) = "PASS" => Band(o, t, {answers.floor, t}) # "FAIL"
================================================================================
