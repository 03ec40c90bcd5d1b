------------------------------ MODULE RunFigures ------------------------------
(***************************************************************************)
(* The figures run.json gives of a recycled session replay, computed three *)
(* times over from one set of rows (quettabench/metrics/summary.py):       *)
(* aggregate over all of them, aggregate_per_turn by turn, steady_section  *)
(* over the steady window; and the cache estimate each row carries.  Times *)
(* are whole ticks; an answer streams one token a tick after its send and one  *)
(* when it ends.                                                           *)
(***************************************************************************)
EXTENDS Integers, Sequences, FiniteSets

CONSTANTS C, PlayTurns,                 \* agents, and the turns of a play
          DeadlineS, Horizon, Handover, MinWindow,
          BinS, Block                   \* timeline bin and cache block

TurnsAssumption == PlayTurns \in Nat \ {0} /\ BinS \in Nat \ {0} /\ Block \in Nat \ {0}

LS == INSTANCE LoadStats

VARIABLES now, replies, at, rows, finished
vars == <<now, replies, at, rows, finished>>

Agents == 1 .. C
Nowhere == [n |-> 0]                    \* the agent is between plays

SW == INSTANCE SteadyWindow WITH N <- 0, recycled <- TRUE, since <- [a \in Agents |-> -1], plays <- finished

Key(p) == <<p.agent, p.adm>>            \* one play

\* replies: the prompts splice the engine's own replies (trace.replies); else the reply is re-tokenised, and counts as new.
Init ==
  /\ now = 0 /\ replies \in BOOLEAN
  /\ at = [a \in Agents |-> Nowhere]
  /\ rows = {} /\ finished = {}

-------------------------------------------------------------------------------
(* The replay. *)

Lesser(a, b) == IF a < b THEN a ELSE b
Output == 2
Input(turn) == 3 * turn                 \* a turn's prompt is the last one's, its reply, and one new token

\* An agent draws a play before the deadline; the turn it sends at once, as it does the turns after it.
Draw(a) ==
  /\ at[a] = Nowhere /\ now < DeadlineS
  /\ at' = [at EXCEPT ![a] = [n |-> 1, adm |-> now, sent |-> now, context |-> 0, reply |-> 0]]
  /\ UNCHANGED <<now, replies, rows, finished>>

\* Mutant: the last turn's reply is not counted as reusable.
EstimateOfPrompts(turn, context, reply) ==
  LET cached == Lesser(context, Input(turn)) aligned == (cached \div Block) * Block
  IN  [cached |-> cached, new |-> Input(turn) - cached, tail |-> cached - aligned,
       blocks |-> <<(Input(turn) + Block - 1) \div Block, aligned \div Block,
                    (Input(turn) - aligned + Block - 1) \div Block>>]

\* annotate_multi_turn_cache_estimate: of the prompt, what the play's last turn left in a cache; blocks are of the whole context, cached, and new.
Estimate(turn, context, reply) ==
  LET cached == Lesser(context + (IF replies THEN reply ELSE 0), Input(turn))
      aligned == (cached \div Block) * Block
  IN  [cached |-> cached, new |-> Input(turn) - cached, tail |-> cached - aligned,
       blocks |-> <<(Input(turn) + Block - 1) \div Block, aligned \div Block,
                    (Input(turn) - aligned + Block - 1) \div Block>>]

\* The answer ends, well or not, and the server reports a hit or a miss; a failed turn ends the play.
Answer(a, ok, hit) ==
  LET p == at[a] IN
  /\ p # Nowhere /\ p.sent \in 0 .. now - 1 /\ (hit => ok /\ p.n > 1)
  /\ rows' = rows \cup {[play |-> <<a, p.adm>>, turn |-> p.n, sent |-> p.sent, first |-> p.sent + 1, done |-> now, ok |-> ok,
                         served |-> IF hit THEN p.context ELSE 0,
                         estimate |-> Estimate(p.n, p.context, p.reply)]}
  /\ IF ok /\ p.n < PlayTurns
     THEN /\ at' = [at EXCEPT ![a] = [p EXCEPT !.n = @ + 1, !.sent = now,
                                               !.context = Input(p.n), !.reply = Output]]
          /\ UNCHANGED finished
     ELSE /\ at' = [at EXCEPT ![a] = Nowhere]
          /\ finished' = finished \cup {[agent |-> a, adm |-> p.adm, fin |-> now]}
  /\ UNCHANGED <<now, replies>>

\* An agent free before the deadline plays on at once.
Tick ==
  /\ now < Horizon /\ (now < DeadlineS => \A a \in Agents : at[a] # Nowhere)
  /\ now' = now + 1
  /\ UNCHANGED <<replies, at, rows, finished>>

Over == now = Horizon /\ \A a \in Agents : at[a] = Nowhere

Next ==
  \/ \E a \in Agents : Draw(a) \/ \E ok, hit \in BOOLEAN : Answer(a, ok, hit)
  \/ Tick
  \/ now = Horizon /\ UNCHANGED vars

Spec == Init /\ [][Next]_vars

-------------------------------------------------------------------------------
(* aggregate and aggregate_per_turn. *)

Ok == {r \in rows : r.ok}
Sum(S, f(_)) == LS!Total(S, f)

\* sessions_completed: every planned turn ran and succeeded.
Completed == {k \in {r.play : r \in rows} : LET of == {r \in rows : r.play = k}
                                            IN  of \subseteq Ok /\ Cardinality(of) = PlayTurns}
Whole == [requests |-> Cardinality(rows), successes |-> Cardinality(Ok), input |-> Sum(Ok, LAMBDA r : Input(r.turn)),
          output |-> Output * Cardinality(Ok), cached |-> Sum(Ok, LAMBDA r : r.served)]
ByTurn(n) == LET of == {r \in rows : r.turn = n} good == of \cap Ok
             IN  [requests |-> Cardinality(of), successes |-> Cardinality(good),
                  shares |-> {<<r.served, Input(n)>> : r \in good}]

-------------------------------------------------------------------------------
(* steady_section, over a window start .. end. *)

\* Mutant: every play that finished in the window counts.
DonePlaysAny(start, end) == {p \in finished : start < p.fin /\ p.fin <= end}

\* The plays of the window without a failed turn, the requests completed in it, and those sent in it too.
DonePlays(start, end) == {p \in finished : /\ start < p.fin /\ p.fin <= end
                                           /\ Key(p) \notin {r.play : r \in rows \ Ok}}
Done(start, end) == {r \in Ok : start < r.done /\ r.done <= end}
Inside(start, end) == {r \in Done(start, end) : r.sent >= start}

\* tokens_by_arrival: prompts by their first token, replies by each of theirs, in all and by bin.
Arrivals(start, end) == {x \in Ok \X (start .. end) \X {1, 2} : x[2] = IF x[3] = 1 THEN x[1].first ELSE x[1].done}
InTokens(start, end) == Sum({r \in Ok : start <= r.first /\ r.first <= end}, LAMBDA r : Input(r.turn))
OutBins(start, end) ==
  LET widths == LS!Widths(end - start, BinS)
      bin(t) == Lesser(Len(widths), 1 + (t - start) \div widths[1])
  IN  [b \in DOMAIN widths |-> Cardinality({x \in Arrivals(start, end) : bin(x[2]) = b})]

\* cache_steady: the window's halves by send, the plays seen in each, and the hit share of each half at the window's mix
\* of turns, in thousandths; a turn the half lacks drops out.
HalfOf(r, start, end) == IF 2 * r.sent >= start + end THEN 2 ELSE 1
Half(h, start, end) == {r \in Inside(start, end) : HalfOf(r, start, end) = h}
Prompt(S, n) == Sum({r \in S : r.turn = n}, LAMBDA r : Input(n))
Served(S, n) == Sum({r \in S : r.turn = n}, LAMBDA r : r.served)
\* Mutant: each half at its own mix.
HitShareOwnMix(h, start, end) ==
  LET half == Half(h, start, end)
      norm == Sum(half, LAMBDA r : Input(r.turn))
  IN  IF norm = 0 THEN 0 ELSE (1000 * Sum(half, LAMBDA r : r.served)) \div norm

HitShare(h, start, end) ==
  LET half == Half(h, start, end)
      present == {n \in 1 .. PlayTurns : Prompt(half, n) > 0}
      norm == Sum(present, LAMBDA n : Prompt(Inside(start, end), n))
  IN  Sum(present, LAMBDA n : (1000 * Prompt(Inside(start, end), n) * Served(half, n)) \div (norm * Prompt(half, n)))

-------------------------------------------------------------------------------
(* Properties. *)

\* Both halves saw the same turns, and each turn's prompts at the same hit share.
SameAtDepth(start, end) ==
  \A n \in 1 .. PlayTurns :
    LET prompt == [h \in {1, 2} |-> Prompt(Half(h, start, end), n)]
        served == [h \in {1, 2} |-> Served(Half(h, start, end), n)]
    IN  /\ prompt[1] > 0 <=> prompt[2] > 0
        /\ served[1] * prompt[2] = served[2] * prompt[1]
Rounding == PlayTurns

\* The three accounts of one run agree: a play the window counts is one aggregate counts as completed, and no latency
\* of the window is a cold play's; the window's tokens are between those of the requests wholly inside it and the
\* run's, and its bins hold each of them once; the turns' counts add up to the run's; and halves that met the cache alike
\* at each turn show no drift, whatever turns each was made of.
FiguresAgree ==
  (Over /\ rows # {}) =>
    /\ Whole.successes = Sum(1 .. PlayTurns, LAMBDA n : ByTurn(n).successes)
    /\ Whole.requests = Sum(1 .. PlayTurns, LAMBDA n : ByTurn(n).requests)
    /\ SW!Reason(finished) = "" =>
         LET start == SW!Opening(finished)
             end == SW!Closing(finished)
             bins == OutBins(start, end)
             out == Sum(DOMAIN bins, LAMBDA b : bins[b])
         IN  /\ {Key(p) : p \in DonePlays(start, end)} \subseteq Completed
             /\ \A r \in Inside(start, end) : \E p \in finished : p.agent = r.play[1] /\ p.fin <= r.sent /\ Key(p) # r.play
             /\ out = Cardinality(Arrivals(start, end))
             /\ Output * Cardinality(Inside(start, end)) <= out /\ out <= Whole.output
             /\ Sum(Inside(start, end), LAMBDA r : Input(r.turn)) <= InTokens(start, end)
             /\ InTokens(start, end) <= Whole.input
             /\ SameAtDepth(start, end) => HitShare(1, start, end) - HitShare(2, start, end) \in -Rounding .. Rounding

\* The estimate prefills no token twice and none never: over a play that ran well, what its turns prefilled anew and the
\* replies they spliced in make the last prompt; and whole blocks are cached or new.
EstimateIsWhole ==
  /\ \A r \in Ok : /\ r.estimate.blocks[1] = r.estimate.blocks[2] + r.estimate.blocks[3]
                   /\ r.estimate.cached + r.estimate.new = Input(r.turn)
                   /\ r.estimate.tail \in 0 .. Block - 1
  /\ \A k \in Completed :
       LET of == {r \in rows : r.play = k}
       IN  Sum(of, LAMBDA r : r.estimate.new) + (IF replies THEN Output * (PlayTurns - 1) ELSE 0) = Input(PlayTurns)
=============================================================================
