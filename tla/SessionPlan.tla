------------------------------ MODULE SessionPlan ------------------------------
(***************************************************************************)
(* The plan of a session replay and the check of what was sent against it  *)
(* (quettabench/workloads/sessions.py and plan.py, identity in             *)
(* modes/serve.py): which sessions are the sample and in which order, what *)
(* each request is when the plan is frozen, and what it is when it is      *)
(* sent, after the engine's replies were written into the messages that    *)
(* later turns share.  A sweep sends one trace several times.              *)
(***************************************************************************)
EXTENDS Integers, Sequences, FiniteSets, FiniteSetsExt, SequencesExt

CONSTANTS
  Pools,      \* what a file may hold, in the seed's order: sessions' turns that fit the window, size and recorded waits
  MinTurns, MaxTurns,
  Followed,   \* bound: sessions of a replay that is followed, one whose sample is the whole pool in the seed's order
  PlansSent,  \* bound: passes over one trace
  MaxPlays    \* bound: plays of a recycled replay

PoolsAssumption == Pools \subseteq Seq([fits : Seq(BOOLEAN), size : Nat, waits : BOOLEAN]) /\ MaxTurns \in Nat

VARIABLES
  trace,     \* pool, stratified, take (0 for all), the waits the pacing asks for, live replies, recycled and its salt
  loaded,    \* "no", "yes" or "refused"
  sample,    \* the sessions replayed, in order, as places in the pool
  frozen,    \* the plan: the replies' texts at freeze
  text,      \* the text of each reply a later turn shares: 0 as recorded, else the pass whose engine wrote it
  pass,      \* passes begun
  unit,      \* each play: its turns sent, and how the last one went
  executed,  \* digests by key, of this pass
  said,      \* the turns of this pass whose reply had text
  seen,      \* the prompts the server received in this pass, by key
  verdict    \* identity's, of the last pass that ended

vars == <<trace, loaded, sample, frozen, text, pass, unit, executed, said, seen, verdict>>

-------------------------------------------------------------------------------
(* The sample. *)

\* A session is cut at its first turn past the window or the output cap.
Fitting(s) == LET short == {k \in DOMAIN s.fits : ~s.fits[k]} IN Min(short \cup {Len(s.fits) + 1, MaxTurns + 1}) - 1
Eligible(s) == (trace.waits => s.waits) /\ Fitting(s) >= MinTurns
Session(i) == trace.pool[i]

\* The members of a set of places, in order.
Ascending(S) == [j \in 1 .. Cardinality(S) |-> CHOOSE i \in S : Cardinality({k \in S : k <= i}) = j]
Shuffled == Ascending({i \in DOMAIN trace.pool : Eligible(Session(i))})

\* quartile: one of four strata, by the values at a quarter, a half and three quarters of the list.
Quartile(values, v) ==
  LET ordered == SortSeq(values, <)
      n == Len(values)
  IN  1 + Cardinality({q \in 1 .. 3 : v > ordered[1 + Min({n - 1, (q * n) \div 4})]})
Stratum(i) == <<Quartile([k \in DOMAIN Shuffled |-> Fitting(Session(Shuffled[k]))], Fitting(Session(i))),
                Quartile([k \in DOMAIN Shuffled |-> Session(Shuffled[k]).size], Session(i).size)>>
\* The strata in the order their first sessions come in, each in the sample's order.
Strata == LET of == [k \in DOMAIN Shuffled |-> Stratum(Shuffled[k])]
              first == Ascending({k \in DOMAIN of : \A j \in 1 .. k - 1 : of[j] # of[k]})
              places(n) == Ascending({k \in DOMAIN of : of[k] = of[first[n]]})
          IN  [n \in DOMAIN first |-> [j \in DOMAIN places(n) |-> Shuffled[places(n)[j]]]]

Rest(strata, n) == (trace.take * Len(strata[n])) % Len(Shuffled)

\* Mutant: what is left over goes to the first strata.
CountFirst(strata, n) ==
  LET whole(k) == (trace.take * Len(strata[k])) \div Len(Shuffled)
      left == trace.take - FoldLeft(+, 0, [k \in DOMAIN strata |-> whole(k)])
  IN  whole(n) + IF n <= left THEN 1 ELSE 0

\* stratify: each stratum's share, rounded down, and one more for those that lost most by it, the first of equals.
Count(strata, n) ==
  LET whole(k) == (trace.take * Len(strata[k])) \div Len(Shuffled)
      left == trace.take - FoldLeft(+, 0, [k \in DOMAIN strata |-> whole(k)])
      before == {k \in DOMAIN strata : Rest(strata, k) > Rest(strata, n) \/ (Rest(strata, k) = Rest(strata, n) /\ k < n)}
  IN  whole(n) + IF Cardinality(before) < left THEN 1 ELSE 0

\* In turn from each stratum until it runs out: the rows of a table with a column for each, read without its gaps.
RowOf(strata, p) == 1 + ((p - 1) \div Len(strata))
ColumnOf(strata, p) == 1 + ((p - 1) % Len(strata))
RoundRobin(strata) ==
  LET full == Ascending({p \in 1 .. Len(Shuffled) * Len(strata) : RowOf(strata, p) <= Len(strata[ColumnOf(strata, p)])})
  IN  [k \in DOMAIN full |-> strata[ColumnOf(strata, full[k])][RowOf(strata, full[k])]]

Stratified ==
  RoundRobin(IF trace.take = 0 THEN Strata ELSE [n \in DOMAIN Strata |-> SubSeq(Strata[n], 1, Count(Strata, n))])

\* The trace is loaded and the plan frozen: a file with fewer sessions than asked for is refused, and so is an empty one
\* and a recycled replay of live replies.
Load ==
  /\ loaded = "no"
  /\ LET short == Len(Shuffled) < trace.take \/ Shuffled = <<>> \/ (trace.live /\ trace.recycled) IN
       /\ loaded' = IF short THEN "refused" ELSE "yes"
       /\ sample' = IF short THEN <<>>
                    ELSE IF trace.stratified THEN Stratified
                    ELSE IF trace.take = 0 THEN Shuffled ELSE SubSeq(Shuffled, 1, trace.take)
  /\ frozen' = text
  /\ UNCHANGED <<trace, text, pass, unit, executed, said, seen, verdict>>

-------------------------------------------------------------------------------
(* A request, and its digest. *)

\* Mutant: the tag leaves the play's number out.
TagOfSession(u) == <<u[1]>>

\* play: what a play's salt is made of.
Tag(u) == <<u[1], u[2]>>

\* Turn t of a play: the users' messages, the first one tagged, the replies between them, and the cache salt.
Prompt(u, t, texts) ==
  [users |-> [i \in 1 .. t |-> IF i = 1 /\ trace.recycled /\ trace.salt = "text" THEN <<u[1], i, Tag(u)>> ELSE <<u[1], i>>],
   replies |-> [i \in 1 .. t - 1 |-> texts[<<u[1], i>>]],
   salt |-> IF trace.recycled /\ trace.salt = "cache_salt" THEN Tag(u) ELSE <<>>]

\* Mutant: nothing is left out.
SentDigestWhole(p) == p

\* sent_digest: all of it but the replies the run writes.
SentDigest(p) == IF trace.live THEN [p EXCEPT !.replies = <<>>] ELSE p

Planned(u, t) == SentDigest(Prompt(u, t, frozen))
TurnsOf(u) == Fitting(Session(u[1]))

-------------------------------------------------------------------------------
(* A pass. *)

\* A dict's entry set.
Put(dict, key, value) == [k \in DOMAIN dict \cup {key} |-> IF k = key THEN value ELSE dict[k]]

Running == loaded = "yes" /\ ~trace.stratified /\ trace.take = 0 /\ Len(sample) <= Followed

\* The plays of a one-shot pass are there at once; of a recycled one they are drawn one by one, round the sample.
Begin ==
  /\ Running /\ verdict # "none" /\ pass < (IF trace.recycled THEN 1 ELSE PlansSent)
  /\ pass' = pass + 1 /\ verdict' = "none"
  /\ executed' = <<>> /\ said' = {} /\ seen' = <<>>
  /\ unit' = IF trace.recycled THEN <<>> ELSE [u \in ToSet(sample) \X {0} |-> [n |-> 0, last |-> "ok"]]
  /\ UNCHANGED <<trace, loaded, sample, frozen, text>>

Draw ==
  /\ Running /\ verdict = "none" /\ trace.recycled
  /\ LET k == Cardinality(DOMAIN unit) IN
       /\ k < MaxPlays
       /\ unit' = Put(unit, <<sample[1 + (k % Len(sample))], k \div Len(sample)>>, [n |-> 0, last |-> "ok"])
  /\ UNCHANGED <<trace, loaded, sample, frozen, text, pass, executed, said, seen, verdict>>

\* _dispatch: the digest is taken of the request as it is then, which is what the server gets.
Send(u) ==
  /\ unit[u].last = "ok" /\ unit[u].n < TurnsOf(u)
  /\ LET t == unit[u].n + 1
         p == Prompt(u, t, text)
     IN  /\ unit' = [unit EXCEPT ![u] = [n |-> t, last |-> "sent"]]
         /\ executed' = Put(executed, <<u, t>>, SentDigest(p))
         /\ seen' = Put(seen, <<u, t>>, p)
  /\ UNCHANGED <<trace, loaded, sample, frozen, text, pass, said, verdict>>

\* Mutant: the reply goes where the next turn's own is.
FedBackLate(u) == [text EXCEPT ![<<u[1], IF unit[u].n < MaxTurns THEN unit[u].n + 1 ELSE unit[u].n>>] = pass]

\* _feed_reply_back writes the reply into the message the session's later turns share.
FedBack(u) == [text EXCEPT ![<<u[1], unit[u].n>>] = pass]

\* _record: a failed turn ends the play; an empty reply is not written.
Answer(u, how) ==
  /\ unit[u].last = "sent"
  /\ unit' = [unit EXCEPT ![u].last = IF how = "failed" THEN "failed" ELSE "ok"]
  /\ said' = IF how = "text" THEN said \cup {<<u, unit[u].n>>} ELSE said
  /\ text' = IF how = "text" /\ trace.live THEN FedBack(u) ELSE text
  /\ UNCHANGED <<trace, loaded, sample, frozen, pass, executed, seen, verdict>>

\* turns_not_sent and identity: every key sent is as planned, and every planned one was sent or follows a failed turn.
PlannedKeys == {k \in (DOMAIN unit) \X (1 .. MaxTurns) : k[2] <= TurnsOf(k[1]) /\ (trace.recycled => unit[k[1]].n > 0)}
NotSent == {k \in PlannedKeys \ DOMAIN executed : unit[k[1]].last = "failed" /\ k[2] > unit[k[1]].n}
Identity ==
  IF \E k \in DOMAIN executed : k \notin PlannedKeys \/ executed[k] # Planned(k[1], k[2]) THEN "differs"
  ELSE IF PlannedKeys \ NotSent \subseteq DOMAIN executed THEN "match" ELSE "never sent"

End ==
  /\ Running /\ verdict = "none"
  /\ \A u \in DOMAIN unit : unit[u].last = "failed" \/ (unit[u].last = "ok" /\ unit[u].n = TurnsOf(u))
  /\ verdict' = Identity
  /\ UNCHANGED <<trace, loaded, sample, frozen, text, pass, unit, executed, said, seen>>

Over == UNCHANGED vars /\ (loaded = "refused" \/ (loaded = "yes" /\ ~Running)
                           \/ (verdict \notin {"none", "before"} /\ pass = (IF trace.recycled THEN 1 ELSE PlansSent)))

Init ==
  /\ trace \in [pool : Pools, stratified : BOOLEAN, take : 0 .. 5, waits : BOOLEAN, live : BOOLEAN, recycled : BOOLEAN,
                salt : {"text", "cache_salt"}]
  /\ ~trace.recycled => trace.salt = "text"
  /\ trace.live => ~trace.waits
  /\ loaded = "no" /\ sample = <<>> /\ frozen = <<>>
  /\ text = [x \in (DOMAIN trace.pool) \X (1 .. MaxTurns) |-> 0]
  /\ pass = 0 /\ unit = <<>> /\ executed = <<>> /\ said = {} /\ seen = <<>> /\ verdict = "before"

Next == Load \/ Begin \/ Draw \/ End \/ Over
        \/ \E u \in DOMAIN unit : Send(u) \/ \E how \in {"text", "empty", "failed"} : Answer(u, how)

Spec == Init /\ [][Next]_vars

-------------------------------------------------------------------------------
(* Properties. *)

\* A stratified sample is as large as asked for, takes each stratum's share to within one session, and keeps the plays of
\* any two strata within one of each other until one of them has run out.
SampleIsFair ==
  loaded = "yes" /\ pass = 0 /\ trace.stratified =>
    LET strata == Strata
        of(n, k) == Cardinality({j \in 1 .. k : sample[j] \in ToSet(strata[n])})
        all == Len(sample)
    IN  /\ IsInjective(sample) /\ all = IF trace.take = 0 THEN Len(Shuffled) ELSE trace.take
        /\ \A n \in DOMAIN strata :
             /\ (of(n, all) - 1) * Len(Shuffled) < all * Len(strata[n])
             /\ (of(n, all) + 1) * Len(Shuffled) > all * Len(strata[n])
        /\ \A k \in 1 .. all, m, n \in DOMAIN strata :
             of(m, k) < of(m, all) => of(n, k) - of(m, k) \in -1 .. 1 \/ of(n, k) = of(n, all)

\* The check finds nothing where the run sent its plan, whichever turns failed and whatever the engine replied; a prompt
\* holds the engine's reply of this very pass to each turn before it that got one; and no play begins as another does.
PlanIsKept ==
  /\ verdict \in {"before", "none", "match"}
  /\ \A k \in DOMAIN seen : \A i \in 1 .. k[2] - 1 :
       trace.live /\ <<k[1], i>> \in said => seen[k].replies[i] = pass
  /\ \A k, l \in DOMAIN seen : k # l => seen[k] # seen[l]
================================================================================
