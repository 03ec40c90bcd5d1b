----------------------------- MODULE MeasureProofs -----------------------------
(***************************************************************************)
(* Proofs about Measure: what the warmup and the reset leave to the pass,  *)
(* and what each dispatcher it composes keeps, for every number of         *)
(* sessions, slots, turns, arrivals and requests.                          *)
(***************************************************************************)
EXTENDS Measure, AsyncSemaphoreProofs, FiniteSetTheorems, WellFoundedInduction

-------------------------------------------------------------------------------
(* Numbers and places. *)

\* A set of naturals has a least element.
LEMMA Least ==
  ASSUME NEW T, T \subseteq Nat, T # {}
  PROVE  \E x \in T : \A y \in T : x <= y
<1>1. PICK x \in T : \A y \in T : ~ (<<y, x>> \in OpToRel(<, Nat))
  BY NatLessThanWellFounded, WFMin
<1>2. \A y \in T : ~ (y < x)
  BY <1>1 DEF OpToRel
<1> QED
  BY <1>2

\* The place of a session among others: how many come before it.
Rank(s, S) == Cardinality({r \in S : r < s})

\* Places tell the sessions of a set apart, in their order, and fill 0 .. |S| - 1.
LEMMA Ranks ==
  ASSUME NEW n \in Nat, NEW S, S \subseteq 1 .. n
  PROVE  /\ IsFiniteSet(S) /\ Cardinality(S) \in Nat
         /\ \A s \in S : Rank(s, S) \in 0 .. Cardinality(S) - 1
         /\ \A r, s \in S : r < s <=> Rank(r, S) < Rank(s, S)
         /\ \A k \in 0 .. Cardinality(S) - 1 : \E s \in S : Rank(s, S) = k
<1> DEFINE Below(s) == {r \in S : r < s}
<1>1. IsFiniteSet(S) /\ Cardinality(S) \in Nat
  <2>1. IsFiniteSet(1 .. n) /\ S \in SUBSET (1 .. n)
    BY FS_Interval
  <2> QED
    BY <2>1, FS_Subset, FS_CardinalityType
<1>2. \A s \in S : IsFiniteSet(Below(s)) /\ Cardinality(Below(s)) \in Nat
  <2> TAKE s \in S
  <2>1. Below(s) \in SUBSET S
    OBVIOUS
  <2> QED
    BY <1>1, <2>1, FS_Subset, FS_CardinalityType
<1>3. \A s \in S : Cardinality(Below(s)) < Cardinality(S)
  <2> TAKE s \in S
  <2>1. Below(s) \in SUBSET S /\ s \notin Below(s)
    OBVIOUS
  <2> QED
    BY <1>1, <1>2, <2>1, FS_Subset
<1>4. ASSUME NEW r \in S, NEW s \in S, r < s
      PROVE  Cardinality(Below(r)) < Cardinality(Below(s))
  <2>1. \A q \in S : q \in Int
    OBVIOUS
  <2>2. Below(r) \subseteq Below(s)
    <3> SUFFICES ASSUME NEW q \in S, q < r
                 PROVE  q < s
      OBVIOUS
    <3> QED
      BY <1>4, <2>1
  <2>3. r \in Below(s) /\ r \notin Below(r)
    BY <1>4, <2>1
  <2> HIDE DEF Below
  <2>4. Cardinality(Below(r)) <= Cardinality(Below(s)) /\ Cardinality(Below(r)) # Cardinality(Below(s))
    BY <1>2, <2>2, <2>3, FS_Subset
  <2> QED
    BY <1>2, <2>4
<1> HIDE DEF Below
<1>5. \A s \in S : Rank(s, S) = Cardinality(Below(s))
  BY DEF Rank, Below
<1>6. \A s \in S : Rank(s, S) \in 0 .. Cardinality(S) - 1
  BY <1>1, <1>2, <1>3, <1>5
<1>7. \A r, s \in S : r < s <=> Rank(r, S) < Rank(s, S)
  <2> TAKE r, s \in S
  <2>1. r \in Int /\ s \in Int
    OBVIOUS
  <2>2. Cardinality(Below(r)) \in Nat /\ Cardinality(Below(s)) \in Nat
    BY <1>2
  <2>3. CASE r < s
    BY <1>4, <1>5, <2>3
  <2>4. CASE s < r
    <3>1. Cardinality(Below(s)) < Cardinality(Below(r))
      BY <1>4, <2>4
    <3> QED
      BY <1>5, <2>1, <2>2, <2>4, <3>1
  <2>5. CASE r = s
    BY <1>5, <2>1, <2>2, <2>5
  <2> QED
    BY <2>1, <2>3, <2>4, <2>5
<1>8. \A k \in 0 .. Cardinality(S) - 1 : \E s \in S : Rank(s, S) = k
  <2> DEFINE places == [s \in S |-> Rank(s, S)]
             T == 0 .. Cardinality(S) - 1
  <2>1. IsFiniteSet(T) /\ Cardinality(T) = Cardinality(S)
    <3>1. Cardinality(S) - 1 \in Int /\ (0 > Cardinality(S) - 1 => Cardinality(S) = 0)
      BY <1>1
    <3>2. IsFiniteSet(0 .. Cardinality(S) - 1)
          /\ Cardinality(0 .. Cardinality(S) - 1) = IF 0 > Cardinality(S) - 1 THEN 0 ELSE Cardinality(S) - 1 - 0 + 1
      BY <3>1, FS_Interval
    <3> QED
      BY <1>1, <3>1, <3>2
  <2>2. places \in Injection(S, T)
    <3>1. \A r, s \in S : Rank(r, S) = Rank(s, S) => r = s
      <4> TAKE r, s \in S
      <4>1. r \in Int /\ s \in Int /\ Rank(r, S) \in Int /\ Rank(s, S) \in Int
        BY <1>1, <1>6
      <4> QED
        BY <1>7, <4>1
    <3> QED
      BY <1>6, <3>1 DEF Injection, IsInjective
  <2>3. places \in Surjection(S, T)
    BY <2>1, <2>2, FS_Injection
  <2> QED
    BY <2>3 DEF Surjection
<1> QED
  BY <1>1, <1>6, <1>7, <1>8

-------------------------------------------------------------------------------
(* The open loop (OpenLoop). *)

\* The turns of a session that went out, and those whose answers are recorded.
Gone(s) == IF phase[s] = "asleep" THEN 0 ELSE turn[s]
Come(s) == IF phase[s] \in {"waiting", "done"} THEN turn[s] ELSE turn[s] - 1

\* Where a session stands: the keys sent are those of its turns up to the one it is at, those recorded the ones before
\* its answer; only its last turn failed.
ArrivalOf(s) ==
  /\ turn[s] \in 1 .. Turns[s]
  /\ phase[s] = "asleep" => turn[s] = 1
  /\ phase[s] = "waiting" => turn[s] < Turns[s]
  /\ phase[s] = "done" => turn[s] = Turns[s] \/ <<s, turn[s]>> \in failed
  /\ \A t \in Nat : <<s, t>> \in OP!executed <=> t \in 1 .. Gone(s)
  /\ \A t \in Nat : <<s, t>> \in succeeded \cup failed <=> t \in 1 .. Come(s)
  /\ \A t \in Nat : <<s, t>> \in failed => phase[s] = "done" /\ t = turn[s]

\* What an open-loop pass keeps.
OpenInv ==
  /\ OP!TypeOK /\ OP!IndexesContiguous
  /\ \A s \in OP!Sessions : ArrivalOf(s)
  /\ outcome = "ok" => \A s \in OP!Sessions : phase[s] = "done"

\* Each session has a turn.
LEMMA OpenTurns == \A s \in OP!Sessions : Turns[s] \in Nat \ {0}
BY DispatchersAssumption DEF OP!TurnsAssumption

\* A key of the plan is a session and one of its turns.
LEMMA OpenKey ==
  ASSUME NEW k
  PROVE  k \in OP!Planned <=> \E s \in OP!Sessions : \E t \in 1 .. Turns[s] : k = <<s, t>>
BY DEF OP!Planned

\* The next turn of a session goes out under the next number.
LEMMA OpenSend ==
  ASSUME OpenInv, NEW s \in OP!Sessions, NEW t \in 1 .. Turns[s], t = Gone(s) + 1, OP!Send(s, t)
  PROVE  /\ phase' \in [OP!Sessions -> {"asleep", "sending", "waiting", "done", "raised"}]
         /\ turn' \in [OP!Sessions -> Nat] /\ counter' \in Nat
         /\ OP!executed' = OP!executed \cup {<<s, t>>} /\ OP!executed' \subseteq OP!Planned
         /\ \A k \in OP!executed' : index'[k] \in Nat
         /\ OP!IndexesContiguous'
         /\ phase'[s] = "sending" /\ turn'[s] = t
<1> DEFINE new == <<s, t>>
<1>1. /\ Turns[s] \in Nat /\ t \in Nat /\ counter \in Nat
      /\ counter' = counter + 1
      /\ index' = [k \in OP!executed \cup {new} |-> IF k = new THEN counter ELSE index[k]]
  BY OpenTurns DEF OP!Send, OpenInv, OP!TypeOK
<1>2. OP!executed' = OP!executed \cup {new}
  BY <1>1 DEF OP!executed
<1>3. new \notin OP!executed
  <2>0. Gone(s) \in Nat
    BY DEF OpenInv, OP!TypeOK, Gone
  <2>1. t \notin 1 .. Gone(s)
    BY <2>0
  <2> QED
    BY <1>1, <2>1 DEF OpenInv, ArrivalOf
<1>4. new \in OP!Planned
  BY OpenKey
<1>5. index'[new] = counter /\ \A k \in OP!executed : index'[k] = index[k]
  BY <1>1, <1>3
<1> HIDE DEF new
<1>6. \A k \in OP!executed : index[k] \in 0 .. counter - 1
  BY DEF OpenInv, OP!IndexesContiguous
<1>7. {index'[k] : k \in OP!executed'} = 0 .. counter' - 1
  <2>1. {index'[k] : k \in OP!executed'} = {index[k] : k \in OP!executed} \cup {counter}
    BY <1>2, <1>5
  <2>2. {index[k] : k \in OP!executed} = 0 .. counter - 1
    BY DEF OpenInv, OP!IndexesContiguous
  <2>3. 0 .. counter' - 1 = (0 .. counter - 1) \cup {counter}
    BY <1>1
  <2> QED
    BY <2>1, <2>2, <2>3
<1>8. ASSUME NEW j \in OP!executed', NEW k \in OP!executed', j[1] = k[1], j[2] < k[2]
      PROVE  index'[j] < index'[k]
  <2>1. CASE j \in OP!executed /\ k \in OP!executed
    BY <1>5, <1>8, <2>1 DEF OpenInv, OP!IndexesContiguous
  <2>2. CASE j \in OP!executed /\ k = new
    BY <1>1, <1>5, <1>6, <2>2
  <2>3. CASE j = new /\ k \in OP!executed
    <3>1. k \in OP!Planned
      BY <2>3 DEF OpenInv, OP!TypeOK
    <3>2. PICK r \in OP!Sessions : \E u \in 1 .. Turns[r] : k = <<r, u>>
      BY <3>1, OpenKey
    <3>6. PICK u \in 1 .. Turns[r] : k = <<r, u>>
      BY <3>2
    <3>3. r = s /\ u > t /\ u \in Nat
      BY <1>8, <2>3, <3>6, OpenTurns DEF new
    <3>4. u \in 1 .. Gone(s)
      BY <2>3, <3>6, <3>3 DEF OpenInv, ArrivalOf
    <3>5. Gone(s) \in Nat
      BY DEF OpenInv, OP!TypeOK, Gone
    <3> QED
      BY <1>1, <3>3, <3>4, <3>5
  <2>4. ~(j = new /\ k = new)
    <3>1. new[2] = t
      BY DEF new
    <3> QED
      BY <1>1, <1>8, <3>1
  <2> QED
    BY <1>2, <1>8, <2>1, <2>2, <2>3, <2>4
<1>9. OP!IndexesContiguous'
  BY <1>7, <1>8 DEF OP!IndexesContiguous
<1>10. /\ phase' \in [OP!Sessions -> {"asleep", "sending", "waiting", "done", "raised"}]
       /\ turn' \in [OP!Sessions -> Nat]
       /\ phase'[s] = "sending" /\ turn'[s] = t
  BY <1>1 DEF OP!Send, OpenInv, OP!TypeOK
<1>11. OP!executed' \subseteq OP!Planned /\ \A k \in OP!executed' : index'[k] \in Nat
  BY <1>1, <1>2, <1>4, <1>5 DEF OpenInv, OP!TypeOK
<1> QED
  BY <1>1, <1>2, <1>9, <1>10, <1>11, SMTT(30) DEF new

\* The sessions a step does not touch stand where they stood.
LEMMA OpenOthers ==
  ASSUME OpenInv, NEW s \in OP!Sessions, NEW r \in OP!Sessions, r # s,
         phase'[r] = phase[r], turn'[r] = turn[r],
         \A t \in Nat : <<r, t>> \in OP!executed' <=> <<r, t>> \in OP!executed,
         \A t \in Nat : <<r, t>> \in succeeded' <=> <<r, t>> \in succeeded,
         \A t \in Nat : <<r, t>> \in failed' <=> <<r, t>> \in failed
  PROVE  ArrivalOf(r)' /\ Gone(r)' = Gone(r) /\ Come(r)' = Come(r)
<1>1. Gone(r)' = Gone(r) /\ Come(r)' = Come(r)
  BY DEF Gone, Come
<1>2. turn[r] \in Nat
  BY DEF OpenInv, OP!TypeOK
<1>3. ArrivalOf(r)
  BY DEF OpenInv
<1> QED
  BY <1>1, <1>2, <1>3 DEF ArrivalOf

\* A step of a session in terms of what it sent and what came back: SessionReplay's, in numbers.
Moves(gone, come, fell, gone2, come2, fell2, last) ==
  \/ ~fell /\ come = gone /\ gone < last /\ gone2 = gone + 1 /\ come2 = come /\ ~fell2
  \/ come < gone /\ gone2 = gone /\ come2 = gone
  \/ come < gone /\ gone < last /\ gone2 = gone + 1 /\ come2 = gone /\ ~fell2
  \/ gone2 = gone /\ come2 = come /\ (fell2 <=> fell)

\* Its last turn failed; and the session's part of a step, as SessionReplay counts it.
Fell(s) == <<s, turn[s]>> \in failed
OpenMoves(s) == Moves(Gone(s), Come(s), Fell(s), Gone(s)', Come(s)', Fell(s)', Turns[s])

\* A session at rest or at its answer goes on to its next turn.
LEMMA OpenGoes ==
  ASSUME OpenInv, NEW s \in OP!Sessions, NEW t \in 1 .. Turns[s], t = Gone(s) + 1, OP!Send(s, t),
         OP!Looping, UNCHANGED <<rowError, outcome>>,
         \/ phase[s] \in {"asleep", "waiting"} /\ UNCHANGED <<succeeded, failed>>
         \/ phase[s] = "sending" /\ OP!Record(s, TRUE)
  PROVE  OpenInv' /\ \A r \in OP!Sessions : OpenMoves(r)
<1>1. /\ phase' \in [OP!Sessions -> {"asleep", "sending", "waiting", "done", "raised"}]
      /\ turn' \in [OP!Sessions -> Nat] /\ counter' \in Nat
      /\ OP!executed' = OP!executed \cup {<<s, t>>} /\ OP!executed' \subseteq OP!Planned
      /\ \A k \in OP!executed' : index'[k] \in Nat
      /\ OP!IndexesContiguous'
      /\ phase'[s] = "sending" /\ turn'[s] = t
  BY OpenSend
<1>2. \A r \in OP!Sessions : r # s => phase'[r] = phase[r] /\ turn'[r] = turn[r]
  BY DEF OP!Send, OpenInv, OP!TypeOK
<1>3. ArrivalOf(s) /\ Turns[s] \in Nat /\ turn[s] \in Nat /\ t \in Nat
  BY OpenTurns DEF OpenInv, OP!TypeOK
<1>4. /\ failed' = failed
      /\ \A k : k \in succeeded' <=> k \in succeeded \/ (phase[s] = "sending" /\ k = <<s, turn[s]>>)
  BY DEF OP!Record
<1>5. Gone(s)' = t /\ Come(s)' = t - 1
  BY <1>1 DEF Gone, Come
<1>6. phase[s] = "sending" => t = turn[s] + 1 /\ <<s, turn[s]>> \in OP!executed
  BY <1>3 DEF Gone, ArrivalOf
<1>7. succeeded' \subseteq OP!executed' /\ failed' \subseteq OP!executed'
  BY <1>1, <1>4, <1>6 DEF OpenInv, OP!TypeOK
<1>8. ~Fell(s) /\ \A u \in Nat : <<s, u>> \notin failed
  BY <1>3 DEF ArrivalOf, Fell
<1>9. ArrivalOf(s)'
  <2>1. \A u \in Nat : <<s, u>> \in OP!executed' <=> u \in 1 .. t
    <3>1. \A u \in Nat : <<s, u>> \in OP!executed <=> u \in 1 .. t - 1
      BY <1>3 DEF ArrivalOf, Gone
    <3> QED
      BY <1>1, <1>3, <3>1
  <2>2. \A u \in Nat : <<s, u>> \in succeeded' \cup failed' <=> u \in 1 .. t - 1
    <3>1. CASE phase[s] = "sending"
      <4>1. \A u \in Nat : <<s, u>> \in succeeded <=> u \in 1 .. turn[s] - 1
        BY <1>3, <1>8, <3>1 DEF ArrivalOf, Come
      <4>2. \A u \in Nat : <<s, u>> \in succeeded' \cup failed' <=> u \in 1 .. turn[s] - 1 \/ u = turn[s]
        BY <1>4, <1>8, <3>1, <4>1
      <4>3. turn[s] >= 1 /\ t = turn[s] + 1
        BY <1>3, <1>6, <3>1 DEF ArrivalOf
      <4> QED
        BY <1>3, <4>2, <4>3
    <3>2. CASE phase[s] \in {"asleep", "waiting"}
      <4>1. \A u \in Nat : <<s, u>> \in succeeded <=> u \in 1 .. t - 1
        BY <1>3, <1>8, <3>2 DEF ArrivalOf, Come, Gone
      <4> QED
        BY <1>4, <1>8, <3>2, <4>1
    <3> QED
      BY <3>1, <3>2
  <2> QED
    BY <1>1, <1>4, <1>5, <1>8, <2>1, <2>2 DEF ArrivalOf
<1>10. OpenMoves(s)
  <2>1. ~Fell(s)'
    BY <1>3, <1>4, <1>8, <1>1 DEF Fell
  <2>2. t <= Turns[s] /\ Gone(s) = t - 1 /\ Gone(s) \in Nat
    BY <1>3 DEF Gone
  <2>3. CASE phase[s] = "sending"
    <3>1. Come(s) = Gone(s) - 1
      BY <2>3 DEF Come, Gone
    <3>2. Come(s) < Gone(s) /\ Gone(s) < Turns[s] /\ Gone(s)' = Gone(s) + 1 /\ Come(s)' = Gone(s)
      BY <1>3, <1>5, <2>2, <3>1
    <3> QED
      BY <2>1, <3>2 DEF OpenMoves, Moves
  <2>4. CASE phase[s] \in {"asleep", "waiting"}
    <3>1. Come(s) = Gone(s)
      BY <1>3, <2>4 DEF Come, Gone, ArrivalOf
    <3> QED
      BY <1>3, <1>5, <1>8, <2>1, <2>2, <3>1 DEF OpenMoves, Moves
  <2> QED
    BY <2>3, <2>4
<1>11. ASSUME NEW r \in OP!Sessions, r # s
       PROVE  ArrivalOf(r)' /\ OpenMoves(r)
  <2>1. ArrivalOf(r)' /\ Gone(r)' = Gone(r) /\ Come(r)' = Come(r)
    BY <1>1, <1>2, <1>4, <1>11, OpenOthers
  <2>2. Fell(r)' <=> Fell(r)
    BY <1>2, <1>4, <1>11 DEF Fell
  <2> QED
    BY <2>1, <2>2 DEF OpenMoves, Moves
<1>12. OP!TypeOK'
  BY <1>1, <1>7 DEF OpenInv, OP!TypeOK
<1>13. outcome' # "ok"
  BY DEF OP!Looping
<1> QED
  BY <1>1, <1>9, <1>10, <1>11, <1>12, <1>13 DEF OpenInv

\* A session's answer is recorded and it waits or is done.
LEMMA OpenRests ==
  ASSUME OpenInv, NEW s \in OP!Sessions, NEW ok \in BOOLEAN, phase[s] = "sending", OP!Record(s, ok),
         NEW rest \in {"waiting", "done"}, phase' = [phase EXCEPT ![s] = rest],
         rest = "waiting" => ok /\ turn[s] < Turns[s], rest = "done" => ~ok \/ turn[s] = Turns[s],
         OP!Looping, UNCHANGED <<turn, counter, index, rowError, outcome>>
  PROVE  OpenInv' /\ \A r \in OP!Sessions : OpenMoves(r)
<1>1. ArrivalOf(s) /\ turn[s] \in Nat
  BY DEF OpenInv, OP!TypeOK
<1>2. /\ phase' \in [OP!Sessions -> {"asleep", "sending", "waiting", "done", "raised"}] /\ phase'[s] = rest
      /\ \A r \in OP!Sessions : r # s => phase'[r] = phase[r]
  BY DEF OpenInv, OP!TypeOK
<1>3. OP!executed' = OP!executed
  BY DEF OP!executed
<1>4. /\ \A k : k \in succeeded' <=> k \in succeeded \/ (ok /\ k = <<s, turn[s]>>)
      /\ \A k : k \in failed' <=> k \in failed \/ (~ok /\ k = <<s, turn[s]>>)
  BY DEF OP!Record
<1>5. Gone(s) = turn[s] /\ Gone(s)' = turn[s] /\ Come(s) = turn[s] - 1 /\ Come(s)' = turn[s]
  BY <1>2 DEF Gone, Come
<1>6. \A u \in Nat : <<s, u>> \notin failed
  BY <1>1 DEF ArrivalOf
<1>7. <<s, turn[s]>> \in OP!executed
  BY <1>1, <1>5 DEF ArrivalOf
<1>8. ArrivalOf(s)'
  <2>1. \A u \in Nat : <<s, u>> \in succeeded' \cup failed' <=> u \in 1 .. turn[s]
    <3>1. \A u \in Nat : <<s, u>> \in succeeded <=> u \in 1 .. turn[s] - 1
      BY <1>1, <1>5, <1>6 DEF ArrivalOf
    <3>2. turn[s] \in 1 .. Turns[s]
      BY <1>1 DEF ArrivalOf
    <3> QED
      BY <1>1, <1>4, <1>6, <3>1, <3>2
  <2>2. \A u \in Nat : <<s, u>> \in failed' => ~ok /\ u = turn[s]
    BY <1>4, <1>6
  <2>3. rest = "done" => turn[s] = Turns[s] \/ <<s, turn[s]>> \in failed'
    BY <1>4
  <2>4. ~ok => rest = "done"
    OBVIOUS
  <2> QED
    BY <1>1, <1>2, <1>3, <1>5, <2>1, <2>2, <2>3, <2>4 DEF ArrivalOf
<1>9. OpenMoves(s)
  BY <1>1, <1>5 DEF OpenMoves, Moves
<1>10. ASSUME NEW r \in OP!Sessions, r # s
       PROVE  ArrivalOf(r)' /\ OpenMoves(r)
  <2>1. ArrivalOf(r)' /\ Gone(r)' = Gone(r) /\ Come(r)' = Come(r)
    BY <1>2, <1>3, <1>4, <1>10, OpenOthers
  <2>2. Fell(r)' <=> Fell(r)
    BY <1>4, <1>10 DEF Fell
  <2> QED
    BY <2>1, <2>2 DEF OpenMoves, Moves
<1>11. OP!TypeOK'
  BY <1>2, <1>3, <1>4, <1>7 DEF OpenInv, OP!TypeOK
<1>12. OP!IndexesContiguous'
  BY <1>3 DEF OpenInv, OP!IndexesContiguous
<1>13. outcome' # "ok"
  BY DEF OP!Looping
<1> QED
  BY <1>8, <1>9, <1>10, <1>11, <1>12, <1>13 DEF OpenInv

\* No key goes out or comes back.
LEMMA OpenStill ==
  ASSUME OpenInv, UNCHANGED <<turn, counter, index, succeeded, failed>>, rowError' \in BOOLEAN,
         phase' \in [OP!Sessions -> {"asleep", "sending", "waiting", "done", "raised"}],
         \A s \in OP!Sessions : phase'[s] = phase[s] \/ (phase[s] = "sending" /\ phase'[s] = "raised"),
         outcome' \in {"running", "raised", "ok", "aborted", "cancelled"},
         outcome' = "ok" => \A s \in OP!Sessions : phase'[s] = "done"
  PROVE  OpenInv' /\ \A s \in OP!Sessions : OpenMoves(s)
<1>1. OP!executed' = OP!executed
  BY DEF OP!executed
<1>2. ASSUME NEW s \in OP!Sessions
      PROVE  ArrivalOf(s)' /\ OpenMoves(s)
  <2>1. Gone(s)' = Gone(s) /\ Come(s)' = Come(s) /\ (Fell(s)' <=> Fell(s))
    BY DEF Gone, Come, Fell
  <2>2. OpenMoves(s)
    BY <2>1 DEF OpenMoves, Moves
  <2>3. ArrivalOf(s)
    BY DEF OpenInv
  <2>4. ArrivalOf(s)'
    BY <1>1, <2>1, <2>3 DEF ArrivalOf
  <2> QED
    BY <2>2, <2>4
<1>3. OP!TypeOK' /\ OP!IndexesContiguous'
  BY <1>1 DEF OpenInv, OP!TypeOK, OP!IndexesContiguous
<1> QED
  BY <1>2, <1>3 DEF OpenInv

\* Every callback of the open loop keeps OpenInv and moves each session as SessionReplay allows.
LEMMA OpenNext ==
  ASSUME OpenInv, OP!Next
  PROVE  OpenInv' /\ \A s \in OP!Sessions : OpenMoves(s)
<1> USE DEF OpenMoves
<1>1. ASSUME NEW s \in OP!Sessions, OP!Arrive(s)
      PROVE  OpenInv' /\ \A r \in OP!Sessions : OpenMoves(r)
  <2>1. 1 \in 1 .. Turns[s] /\ Gone(s) = 0
    BY <1>1, OpenTurns DEF OP!Arrive, Gone
  <2>2. /\ OP!Looping /\ phase[s] = "asleep" /\ OP!Send(s, 1) /\ 1 = Gone(s) + 1
        /\ UNCHANGED <<succeeded, failed>> /\ UNCHANGED <<rowError, outcome>>
    BY <1>1, <2>1 DEF OP!Arrive
  <2> QED
    BY <2>1, <2>2, OpenGoes
<1>2. ASSUME NEW s \in OP!Sessions, OP!WaitOver(s)
      PROVE  OpenInv' /\ \A r \in OP!Sessions : OpenMoves(r)
  <2>1. turn[s] + 1 \in 1 .. Turns[s] /\ Gone(s) = turn[s]
    <3>1. ArrivalOf(s) /\ Turns[s] \in Nat /\ turn[s] \in Nat /\ phase[s] = "waiting"
      BY <1>2, OpenTurns DEF OP!WaitOver, OpenInv, OP!TypeOK
    <3>2. turn[s] \in 1 .. Turns[s] /\ turn[s] < Turns[s]
      BY <3>1 DEF ArrivalOf
    <3> QED
      BY <3>1, <3>2 DEF Gone
  <2> QED
    BY <1>2, <2>1, OpenGoes DEF OP!WaitOver
<1>3. ASSUME NEW s \in OP!Sessions, OP!AnswerNext(s)
      PROVE  OpenInv' /\ \A r \in OP!Sessions : OpenMoves(r)
  <2>1. turn[s] + 1 \in 1 .. Turns[s] /\ Gone(s) = turn[s] /\ phase[s] = "sending" /\ OP!Looping
    BY <1>3, OpenTurns DEF OP!AnswerNext, OP!AwaitsAnswer, Gone, OpenInv, ArrivalOf, OP!TypeOK
  <2>2. CASE OP!Send(s, turn[s] + 1)
    BY <1>3, <2>1, <2>2, OpenGoes DEF OP!AnswerNext
  <2>3. CASE phase' = [phase EXCEPT ![s] = "waiting"] /\ UNCHANGED <<turn, counter, index>>
    BY <1>3, <2>1, <2>3, OpenRests DEF OP!AnswerNext
  <2> QED
    BY <1>3, <2>2, <2>3 DEF OP!AnswerNext
<1>4. ASSUME NEW s \in OP!Sessions, OP!AnswerLast(s)
      PROVE  OpenInv' /\ \A r \in OP!Sessions : OpenMoves(r)
  BY <1>4, OpenRests DEF OP!AnswerLast, OP!AwaitsAnswer
<1>5. ASSUME NEW s \in OP!Sessions, OP!AnswerRaises(s)
      PROVE  OpenInv' /\ \A r \in OP!Sessions : OpenMoves(r)
  BY <1>5, OpenStill DEF OP!AnswerRaises, OP!AwaitsAnswer, OpenInv, OP!TypeOK
<1>6. CASE OP!RowWriteFails \/ OP!Gathered \/ OP!Cancel \/ OP!Over
  BY <1>6, OpenStill
     DEF OP!RowWriteFails, OP!Gathered, OP!Cancel, OP!Over, OP!vars, OP!Looping, OpenInv, OP!TypeOK
<1> QED
  BY <1>1, <1>2, <1>3, <1>4, <1>5, <1>6 DEF OP!Next, OP!Answered

\* At the start nothing was sent.
LEMMA OpenInit == OP!Init => OpenInv
<1> SUFFICES ASSUME OP!Init
             PROVE  OpenInv
  OBVIOUS
<1>1. OP!executed = {} /\ succeeded = {} /\ failed = {} /\ counter = 0
  BY DEF OP!Init, OP!executed
<1>2. \A s \in OP!Sessions : phase[s] = "asleep" /\ turn[s] = 1 /\ Turns[s] \in Nat \ {0}
  BY OpenTurns DEF OP!Init
<1>3. \A s \in OP!Sessions : ArrivalOf(s)
  BY <1>1, <1>2 DEF ArrivalOf, Gone, Come
<1>4. OP!IndexesContiguous
  BY <1>1 DEF OP!IndexesContiguous
<1>5. OP!TypeOK
  <2>1. /\ phase \in [OP!Sessions -> {"asleep", "sending", "waiting", "done", "raised"}]
        /\ turn \in [OP!Sessions -> Nat] /\ counter \in Nat
    BY DEF OP!Init
  <2>2. rowError \in BOOLEAN /\ outcome \in {"running", "raised", "ok", "aborted", "cancelled"}
    BY DEF OP!Init
  <2> QED
    BY <1>1, <2>1, <2>2 DEF OP!TypeOK
<1> QED
  BY <1>3, <1>4, <1>5 DEF OpenInv, OP!Init

\* A key that never went out is of a session that a failure ended before it.
LEMMA OpenHolds == OpenInv => OP!Inv
<1> SUFFICES ASSUME OpenInv
             PROVE  OP!IdentityHolds
  BY DEF OpenInv, OP!Inv
<1> SUFFICES ASSUME outcome = "ok", NEW k \in OP!Planned \ OP!executed
             PROVE  \E u \in 1 .. k[2] - 1 : <<k[1], u>> \in failed
  BY DEF OP!IdentityHolds
<1>1. PICK s \in OP!Sessions : \E t \in 1 .. Turns[s] : k = <<s, t>>
  BY OpenKey
<1>2. PICK t \in 1 .. Turns[s] : k = <<s, t>>
  BY <1>1
<1>3. ArrivalOf(s) /\ phase[s] = "done" /\ Turns[s] \in Nat /\ turn[s] \in Nat
  BY OpenTurns DEF OpenInv, OP!TypeOK
<1>4. t \in Nat /\ t \notin 1 .. turn[s]
  BY <1>2, <1>3 DEF ArrivalOf, Gone
<1>5. turn[s] \in 1 .. t - 1 /\ turn[s] # Turns[s]
  BY <1>3, <1>4 DEF ArrivalOf
<1> QED
  BY <1>2, <1>3, <1>5 DEF ArrivalOf

LEMMA CountUpTo == ASSUME NEW n \in Nat PROVE Cardinality(1 .. n) = n
BY FS_Interval

\* SessionReplay's view of an open loop.
OpenCounted ==
  \A s \in OP!Sessions : /\ Cardinality(OP!Of(OP!executed, s)) = Gone(s)
                         /\ Cardinality(OP!Of(succeeded \cup failed, s)) = Come(s)
                         /\ OP!Of(failed, s) # {} <=> Fell(s)

\* The keys of a session are as many as its turns: the counts of the view are those of its place.
LEMMA OpenCounts == OpenInv => OpenCounted
<1> SUFFICES ASSUME OpenInv, NEW s \in OP!Sessions
             PROVE  /\ Cardinality(OP!Of(OP!executed, s)) = Gone(s)
                    /\ Cardinality(OP!Of(succeeded \cup failed, s)) = Come(s)
                    /\ OP!Of(failed, s) # {} <=> Fell(s)
  BY DEF OpenCounted
<1>1. ArrivalOf(s) /\ Turns[s] \in Nat /\ turn[s] \in 1 .. Turns[s]
  BY OpenTurns DEF OpenInv, ArrivalOf
<1>2. Gone(s) \in Nat /\ Come(s) \in Nat /\ Gone(s) <= Turns[s] /\ Come(s) <= Turns[s]
  BY <1>1 DEF Gone, Come
<1>3. OP!Of(OP!executed, s) = 1 .. Gone(s) /\ OP!Of(succeeded \cup failed, s) = 1 .. Come(s)
  BY <1>1, <1>2 DEF OP!Of, ArrivalOf
<1>4. OP!Of(failed, s) # {} <=> Fell(s)
  <2>1. \A t \in 1 .. Turns[s] : <<s, t>> \in failed => t = turn[s]
    BY <1>1 DEF ArrivalOf
  <2> QED
    BY <1>1, <2>1 DEF OP!Of, Fell
<1> QED
  BY <1>2, <1>3, <1>4, CountUpTo

LEMMA OpenCountsNext == OpenInv' => OpenCounted'
BY OpenCounts, PTL

-------------------------------------------------------------------------------
(* Lines. *)

\* A sequence's head and what follows it.
LEMMA HeadAndTail ==
  ASSUME NEW W, NEW q \in Seq(W), q # <<>>
  PROVE  /\ Len(q) \in Nat \ {0} /\ DOMAIN q = 1 .. Len(q) /\ \A i \in 1 .. Len(q) : q[i] \in W
         /\ Head(q) = q[1] /\ Head(q) \in W
         /\ DOMAIN Tail(q) = 1 .. Len(q) - 1
         /\ \A i \in 1 .. Len(q) - 1 : Tail(q)[i] = q[i + 1]
BY EmptySeq, HeadTailProperties, LenProperties, ElementOfSeq

\* A sequence with one more at its end.
LEMMA WithLast ==
  ASSUME NEW W, NEW q \in Seq(W), NEW w \in W
  PROVE  /\ Len(q) \in Nat /\ DOMAIN q = 1 .. Len(q)
         /\ DOMAIN Append(q, w) = 1 .. Len(q) + 1
         /\ \A i \in 1 .. Len(q) : Append(q, w)[i] = q[i]
         /\ Append(q, w)[Len(q) + 1] = w
BY AppendProperties, LenProperties

\* One more of a finite set, or one fewer.
LEMMA OneMore ==
  ASSUME NEW S, IsFiniteSet(S), NEW x
  PROVE  /\ Cardinality(S) \in Nat
         /\ x \notin S => Cardinality(S \cup {x}) = Cardinality(S) + 1
         /\ x \in S => Cardinality(S \ {x}) = Cardinality(S) - 1
BY FS_CardinalityType, FS_AddElement, FS_RemoveElement

-------------------------------------------------------------------------------
(* A single-turn pass (Replay). *)

\* The semaphore's operators as Replay reaches them are those of AsyncSemaphore.
LEMMA SingleNames ==
  /\ \A S : RP!Cardinality(S) = Cardinality(S)
  /\ \A W : RP!Semaphore(W) = Semaphore(W)
  /\ \A n : RP!NewSemaphore(n) = NewSemaphore(n)
  /\ \A q : /\ RP!Locked(q) <=> Locked(q)
            /\ RP!Runnable(q) <=> Runnable(q)
            /\ RP!Take(q) = Take(q) /\ RP!Release(q) = Release(q) /\ RP!Resume(q) = Resume(q)
            /\ RP!Slots(q) = Slots(q)
            /\ \A w : RP!Enqueue(q, w) = Enqueue(q, w)
BY DEF RP!Cardinality, Cardinality, RP!Semaphore, Semaphore, RP!NewSemaphore, NewSemaphore, RP!Locked, Locked,
       RP!Runnable, Runnable, RP!Take, Take, RP!Release, Release, RP!Resume, Resume, RP!Slots, Slots,
       RP!Enqueue, Enqueue, RP!Asleep, Asleep

\* Request j may wait behind request i.
Behind(i, j) == i # j /\ ~RP!Before(j, i)

\* The slots' line: requests that wait in it, each once and none behind one due later, and nobody else waits.
SingleLine ==
  /\ \A k \in DOMAIN sem.waiters : phase[sem.waiters[k]] = "queued"
  /\ \A k, l \in DOMAIN sem.waiters : k < l => Behind(sem.waiters[k], sem.waiters[l])
  /\ \A i \in RP!Requests : phase[i] = "queued" => \E k \in DOMAIN sem.waiters : sem.waiters[k] = i

\* When a request went out.
SentOnce ==
  \A i \in RP!Requests : IF phase[i] \in {"asleep", "queued"} THEN sentAt[i] = -1 ELSE sentAt[i] \in 0 .. clock

\* A request is up before every one due after it.
UpInOrder == \A i, j \in RP!Requests : RP!Before(i, j) /\ phase[i] = "asleep" => phase[j] = "asleep"

\* What a single-turn pass keeps.
SingleInv == RP!TypeOK /\ Sound(sem) /\ SingleLine /\ SentOnce /\ UpInOrder /\ RP!SlotsConserved /\ RP!InOrderDue

\* The offsets count from the first time the trace carries, so none is negative.
LEMMA Rebased ==
  ASSUME NEW ts \in Offsets
  PROVE  RP!Rebase(ts) \in [RP!Requests -> Nat]
<1> DEFINE Time(i) == IF ts[i] = NoTime THEN 0 ELSE ts[i]
           times == {Time(i) : i \in RP!Requests}
           t0 == CHOOSE t \in times : \A i \in RP!Requests : t <= Time(i)
<1>1. ts \in [RP!Requests -> Nat \cup {NoTime}] /\ RP!Requests # {}
  BY DispatchersAssumption DEF RP!OffsetsAssumption, RP!CountsAssumption, RP!Requests
<1>2. \A i \in RP!Requests : Time(i) \in Nat
  BY <1>1
<1>3. times \subseteq Nat /\ times # {}
  BY <1>1, <1>2
<1>4. \E t \in times : \A i \in RP!Requests : t <= Time(i)
  <2>1. PICK t \in times : \A u \in times : t <= u
    BY <1>3, Least
  <2> QED
    BY <2>1
<1>5. t0 \in Nat /\ \A i \in RP!Requests : t0 <= Time(i)
  BY <1>3, <1>4
<1>6. RP!Rebase(ts) = [i \in RP!Requests |-> (IF ts[i] = NoTime THEN t0 ELSE ts[i]) - t0]
  BY DEF RP!Rebase
<1> HIDE DEF t0
<1>7. \A i \in RP!Requests : (IF ts[i] = NoTime THEN t0 ELSE ts[i]) - t0 \in Nat
  BY <1>2, <1>5
<1> QED
  BY <1>6, <1>7

\* Two requests are not each due before the other, nor one before itself.
LEMMA DueInOrder ==
  ASSUME RP!TypeOK, NEW i \in RP!Requests, NEW j \in RP!Requests
  PROVE  RP!Before(i, j) => i # j /\ ~RP!Before(j, i)
<1>1. at[i] \in Nat /\ at[j] \in Nat
  BY DEF RP!TypeOK, RP!Requests
<1> QED
  BY <1>1 DEF RP!Before

\* At the start every request is asleep and every slot free.
LEMMA SingleInit == RP!Init => SingleInv
<1> SUFFICES ASSUME RP!Init
             PROVE  SingleInv
  OBVIOUS
<1>1. C \in Nat /\ MaxTime \in Nat
  BY DispatchersAssumption DEF RP!CountsAssumption
<1>2. sem = NewSemaphore(C) /\ sem \in Semaphore(RP!Requests) /\ Sound(sem) /\ Slots(sem) = C
  BY <1>1, NewSound, SingleNames DEF RP!Init
<1>3. DOMAIN sem.waiters = {}
  BY <1>2 DEF NewSemaphore
<1>4. \A i \in RP!Requests : phase[i] = "asleep" /\ sentAt[i] = -1 /\ doneAt[i] = -1
  BY DEF RP!Init
<1>5. at \in [RP!Requests -> Nat]
  BY Rebased DEF RP!Init
<1>6. RP!TypeOK
  <2>1. open \in BOOLEAN /\ rowError \in BOOLEAN
    BY DEF RP!Init
  <2>2. /\ phase \in [RP!Requests -> {"asleep", "queued", "sending", "succeeded", "failed", "raised"}]
        /\ sentAt \in [RP!Requests -> Nat \cup {-1}] /\ doneAt \in [RP!Requests -> Nat \cup {-1}]
        /\ clock \in 0 .. MaxTime /\ outcome \in {"running", "raised", "ok", "aborted", "cancelled"}
    BY <1>1 DEF RP!Init
  <2> QED
    BY <1>2, <1>5, <2>1, <2>2, SingleNames DEF RP!TypeOK
<1>7. SingleLine /\ SentOnce /\ UpInOrder /\ RP!InOrderDue
  BY <1>3, <1>4 DEF SingleLine, SentOnce, UpInOrder, RP!InOrderDue
<1>8. RP!SlotsConserved
  <2>1. {i \in RP!Requests : phase[i] = "sending"} = {}
    BY <1>4
  <2> QED
    BY <1>1, <1>2, <2>1, FS_EmptySet, SingleNames DEF RP!SlotsConserved
<1> QED
  BY <1>2, <1>6, <1>7, <1>8 DEF SingleInv

\* A request is a session of one turn.
Out(i) == IF sentAt[i] >= 0 THEN 1 ELSE 0
\* Whether it was answered, and with a failure; and its part of a step, as SessionReplay counts it.
Landed(i) == IF phase[i] \in {"succeeded", "failed"} THEN 1 ELSE 0
Missed(i) == phase[i] = "failed"
SingleMoves(i) == Moves(Out(i), Landed(i), Missed(i), Out(i)', Landed(i)', Missed(i)', Turns[i])

\* A request is a session of at least one turn.
LEMMA SingleTurns == \A i \in RP!Requests : Turns[i] \in Nat \ {0}
BY OpenTurns, SizesAssumption, DispatchersAssumption DEF RP!Requests, OP!Sessions, OP!CountAssumption

\* The requests in flight can be counted.
LEMMA InFlightFinite ==
  LET flying == {i \in RP!Requests : phase[i] = "sending"} IN IsFiniteSet(flying) /\ Cardinality(flying) \in Nat
<1>1. IsFiniteSet(RP!Requests)
  BY SizesAssumption, FS_Interval DEF RP!Requests
<1> QED
  BY <1>1, FS_Subset, FS_CardinalityType

\* A request goes out, those due before it out already.
LEMMA SingleSends ==
  ASSUME SingleInv, NEW i \in RP!Requests, phase[i] \in {"asleep", "queued"},
         phase' = [phase EXCEPT ![i] = "sending"], sentAt' = [sentAt EXCEPT ![i] = clock],
         UNCHANGED <<open, at, clock, doneAt, rowError, outcome>>,
         sem' \in Semaphore(RP!Requests), Sound(sem'), ~open => Slots(sem') = Slots(sem) - 1, SingleLine',
         \A j \in RP!Requests : RP!Before(j, i) => phase[j] # "asleep",
         ~open => \A j \in RP!Requests : RP!Before(j, i) => phase[j] # "queued"
  PROVE  SingleInv' /\ \A j \in RP!Requests : SingleMoves(j)
<1>1. /\ phase \in [RP!Requests -> {"asleep", "queued", "sending", "succeeded", "failed", "raised"}]
      /\ sentAt \in [RP!Requests -> Nat \cup {-1}] /\ clock \in Nat
      /\ sem \in Semaphore(RP!Requests)
  BY DispatchersAssumption, SingleNames DEF SingleInv, RP!TypeOK, RP!CountsAssumption
<1>2. /\ phase'[i] = "sending" /\ sentAt'[i] = clock
      /\ \A j \in RP!Requests : j # i => phase'[j] = phase[j] /\ sentAt'[j] = sentAt[j]
  BY <1>1
<1>3. \A j, k \in RP!Requests : RP!Before(j, k)' <=> RP!Before(j, k)
  BY DEF RP!Before
<1>4. RP!TypeOK'
  <2>1. /\ phase' \in [RP!Requests -> {"asleep", "queued", "sending", "succeeded", "failed", "raised"}]
        /\ sentAt' \in [RP!Requests -> Nat \cup {-1}]
    BY <1>1
  <2> QED
    BY <2>1, SingleNames DEF SingleInv, RP!TypeOK
<1>5. SentOnce'
  BY <1>1, <1>2 DEF SingleInv, SentOnce
<1>6. UpInOrder'
  BY <1>2, <1>3 DEF SingleInv, UpInOrder
<1>7. RP!SlotsConserved'
  <2> DEFINE flying == {j \in RP!Requests : phase[j] = "sending"}
  <2>1. IsFiniteSet(flying) /\ Cardinality(flying) \in Nat /\ i \notin flying
    BY InFlightFinite
  <2>2. {j \in RP!Requests : phase'[j] = "sending"} = flying \cup {i}
    BY <1>2
  <2>3. open' = open /\ Slots(sem) \in Nat /\ (~open => Slots(sem) + Cardinality(flying) = C)
    BY <1>1, SingleNames DEF SingleInv, RP!SlotsConserved, Slots, Semaphore
  <2> HIDE DEF flying
  <2>4. Cardinality(flying \cup {i}) = Cardinality(flying) + 1
    BY <2>1, OneMore
  <2>5. ~open => Slots(sem') + Cardinality(flying \cup {i}) = C
    BY <2>1, <2>3, <2>4
  <2> QED
    BY <2>2, <2>3, <2>5, SingleNames DEF RP!SlotsConserved
<1>8. RP!InOrderDue'
  <2>1. SUFFICES ASSUME ~open, NEW j \in RP!Requests, NEW k \in RP!Requests, RP!Before(j, k), sentAt'[k] >= 0
                 PROVE  sentAt'[j] \in 0 .. sentAt'[k]
    BY <1>3 DEF RP!InOrderDue
  <2>2. CASE k = i
    <3>1. j # i
      BY <2>1, <2>2, DueInOrder DEF SingleInv
    <3>2. phase[j] \notin {"asleep", "queued"}
      BY <2>1, <2>2
    <3> QED
      BY <1>2, <2>2, <3>1, <3>2 DEF SingleInv, SentOnce
  <2>3. CASE j = i /\ k # i
    <3>1. sentAt[k] >= 0
      BY <1>2, <2>1, <2>3
    <3>2. sentAt[i] \in 0 .. sentAt[k]
      BY <2>1, <2>3, <3>1 DEF SingleInv, RP!InOrderDue
    <3>3. sentAt[i] = -1
      BY DEF SingleInv, SentOnce
    <3> QED
      BY <1>1, <3>2, <3>3
  <2>4. CASE j # i /\ k # i
    BY <1>2, <2>1, <2>4 DEF SingleInv, RP!InOrderDue
  <2> QED
    BY <2>2, <2>3, <2>4
<1>9. ASSUME NEW j \in RP!Requests
      PROVE  SingleMoves(j)
  <2>1. CASE j # i
    BY <1>2, <2>1 DEF SingleMoves, Moves, Out, Landed, Missed
  <2>2. CASE j = i
    <3>1. sentAt[i] = -1
      BY DEF SingleInv, SentOnce
    <3>2. Out(i) = 0 /\ Landed(i) = 0 /\ ~Missed(i) /\ Out(i)' = 1 /\ Landed(i)' = 0 /\ ~Missed(i)'
      BY <1>1, <1>2, <3>1 DEF Out, Landed, Missed
    <3> QED
      BY <2>2, <3>2, SingleTurns DEF SingleMoves, Moves
  <2> QED
    BY <2>1, <2>2
<1> QED
  BY <1>4, <1>5, <1>6, <1>7, <1>8, <1>9 DEF SingleInv

\* A request's answer comes back, and its slot.
LEMMA SingleAnswers ==
  ASSUME SingleInv, NEW i \in RP!Requests, RP!AwaitsAnswer(i), NEW end \in {"succeeded", "failed", "raised"},
         phase' = [phase EXCEPT ![i] = end], UNCHANGED <<open, at, clock, sentAt, rowError>>,
         outcome' \in {"running", "raised"}
  PROVE  SingleInv' /\ \A j \in RP!Requests : SingleMoves(j)
<1>1. /\ phase \in [RP!Requests -> {"asleep", "queued", "sending", "succeeded", "failed", "raised"}]
      /\ doneAt \in [RP!Requests -> Nat \cup {-1}] /\ clock \in Nat
      /\ sem \in Semaphore(RP!Requests) /\ phase[i] = "sending"
  BY DispatchersAssumption, SingleNames DEF SingleInv, RP!TypeOK, RP!CountsAssumption, RP!AwaitsAnswer
<1>2. phase'[i] = end /\ \A j \in RP!Requests : j # i => phase'[j] = phase[j]
  BY <1>1
<1>3. \A j, k \in RP!Requests : RP!Before(j, k)' <=> RP!Before(j, k)
  BY DEF RP!Before
<1>4. /\ sem' \in Semaphore(RP!Requests) /\ Sound(sem') /\ sem'.waiters = sem.waiters
      /\ ~open => Slots(sem') = Slots(sem) + 1
  <2>1. sem' = IF open THEN sem ELSE Release(sem)
    BY SingleNames DEF RP!AwaitsAnswer
  <2>2. Release(sem) \in Semaphore(RP!Requests) /\ Sound(Release(sem)) /\ Slots(Release(sem)) = Slots(sem) + 1
    BY <1>1, ReleaseSound DEF SingleInv
  <2>3. Release(sem).waiters = sem.waiters
    BY <1>1 DEF Release, Semaphore
  <2> QED
    BY <1>1, <2>1, <2>2, <2>3 DEF SingleInv
<1>5. RP!TypeOK'
  <2>1. /\ phase' \in [RP!Requests -> {"asleep", "queued", "sending", "succeeded", "failed", "raised"}]
        /\ doneAt' \in [RP!Requests -> Nat \cup {-1}]
    BY <1>1 DEF RP!AwaitsAnswer
  <2> QED
    BY <1>4, <2>1, SingleNames DEF SingleInv, RP!TypeOK
<1>6. SingleLine'
  <2>1. \A k \in DOMAIN sem.waiters : sem.waiters[k] \in RP!Requests
    BY <1>1, ElementOfSeq, LenProperties DEF Semaphore
  <2> QED
    BY <1>1, <1>2, <1>3, <1>4, <2>1 DEF SingleInv, SingleLine, Behind
<1>7. SentOnce' /\ UpInOrder' /\ RP!InOrderDue'
  BY <1>1, <1>2, <1>3 DEF SingleInv, SentOnce, UpInOrder, RP!InOrderDue
<1>8. RP!SlotsConserved'
  <2> DEFINE flying == {j \in RP!Requests : phase[j] = "sending"}
  <2>1. IsFiniteSet(flying) /\ Cardinality(flying) \in Nat /\ i \in flying
    BY <1>1, InFlightFinite
  <2>2. {j \in RP!Requests : phase'[j] = "sending"} = flying \ {i}
    BY <1>2
  <2>3. open' = open /\ Slots(sem) \in Nat /\ (~open => Slots(sem) + Cardinality(flying) = C)
    BY <1>1, SingleNames DEF SingleInv, RP!SlotsConserved, Slots, Semaphore
  <2> HIDE DEF flying
  <2>4. Cardinality(flying \ {i}) = Cardinality(flying) - 1
    BY <2>1, OneMore
  <2>5. ~open => Slots(sem') + Cardinality(flying \ {i}) = C
    BY <1>4, <2>1, <2>3, <2>4
  <2>6. RP!Slots(sem') = Slots(sem') /\ RP!Cardinality(flying \ {i}) = Cardinality(flying \ {i})
    BY SingleNames
  <2>7. ~open' => RP!Slots(sem') + RP!Cardinality({j \in RP!Requests : phase'[j] = "sending"}) = C
    BY <2>2, <2>3, <2>5, <2>6
  <2> QED
    BY <2>7 DEF RP!SlotsConserved
<1>9. ASSUME NEW j \in RP!Requests
      PROVE  SingleMoves(j)
  <2>1. CASE j # i
    BY <1>2, <2>1 DEF SingleMoves, Moves, Out, Landed, Missed
  <2>2. CASE j = i
    <3>1. sentAt[i] >= 0
      BY <1>1 DEF SingleInv, SentOnce
    <3>2. Out(i) = 1 /\ Landed(i) = 0 /\ ~Missed(i) /\ Out(i)' = 1
      BY <1>1, <3>1 DEF Out, Landed, Missed
    <3>3. CASE end = "raised"
      <4>1. Landed(i)' = 0 /\ ~Missed(i)'
        BY <1>2, <3>3 DEF Landed, Missed
      <4> QED
        BY <2>2, <3>2, <4>1 DEF SingleMoves, Moves
    <3>4. CASE end # "raised"
      <4>1. Landed(i)' = 1
        BY <1>2, <3>4 DEF Landed
      <4> QED
        BY <2>2, <3>2, <4>1 DEF SingleMoves, Moves
    <3> QED
      BY <3>3, <3>4
  <2> QED
    BY <2>1, <2>2
<1> QED
  BY <1>4, <1>5, <1>6, <1>7, <1>8, <1>9 DEF SingleInv

\* Nothing goes out or comes back.
LEMMA SingleStill ==
  ASSUME SingleInv, UNCHANGED <<open, at, phase, sem, sentAt, doneAt>>, rowError' \in BOOLEAN,
         clock' \in clock .. MaxTime, outcome' \in {"running", "raised", "ok", "aborted", "cancelled"}
  PROVE  SingleInv' /\ \A j \in RP!Requests : SingleMoves(j)
<1>1. clock \in Nat /\ clock' \in 0 .. MaxTime /\ clock <= clock' /\ clock' \in Nat
  BY DispatchersAssumption DEF SingleInv, RP!TypeOK, RP!CountsAssumption
<1>2. \A j, k \in RP!Requests : RP!Before(j, k)' <=> RP!Before(j, k)
  BY DEF RP!Before
<1>3. RP!TypeOK'
  BY <1>1 DEF SingleInv, RP!TypeOK
<1>4. SentOnce'
  <2>1. \A i \in RP!Requests : IF phase[i] \in {"asleep", "queued"} THEN sentAt[i] = -1 ELSE sentAt[i] \in 0 .. clock'
    BY <1>1 DEF SingleInv, SentOnce
  <2> QED
    BY <2>1 DEF SentOnce
<1>5. SingleLine' /\ UpInOrder' /\ RP!InOrderDue'
  <2>1. \A k \in DOMAIN sem.waiters : sem.waiters[k] \in RP!Requests
    <3>1. sem \in Semaphore(RP!Requests)
      BY SingleNames DEF SingleInv, RP!TypeOK
    <3> QED
      BY <3>1, ElementOfSeq, LenProperties DEF Semaphore
  <2> QED
    BY <1>2, <2>1 DEF SingleInv, SingleLine, UpInOrder, RP!InOrderDue, Behind
<1>6. RP!SlotsConserved'
  BY DEF SingleInv, RP!SlotsConserved
<1>7. \A j \in RP!Requests : SingleMoves(j)
  BY DEF SingleMoves, Moves, Out, Landed, Missed
<1> QED
  BY <1>3, <1>4, <1>5, <1>6, <1>7 DEF SingleInv

\* Every callback of a single-turn pass keeps SingleInv and moves each request as SessionReplay allows.
LEMMA SingleNext ==
  ASSUME SingleInv, RP!Next
  PROVE  SingleInv' /\ \A j \in RP!Requests : SingleMoves(j)
<1> USE DEF SingleMoves
<1>1. /\ phase \in [RP!Requests -> {"asleep", "queued", "sending", "succeeded", "failed", "raised"}]
      /\ sem \in Semaphore(RP!Requests) /\ Sound(sem) /\ sem.waiters \in Seq(RP!Requests)
  BY SingleNames DEF SingleInv, RP!TypeOK, Semaphore
<1>2. \A j, k \in RP!Requests : open' = open /\ at' = at => (RP!Before(j, k)' <=> RP!Before(j, k))
  BY DEF RP!Before
<1>3. ASSUME NEW i \in RP!Requests, RP!Dispatch(i)
      PROVE  SingleInv' /\ \A j \in RP!Requests : SingleMoves(j)
  <2>1. phase[i] = "asleep" /\ \A j \in RP!Requests : RP!Before(j, i) => phase[j] # "asleep"
    BY <1>3 DEF RP!Dispatch, RP!Due
  <2>2. /\ sem' \in Semaphore(RP!Requests) /\ Sound(sem') /\ sem'.waiters = sem.waiters
        /\ ~open => Slots(sem') = Slots(sem) - 1 /\ sem.waiters = <<>>
    <3>1. CASE open
      BY <1>1, <1>3, <3>1 DEF RP!Dispatch
    <3>2. CASE ~open
      <4>1. ~Locked(sem) /\ sem' = Take(sem)
        BY <1>3, <3>2, SingleNames DEF RP!Dispatch
      <4>2. sem'.waiters = sem.waiters
        BY <1>1, <4>1 DEF Take, Semaphore
      <4>3. sem.waiters = <<>>
        BY <4>1 DEF Locked
      <4> QED
        BY <1>1, <4>1, <4>2, <4>3, TakeSound
    <3> QED
      BY <3>1, <3>2
  <2>3. SingleLine'
    <3>1. \A k \in DOMAIN sem.waiters : sem.waiters[k] \in RP!Requests
      BY <1>1, ElementOfSeq, LenProperties
    <3> QED
      BY <1>1, <1>2, <1>3, <2>1, <2>2, <3>1 DEF RP!Dispatch, SingleInv, SingleLine, Behind
  <2>4. ~open => \A j \in RP!Requests : phase[j] # "queued"
    BY <2>2 DEF SingleInv, SingleLine
  <2> QED
    BY <1>3, <2>1, <2>2, <2>3, <2>4, SingleSends DEF RP!Dispatch
<1>4. ASSUME NEW i \in RP!Requests, RP!Queue(i)
      PROVE  SingleInv' /\ \A j \in RP!Requests : SingleMoves(j)
  <2>1. /\ phase[i] = "asleep" /\ phase' = [phase EXCEPT ![i] = "queued"] /\ Locked(sem) /\ sem' = Enqueue(sem, i)
        /\ UNCHANGED <<open, at, clock, sentAt, doneAt, rowError, outcome>> /\ ~open
        /\ \A j \in RP!Requests : RP!Before(j, i) => phase[j] # "asleep"
    BY <1>4, SingleNames DEF RP!Queue, RP!Due
  <2>2. sem' \in Semaphore(RP!Requests) /\ Sound(sem') /\ Slots(sem') = Slots(sem)
    BY <1>1, <2>1, EnqueueSound
  <2>3. phase'[i] = "queued" /\ \A j \in RP!Requests : j # i => phase'[j] = phase[j]
    BY <1>1, <2>1
  <2>4. RP!TypeOK'
    <3>1. phase' \in [RP!Requests -> {"asleep", "queued", "sending", "succeeded", "failed", "raised"}]
      BY <1>1, <2>1
    <3> QED
      BY <2>1, <2>2, <3>1, SingleNames DEF SingleInv, RP!TypeOK
  <2>5. SingleLine'
    <3> DEFINE q == sem.waiters
    <3>1. sem'.waiters = Append(q, i)
      BY <1>1, <2>1 DEF Enqueue, Semaphore
    <3>2. /\ Len(q) \in Nat /\ DOMAIN q = 1 .. Len(q) /\ DOMAIN sem'.waiters = 1 .. Len(q) + 1
          /\ \A k \in 1 .. Len(q) : sem'.waiters[k] = q[k] /\ q[k] \in RP!Requests
          /\ sem'.waiters[Len(q) + 1] = i
      BY <1>1, <3>1, WithLast, ElementOfSeq
    <3>3. \A k \in 1 .. Len(q) : phase[q[k]] = "queued" /\ Behind(q[k], i)
      <4> TAKE k \in 1 .. Len(q)
      <4>1. phase[q[k]] = "queued" /\ q[k] # i /\ q[k] \in RP!Requests
        BY <2>1, <3>2 DEF SingleInv, SingleLine
      <4>2. ~RP!Before(i, q[k])
        BY <2>1, <4>1 DEF SingleInv, UpInOrder
      <4> QED
        BY <4>1, <4>2 DEF Behind
    <3>4. \A k, l \in 1 .. Len(q) : k < l => Behind(q[k], q[l])
      BY <3>2 DEF SingleInv, SingleLine
    <3>5. \A j \in RP!Requests : phase[j] = "queued" => \E k \in 1 .. Len(q) : q[k] = j
      BY <3>2 DEF SingleInv, SingleLine
    <3> HIDE DEF q
    <3>6. \A k \in DOMAIN sem'.waiters : phase'[sem'.waiters[k]] = "queued"
      BY <2>3, <3>2, <3>3 DEF Behind
    <3>7. \A k, l \in DOMAIN sem'.waiters : k < l => Behind(sem'.waiters[k], sem'.waiters[l])
      BY <3>2, <3>3, <3>4
    <3>8. \A j \in RP!Requests : phase'[j] = "queued" => \E k \in DOMAIN sem'.waiters : sem'.waiters[k] = j
      BY <2>3, <3>2, <3>5
    <3>9. \A k \in DOMAIN sem'.waiters : sem'.waiters[k] \in RP!Requests
      BY <3>2
    <3> QED
      BY <1>2, <2>1, <3>6, <3>7, <3>8, <3>9 DEF SingleLine, Behind
  <2>6. SentOnce' /\ UpInOrder' /\ RP!InOrderDue'
    BY <1>2, <2>1, <2>3 DEF SingleInv, SentOnce, UpInOrder, RP!InOrderDue
  <2>7. RP!SlotsConserved'
    <3>1. {j \in RP!Requests : phase'[j] = "sending"} = {j \in RP!Requests : phase[j] = "sending"}
      BY <2>1, <2>3
    <3>2. RP!Slots(sem') = RP!Slots(sem)
      BY <2>2, SingleNames
    <3> QED
      BY <2>1, <3>1, <3>2 DEF SingleInv, RP!SlotsConserved
  <2>8. \A j \in RP!Requests : SingleMoves(j)
    BY <2>1, <2>3 DEF Moves, Out, Landed, Missed
  <2> QED
    BY <2>2, <2>4, <2>5, <2>6, <2>7, <2>8 DEF SingleInv
<1>5. ASSUME NEW i \in RP!Requests, RP!Resumed(i)
      PROVE  SingleInv' /\ \A j \in RP!Requests : SingleMoves(j)
  <2>1. /\ Runnable(sem) /\ i = Head(sem.waiters) /\ sem' = Resume(sem)
        /\ phase' = [phase EXCEPT ![i] = "sending"] /\ sentAt' = [sentAt EXCEPT ![i] = clock]
        /\ UNCHANGED <<open, at, clock, doneAt, rowError, outcome>>
    BY <1>5, SingleNames DEF RP!Resumed
  <2>2. sem' \in Semaphore(RP!Requests) /\ Sound(sem') /\ Slots(sem') = Slots(sem) - 1 /\ sem'.waiters = Tail(sem.waiters)
    BY <1>1, <2>1, ResumeSound DEF Resume
  <2>3. sem.waiters # <<>>
    BY <1>1, <2>1, EmptySeq DEF Runnable, Semaphore, Sound
  <2> DEFINE q == sem.waiters
  <2>4. /\ Len(q) \in Nat \ {0} /\ DOMAIN q = 1 .. Len(q) /\ DOMAIN sem'.waiters = 1 .. Len(q) - 1 /\ i = q[1]
        /\ \A k \in 1 .. Len(q) : q[k] \in RP!Requests
        /\ \A k \in 1 .. Len(q) - 1 : sem'.waiters[k] = q[k + 1]
    BY <1>1, <2>1, <2>2, <2>3, HeadAndTail
  <2>5. /\ \A k \in 1 .. Len(q) : phase[q[k]] = "queued"
        /\ \A k, l \in 1 .. Len(q) : k < l => Behind(q[k], q[l])
        /\ \A j \in RP!Requests : phase[j] = "queued" => \E k \in 1 .. Len(q) : q[k] = j
    BY <2>4 DEF SingleInv, SingleLine
  <2> HIDE DEF q
  <2>6. phase[i] = "queued"
    BY <2>4, <2>5
  <2>7. \A k \in 2 .. Len(q) : q[k] # i /\ ~RP!Before(q[k], i)
    BY <2>4, <2>5 DEF Behind
  <2>8. \A j \in RP!Requests : RP!Before(j, i) => phase[j] \notin {"asleep", "queued"}
    <3> SUFFICES ASSUME NEW j \in RP!Requests, RP!Before(j, i)
                 PROVE  phase[j] \notin {"asleep", "queued"}
      OBVIOUS
    <3>1. phase[j] # "asleep"
      BY <2>6 DEF SingleInv, UpInOrder
    <3>2. ASSUME phase[j] = "queued"
          PROVE  FALSE
      <4>1. PICK k \in 1 .. Len(q) : q[k] = j
        BY <2>5, <3>2
      <4>2. CASE k = 1
        BY <2>4, <4>1, <4>2, DueInOrder DEF SingleInv
      <4>3. CASE k # 1
        BY <2>4, <2>7, <4>1, <4>3
      <4> QED
        BY <4>2, <4>3
    <3> QED
      BY <3>1, <3>2
  <2>9. phase'[i] = "sending" /\ \A j \in RP!Requests : j # i => phase'[j] = phase[j]
    BY <1>1, <2>1
  <2>10. SingleLine'
    <3>1. \A k \in DOMAIN sem'.waiters : sem'.waiters[k] = q[k + 1] /\ k + 1 \in 2 .. Len(q) /\ sem'.waiters[k] \in RP!Requests
      BY <2>4
    <3>2. \A k \in DOMAIN sem'.waiters : phase'[sem'.waiters[k]] = "queued"
      BY <2>4, <2>5, <2>7, <2>9, <3>1
    <3>3. \A k, l \in DOMAIN sem'.waiters : k < l => Behind(sem'.waiters[k], sem'.waiters[l])
      <4> TAKE k, l \in DOMAIN sem'.waiters
      <4> HAVE k < l
      <4>1. k + 1 \in 1 .. Len(q) /\ l + 1 \in 1 .. Len(q) /\ k + 1 < l + 1
        BY <2>4
      <4>2. Behind(q[k + 1], q[l + 1])
        BY <2>5, <4>1
      <4> QED
        BY <3>1, <4>2
    <3>4. \A j \in RP!Requests : phase'[j] = "queued" => \E k \in DOMAIN sem'.waiters : sem'.waiters[k] = j
      <4> SUFFICES ASSUME NEW j \in RP!Requests, phase'[j] = "queued"
                   PROVE  \E k \in DOMAIN sem'.waiters : sem'.waiters[k] = j
        OBVIOUS
      <4>1. PICK k \in 1 .. Len(q) : q[k] = j
        BY <2>5, <2>9
      <4>2. k # 1 /\ k - 1 \in DOMAIN sem'.waiters /\ sem'.waiters[k - 1] = q[k - 1 + 1]
        BY <2>4, <2>9, <4>1
      <4> QED
        BY <4>1, <4>2
    <3> QED
      BY <1>2, <2>1, <3>1, <3>2, <3>3, <3>4 DEF SingleLine, Behind
  <2> QED
    BY <2>1, <2>2, <2>6, <2>8, <2>10, SingleSends
<1>6. ASSUME NEW i \in RP!Requests, RP!Answer(i) \/ RP!AnswerRaises(i)
      PROVE  SingleInv' /\ \A j \in RP!Requests : SingleMoves(j)
  <2>1. RP!AwaitsAnswer(i) /\ UNCHANGED <<open, at, clock, sentAt, rowError>> /\ outcome' \in {"running", "raised"}
    BY <1>6 DEF RP!Answer, RP!AnswerRaises, RP!AwaitsAnswer, RP!Looping
  <2>2. PICK end \in {"succeeded", "failed", "raised"} : phase' = [phase EXCEPT ![i] = end]
    BY <1>6 DEF RP!Answer, RP!AnswerRaises
  <2> QED
    BY <2>1, <2>2, SingleAnswers
<1>7. CASE RP!RowWriteFails \/ RP!Gathered \/ RP!Cancel \/ RP!Tick \/ RP!Over
  <2>1. clock \in Nat /\ MaxTime \in Nat /\ clock \in 0 .. MaxTime /\ outcome \in {"running", "raised", "ok", "aborted", "cancelled"}
    BY DispatchersAssumption DEF SingleInv, RP!TypeOK, RP!CountsAssumption
  <2>2. clock' \in clock .. MaxTime
    BY <1>7, <2>1 DEF RP!RowWriteFails, RP!Gathered, RP!Cancel, RP!Tick, RP!Over, RP!vars
  <2>3. rowError' \in BOOLEAN
    BY <1>7 DEF RP!RowWriteFails, RP!Gathered, RP!Cancel, RP!Tick, RP!Over, RP!vars, SingleInv, RP!TypeOK
  <2>4. outcome' \in {"running", "raised", "ok", "aborted", "cancelled"} /\ UNCHANGED <<open, at, phase, sem, sentAt, doneAt>>
    BY <1>7, <2>1 DEF RP!RowWriteFails, RP!Gathered, RP!Cancel, RP!Tick, RP!Over, RP!vars
  <2> QED
    BY <2>2, <2>3, <2>4, SingleStill
<1> QED
  BY <1>3, <1>4, <1>5, <1>6, <1>7 DEF RP!Next, RP!Request

-------------------------------------------------------------------------------
(* The client's health (ClientHealth). *)

\* The sampler's first state has its types, and every step keeps them.
LEMMA HealthInit == CH!Init => CH!TypeOK
BY DispatchersAssumption DEF CH!TimesAssumption, CH!Init, CH!TypeOK

LEMMA HealthNext ==
  ASSUME CH!TypeOK, CH!Next
  PROVE  CH!TypeOK'
<1>1. /\ MaxWatch \in Nat /\ Interval \in Nat /\ time \in 0 .. MaxWatch /\ asleepSince \in 0 .. time
      /\ stalls \in Seq((0 .. time) \X (0 .. time)) /\ spells \subseteq (0 .. time) \X (0 .. time)
  BY DispatchersAssumption DEF CH!TimesAssumption, CH!TypeOK
<1>2. /\ time' \in time .. MaxWatch /\ asleepSince' \in {asleepSince, time}
      /\ spells' \subseteq (0 .. time') \X (0 .. time')
      /\ \E a \in 0 .. time', b \in 0 .. time' : stalls' \in {stalls, Append(stalls, <<a, b>>)}
  <2>1. CASE CH!Idle \/ CH!Over
    <3>1. time' \in {time, time + 1} /\ time' <= MaxWatch /\ UNCHANGED <<asleepSince, stalls, spells>>
      BY <1>1, <2>1 DEF CH!Idle, CH!Over, CH!vars
    <3>2. 0 \in 0 .. time' /\ 0 .. time \subseteq 0 .. time' /\ time' \in time .. MaxWatch
      BY <1>1, <3>1
    <3>3. (0 .. time) \X (0 .. time) \subseteq (0 .. time') \X (0 .. time')
      BY <3>2
    <3>4. spells' \subseteq (0 .. time') \X (0 .. time')
      BY <1>1, <3>1, <3>3
    <3>5. \E a \in 0 .. time', b \in 0 .. time' : stalls' \in {stalls, Append(stalls, <<a, b>>)}
      BY <3>1, <3>2
    <3> QED
      BY <3>1, <3>2, <3>4, <3>5
  <2>2. CASE CH!Run
    <3>1. PICK end \in time + 1 .. MaxWatch :
            \E from \in time .. end, to \in time .. end :
              /\ time' = end /\ spells' = spells \cup {<<time, end>>} /\ stalls' = CH!Recorded(from, to)
              /\ UNCHANGED asleepSince
      BY <2>2 DEF CH!Run
    <3>2. PICK from \in time .. end, to \in time .. end : stalls' = CH!Recorded(from, to)
      BY <3>1
    <3>3. from \in 0 .. time' /\ to \in 0 .. time' /\ time \in 0 .. time' /\ 0 .. time \subseteq 0 .. time' /\ time' \in 0 .. time'
      BY <1>1, <3>1, <3>2
    <3>4. stalls' \in {stalls, Append(stalls, <<from, to>>)}
      BY <3>2 DEF CH!Recorded
    <3>5. (0 .. time) \X (0 .. time) \subseteq (0 .. time') \X (0 .. time')
      BY <3>3
    <3>6. spells' \subseteq (0 .. time') \X (0 .. time')
      BY <1>1, <3>1, <3>3, <3>5
    <3>7. time' \in time .. MaxWatch /\ asleepSince' = asleepSince
      BY <1>1, <3>1
    <3> QED
      BY <3>3, <3>4, <3>6, <3>7
  <2>3. CASE CH!Sample
    <3>1. /\ time' = time /\ spells' = spells /\ asleepSince' = time
          /\ stalls' = CH!Recorded(asleepSince + Interval, time) /\ time >= asleepSince + Interval
      BY <2>3 DEF CH!Sample, CH!WakesAt
    <3>2. asleepSince + Interval \in 0 .. time' /\ time \in 0 .. time'
      BY <1>1, <3>1
    <3>3. stalls' \in {stalls, Append(stalls, <<asleepSince + Interval, time>>)}
      BY <3>1 DEF CH!Recorded
    <3> QED
      BY <1>1, <3>1, <3>2, <3>3
  <2> QED
    BY <2>1, <2>2, <2>3 DEF CH!Next
<1>3. time' \in 0 .. MaxWatch /\ asleepSince' \in 0 .. time' /\ 0 .. time \subseteq 0 .. time'
  BY <1>1, <1>2
<1>4. stalls' \in Seq((0 .. time') \X (0 .. time'))
  <2> DEFINE W == (0 .. time') \X (0 .. time')
  <2>1. (0 .. time) \X (0 .. time) \subseteq W
    BY <1>3
  <2>2. stalls \in Seq(W)
    <3> HIDE DEF W
    <3> QED
      BY <1>1, <2>1, SeqDef
  <2>3. PICK a \in 0 .. time', b \in 0 .. time' : stalls' \in {stalls, Append(stalls, <<a, b>>)}
    BY <1>2
  <2>4. <<a, b>> \in W
    BY <2>3
  <2> HIDE DEF W
  <2>5. Append(stalls, <<a, b>>) \in Seq(W)
    BY <2>2, <2>4, AppendProperties
  <2> QED
    BY <2>2, <2>3, <2>5 DEF W
<1> QED
  BY <1>2, <1>3, <1>4 DEF CH!TypeOK

-------------------------------------------------------------------------------
(* Interleaved pacing (Interleaved). *)

\* The semaphore's operators as Interleaved reaches them are those of AsyncSemaphore.
LEMMA TurnNames ==
  /\ \A S : IL!Cardinality(S) = Cardinality(S)
  /\ \A s, S : IL!Place(s, S) = Rank(s, S)
  /\ \A W : IL!Semaphore(W) = Semaphore(W)
  /\ \A n : IL!NewSemaphore(n) = NewSemaphore(n)
  /\ \A q : /\ IL!Runnable(q) <=> Runnable(q)
            /\ IL!Release(q) = Release(q) /\ IL!Resume(q) = Resume(q)
            /\ IL!Slots(q) = Slots(q)
BY DEF IL!Cardinality, Cardinality, IL!Place, Rank, IL!Semaphore, Semaphore, IL!NewSemaphore, NewSemaphore,
       IL!Runnable, Runnable, IL!Release, Release, IL!Resume, Resume, IL!Slots, Slots, IL!Asleep, Asleep

\* The line of a set of sessions holds each once, in file order.
LEMMA LinedUp ==
  ASSUME NEW S, S \subseteq IL!Sessions
  PROVE  /\ IL!Lined(S) \in Seq(S) /\ DOMAIN IL!Lined(S) = 1 .. Cardinality(S) /\ Cardinality(S) \in Nat
         /\ \A k, l \in 1 .. Cardinality(S) : k < l => IL!Lined(S)[k] < IL!Lined(S)[l]
         /\ \A s \in S : \E k \in 1 .. Cardinality(S) : IL!Lined(S)[k] = s
<1> DEFINE c == Cardinality(S)
           line == IL!Lined(S)
<1>1. /\ N \in Nat /\ S \subseteq 1 .. N /\ c \in Nat
      /\ \A s \in S : Rank(s, S) \in 0 .. c - 1
      /\ \A r, s \in S : r < s <=> Rank(r, S) < Rank(s, S)
      /\ \A k \in 0 .. c - 1 : \E s \in S : Rank(s, S) = k
  <2>1. N \in Nat /\ S \subseteq 1 .. N
    BY DispatchersAssumption DEF IL!CountsAssumption, IL!Sessions
  <2> QED
    BY <2>1, Ranks
<1>2. line = [k \in 1 .. c |-> CHOOSE s \in S : Rank(s, S) = k - 1]
  BY TurnNames DEF IL!Lined
<1> HIDE DEF c, line
<1>3. \A k \in 1 .. c : line[k] \in S /\ Rank(line[k], S) = k - 1
  <2> TAKE k \in 1 .. c
  <2>1. k - 1 \in 0 .. c - 1
    BY <1>1
  <2>2. \E s \in S : Rank(s, S) = k - 1
    BY <1>1, <2>1
  <2>3. line[k] = CHOOSE s \in S : Rank(s, S) = k - 1
    BY <1>2
  <2> QED
    BY <2>2, <2>3
<1>4. DOMAIN line = 1 .. c
  BY <1>2
<1>5. line \in Seq(S)
  <2>1. line \in [1 .. c -> S]
    BY <1>2, <1>3
  <2> QED
    BY <1>1, <2>1, SeqDef
<1>6. \A k, l \in 1 .. c : k < l => line[k] < line[l]
  <2> TAKE k, l \in 1 .. c
  <2>1. k < l => Rank(line[k], S) < Rank(line[l], S)
    BY <1>1, <1>3
  <2> QED
    BY <1>1, <1>3, <2>1
<1>7. ASSUME NEW s \in S
      PROVE  \E k \in 1 .. c : line[k] = s
  <2> DEFINE k == Rank(s, S) + 1
  <2>1. k \in 1 .. c /\ Rank(line[k], S) = Rank(s, S)
    BY <1>1, <1>3
  <2>2. line[k] \in S /\ line[k] \in Int /\ s \in Int
    <3>1. line[k] \in S
      BY <1>3, <2>1
    <3>2. \A r \in S : r \in Int
      BY <1>1
    <3> QED
      BY <3>1, <3>2
  <2>3. ~(line[k] < s) /\ ~(s < line[k])
    BY <1>1, <2>1, <2>2
  <2>4. line[k] = s
    BY <2>2, <2>3
  <2> QED
    BY <2>1, <2>4
<1> QED
  BY <1>1, <1>4, <1>5, <1>6, <1>7 DEF c, line

\* A session is at the turn the barrier holds.
AtTurn(s) == outcome # "ok" /\ phase[s] # "idle"

\* Where a session stands, n of its turns recorded: one at the barrier's turn has recorded all before it; one that is
\* not, and no failure ended, has recorded all it has.
TurnAt(s, n) ==
  /\ n \in 0 .. Turns[s] /\ n <= now
  /\ outcome # "ok" => n < now \/ now = 0
  /\ \A t \in Nat : <<s, t>> \in recorded <=> t \in 1 .. n
  /\ \A t \in Nat : <<s, t>> \in executed <=> t \in 1 .. n \/ (AtTurn(s) /\ phase[s] # "queued" /\ t = now)
  /\ AtTurn(s) => n = now - 1 /\ now <= Turns[s] /\ s \notin dead
  /\ ~AtTurn(s) /\ s \notin dead => n = Turns[s] \/ (now = 0 /\ outcome # "ok")
  /\ s \in dead => n >= 1

\* The slots' line: sessions that wait in it, in file order, and nobody else waits.
TurnLine ==
  /\ \A k \in DOMAIN sem.waiters : phase[sem.waiters[k]] = "queued"
  /\ \A k, l \in DOMAIN sem.waiters : k < l => sem.waiters[k] < sem.waiters[l]
  /\ \A s \in IL!Sessions : phase[s] = "queued" => \E k \in DOMAIN sem.waiters : sem.waiters[k] = s

\* While a session waits for its slot, those after it in the file do.
TurnOrder == \A r, s \in IL!Sessions : r < s /\ phase[r] = "queued" /\ phase[s] # "idle" => phase[s] = "queued"

\* The requests numbered are those sent and those in line.
Dispatched == \A k : k \in DOMAIN index <=> k \in executed \/ \E s \in IL!Sessions : k = <<s, now>> /\ phase[s] = "queued"

\* What an interleaved pass keeps.
TurnInv ==
  /\ IL!TypeOK /\ Sound(sem)
  /\ TurnLine /\ TurnOrder /\ Dispatched
  /\ \A s \in IL!Sessions : \E n \in Nat : TurnAt(s, n)
  /\ outcome = "ok" => \A s \in IL!Sessions : phase[s] # "queued"
  /\ IL!SlotsConserved /\ IL!IndexesContiguous

\* A session with n turns recorded: those sent, those answered, and whether one failed.
Wired(s, n) == IF AtTurn(s) /\ phase[s] # "queued" THEN n + 1 ELSE n
Heard(s, n) == IF AtTurn(s) /\ phase[s] \in {"succeeded", "failed"} THEN n + 1 ELSE n
Broke(s) == s \in dead \/ phase[s] = "failed"
TurnMoves(s, n, m) == Moves(Wired(s, n), Heard(s, n), Broke(s), Wired(s, m)', Heard(s, m)', Broke(s)', Turns[s])
TurnSteps == \A s \in IL!Sessions : \A n \in Nat : TurnAt(s, n) => \E m \in Nat : TurnAt(s, m)' /\ TurnMoves(s, n, m)

\* The types the invariant gives, one by one.
LEMMA TurnTypes ==
  ASSUME TurnInv
  PROVE  /\ phase \in [IL!Sessions -> {"idle", "queued", "sending", "succeeded", "failed", "raised"}]
         /\ sem \in Semaphore(IL!Sessions) /\ sem.waiters \in Seq(IL!Sessions) /\ Slots(sem) \in Nat /\ now \in Nat
         /\ \A k \in DOMAIN sem.waiters : sem.waiters[k] \in IL!Sessions
         /\ C \in Nat /\ N \in Nat /\ \A s \in IL!Sessions : Turns[s] \in Nat \ {0} /\ s \in Nat
<1>1. sem \in Semaphore(IL!Sessions)
  BY TurnNames DEF TurnInv, IL!TypeOK
<1>2. sem.waiters \in Seq(IL!Sessions) /\ Slots(sem) \in Nat
  BY <1>1 DEF Semaphore, Slots
<1>3. \A k \in DOMAIN sem.waiters : sem.waiters[k] \in IL!Sessions
  BY <1>2, ElementOfSeq, LenProperties
<1>4. C \in Nat /\ N \in Nat /\ \A s \in IL!Sessions : Turns[s] \in Nat \ {0} /\ s \in Nat
  BY DispatchersAssumption DEF IL!CountsAssumption, IL!TurnsAssumption, IL!Sessions
<1> QED
  BY <1>1, <1>2, <1>3, <1>4 DEF TurnInv, IL!TypeOK

\* The sessions that hold a slot can be counted.
LEMMA FlyingFinite ==
  /\ IsFiniteSet(IL!Sessions)
  /\ \A S : S \subseteq IL!Sessions => IsFiniteSet(S) /\ Cardinality(S) \in Nat
<1>1. IsFiniteSet(IL!Sessions)
  BY DispatchersAssumption, FS_Interval DEF IL!CountsAssumption, IL!Sessions
<1> QED
  BY <1>1, FS_Subset, FS_CardinalityType

\* The sessions a request's step does not touch stand where they stood.
LEMMA TurnOthers ==
  ASSUME TurnInv, NEW s \in IL!Sessions, NEW r \in IL!Sessions, r # s, NEW n \in Nat, TurnAt(r, n),
         phase'[r] = phase[r], UNCHANGED <<now, recorded, dead>>,
         outcome # "ok", outcome' # "ok",
         \A t \in Nat : <<r, t>> \in executed' <=> <<r, t>> \in executed
  PROVE  TurnAt(r, n)' /\ TurnMoves(r, n, n)
<1>1. /\ (AtTurn(r)' <=> AtTurn(r)) /\ (Broke(r)' <=> Broke(r))
  BY DEF AtTurn, Broke
<1>2. TurnAt(r, n)'
  BY <1>1 DEF TurnAt
<1>3. Wired(r, n)' = Wired(r, n) /\ Heard(r, n)' = Heard(r, n)
  BY <1>1 DEF Wired, Heard
<1> QED
  BY <1>1, <1>2, <1>3 DEF TurnMoves, Moves

\* The first in line goes out.
LEMMA TurnResumed ==
  ASSUME TurnInv, NEW s \in IL!Sessions, IL!Resumed(s)
  PROVE  TurnInv' /\ TurnSteps
<1>1. /\ phase \in [IL!Sessions -> {"idle", "queued", "sending", "succeeded", "failed", "raised"}]
      /\ sem \in Semaphore(IL!Sessions) /\ sem.waiters \in Seq(IL!Sessions) /\ Slots(sem) \in Nat /\ now \in Nat
      /\ Turns[s] \in Nat \ {0} /\ s \in Nat
  BY TurnTypes
<1>2. /\ Runnable(sem) /\ s = Head(sem.waiters) /\ sem' = Resume(sem)
      /\ phase' = [phase EXCEPT ![s] = "sending"] /\ executed' = executed \cup {<<s, now>>}
      /\ UNCHANGED <<now, index, recorded, dead, rowError, outcome>>
      /\ outcome # "ok"
  BY TurnNames DEF IL!Resumed, IL!Looping
<1>3. sem' \in Semaphore(IL!Sessions) /\ Sound(sem') /\ Slots(sem') = Slots(sem) - 1 /\ sem'.waiters = Tail(sem.waiters)
  BY <1>1, <1>2, ResumeSound DEF Resume, TurnInv
<1>4. sem.waiters # <<>>
  BY <1>1, <1>2, EmptySeq DEF Runnable, Semaphore, Sound, TurnInv
<1> DEFINE q == sem.waiters
<1>5. /\ Len(q) \in Nat \ {0} /\ DOMAIN q = 1 .. Len(q) /\ DOMAIN sem'.waiters = 1 .. Len(q) - 1 /\ s = q[1]
      /\ \A k \in 1 .. Len(q) : q[k] \in IL!Sessions
      /\ \A k \in 1 .. Len(q) - 1 : sem'.waiters[k] = q[k + 1]
  BY <1>1, <1>2, <1>3, <1>4, HeadAndTail
<1>6. /\ \A k \in 1 .. Len(q) : phase[q[k]] = "queued"
      /\ \A k, l \in 1 .. Len(q) : k < l => q[k] < q[l]
      /\ \A r \in IL!Sessions : phase[r] = "queued" => \E k \in 1 .. Len(q) : q[k] = r
  BY <1>5 DEF TurnInv, TurnLine
<1> HIDE DEF q
<1>7. phase[s] = "queued" /\ phase'[s] = "sending" /\ \A r \in IL!Sessions : r # s => phase'[r] = phase[r]
  BY <1>1, <1>2, <1>5, <1>6
<1>8. \A k \in 2 .. Len(q) : s < q[k]
  BY <1>5, <1>6
<1>9. TurnLine'
  <2>1. \A k \in DOMAIN sem'.waiters : sem'.waiters[k] = q[k + 1] /\ k + 1 \in 2 .. Len(q) /\ q[k + 1] \in IL!Sessions
    BY <1>5
  <2>2. \A k \in DOMAIN sem'.waiters : phase'[sem'.waiters[k]] = "queued"
    <3> TAKE k \in DOMAIN sem'.waiters
    <3>1. s < q[k + 1] /\ q[k + 1] \in IL!Sessions /\ sem'.waiters[k] = q[k + 1]
      BY <1>8, <2>1
    <3>2. q[k + 1] # s
      BY <1>1, <3>1
    <3>3. phase[q[k + 1]] = "queued"
      BY <1>5, <1>6, <2>1
    <3> QED
      BY <1>7, <3>1, <3>2, <3>3
  <2>3. \A k, l \in DOMAIN sem'.waiters : k < l => sem'.waiters[k] < sem'.waiters[l]
    BY <1>5, <1>6, <2>1
  <2>4. ASSUME NEW r \in IL!Sessions, phase'[r] = "queued"
        PROVE  \E k \in DOMAIN sem'.waiters : sem'.waiters[k] = r
    <3>1. PICK k \in 1 .. Len(q) : q[k] = r
      BY <1>6, <1>7, <2>4
    <3>2. k # 1 /\ k - 1 \in DOMAIN sem'.waiters /\ sem'.waiters[k - 1] = q[k - 1 + 1]
      BY <1>5, <1>7, <2>4, <3>1
    <3> QED
      BY <3>1, <3>2
  <2> QED
    BY <2>2, <2>3, <2>4 DEF TurnLine
<1>10. \A r \in IL!Sessions : phase[r] = "queued" => r = s \/ s < r
  <2> TAKE r \in IL!Sessions
  <2> SUFFICES ASSUME phase[r] = "queued"
               PROVE  r = s \/ s < r
    OBVIOUS
  <2>1. PICK k \in 1 .. Len(q) : q[k] = r
    BY <1>6
  <2> QED
    BY <1>5, <1>8, <2>1
<1>11. TurnOrder'
  <2> SUFFICES ASSUME NEW r \in IL!Sessions, NEW u \in IL!Sessions, r < u, phase'[r] = "queued", phase'[u] # "idle"
               PROVE  phase'[u] = "queued"
    BY DEF TurnOrder
  <2>1. phase[r] = "queued" /\ s < r
    BY <1>7, <1>10
  <2>2. u # s
    BY <1>1, <2>1, TurnTypes
  <2> QED
    BY <1>7, <2>1, <2>2 DEF TurnInv, TurnOrder
<1>12. Dispatched'
  <2>1. \A k : k \in DOMAIN index <=> k \in executed \/ \E r \in IL!Sessions : k = <<r, now>> /\ phase[r] = "queued"
    BY DEF TurnInv, Dispatched
  <2>2. \A k : k \in DOMAIN index' <=> k \in executed' \/ \E r \in IL!Sessions : k = <<r, now'>> /\ phase'[r] = "queued"
    BY <1>2, <1>7, <2>1
  <2> QED
    BY <2>2 DEF Dispatched
<1>13. TurnSteps
  <2> SUFFICES ASSUME NEW r \in IL!Sessions, NEW n \in Nat, TurnAt(r, n)
               PROVE  TurnAt(r, n)' /\ TurnMoves(r, n, n)
    BY DEF TurnSteps
  <2>1. CASE r # s
    <3>1. \A t \in Nat : <<r, t>> \in executed' <=> <<r, t>> \in executed
      BY <1>2, <2>1
    <3> QED
      BY <1>2, <1>7, <2>1, <3>1, TurnOthers
  <2>2. CASE r = s
    <3>1. AtTurn(s) /\ AtTurn(s)' /\ n = now - 1 /\ now <= Turns[s] /\ s \notin dead
      BY <1>2, <1>7, <2>2 DEF AtTurn, TurnAt
    <3>2. \A t \in Nat : <<s, t>> \in executed <=> t \in 1 .. n
      BY <1>7, <2>2 DEF TurnAt
    <3>3. \A t \in Nat : <<s, t>> \in executed' <=> t \in 1 .. n \/ t = now
      BY <1>2, <3>2
    <3>4. TurnAt(s, n)'
      BY <1>2, <1>7, <2>2, <3>1, <3>3 DEF TurnAt
    <3>5. Wired(s, n) = n /\ Heard(s, n) = n /\ Wired(s, n)' = n + 1 /\ Heard(s, n)' = n
      BY <1>7, <3>1 DEF Wired, Heard
    <3>6. ~Broke(s) /\ ~Broke(s)'
      BY <1>2, <1>7, <3>1 DEF Broke
    <3>7. n < Turns[s]
      BY <1>1, <3>1
    <3> QED
      BY <2>2, <3>4, <3>5, <3>6, <3>7 DEF TurnMoves, Moves
  <2> QED
    BY <2>1, <2>2
<1>14. IL!TypeOK'
  <2>1. phase' \in [IL!Sessions -> {"idle", "queued", "sending", "succeeded", "failed", "raised"}]
    BY <1>1, <1>2
  <2>2. <<s, now>> \in DOMAIN index
    BY <1>7 DEF TurnInv, Dispatched
  <2> QED
    BY <1>2, <1>3, <2>1, <2>2, TurnNames DEF TurnInv, IL!TypeOK
<1>15. IL!SlotsConserved'
  <2>1. IL!InFlight \subseteq IL!Sessions /\ s \notin IL!InFlight /\ IL!InFlight' = IL!InFlight \cup {s}
    BY <1>7 DEF IL!InFlight
  <2>2. Cardinality(IL!InFlight') = Cardinality(IL!InFlight) + 1 /\ Cardinality(IL!InFlight) \in Nat
    BY <2>1, FlyingFinite, OneMore
  <2>3. Slots(sem) + Cardinality(IL!InFlight) = C
    BY TurnNames DEF TurnInv, IL!SlotsConserved
  <2>4. Slots(sem') + Cardinality(IL!InFlight') = C
    BY <1>1, <1>3, <2>2, <2>3
  <2>5. IL!Slots(sem') = Slots(sem') /\ IL!Cardinality(IL!InFlight') = Cardinality(IL!InFlight')
    BY TurnNames
  <2> QED
    BY <2>4, <2>5 DEF IL!SlotsConserved
<1>16. IL!IndexesContiguous'
  BY <1>2 DEF TurnInv, IL!IndexesContiguous
<1>17. \A r \in IL!Sessions : \E m \in Nat : TurnAt(r, m)'
  BY <1>13 DEF TurnInv, TurnSteps
<1> QED
  BY <1>2, <1>3, <1>9, <1>11, <1>12, <1>13, <1>14, <1>15, <1>16, <1>17 DEF TurnInv

\* A request's answer comes back, and its slot.
LEMMA TurnAnswers ==
  ASSUME TurnInv, NEW s \in IL!Sessions, IL!Answer(s) \/ IL!AnswerRaises(s)
  PROVE  TurnInv' /\ TurnSteps
<1>1. /\ phase \in [IL!Sessions -> {"idle", "queued", "sending", "succeeded", "failed", "raised"}]
      /\ sem \in Semaphore(IL!Sessions) /\ Slots(sem) \in Nat /\ now \in Nat
      /\ \A k \in DOMAIN sem.waiters : sem.waiters[k] \in IL!Sessions
      /\ C \in Nat /\ Turns[s] \in Nat \ {0}
  BY TurnTypes
<1>2. /\ phase[s] = "sending" /\ sem' = Release(sem) /\ UNCHANGED <<now, index, executed, recorded, dead, rowError>>
      /\ outcome # "ok" /\ outcome' \in {"running", "raised"}
  BY TurnNames DEF IL!Answer, IL!AnswerRaises, IL!Looping
<1>3. PICK end \in {"succeeded", "failed", "raised"} : phase' = [phase EXCEPT ![s] = end]
  BY DEF IL!Answer, IL!AnswerRaises
<1>4. phase'[s] = end /\ \A r \in IL!Sessions : r # s => phase'[r] = phase[r]
  BY <1>1, <1>3
<1>5. /\ sem' \in Semaphore(IL!Sessions) /\ Sound(sem') /\ Slots(sem') = Slots(sem) + 1 /\ sem'.waiters = sem.waiters
  <2>1. Release(sem).waiters = sem.waiters
    BY <1>1 DEF Release, Semaphore
  <2> QED
    BY <1>1, <1>2, <2>1, ReleaseSound DEF TurnInv
<1>6. TurnLine' /\ TurnOrder'
  BY <1>1, <1>2, <1>4, <1>5 DEF TurnInv, TurnLine, TurnOrder
<1>7. Dispatched'
  <2>1. \A k : k \in DOMAIN index <=> k \in executed \/ \E r \in IL!Sessions : k = <<r, now>> /\ phase[r] = "queued"
    BY DEF TurnInv, Dispatched
  <2>2. \A r \in IL!Sessions : phase'[r] = "queued" <=> phase[r] = "queued"
    BY <1>2, <1>4
  <2>3. \A k : k \in DOMAIN index' <=> k \in executed' \/ \E r \in IL!Sessions : k = <<r, now'>> /\ phase'[r] = "queued"
    BY <1>2, <2>1, <2>2
  <2> QED
    BY <2>3 DEF Dispatched
<1>8. TurnSteps
  <2> SUFFICES ASSUME NEW r \in IL!Sessions, NEW n \in Nat, TurnAt(r, n)
               PROVE  TurnAt(r, n)' /\ TurnMoves(r, n, n)
    BY DEF TurnSteps
  <2>1. CASE r # s
    BY <1>2, <1>4, <2>1, TurnOthers
  <2>2. CASE r = s
    <3>1. AtTurn(s) /\ AtTurn(s)' /\ s \notin dead
      BY <1>2, <1>4, <2>2 DEF AtTurn, TurnAt
    <3>2. TurnAt(s, n)'
      BY <1>2, <1>4, <2>2, <3>1 DEF TurnAt
    <3>3. Wired(s, n) = n + 1 /\ Heard(s, n) = n /\ Wired(s, n)' = n + 1 /\ ~Broke(s)
      BY <1>2, <1>4, <3>1 DEF Wired, Heard, Broke
    <3>4. CASE end = "raised"
      <4>1. Heard(s, n)' = n /\ ~Broke(s)'
        BY <1>2, <1>4, <3>1, <3>4 DEF Heard, Broke
      <4> QED
        BY <2>2, <3>2, <3>3, <4>1 DEF TurnMoves, Moves
    <3>5. CASE end # "raised"
      <4>1. Heard(s, n)' = n + 1
        BY <1>4, <3>1, <3>5 DEF Heard
      <4> QED
        BY <2>2, <3>2, <3>3, <4>1 DEF TurnMoves, Moves
    <3> QED
      BY <3>4, <3>5
  <2> QED
    BY <2>1, <2>2
<1>9. IL!TypeOK'
  <2>1. phase' \in [IL!Sessions -> {"idle", "queued", "sending", "succeeded", "failed", "raised"}]
    BY <1>1, <1>3
  <2> QED
    BY <1>2, <1>5, <2>1, TurnNames DEF TurnInv, IL!TypeOK
<1>10. IL!SlotsConserved'
  <2>1. IL!InFlight \subseteq IL!Sessions /\ s \in IL!InFlight /\ IL!InFlight' = IL!InFlight \ {s}
    BY <1>2, <1>4 DEF IL!InFlight
  <2>2. Cardinality(IL!InFlight') = Cardinality(IL!InFlight) - 1 /\ Cardinality(IL!InFlight) \in Nat
    BY <2>1, FlyingFinite, OneMore
  <2>3. Slots(sem) + Cardinality(IL!InFlight) = C
    BY TurnNames DEF TurnInv, IL!SlotsConserved
  <2>4. Slots(sem') + Cardinality(IL!InFlight') = C
    BY <1>1, <1>5, <2>2, <2>3
  <2>5. IL!Slots(sem') = Slots(sem') /\ IL!Cardinality(IL!InFlight') = Cardinality(IL!InFlight')
    BY TurnNames
  <2> QED
    BY <2>4, <2>5 DEF IL!SlotsConserved
<1>11. IL!IndexesContiguous'
  BY <1>2 DEF TurnInv, IL!IndexesContiguous
<1>12. \A r \in IL!Sessions : \E m \in Nat : TurnAt(r, m)'
  BY <1>8 DEF TurnInv, TurnSteps
<1> QED
  BY <1>2, <1>5, <1>6, <1>7, <1>8, <1>9, <1>10, <1>11, <1>12 DEF TurnInv

\* Nothing goes out, comes back or is recorded.
LEMMA TurnStill ==
  ASSUME TurnInv, UNCHANGED <<now, phase, sem, index, executed, recorded, dead>>, rowError' \in BOOLEAN,
         outcome' = outcome \/ (outcome # "ok" /\ outcome' \in {"running", "raised", "aborted", "cancelled"})
  PROVE  TurnInv' /\ TurnSteps
<1>1. outcome' = "ok" <=> outcome = "ok"
  OBVIOUS
<1>2. TurnSteps
  <2> SUFFICES ASSUME NEW s \in IL!Sessions, NEW n \in Nat, TurnAt(s, n)
               PROVE  TurnAt(s, n)' /\ TurnMoves(s, n, n)
    BY DEF TurnSteps
  <2>1. (AtTurn(s)' <=> AtTurn(s)) /\ (Broke(s)' <=> Broke(s))
    BY <1>1 DEF AtTurn, Broke
  <2>2. Wired(s, n)' = Wired(s, n) /\ Heard(s, n)' = Heard(s, n)
    BY <2>1 DEF Wired, Heard
  <2>3. TurnAt(s, n)'
    BY <1>1, <2>1 DEF TurnAt
  <2> QED
    BY <2>1, <2>2, <2>3 DEF TurnMoves, Moves
<1>3. IL!TypeOK' /\ Sound(sem')
  BY DEF TurnInv, IL!TypeOK
<1>4. TurnLine' /\ TurnOrder' /\ IL!IndexesContiguous'
  BY DEF TurnInv, TurnLine, TurnOrder, IL!IndexesContiguous
<1>5. Dispatched'
  BY DEF TurnInv, Dispatched
<1>6. IL!SlotsConserved'
  BY DEF TurnInv, IL!SlotsConserved, IL!InFlight
<1>7. \A s \in IL!Sessions : \E m \in Nat : TurnAt(s, m)'
  BY <1>2 DEF TurnInv, TurnSteps
<1> QED
  BY <1>1, <1>2, <1>3, <1>4, <1>5, <1>6, <1>7 DEF TurnInv

\* With nobody out or in line the semaphore is as new, and every request numbered was sent.
LEMMA TurnsRest ==
  ASSUME TurnInv, \A s \in IL!Sessions : phase[s] \in {"idle", "succeeded", "failed"}
  PROVE  sem = NewSemaphore(C) /\ DOMAIN index = executed
<1>1. /\ sem \in Semaphore(IL!Sessions) /\ sem.waiters \in Seq(IL!Sessions) /\ C \in Nat
      /\ \A k \in DOMAIN sem.waiters : sem.waiters[k] \in IL!Sessions
  BY TurnTypes
<1>2. sem.waiters = <<>>
  <2>1. DOMAIN sem.waiters = {}
    BY <1>1 DEF TurnInv, TurnLine
  <2>2. Len(sem.waiters) \in Nat /\ DOMAIN sem.waiters = 1 .. Len(sem.waiters)
    BY <1>1, LenProperties
  <2>3. Len(sem.waiters) = 0
    <3> DEFINE length == Len(sem.waiters)
    <3>1. length \in Nat /\ 1 .. length = {}
      BY <2>1, <2>2
    <3> HIDE DEF length
    <3>2. length = 0
      BY <3>1
    <3> QED
      BY <3>2 DEF length
  <2> QED
    BY <1>1, <2>3, EmptySeq
<1>3. sem.woken = 0
  BY <1>1, <1>2 DEF TurnInv, Sound, Semaphore
<1>4. sem.value = C
  <2>1. IL!InFlight = {}
    BY DEF IL!InFlight
  <2>2. Slots(sem) + Cardinality({}) = C
    BY <2>1, TurnNames DEF TurnInv, IL!SlotsConserved
  <2> QED
    BY <1>1, <1>3, <2>2, FS_EmptySet DEF Slots, Semaphore
<1>5. sem = NewSemaphore(C)
  BY <1>1, <1>2, <1>3, <1>4 DEF Semaphore, NewSemaphore
<1>6. \A k : k \in DOMAIN index <=> k \in executed
  BY DEF TurnInv, Dispatched
<1> QED
  BY <1>5, <1>6

\* The first sessions of a batch take the slots, as many as there are; the rest stand in line behind them.
LEMMA FirstTake ==
  ASSUME TurnInv, NEW B, B \subseteq IL!Sessions, NEW first, first = {s \in B : Rank(s, B) < C}
  PROVE  /\ Cardinality(first) \in 0 .. C
         /\ Cardinality(first) < C => first = B
         /\ \A r, s \in B : r < s /\ r \notin first => s \notin first
<1>1. /\ IsFiniteSet(B) /\ Cardinality(B) \in Nat /\ C \in Nat
      /\ \A s \in B : Rank(s, B) \in 0 .. Cardinality(B) - 1
      /\ \A r, s \in B : r < s <=> Rank(r, B) < Rank(s, B)
      /\ \A k \in 0 .. Cardinality(B) - 1 : \E s \in B : Rank(s, B) = k
  <2>1. N \in Nat /\ B \subseteq 1 .. N /\ C \in Nat
    BY TurnTypes DEF IL!Sessions
  <2> QED
    BY <2>1, Ranks
<1>2. \A r, s \in B : r < s /\ r \notin first => s \notin first
  <2> SUFFICES ASSUME NEW r \in B, NEW s \in B, r < s, r \notin first
               PROVE  s \notin first
    OBVIOUS
  <2>1. Rank(r, B) < Rank(s, B) /\ Rank(r, B) \in Nat /\ Rank(s, B) \in Nat /\ ~(Rank(r, B) < C)
    BY <1>1
  <2>2. ~(Rank(s, B) < C)
    BY <1>1, <2>1
  <2> QED
    BY <2>2
<1> DEFINE places == [s \in first |-> Rank(s, B)]
           T == 0 .. C - 1
<1>3. IsFiniteSet(T) /\ Cardinality(T) = C
  <2>1. IsFiniteSet(0 .. C - 1) /\ Cardinality(0 .. C - 1) = IF 0 > C - 1 THEN 0 ELSE C - 1 - 0 + 1
    BY <1>1, FS_Interval
  <2> QED
    BY <1>1, <2>1
<1>4. places \in Injection(first, T)
  <2>1. \A s \in first : Rank(s, B) \in T
    BY <1>1
  <2>2. \A r, s \in first : Rank(r, B) = Rank(s, B) => r = s
    <3> TAKE r, s \in first
    <3>1. r \in B /\ s \in B /\ r \in Int /\ s \in Int
      BY DEF IL!Sessions
    <3>2. Rank(r, B) \in Int /\ Rank(s, B) \in Int /\ (r < s <=> Rank(r, B) < Rank(s, B)) /\ (s < r <=> Rank(s, B) < Rank(r, B))
      BY <1>1, <3>1
    <3> QED
      BY <3>1, <3>2
  <2> QED
    BY <2>1, <2>2 DEF Injection, IsInjective
<1>5. /\ IsFiniteSet(first) /\ Cardinality(first) <= C
      /\ Cardinality(first) = C <=> places \in Surjection(first, T)
  BY <1>3, <1>4, FS_Injection
<1>6. Cardinality(first) \in Nat
  BY <1>5, FS_CardinalityType
<1>7. ASSUME Cardinality(first) < C
      PROVE  first = B
  <2> SUFFICES ASSUME NEW s \in B, s \notin first
               PROVE  FALSE
    OBVIOUS
  <2>1. Rank(s, B) \in 0 .. Cardinality(B) - 1 /\ Rank(s, B) >= C
    BY <1>1
  <2>2. \A k \in T : \E r \in first : places[r] = k
    <3> TAKE k \in T
    <3>1. k \in 0 .. Cardinality(B) - 1 /\ k < C
      BY <1>1, <2>1
    <3>2. PICK r \in B : Rank(r, B) = k
      BY <1>1, <3>1
    <3> QED
      BY <3>1, <3>2
  <2>3. places \in Surjection(first, T)
    BY <1>4, <2>2 DEF Injection, Surjection
  <2> QED
    BY <1>5, <1>6, <1>7, <2>3
<1> QED
  BY <1>1, <1>2, <1>5, <1>6, <1>7

\* A turn's requests take the next numbers, in file order.
LEMMA NewNumbers ==
  ASSUME TurnInv, DOMAIN index = executed, NEW B, B \subseteq IL!Sessions, NEW t \in Nat,
         \A k \in executed : k[2] < t, \A s \in B : t <= Turns[s] /\ t >= 1,
         index' = [k \in DOMAIN index \cup (B \X {t}) |->
                     IF k[2] = t THEN Cardinality(executed) + Rank(k[1], B) ELSE index[k]]
  PROVE  /\ IL!IndexesContiguous'
         /\ DOMAIN index' = executed \cup (B \X {t}) /\ DOMAIN index' \subseteq IL!Planned
         /\ \A k \in DOMAIN index' : index'[k] \in Nat
<1> DEFINE off == Cardinality(executed)
           b == Cardinality(B)
           new == B \X {t}
<1>1. /\ IsFiniteSet(B) /\ b \in Nat
      /\ \A s \in B : Rank(s, B) \in 0 .. b - 1
      /\ \A k \in 0 .. b - 1 : \E s \in B : Rank(s, B) = k
  <2>1. N \in Nat /\ B \subseteq 1 .. N
    BY TurnTypes DEF IL!Sessions
  <2> QED
    BY <2>1, Ranks
<1>2. IsFiniteSet(executed) /\ off \in Nat
  <2>1. IsFiniteSet(IL!Planned)
    <3>1. \A s \in IL!Sessions : IsFiniteSet({s} \X (1 .. Turns[s]))
      <4> TAKE s \in IL!Sessions
      <4>1. IsFiniteSet({s}) /\ IsFiniteSet(1 .. Turns[s])
        <5>1. 1 \in Int /\ Turns[s] \in Int
          BY TurnTypes
        <5> QED
          BY <5>1, FS_Singleton, FS_Interval
      <4> QED
        BY <4>1, FS_Product
    <3>2. IsFiniteSet({{s} \X (1 .. Turns[s]) : s \in IL!Sessions})
      <4> DEFINE plans == {{s} \X (1 .. Turns[s]) : s \in IL!Sessions}
                 plan == [s \in IL!Sessions |-> {s} \X (1 .. Turns[s])]
      <4>1. plan \in Surjection(IL!Sessions, plans)
        BY DEF Surjection
      <4> HIDE DEF plans, plan
      <4>2. IsFiniteSet(plans)
        BY <4>1, FlyingFinite, FS_Surjection
      <4> QED
        BY <4>2 DEF plans
    <3> QED
      BY <3>1, <3>2, FS_UNION DEF IL!Planned
  <2>2. executed \subseteq IL!Planned
    BY DEF TurnInv, IL!TypeOK
  <2> QED
    BY <2>1, <2>2, FS_Subset, FS_CardinalityType
<1>3. /\ {index[k] : k \in executed} = 0 .. off - 1
      /\ \A j, k \in executed : j[2] < k[2] => index[j] < index[k]
  BY TurnNames DEF TurnInv, IL!IndexesContiguous
<1>4. /\ DOMAIN index' = executed \cup new
      /\ \A k \in executed : index'[k] = index[k]
      /\ \A s \in B : index'[<<s, t>>] = off + Rank(s, B)
  <2>1. \A k \in executed : k[2] # t
    <3>1. \A k \in executed : k[2] \in Nat
      BY TurnTypes DEF TurnInv, IL!TypeOK, IL!Planned
    <3> QED
      BY <3>1
  <2> QED
    BY <2>1
<1>5. \A k \in executed : index[k] \in 0 .. off - 1
  BY <1>3
<1>6. \A k \in new : k[2] = t /\ \E s \in B : k = <<s, t>>
  OBVIOUS
<1>7. Cardinality(executed \cup new) = off + b
  <2>1. IsFiniteSet(new) /\ Cardinality(new) = b
    <3>1. IsFiniteSet({t}) /\ Cardinality({t}) = 1
      BY FS_Singleton
    <3>2. IsFiniteSet(B \X {t}) /\ Cardinality(B \X {t}) = Cardinality(B) * Cardinality({t})
      BY <1>1, <3>1, FS_Product
    <3> QED
      BY <1>1, <3>1, <3>2
  <2>2. executed \cap new = {}
    <3>1. \A k \in executed : k[2] \in Nat /\ k[2] < t
      BY TurnTypes DEF TurnInv, IL!TypeOK, IL!Planned
    <3> QED
      BY <1>6, <3>1
  <2> HIDE DEF new, off, b
  <2>3. Cardinality(executed \cup new) = Cardinality(executed) + Cardinality(new) - Cardinality({})
    BY <1>2, <2>1, <2>2, FS_Union
  <2> QED
    BY <1>1, <1>2, <2>1, <2>3, FS_EmptySet DEF off
<1> HIDE DEF off, b, new
<1>13. \A s \in B : off + Rank(s, B) \in off .. off + b - 1 /\ off + Rank(s, B) \in Nat /\ Rank(s, B) \in Nat
  BY <1>1, <1>2
<1>8. DOMAIN index' \subseteq IL!Planned
  <2>1. \A s \in B : <<s, t>> \in IL!Planned
    BY TurnTypes DEF IL!Planned
  <2> QED
    BY <1>4, <1>6, <2>1 DEF TurnInv, IL!TypeOK
<1>9. \A k \in DOMAIN index' : index'[k] \in Nat
  <2>1. \A k \in executed : index'[k] \in Nat
    BY <1>4 DEF TurnInv, IL!TypeOK
  <2>2. \A s \in B : index'[<<s, t>>] \in Nat
    BY <1>2, <1>4, <1>13
  <2> QED
    BY <1>4, <1>6, <2>1, <2>2
<1>10. {index'[k] : k \in DOMAIN index'} = 0 .. off + b - 1
  <2>1. \A k \in DOMAIN index' : index'[k] \in 0 .. off + b - 1
    <3>1. \A k \in executed : index'[k] \in 0 .. off + b - 1
      BY <1>1, <1>2, <1>4, <1>5
    <3>2. \A s \in B : index'[<<s, t>>] \in 0 .. off + b - 1
      <4>1. off .. off + b - 1 \subseteq 0 .. off + b - 1
        BY <1>1, <1>2
      <4> QED
        BY <1>4, <1>13, <4>1
    <3> QED
      BY <1>4, <1>6, <3>1, <3>2
  <2>2. ASSUME NEW i \in 0 .. off + b - 1
        PROVE  \E k \in DOMAIN index' : index'[k] = i
    <3>1. CASE i < off
      <4>0. i \in 0 .. off - 1
        BY <1>1, <1>2, <3>1
      <4>1. i \in {index[k] : k \in executed}
        BY <1>3, <4>0
      <4> QED
        BY <1>4, <4>1
    <3>2. CASE i >= off
      <4>1. i - off \in 0 .. b - 1
        BY <1>1, <1>2, <3>2
      <4>2. PICK s \in B : Rank(s, B) = i - off
        BY <1>1, <4>1
      <4>3. <<s, t>> \in DOMAIN index' /\ index'[<<s, t>>] = off + (i - off)
        BY <1>4, <4>2
      <4>4. off + (i - off) = i
        BY <1>1, <1>2
      <4> QED
        BY <4>3, <4>4
    <3>3. i < off \/ i >= off
      BY <1>1, <1>2
    <3> QED
      BY <3>1, <3>2, <3>3
  <2>3. {index'[k] : k \in DOMAIN index'} \subseteq 0 .. off + b - 1
    BY <2>1
  <2>4. 0 .. off + b - 1 \subseteq {index'[k] : k \in DOMAIN index'}
    BY <2>2
  <2> QED
    BY <2>3, <2>4
<1>11. ASSUME NEW j \in DOMAIN index', NEW k \in DOMAIN index', j[2] < k[2]
       PROVE  index'[j] < index'[k]
  <2>1. \A i \in executed : i[2] \in Nat /\ i[2] < t
    BY TurnTypes DEF TurnInv, IL!TypeOK, IL!Planned
  <2>2. j \in executed
    <3>1. CASE j \in new
      BY <1>4, <1>6, <1>11, <2>1, <3>1
    <3> QED
      BY <1>4, <3>1
  <2>3. CASE k \in executed
    BY <1>3, <1>4, <1>11, <2>2, <2>3
  <2>4. CASE k \in new
    <3>1. PICK s \in B : k = <<s, t>>
      BY <1>6, <2>4
    <3>2. index'[k] = off + Rank(s, B) /\ Rank(s, B) \in Nat
      BY <1>4, <1>13, <3>1
    <3>3. index'[j] \in 0 .. off - 1
      BY <1>4, <1>5, <2>2
    <3> QED
      BY <1>2, <3>2, <3>3
  <2> QED
    BY <1>4, <2>3, <2>4
<1>12. IL!IndexesContiguous'
  <2>1. IL!Cardinality(DOMAIN index') = off + b
    BY <1>4, <1>7, TurnNames
  <2>2. {index'[k] : k \in DOMAIN index'} = 0 .. IL!Cardinality(DOMAIN index') - 1
    <3>1. IL!Cardinality(DOMAIN index') - 1 = off + b - 1
      BY <1>1, <1>2, <2>1
    <3> QED
      BY <1>10, <3>1
  <2>3. \A j, k \in DOMAIN index' : j[2] < k[2] => index'[j] < index'[k]
    BY <1>11
  <2> QED
    BY <2>2, <2>3 DEF IL!IndexesContiguous
<1> QED
  BY <1>4, <1>8, <1>9, <1>12

\* A turn's sessions: each of them at the turn, with all before it recorded.
LEMMA TurnGoes ==
  ASSUME TurnInv, IL!GoOn, outcome \in {"running", "raised"}, rowError' = rowError,
         \A s \in IL!Sessions : phase[s] \in {"idle", "succeeded", "failed"},
         dead' = dead \cup IL!Failed,
         \A k : k \in recorded' <=> k \in recorded \/ \E s \in IL!Sessions : phase[s] # "idle" /\ k = <<s, now>>
  PROVE  TurnInv' /\ TurnSteps
<1>1. /\ phase \in [IL!Sessions -> {"idle", "queued", "sending", "succeeded", "failed", "raised"}]
      /\ sem \in Semaphore(IL!Sessions) /\ now \in Nat
      /\ C \in Nat /\ N \in Nat /\ \A s \in IL!Sessions : Turns[s] \in Nat \ {0} /\ s \in Nat
      /\ executed \subseteq IL!Planned /\ dead \subseteq IL!Sessions /\ rowError \in BOOLEAN
  BY TurnTypes DEF TurnInv, IL!TypeOK
<1>2. sem = NewSemaphore(C) /\ DOMAIN index = executed
  BY TurnsRest
<1> DEFINE Upto(s, m) ==
             /\ m \in 0 .. Turns[s] /\ m <= now
             /\ \A t \in Nat : <<s, t>> \in recorded' <=> t \in 1 .. m
             /\ \A t \in Nat : <<s, t>> \in executed <=> t \in 1 .. m
             /\ s \in dead' => m >= 1
             /\ s \notin dead' => m = Turns[s] \/ m = now
<1>3. ASSUME NEW s \in IL!Sessions, NEW n \in Nat, TurnAt(s, n)
      PROVE  /\ Upto(s, Wired(s, n)) /\ Heard(s, n) = Wired(s, n) /\ Wired(s, n) \in Nat
             /\ Broke(s) <=> s \in dead'
  <2>1. AtTurn(s) <=> phase[s] \in {"succeeded", "failed"}
    BY DEF AtTurn
  <2>2. s \in dead' <=> s \in dead \/ phase[s] = "failed"
    BY DEF IL!Failed
  <2>3. /\ \A t \in Nat : <<s, t>> \in recorded' <=> t \in 1 .. n \/ (phase[s] # "idle" /\ t = now)
        /\ \A t \in Nat : <<s, t>> \in executed <=> t \in 1 .. n \/ (phase[s] # "idle" /\ t = now)
    BY <2>1, <1>3 DEF TurnAt
  <2>4. CASE phase[s] = "idle"
    <3>1. Wired(s, n) = n /\ Heard(s, n) = n
      BY <2>1, <2>4 DEF Wired, Heard
    <3>2. n \in 0 .. Turns[s] /\ n <= now /\ (s \in dead => n >= 1) /\ (s \notin dead => n = Turns[s] \/ n = now)
      BY <1>1, <1>3, <2>1, <2>4 DEF TurnAt
    <3>3. \A t \in Nat : (<<s, t>> \in recorded' <=> t \in 1 .. n) /\ (<<s, t>> \in executed <=> t \in 1 .. n)
      BY <2>3, <2>4
    <3>4. Upto(s, n)
      BY <2>2, <2>4, <3>2, <3>3
    <3> HIDE DEF Upto
    <3> QED
      BY <2>2, <2>4, <3>1, <3>4 DEF Broke
  <2>5. CASE phase[s] # "idle"
    <3>1. n = now - 1 /\ now <= Turns[s] /\ s \notin dead /\ now >= 1
      BY <1>1, <1>3, <2>1, <2>5 DEF TurnAt
    <3>2. Wired(s, n) = now /\ Heard(s, n) = now
      BY <1>1, <2>1, <2>5, <3>1 DEF Wired, Heard
    <3>3. \A t \in Nat : t \in 1 .. n \/ t = now <=> t \in 1 .. now
      BY <1>1, <3>1
    <3>4. \A t \in Nat : (<<s, t>> \in recorded' <=> t \in 1 .. now) /\ (<<s, t>> \in executed <=> t \in 1 .. now)
      BY <2>3, <2>5, <3>3
    <3>5. now \in 0 .. Turns[s]
      BY <1>1, <3>1
    <3>6. Upto(s, now)
      BY <1>1, <3>1, <3>4, <3>5
    <3> HIDE DEF Upto
    <3> QED
      BY <1>1, <2>2, <3>1, <3>2, <3>6 DEF Broke
  <2> QED
    BY <2>4, <2>5
<1>4. recorded' = executed
  <2>1. ASSUME NEW k \in executed
        PROVE  k \in recorded'
    <3>1. PICK s \in IL!Sessions : k \in {s} \X (1 .. Turns[s])
      BY <1>1, <2>1 DEF IL!Planned
    <3>2. PICK t \in Nat : k = <<s, t>>
      BY <1>1, <3>1
    <3>3. PICK n \in Nat : TurnAt(s, n)
      BY DEF TurnInv
    <3> QED
      BY <1>3, <2>1, <3>2, <3>3
  <2>2. ASSUME NEW k \in recorded'
        PROVE  k \in executed
    <3>1. CASE k \in recorded
      BY <3>1 DEF TurnInv, IL!TypeOK
    <3>2. ASSUME NEW s \in IL!Sessions, phase[s] # "idle", k = <<s, now>>
          PROVE  k \in executed
      <4>1. PICK n \in Nat : TurnAt(s, n)
        BY DEF TurnInv
      <4> QED
        BY <1>1, <1>3, <2>2, <3>2, <4>1
    <3> QED
      BY <2>2, <3>1, <3>2
  <2> QED
    BY <2>1, <2>2
<1>5. ASSUME NEW k \in executed
      PROVE  k[2] < now + 1
  <2>1. PICK s \in IL!Sessions : k \in {s} \X (1 .. Turns[s])
    BY <1>1, <1>5 DEF IL!Planned
  <2>2. PICK t \in Nat : k = <<s, t>>
    BY <1>1, <2>1
  <2>3. PICK n \in Nat : TurnAt(s, n)
    BY DEF TurnInv
  <2>4. t \in 1 .. Wired(s, n) /\ Wired(s, n) <= now /\ Wired(s, n) \in Nat
    BY <1>3, <1>5, <2>2, <2>3
  <2> QED
    BY <1>1, <2>2, <2>4
<1> DEFINE B == IL!Batch(now + 1, dead')
<1>6. B \subseteq IL!Sessions /\ \A s \in IL!Sessions : s \in B <=> s \notin dead' /\ now + 1 <= Turns[s]
  BY DEF IL!Batch
<1>7. dead' \subseteq IL!Sessions
  BY <1>1 DEF IL!Failed
<1> HIDE DEF Upto, B
<1>8. CASE B = {}
  <2>1. outcome' = "ok" /\ UNCHANGED <<now, phase, sem, index, executed>>
    BY <1>8 DEF IL!GoOn, B
  <2>2. TurnSteps
    <3> SUFFICES ASSUME NEW s \in IL!Sessions, NEW n \in Nat, TurnAt(s, n)
                 PROVE  \E m \in Nat : TurnAt(s, m)' /\ TurnMoves(s, n, m)
      BY DEF TurnSteps
    <3>0. PICK m \in Nat : m = Wired(s, n)
      BY <1>3
    <3>1. Upto(s, m) /\ Wired(s, n) = m /\ Heard(s, n) = m /\ m \in Nat /\ (Broke(s) <=> s \in dead')
      BY <1>3, <3>0
    <3>2. ~AtTurn(s)'
      BY <2>1 DEF AtTurn
    <3>3. s \notin dead' => m = Turns[s]
      <4>1. s \notin dead' => ~(now + 1 <= Turns[s])
        BY <1>6, <1>8
      <4> QED
        BY <1>1, <3>1, <4>1 DEF Upto
    <3>4. TurnAt(s, m)'
      BY <2>1, <3>1, <3>2, <3>3 DEF TurnAt, Upto
    <3>5. Wired(s, m)' = m /\ Heard(s, m)' = m
      BY <3>2 DEF Wired, Heard
    <3>6. Broke(s)' <=> Broke(s)
      BY <2>1, <3>1 DEF Broke
    <3> QED
      BY <3>1, <3>4, <3>5, <3>6 DEF TurnMoves, Moves
  <2>3. IL!TypeOK'
    <3>1. recorded' \subseteq executed' /\ executed' \subseteq DOMAIN index'
      BY <1>2, <1>4, <2>1
    <3> QED
      BY <1>7, <2>1, <3>1 DEF TurnInv, IL!TypeOK
  <2>4. TurnLine' /\ TurnOrder' /\ IL!IndexesContiguous' /\ Sound(sem')
    BY <2>1 DEF TurnInv, TurnLine, TurnOrder, IL!IndexesContiguous
  <2>5. Dispatched'
    BY <2>1 DEF TurnInv, Dispatched
  <2>6. IL!SlotsConserved'
    BY <2>1 DEF TurnInv, IL!SlotsConserved, IL!InFlight
  <2>7. \A s \in IL!Sessions : \E m \in Nat : TurnAt(s, m)'
    BY <2>2 DEF TurnInv, TurnSteps
  <2>8. \A s \in IL!Sessions : phase'[s] # "queued"
    BY <2>1
  <2> QED
    BY <2>2, <2>3, <2>4, <2>5, <2>6, <2>7, <2>8 DEF TurnInv
<1>9. CASE B # {}
  <2> DEFINE first == {s \in B : Rank(s, B) < C}
             line == IL!Lined(B \ first)
             next == now + 1
  <2>1. UNCHANGED outcome /\ IL!StartTurn(next, B, Cardinality(executed))
    BY <1>4, <1>9, TurnNames DEF IL!GoOn, B
  <2>2. {s \in B : IL!Place(s, B) < sem.value} = first
    BY <1>2, TurnNames DEF NewSemaphore
  <2>3. /\ now' = next
        /\ phase' = [s \in IL!Sessions |-> IF s \in first THEN "sending" ELSE IF s \in B THEN "queued" ELSE "idle"]
        /\ executed' = executed \cup (first \X {next})
        /\ index' = [k \in DOMAIN index \cup (B \X {next}) |->
                       IF k[2] = next THEN Cardinality(executed) + Rank(k[1], B) ELSE index[k]]
        /\ sem' = [sem EXCEPT !.value = @ - Cardinality(first), !.waiters = @ \o line]
    BY <2>1, <2>2, TurnNames DEF IL!StartTurn
  <2>4. first \subseteq B /\ B \ first \subseteq IL!Sessions
    BY <1>6
  <2>5. /\ Cardinality(first) \in 0 .. C
        /\ Cardinality(first) < C => first = B
        /\ \A r, s \in B : r < s /\ r \notin first => s \notin first
    BY <1>6, FirstTake
  <2>6. /\ line \in Seq(B \ first) /\ DOMAIN line = 1 .. Cardinality(B \ first) /\ Cardinality(B \ first) \in Nat
        /\ \A k, l \in 1 .. Cardinality(B \ first) : k < l => line[k] < line[l]
        /\ \A s \in B \ first : \E k \in 1 .. Cardinality(B \ first) : line[k] = s
    BY <2>4, LinedUp
  <2> HIDE DEF first, line
  <2>7. sem' = [value |-> C - Cardinality(first), waiters |-> line, woken |-> 0]
    <3>1. <<>> \o line = line
      BY <2>6, ConcatEmptySeq
    <3>2. sem = [value |-> C, waiters |-> <<>>, woken |-> 0]
      BY <1>2 DEF NewSemaphore
    <3> QED
      BY <2>3, <3>1, <3>2
  <2>8. /\ \A s \in IL!Sessions : phase'[s] = IF s \in first THEN "sending" ELSE IF s \in B THEN "queued" ELSE "idle"
        /\ outcome' # "ok"
    BY <2>1, <2>3
  <2>9. sem' \in Semaphore(IL!Sessions) /\ Sound(sem') /\ Slots(sem') = C - Cardinality(first)
    <3>1. C - Cardinality(first) \in Nat /\ Cardinality(first) \in Nat
      BY <1>1, <2>5
    <3>2. line \in Seq(IL!Sessions)
      BY <2>4, <2>6, SeqDef
    <3>3. sem' \in Semaphore(IL!Sessions)
      BY <2>7, <3>1, <3>2 DEF Semaphore
    <3>4. ASSUME C - Cardinality(first) > 0
          PROVE  line = <<>>
      <4>1. Cardinality(first) < C
        BY <1>1, <3>1, <3>4
      <4>2. B \ first = {}
        BY <2>5, <4>1
      <4>3. DOMAIN line = 1 .. 0
        BY <2>6, <4>2, FS_EmptySet
      <4>4. Len(line) \in Nat /\ DOMAIN line = 1 .. Len(line)
        BY <3>2, LenProperties
      <4> QED
        BY <3>2, <4>3, <4>4, EmptySeq
    <3>5. Len(line) \in Nat
      BY <3>2, LenProperties
    <3>6. Sound(sem')
      BY <2>7, <3>4, <3>5 DEF Sound, NoneForgotten
    <3>7. Slots(sem') = C - Cardinality(first)
      BY <2>7, <3>1 DEF Slots
    <3> QED
      BY <3>3, <3>6, <3>7
  <2>10. TurnLine'
    <3>1. \A k \in DOMAIN line : line[k] \in B \ first
      BY <2>6, ElementOfSeq, LenProperties
    <3>2. \A k \in DOMAIN line : phase'[line[k]] = "queued"
      BY <2>4, <2>8, <3>1
    <3>3. \A s \in IL!Sessions : phase'[s] = "queued" => s \in B \ first
      BY <2>8
    <3> QED
      BY <2>6, <2>7, <3>2, <3>3 DEF TurnLine
  <2>11. TurnOrder'
    <3> SUFFICES ASSUME NEW r \in IL!Sessions, NEW u \in IL!Sessions, r < u, phase'[r] = "queued"
                 PROVE  phase'[u] \in {"idle", "queued"}
      BY DEF TurnOrder
    <3>1. r \in B /\ r \notin first
      BY <2>8
    <3>2. u \in B => u \notin first
      BY <2>5, <3>1
    <3> QED
      BY <2>4, <2>8, <3>2
  <2>12. /\ IL!IndexesContiguous'
         /\ DOMAIN index' = executed \cup (B \X {next}) /\ DOMAIN index' \subseteq IL!Planned
         /\ \A k \in DOMAIN index' : index'[k] \in Nat
    <3>1. next \in Nat /\ next >= 1 /\ \A s \in B : next <= Turns[s]
      BY <1>1, <1>6
    <3>2. \A k \in executed : k[2] < next
      BY <1>5
    <3> HIDE DEF next
    <3> QED
      BY <1>2, <1>6, <2>3, <3>1, <3>2, NewNumbers
  <2>13. Dispatched'
    <3>1. \A k : k \in B \X {next} <=> \E s \in B : k = <<s, next>>
      OBVIOUS
    <3>2. \A k : k \in first \X {next} <=> \E s \in first : k = <<s, next>>
      OBVIOUS
    <3>3. \A s \in IL!Sessions : phase'[s] = "queued" <=> s \in B /\ s \notin first
      BY <2>4, <2>8
    <3>4. \A k : k \in DOMAIN index' <=> k \in executed' \/ \E s \in IL!Sessions : k = <<s, now'>> /\ phase'[s] = "queued"
      <4> HIDE DEF next
      <4> QED
        BY <1>6, <2>3, <2>4, <2>12, <3>1, <3>2, <3>3
    <3> QED
      BY <3>4 DEF Dispatched
  <2>14. IL!SlotsConserved'
    <3>1. IL!InFlight' = first
      BY <1>6, <2>4, <2>8 DEF IL!InFlight
    <3>2. Slots(sem') + Cardinality(first) = C
      BY <1>1, <2>5, <2>9
    <3>3. IL!Slots(sem') = Slots(sem') /\ IL!Cardinality(first) = Cardinality(first)
      BY TurnNames
    <3> QED
      BY <3>1, <3>2, <3>3 DEF IL!SlotsConserved
  <2>15. IL!TypeOK'
    <3>1. phase' \in [IL!Sessions -> {"idle", "queued", "sending", "succeeded", "failed", "raised"}]
      BY <2>3
    <3>2. recorded' \subseteq executed' /\ executed' \subseteq DOMAIN index'
      BY <1>4, <2>3, <2>4, <2>12
    <3>3. now' \in Nat /\ rowError' \in BOOLEAN /\ outcome' \in {"running", "raised"}
      BY <1>1, <2>1, <2>3
    <3>4. sem' \in IL!Semaphore(IL!Sessions)
      BY <2>9, TurnNames
    <3> QED
      BY <1>7, <2>12, <3>1, <3>2, <3>3, <3>4 DEF IL!TypeOK
  <2>16. TurnSteps
    <3> SUFFICES ASSUME NEW s \in IL!Sessions, NEW n \in Nat, TurnAt(s, n)
                 PROVE  \E m \in Nat : TurnAt(s, m)' /\ TurnMoves(s, n, m)
      BY DEF TurnSteps
    <3>0. PICK m \in Nat : m = Wired(s, n)
      BY <1>3
    <3>1. Upto(s, m) /\ Wired(s, n) = m /\ Heard(s, n) = m /\ m \in Nat /\ (Broke(s) <=> s \in dead')
      BY <1>3, <3>0
    <3>2. \A t \in Nat : <<s, t>> \in executed' <=> t \in 1 .. m \/ (s \in first /\ t = next)
      BY <2>3, <3>1 DEF Upto
    <3>3. CASE s \in B
      <4>1. s \notin dead' /\ next <= Turns[s] /\ m = now /\ m = now' - 1
        BY <1>1, <1>6, <2>3, <3>1, <3>3 DEF Upto
      <4>2. AtTurn(s)' /\ (phase'[s] = "queued" <=> s \notin first) /\ phase'[s] \in {"sending", "queued"}
        BY <1>6, <2>8, <3>3 DEF AtTurn
      <4>3. m \in 0 .. Turns[s] /\ m <= now' /\ m < now'
        BY <1>1, <2>3, <3>1, <4>1
      <4>4. TurnAt(s, m)'
        BY <2>3, <3>1, <3>2, <4>1, <4>2, <4>3 DEF TurnAt, Upto
      <4>5. Wired(s, m)' = (IF s \in first THEN m + 1 ELSE m) /\ Heard(s, m)' = m /\ ~Broke(s) /\ ~Broke(s)'
        BY <3>1, <4>1, <4>2 DEF Wired, Heard, Broke
      <4>6. m < Turns[s]
        BY <1>1, <4>1
      <4>7. TurnMoves(s, n, m)
        BY <3>1, <4>5, <4>6 DEF TurnMoves, Moves
      <4> QED
        BY <3>1, <4>4, <4>7
    <3>4. CASE s \notin B
      <4>1. ~AtTurn(s)' /\ phase'[s] = "idle" /\ s \notin first
        BY <2>4, <2>8, <3>4 DEF AtTurn
      <4>2. s \notin dead' => m = Turns[s]
        <5>1. s \notin dead' => ~(now + 1 <= Turns[s])
          BY <1>6, <3>4
        <5> QED
          BY <1>1, <3>1, <5>1 DEF Upto
      <4>3. m \in 0 .. Turns[s] /\ m <= now' /\ m < now'
        BY <1>1, <2>3, <3>1 DEF Upto
      <4>4. TurnAt(s, m)'
        BY <2>3, <3>1, <3>2, <4>1, <4>2, <4>3 DEF TurnAt, Upto
      <4>5. Wired(s, m)' = m /\ Heard(s, m)' = m
        BY <4>1 DEF Wired, Heard
      <4>6. Broke(s)' <=> Broke(s)
        BY <3>1, <4>1 DEF Broke
      <4>7. TurnMoves(s, n, m)
        BY <3>1, <4>5, <4>6 DEF TurnMoves, Moves
      <4> QED
        BY <3>1, <4>4, <4>7
    <3> QED
      BY <3>3, <3>4
  <2>17. \A s \in IL!Sessions : \E m \in Nat : TurnAt(s, m)'
    BY <2>16 DEF TurnInv, TurnSteps
  <2> QED
    BY <2>8, <2>9, <2>10, <2>11, <2>12, <2>13, <2>14, <2>15, <2>16, <2>17 DEF TurnInv
<1> QED
  BY <1>8, <1>9

\* Every callback of the interleaved dispatcher keeps TurnInv and moves each session as SessionReplay allows.
LEMMA TurnNext ==
  ASSUME TurnInv, IL!Next
  PROVE  TurnInv' /\ TurnSteps
<1>1. /\ phase \in [IL!Sessions -> {"idle", "queued", "sending", "succeeded", "failed", "raised"}] /\ now \in Nat
      /\ rowError \in BOOLEAN
  BY TurnTypes DEF TurnInv, IL!TypeOK
<1>2. CASE IL!Begin
  <2>1. /\ outcome \in {"running", "raised"} /\ now = 0 /\ UNCHANGED <<recorded, dead, rowError>> /\ IL!GoOn
    BY <1>2 DEF IL!Begin, IL!Looping
  <2>2. \A s \in IL!Sessions : phase[s] = "idle"
    <3> SUFFICES ASSUME NEW s \in IL!Sessions, phase[s] # "idle"
                 PROVE  FALSE
      OBVIOUS
    <3>1. PICK n \in Nat : TurnAt(s, n)
      BY DEF TurnInv
    <3>2. n = now - 1
      BY <2>1, <3>1 DEF TurnAt, AtTurn
    <3> QED
      BY <2>1, <3>2
  <2>3. dead' = dead \cup IL!Failed
    BY <2>1, <2>2 DEF IL!Failed
  <2> QED
    BY <2>1, <2>2, <2>3, TurnGoes
<1>3. CASE IL!NextTurn
  <2>1. /\ outcome = "running" /\ IL!GoOn /\ rowError' = rowError /\ dead' = dead \cup IL!Failed
        /\ \A s \in IL!Sessions : phase[s] \in {"idle", "succeeded", "failed"}
        /\ recorded' = recorded \cup ((IL!Succeeded \cup IL!Failed) \X {now})
    BY <1>3 DEF IL!NextTurn, IL!TurnIn
  <2>2. \A s \in IL!Sessions : s \in IL!Succeeded \cup IL!Failed <=> phase[s] # "idle"
    BY <2>1 DEF IL!Succeeded, IL!Failed
  <2>3. IL!Succeeded \cup IL!Failed \subseteq IL!Sessions
    BY DEF IL!Succeeded, IL!Failed
  <2>4. \A k : k \in recorded' <=> k \in recorded \/ \E s \in IL!Sessions : phase[s] # "idle" /\ k = <<s, now>>
    <3> DEFINE D == IL!Succeeded \cup IL!Failed
    <3>1. \A k : k \in D \X {now} <=> \E s \in D : k = <<s, now>>
      OBVIOUS
    <3>2. recorded' = recorded \cup (D \X {now}) /\ D \subseteq IL!Sessions /\ \A s \in IL!Sessions : s \in D <=> phase[s] # "idle"
      BY <2>1, <2>2, <2>3
    <3> HIDE DEF D
    <3> QED
      BY <3>1, <3>2
  <2> QED
    BY <2>1, <2>4, TurnGoes
<1>4. ASSUME NEW s \in IL!Sessions, IL!Request(s)
      PROVE  TurnInv' /\ TurnSteps
  <2>1. CASE IL!Resumed(s)
    BY <2>1, TurnResumed
  <2>2. CASE IL!Answer(s) \/ IL!AnswerRaises(s)
    BY <2>2, TurnAnswers
  <2> QED
    BY <1>4, <2>1, <2>2 DEF IL!Request
<1>5. CASE IL!Abort \/ IL!RowWriteFails \/ IL!Cancel \/ IL!Over
  <2>1. UNCHANGED <<now, phase, sem, index, executed, recorded, dead>>
    BY <1>5 DEF IL!Abort, IL!RowWriteFails, IL!Cancel, IL!Over, IL!vars
  <2>2. rowError' \in BOOLEAN
    BY <1>1, <1>5 DEF IL!Abort, IL!RowWriteFails, IL!Cancel, IL!Over, IL!vars
  <2>3. outcome' = outcome \/ (outcome # "ok" /\ outcome' \in {"running", "raised", "aborted", "cancelled"})
    BY <1>5 DEF IL!Abort, IL!TurnIn, IL!RowWriteFails, IL!Cancel, IL!Over, IL!vars
  <2> QED
    BY <2>1, <2>2, <2>3, TurnStill
<1> QED
  BY <1>2, <1>3, <1>4, <1>5 DEF IL!Next

\* At the start no turn was begun and every slot is free.
LEMMA TurnInit == IL!Init => TurnInv
<1> SUFFICES ASSUME IL!Init
             PROVE  TurnInv
  OBVIOUS
<1>1. C \in Nat /\ \A s \in IL!Sessions : Turns[s] \in Nat \ {0}
  BY DispatchersAssumption DEF IL!CountsAssumption, IL!TurnsAssumption
<1>2. sem = NewSemaphore(C) /\ sem \in Semaphore(IL!Sessions) /\ Sound(sem) /\ Slots(sem) = C
  BY <1>1, NewSound, TurnNames DEF IL!Init
<1>3. DOMAIN sem.waiters = {}
  BY <1>2 DEF NewSemaphore
<1>4. /\ now = 0 /\ executed = {} /\ recorded = {} /\ dead = {} /\ outcome = "running" /\ DOMAIN index = {}
      /\ \A s \in IL!Sessions : phase[s] = "idle"
  BY DEF IL!Init
<1>5. \A s \in IL!Sessions : TurnAt(s, 0)
  BY <1>1, <1>4 DEF TurnAt, AtTurn
<1>6. IL!TypeOK
  <2>1. phase \in [IL!Sessions -> {"idle", "queued", "sending", "succeeded", "failed", "raised"}] /\ rowError \in BOOLEAN
    BY DEF IL!Init
  <2>2. sem \in IL!Semaphore(IL!Sessions)
    BY <1>2, TurnNames
  <2> QED
    BY <1>4, <2>1, <2>2 DEF IL!TypeOK
<1>7. TurnLine /\ TurnOrder /\ Dispatched
  BY <1>3, <1>4 DEF TurnLine, TurnOrder, Dispatched
<1>8. IL!SlotsConserved
  <2>1. IL!InFlight = {} /\ Cardinality({}) = 0
    BY <1>4, FS_EmptySet DEF IL!InFlight
  <2> QED
    BY <1>1, <1>2, <2>1, TurnNames DEF IL!SlotsConserved
<1>9. IL!IndexesContiguous
  <2>1. Cardinality(DOMAIN index) = 0 /\ {index[k] : k \in DOMAIN index} = {} /\ 0 .. 0 - 1 = {}
    BY <1>4, FS_EmptySet
  <2> QED
    BY <1>4, <2>1, TurnNames DEF IL!IndexesContiguous
<1> QED
  BY <1>2, <1>4, <1>5, <1>6, <1>7, <1>8, <1>9 DEF TurnInv

\* The slots are fresh at a turn's end, its requests went out in file order, and a key that never went out is of a
\* session that a recorded failure ended before it.
LEMMA TurnHolds == TurnInv => IL!Inv
<1> SUFFICES ASSUME TurnInv
             PROVE  IL!Inv
  OBVIOUS
<1>1. now \in Nat /\ \A s \in IL!Sessions : Turns[s] \in Nat \ {0} /\ s \in Nat
  BY TurnTypes
<1>2. IL!FreshSlots
  BY TurnsRest, TurnNames DEF IL!FreshSlots, IL!TurnIn
<1>3. IL!InFileOrder
  <2> SUFFICES ASSUME NEW r \in IL!Batch(now, dead), NEW s \in IL!Batch(now, dead), r < s, <<s, now>> \in executed
               PROVE  <<r, now>> \in executed
    BY DEF IL!InFileOrder
  <2>1. r \in IL!Sessions /\ s \in IL!Sessions /\ r \notin dead /\ s \notin dead /\ now <= Turns[r]
    BY DEF IL!Batch
  <2>2. PICK m \in Nat : TurnAt(r, m)
    BY <2>1 DEF TurnInv
  <2>3. PICK n \in Nat : TurnAt(s, n)
    BY <2>1 DEF TurnInv
  <2>4. now \in 1 .. n \/ (AtTurn(s) /\ phase[s] # "queued")
    BY <1>1, <2>3 DEF TurnAt
  <2>5. now >= 1
    <3>1. AtTurn(s) => n = now - 1
      BY <2>3 DEF TurnAt
    <3> QED
      BY <1>1, <2>4, <3>1
  <2>6. CASE outcome = "ok"
    <3>1. m = Turns[r]
      BY <2>1, <2>2, <2>6 DEF TurnAt, AtTurn
    <3>2. now \in 1 .. m
      BY <1>1, <2>1, <2>5, <3>1
    <3> QED
      BY <1>1, <2>2, <3>2 DEF TurnAt
  <2>7. CASE outcome # "ok"
    <3>1. n < now /\ m < now
      BY <1>1, <2>2, <2>3, <2>5, <2>7 DEF TurnAt
    <3>2. AtTurn(s) /\ phase[s] # "queued"
      BY <1>1, <2>4, <3>1
    <3>3. AtTurn(r)
      <4>1. ~AtTurn(r) => m = Turns[r] \/ now = 0
        BY <2>1, <2>2 DEF TurnAt
      <4> QED
        BY <1>1, <2>1, <2>5, <3>1, <4>1
    <3>4. phase[r] # "queued"
      BY <2>1, <3>2 DEF TurnInv, TurnOrder, AtTurn
    <3> QED
      BY <1>1, <2>2, <3>3, <3>4 DEF TurnAt
  <2> QED
    BY <2>6, <2>7
<1>4. IL!IdentityHolds
  <2> SUFFICES ASSUME outcome = "ok", NEW k \in IL!Planned \ executed
               PROVE  k[1] \in dead /\ \E u \in 1 .. k[2] - 1 : <<k[1], u>> \in recorded
    BY DEF IL!IdentityHolds
  <2>1. PICK s \in IL!Sessions : k \in {s} \X (1 .. Turns[s])
    BY DEF IL!Planned
  <2>2. PICK t \in 1 .. Turns[s] : k = <<s, t>>
    BY <2>1
  <2>3. PICK n \in Nat : TurnAt(s, n)
    BY DEF TurnInv
  <2>4. t \in Nat /\ t \notin 1 .. n
    BY <2>2, <2>3 DEF TurnAt
  <2>5. n < t /\ n # Turns[s]
    BY <1>1, <2>2, <2>4
  <2>6. s \in dead /\ n >= 1
    BY <2>3, <2>5 DEF TurnAt, AtTurn
  <2>7. n \in 1 .. t - 1 /\ n \in 1 .. n
    BY <2>4, <2>5, <2>6
  <2>8. <<s, n>> \in recorded
    BY <2>3, <2>7 DEF TurnAt
  <2> QED
    BY <2>2, <2>6, <2>7, <2>8
<1> QED
  BY <1>2, <1>3, <1>4 DEF TurnInv, IL!Inv

\* SessionReplay's view of an interleaved replay.
TurnCounted ==
  \A s \in IL!Sessions : \A n \in Nat :
    TurnAt(s, n) => /\ Cardinality(IL!Of(executed, s)) = Wired(s, n)
                    /\ Cardinality(IL!Of(recorded \cup {<<r, now>> : r \in {q \in 1 .. N : IL!Back(q)}}, s)) = Heard(s, n)

\* The keys of a session are as many as its turns recorded and the one it is at.
LEMMA TurnCounts == TurnInv => TurnCounted
<1> DEFINE back == {<<r, now>> : r \in {q \in 1 .. N : IL!Back(q)}}
<1> SUFFICES ASSUME TurnInv, NEW s \in IL!Sessions, NEW n \in Nat, TurnAt(s, n)
             PROVE  /\ Cardinality(IL!Of(executed, s)) = Wired(s, n)
                    /\ Cardinality(IL!Of(recorded \cup back, s)) = Heard(s, n)
  BY DEF TurnCounted
<1>1. now \in Nat /\ Turns[s] \in Nat /\ n <= Turns[s]
  BY TurnTypes DEF TurnAt
<1>2. AtTurn(s) => n = now - 1 /\ now <= Turns[s]
  BY DEF TurnAt
<1>3. IL!Of(executed, s) = 1 .. Wired(s, n)
  <2>1. \A t \in 1 .. Turns[s] : <<s, t>> \in executed <=> t \in 1 .. n \/ (AtTurn(s) /\ phase[s] # "queued" /\ t = now)
    BY DEF TurnAt
  <2>2. CASE AtTurn(s) /\ phase[s] # "queued"
    <3>1. \A t \in 1 .. Turns[s] : <<s, t>> \in executed <=> t \in 1 .. n \/ t = now
      BY <2>1, <2>2
    <3>2. IL!Of(executed, s) = 1 .. n + 1
      BY <1>1, <1>2, <2>2, <3>1 DEF IL!Of
    <3> QED
      BY <2>2, <3>2 DEF Wired
  <2>3. CASE ~(AtTurn(s) /\ phase[s] # "queued")
    <3>1. \A t \in 1 .. Turns[s] : <<s, t>> \in executed <=> t \in 1 .. n
      BY <2>1, <2>3
    <3>2. IL!Of(executed, s) = 1 .. n
      BY <1>1, <3>1 DEF IL!Of
    <3> QED
      BY <2>3, <3>2 DEF Wired
  <2> QED
    BY <2>2, <2>3
<1>4. IL!Of(recorded \cup back, s) = 1 .. Heard(s, n)
  <2>1. \A t : <<s, t>> \in back <=> t = now /\ IL!Back(s)
    BY DEF IL!Sessions
  <2> HIDE DEF back
  <2>2. \A t \in 1 .. Turns[s] : <<s, t>> \in recorded <=> t \in 1 .. n
    BY DEF TurnAt
  <2>3. CASE AtTurn(s) /\ phase[s] \in {"succeeded", "failed"}
    <3>1. IL!Back(s)
      BY <1>1, <2>3 DEF TurnAt, IL!Back
    <3>2. \A t \in 1 .. Turns[s] : <<s, t>> \in recorded \cup back <=> t \in 1 .. n \/ t = now
      BY <2>1, <2>2, <3>1
    <3>3. IL!Of(recorded \cup back, s) = 1 .. n + 1
      BY <1>1, <1>2, <2>3, <3>2 DEF IL!Of
    <3> QED
      BY <2>3, <3>3 DEF Heard
  <2>4. CASE ~(AtTurn(s) /\ phase[s] \in {"succeeded", "failed"})
    <3>1. IL!Back(s) => ~AtTurn(s)
      BY <2>4 DEF IL!Back
    <3>2. IL!Back(s) => now \in 1 .. n
      BY <1>1, <3>1 DEF TurnAt, IL!Back
    <3>3. \A t \in 1 .. Turns[s] : <<s, t>> \in recorded \cup back <=> t \in 1 .. n
      BY <2>1, <2>2, <3>2
    <3>4. IL!Of(recorded \cup back, s) = 1 .. n
      BY <1>1, <3>3 DEF IL!Of
    <3> QED
      BY <2>4, <3>4 DEF Heard
  <2> QED
    BY <2>3, <2>4
<1>5. Wired(s, n) \in Nat /\ Heard(s, n) \in Nat
  BY DEF Wired, Heard
<1> HIDE DEF back
<1> QED
  BY <1>3, <1>4, <1>5, CountUpTo

LEMMA TurnCountsNext == TurnInv' => TurnCounted'
BY TurnCounts, PTL

-------------------------------------------------------------------------------
(* The pass (Measure). *)

\* Each dispatcher keeps its own invariant, the steps before the pass leaving its state alone.
PassInv ==
  /\ pacing \in {"interleaved", "open", "single", "watch"}
  /\ pacing = "interleaved" => TurnInv
  /\ pacing = "open" => OpenInv
  /\ pacing = "single" => SingleInv
  /\ pacing = "watch" => CH!TypeOK

\* A session's step, as SessionReplay sees it whichever the dispatcher.
Advances(s) == Moves(Sent(s), Answered(s), Broken(s), Sent(s)', Answered(s)', Broken(s)', Turns[s])

\* Before the pass, and when nothing runs any more, no dispatcher moves.
Still == UNCHANGED <<pacing, common, sem, index, ofTurns, ofArrivals, ofRequests, ofClient>>

\* Whatever the pass, the invariant holds before it.
LEMMA PassInit == Init => PassInv
<1> SUFFICES ASSUME Init
             PROVE  PassInv
  OBVIOUS
<1>1. pacing \in {"interleaved", "open", "single", "watch"}
  BY DEF Init
<1>2. /\ pacing = "interleaved" => IL!Init
      /\ pacing = "open" => OP!Init
      /\ pacing = "single" => RP!Init
      /\ pacing = "watch" => CH!Init
  BY DEF Init
<1> QED
  BY <1>1, <1>2, TurnInit, OpenInit, SingleInit, HealthInit DEF PassInv

\* Nothing moves: the dispatcher's invariant stays, and so does what SessionReplay sees.
LEMMA StillKeeps ==
  ASSUME PassInv, Still
  PROVE  /\ pacing = "interleaved" => TurnInv'
         /\ pacing = "open" => OpenInv'
         /\ pacing = "single" => SingleInv'
         /\ pacing = "watch" => CH!TypeOK'
<1>1. /\ UNCHANGED <<now, phase, sem, index, executed, recorded, dead, rowError, outcome>>
      /\ UNCHANGED <<turn, counter, succeeded, failed>> /\ UNCHANGED <<open, at, clock, sentAt, doneAt>>
      /\ UNCHANGED <<time, asleepSince, stalls, spells>>
  BY DEF Still, common, ofTurns, ofArrivals, ofRequests, ofClient
<1>2. ASSUME pacing = "interleaved"
      PROVE  TurnInv'
  BY <1>1, <1>2, TurnStill DEF PassInv, TurnInv, IL!TypeOK
<1>3. ASSUME pacing = "open"
      PROVE  OpenInv'
  BY <1>1, <1>3, OpenStill DEF PassInv, OpenInv, OP!TypeOK
<1>4. ASSUME pacing = "single"
      PROVE  SingleInv'
  <2>1. SingleInv
    BY <1>4 DEF PassInv
  <2>2. clock' \in clock .. MaxTime
    BY <1>1, <2>1, DispatchersAssumption DEF SingleInv, RP!TypeOK, RP!CountsAssumption
  <2> QED
    BY <1>1, <2>1, <2>2, SingleStill DEF SingleInv, RP!TypeOK
<1>5. ASSUME pacing = "watch"
      PROVE  CH!TypeOK'
  BY <1>1, <1>5 DEF PassInv, CH!TypeOK
<1> QED
  BY <1>2, <1>3, <1>4, <1>5

\* Each step is one of the dispatcher that runs the pass, or leaves them all alone.
LEMMA OneRuns ==
  ASSUME [Next]_vars
  PROVE  /\ pacing' = pacing
         /\ \/ Still
            \/ pacing = "interleaved" /\ IL!Next
            \/ pacing = "open" /\ OP!Next
            \/ pacing = "single" /\ RP!Next
            \/ pacing = "watch" /\ CH!Next /\ UNCHANGED <<common, sem, index>>
<1>1. CASE BeforePass /\ UNCHANGED <<common, sem, index, ofTurns, ofArrivals, ofRequests, ofClient>>
  BY <1>1 DEF BeforePass, WarmupAnswer, WarmupIn, ResetRaises, ResetCache, Still
<1>2. CASE ByTurn(IL!Next)
  BY <1>2 DEF ByTurn, In
<1>3. CASE ByArrival(OP!Next)
  BY <1>3 DEF ByArrival, In
<1>4. CASE ByRequest(RP!Next)
  BY <1>4 DEF ByRequest, In
<1>5. CASE Watched(CH!Next)
  BY <1>5 DEF Watched, In
<1>6. CASE UNCHANGED vars
  BY <1>6 DEF vars, Still
<1> QED
  BY <1>1, <1>2, <1>3, <1>4, <1>5, <1>6 DEF Next

\* The warmup, the reset and each dispatcher's steps keep it.
LEMMA PassNext == PassInv /\ [Next]_vars => PassInv'
<1> SUFFICES ASSUME PassInv, [Next]_vars
             PROVE  PassInv'
  OBVIOUS
<1>1. /\ pacing' = pacing
      /\ pacing = "interleaved" => TurnInv'
      /\ pacing = "open" => OpenInv'
      /\ pacing = "single" => SingleInv'
      /\ pacing = "watch" => CH!TypeOK'
  <2>1. CASE Still
    BY <2>1, StillKeeps, OneRuns
  <2>2. CASE pacing = "interleaved" /\ IL!Next
    BY <2>2, OneRuns, TurnNext DEF PassInv
  <2>3. CASE pacing = "open" /\ OP!Next
    BY <2>3, OneRuns, OpenNext DEF PassInv
  <2>4. CASE pacing = "single" /\ RP!Next
    BY <2>4, OneRuns, SingleNext DEF PassInv
  <2>5. CASE pacing = "watch" /\ CH!Next
    BY <2>5, OneRuns, HealthNext DEF PassInv
  <2> QED
    BY <2>1, <2>2, <2>3, <2>4, <2>5, OneRuns
<1> QED
  BY <1>1 DEF PassInv

\* The invariant the runs check is part of it.
LEMMA PassHolds == PassInv => Inv
BY TurnHolds, OpenHolds DEF PassInv, Inv, SingleInv, RP!Inv

\* Every dispatcher of a pass keeps what it must: types, slots, the order requests go out in, their numbers, and
\* identity's verdict.
THEOREM InvHolds == Spec => []Inv
BY PassInit, PassNext, PassHolds, PTL DEF Spec

-------------------------------------------------------------------------------
(* The pass implements SessionReplay. *)

\* What SessionReplay sees of a pass, by what dispatches it.
View ==
  \A s \in 1 .. N :
    /\ pacing = "interleaved" =>
         /\ Sent(s) = Cardinality(IL!Of(executed, s))
         /\ Answered(s) = Cardinality(IL!Of(recorded \cup {<<r, now>> : r \in {q \in 1 .. N : IL!Back(q)}}, s))
         /\ Broken(s) <=> Broke(s)
    /\ pacing = "open" =>
         /\ Sent(s) = Cardinality(OP!Of(OP!executed, s))
         /\ Answered(s) = Cardinality(OP!Of(succeeded \cup failed, s))
         /\ Broken(s) <=> OP!Of(failed, s) # {}
    /\ pacing = "single" =>
         /\ Sent(s) = IF s <= R THEN Out(s) ELSE 0
         /\ Answered(s) = IF s <= R THEN Landed(s) ELSE 0
         /\ Broken(s) <=> s <= R /\ Missed(s)
    /\ pacing = "watch" => Sent(s) = 0 /\ Answered(s) = 0 /\ ~Broken(s)

\* SessionReplay's variables are those counts, whichever the dispatcher.
LEMMA Viewed == View
<1> SUFFICES ASSUME NEW s \in 1 .. N
             PROVE  /\ pacing = "interleaved" =>
                         /\ Sent(s) = Cardinality(IL!Of(executed, s))
                         /\ Answered(s) = Cardinality(IL!Of(recorded \cup {<<r, now>> : r \in {q \in 1 .. N : IL!Back(q)}}, s))
                         /\ Broken(s) <=> Broke(s)
                    /\ pacing = "open" =>
                         /\ Sent(s) = Cardinality(OP!Of(OP!executed, s))
                         /\ Answered(s) = Cardinality(OP!Of(succeeded \cup failed, s))
                         /\ Broken(s) <=> OP!Of(failed, s) # {}
                    /\ pacing = "single" =>
                         /\ Sent(s) = IF s <= R THEN Out(s) ELSE 0
                         /\ Answered(s) = IF s <= R THEN Landed(s) ELSE 0
                         /\ Broken(s) <=> s <= R /\ Missed(s)
                    /\ pacing = "watch" => Sent(s) = 0 /\ Answered(s) = 0 /\ ~Broken(s)
  BY DEF View
<1>1. CASE pacing = "interleaved"
  BY <1>1 DEF Sent, Answered, Broken, Broke
<1>2. CASE pacing = "open"
  BY <1>2 DEF Sent, Answered, Broken
<1>3. CASE pacing = "single"
  BY <1>3 DEF Sent, Answered, Broken, Out, Landed, Missed
<1>4. CASE pacing = "watch"
  BY <1>4 DEF Sent, Answered, Broken
<1> QED
  BY <1>1, <1>2, <1>3, <1>4

LEMMA ViewedNext == View'
BY Viewed, PTL

BrokenTyped == \A s \in 1 .. N : Broken(s) \in BOOLEAN

\* Whether a session is broken is a truth value.
LEMMA BrokenIs == PassInv => BrokenTyped
<1> SUFFICES ASSUME PassInv, NEW s \in 1 .. N
             PROVE  Broken(s) \in BOOLEAN
  BY DEF BrokenTyped
<1>1. CASE pacing = "interleaved"
  BY <1>1 DEF Broken
<1>2. CASE pacing = "open"
  BY <1>2 DEF Broken
<1>3. CASE pacing = "single"
  BY <1>3 DEF Broken
<1>4. CASE pacing = "watch"
  BY <1>4 DEF Broken
<1> QED
  BY <1>1, <1>2, <1>3, <1>4 DEF PassInv

LEMMA BrokenIsNext == PassInv' => BrokenTyped'
BY BrokenIs, PTL

\* The single-turn requests are sessions of one turn; those past R are not in the trace.
LEMMA SingleAdvances ==
  ASSUME pacing = "single", pacing' = "single", \A i \in RP!Requests : SingleMoves(i), NEW s \in 1 .. N
  PROVE  Advances(s)
<1>1. s \in Int /\ R \in Nat
  BY SizesAssumption
<1>2. /\ Sent(s) = (IF s <= R THEN Out(s) ELSE 0) /\ Answered(s) = (IF s <= R THEN Landed(s) ELSE 0)
      /\ Broken(s) <=> s <= R /\ Missed(s)
  BY Viewed DEF View
<1>3. /\ Sent(s)' = (IF s <= R THEN Out(s)' ELSE 0) /\ Answered(s)' = (IF s <= R THEN Landed(s)' ELSE 0)
      /\ Broken(s)' <=> s <= R /\ Missed(s)'
  BY ViewedNext DEF View
<1>4. CASE s <= R
  <2>1. SingleMoves(s)
    BY <1>1, <1>4 DEF RP!Requests
  <2>2. Sent(s) = Out(s) /\ Answered(s) = Landed(s) /\ Sent(s)' = Out(s)' /\ Answered(s)' = Landed(s)'
    BY <1>2, <1>3, <1>4
  <2>3. (Broken(s) <=> Missed(s)) /\ (Broken(s)' <=> Missed(s)')
    BY <1>2, <1>3, <1>4
  <2> QED
    BY <2>1, <2>2, <2>3 DEF SingleMoves, Advances, Moves
<1>5. CASE ~(s <= R)
  BY <1>2, <1>3, <1>5 DEF Advances, Moves
<1> QED
  BY <1>4, <1>5

\* So are the sessions of an open loop and of an interleaved replay.
LEMMA OpenAdvances ==
  ASSUME OpenInv, OpenInv', pacing = "open", pacing' = "open", \A s \in OP!Sessions : OpenMoves(s), NEW s \in 1 .. N
  PROVE  Advances(s)
<1>1. s \in OP!Sessions
  BY DEF OP!Sessions
<1>2. Sent(s) = Gone(s) /\ Answered(s) = Come(s) /\ (Broken(s) <=> Fell(s))
  BY <1>1, Viewed, OpenCounts DEF View, OpenCounted
<1>3. Sent(s)' = Gone(s)' /\ Answered(s)' = Come(s)' /\ (Broken(s)' <=> Fell(s)')
  BY <1>1, ViewedNext, OpenCountsNext DEF View, OpenCounted
<1> QED
  BY <1>1, <1>2, <1>3 DEF OpenMoves, Advances, Moves

\* A step of an interleaved pass moves each session as SessionReplay allows.
LEMMA TurnAdvances ==
  ASSUME TurnInv, TurnInv', pacing = "interleaved", pacing' = "interleaved", TurnSteps, NEW s \in 1 .. N
  PROVE  Advances(s)
<1>1. s \in IL!Sessions
  BY DEF IL!Sessions
<1>2. PICK n \in Nat : TurnAt(s, n)
  BY <1>1 DEF TurnInv
<1>3. PICK m \in Nat : TurnAt(s, m)' /\ TurnMoves(s, n, m)
  BY <1>1, <1>2 DEF TurnSteps
<1>4. Sent(s) = Wired(s, n) /\ Answered(s) = Heard(s, n) /\ (Broken(s) <=> Broke(s))
  BY <1>1, <1>2, Viewed, TurnCounts DEF View, TurnCounted
<1>5. Sent(s)' = Wired(s, m)' /\ Answered(s)' = Heard(s, m)' /\ (Broken(s)' <=> Broke(s)')
  BY <1>1, <1>3, ViewedNext, TurnCountsNext DEF View, TurnCounted
<1> QED
  BY <1>3, <1>4, <1>5 DEF TurnMoves, Advances, Moves

\* Every step of a pass moves every session as SessionReplay allows.
LEMMA PassAdvances ==
  ASSUME PassInv, [Next]_vars
  PROVE  \A s \in 1 .. N : Advances(s)
<1>1. PassInv' /\ pacing' = pacing /\ pacing \in {"interleaved", "open", "single", "watch"}
  BY PassNext, OneRuns DEF PassInv
<1>2. CASE pacing = "interleaved"
  <2>1. TurnInv /\ TurnInv' /\ pacing' = "interleaved"
    BY <1>1, <1>2 DEF PassInv
  <2>2. TurnSteps
    <3>1. CASE Still
      <4>1. UNCHANGED <<now, phase, sem, index, executed, recorded, dead, rowError, outcome>>
        BY <3>1 DEF Still, common, ofTurns
      <4> QED
        BY <2>1, <4>1, TurnStill DEF TurnInv, IL!TypeOK
    <3>2. CASE IL!Next
      BY <2>1, <3>2, TurnNext
    <3> QED
      BY <1>2, <3>1, <3>2, OneRuns
  <2> QED
    BY <1>2, <2>1, <2>2, TurnAdvances
<1>3. CASE pacing = "open"
  <2>1. OpenInv /\ OpenInv' /\ pacing' = "open"
    BY <1>1, <1>3 DEF PassInv
  <2>2. \A s \in OP!Sessions : OpenMoves(s)
    <3>1. CASE Still
      <4>1. UNCHANGED <<turn, counter, index, succeeded, failed, phase, rowError, outcome>>
        BY <3>1 DEF Still, common, ofArrivals
      <4> QED
        BY <2>1, <4>1, OpenStill DEF OpenInv, OP!TypeOK
    <3>2. CASE OP!Next
      BY <2>1, <3>2, OpenNext
    <3> QED
      BY <1>3, <3>1, <3>2, OneRuns
  <2> QED
    BY <1>3, <2>1, <2>2, OpenAdvances
<1>4. CASE pacing = "single"
  <2>1. SingleInv /\ pacing' = "single"
    BY <1>1, <1>4 DEF PassInv
  <2>2. \A i \in RP!Requests : SingleMoves(i)
    <3>1. CASE Still
      BY <3>1 DEF Still, common, ofRequests, SingleMoves, Moves, Out, Landed, Missed
    <3>2. CASE RP!Next
      BY <2>1, <3>2, SingleNext
    <3> QED
      BY <1>4, <3>1, <3>2, OneRuns
  <2> QED
    BY <1>4, <2>1, <2>2, SingleAdvances
<1>5. CASE pacing = "watch"
  BY <1>1, <1>5, Viewed, ViewedNext DEF View, Advances, Moves
<1> QED
  BY <1>1, <1>2, <1>3, <1>4, <1>5

\* In SessionReplay's own terms.
LEMMA AdvancesReplay ==
  ASSUME NEW s \in 1 .. N, Advances(s), Broken(s) \in BOOLEAN, Broken(s)' \in BOOLEAN
  PROVE  SR!Send(s) \/ SR!Answer(s) \/ SR!AnswerAndSend(s) \/ SR!Rest(s)
<1>1. CASE ~Broken(s) /\ Answered(s) = Sent(s) /\ Sent(s) < Turns[s] /\ Sent(s)' = Sent(s) + 1 /\ Answered(s)' = Answered(s) /\ ~Broken(s)'
  <2>1. Broken(s)' = FALSE
    BY <1>1
  <2> QED
    BY <1>1, <2>1 DEF SR!Send
<1>2. CASE Answered(s) < Sent(s) /\ Sent(s)' = Sent(s) /\ Answered(s)' = Sent(s)
  BY <1>2 DEF SR!Answer
<1>3. CASE Answered(s) < Sent(s) /\ Sent(s) < Turns[s] /\ Sent(s)' = Sent(s) + 1 /\ Answered(s)' = Sent(s) /\ ~Broken(s)'
  <2>1. Broken(s)' = FALSE
    BY <1>3
  <2> QED
    BY <1>3, <2>1 DEF SR!AnswerAndSend
<1>4. CASE Sent(s)' = Sent(s) /\ Answered(s)' = Answered(s) /\ (Broken(s)' <=> Broken(s))
  <2>1. Broken(s)' = Broken(s)
    BY <1>4
  <2> QED
    BY <1>4, <2>1 DEF SR!Rest
<1> QED
  BY <1>1, <1>2, <1>3, <1>4 DEF Advances, Moves

\* At first no session has sent anything.
LEMMA ReplayInit == Init => SR!Init
<1> SUFFICES ASSUME Init, NEW s \in 1 .. N
             PROVE  Sent(s) = 0 /\ Answered(s) = 0 /\ ~Broken(s)
  <2>1. \A s \in 1 .. N : Broken(s) = FALSE <=> ~Broken(s)
    BY PassInit, BrokenIs DEF BrokenTyped
  <2> QED
    BY <2>1 DEF SR!Init
<1>1. PassInv
  BY PassInit
<1>2. CASE pacing = "interleaved"
  <2>1. s \in IL!Sessions /\ IL!Init /\ TurnInv
    BY <1>1, <1>2 DEF Init, PassInv, IL!Sessions
  <2>2. outcome = "running" /\ now = 0 /\ phase[s] = "idle" /\ dead = {} /\ recorded = {}
    BY <2>1 DEF IL!Init
  <2>3. PICK n \in Nat : TurnAt(s, n)
    BY <2>1 DEF TurnInv
  <2>4. n = 0
    BY <2>2, <2>3 DEF TurnAt
  <2>5. Wired(s, n) = 0 /\ Heard(s, n) = 0 /\ ~Broke(s)
    BY <2>2, <2>4 DEF Wired, Heard, Broke, AtTurn
  <2>6. Sent(s) = Wired(s, n) /\ Answered(s) = Heard(s, n) /\ (Broken(s) <=> Broke(s))
    BY <1>2, <2>1, <2>3, Viewed, TurnCounts DEF View, TurnCounted
  <2> QED
    BY <2>5, <2>6
<1>3. CASE pacing = "open"
  <2>1. s \in OP!Sessions /\ OP!Init /\ OpenInv
    BY <1>1, <1>3 DEF Init, PassInv, OP!Sessions
  <2>2. phase[s] = "asleep" /\ turn[s] = 1 /\ failed = {}
    BY <2>1 DEF OP!Init
  <2>3. Gone(s) = 0 /\ Come(s) = 0 /\ ~Fell(s)
    BY <2>2 DEF Gone, Come, Fell
  <2>4. Sent(s) = Gone(s) /\ Answered(s) = Come(s) /\ (Broken(s) <=> Fell(s))
    BY <1>3, <2>1, Viewed, OpenCounts DEF View, OpenCounted
  <2> QED
    BY <2>3, <2>4
<1>4. CASE pacing = "single"
  <2>1. s \in Int /\ R \in Nat /\ RP!Init
    BY <1>4, SizesAssumption DEF Init
  <2>2. s <= R => phase[s] = "asleep" /\ sentAt[s] = -1
    BY <2>1 DEF RP!Init, RP!Requests
  <2>3. s <= R => Out(s) = 0 /\ Landed(s) = 0 /\ ~Missed(s)
    BY <2>2 DEF Out, Landed, Missed
  <2> QED
    BY <1>4, <2>3, Viewed DEF View
<1>5. CASE pacing = "watch"
  BY <1>5, Viewed DEF View
<1> QED
  BY <1>1, <1>2, <1>3, <1>4, <1>5 DEF PassInv

\* Every step is a step of SessionReplay or leaves what it sees unchanged.
LEMMA ReplayNext == PassInv /\ [Next]_vars => [SR!Next]_SR!vars
<1> SUFFICES ASSUME PassInv, [Next]_vars, NEW s \in 1 .. N
             PROVE  SR!Send(s) \/ SR!Answer(s) \/ SR!AnswerAndSend(s) \/ SR!Rest(s)
  BY DEF SR!Next
<1>1. Advances(s)
  BY PassAdvances
<1>2. Broken(s) \in BOOLEAN /\ Broken(s)' \in BOOLEAN
  BY PassNext, BrokenIs, BrokenIsNext DEF BrokenTyped
<1> QED
  BY <1>1, <1>2, AdvancesReplay

\* Whichever dispatcher runs the pass, every session's turns go out in order, one at a time, each at most once, and none
\* after a failed one.
THEOREM Replays == Spec => ReplaysSessions
BY PassInit, PassNext, ReplayInit, ReplayNext, PTL DEF Spec, ReplaysSessions, SR!Spec
================================================================================
