---------------------------- MODULE SessionReplay ----------------------------
(***************************************************************************)
(* What a session replay promises the workload, whatever pacing dispatches *)
(* it: a session's turns go out one at a time and in order, each at most   *)
(* once; a turn goes out only after the turn before it was answered with   *)
(* success; a failed turn ends its session.  PerSession, OpenLoop,         *)
(* Interleaved and Recycled each implement this specification.             *)
(*                                                                         *)
(* Sessions advance together in one step because one callback of the       *)
(* event loop may record a whole turn's results and send the next turn.    *)
(***************************************************************************)
EXTENDS Naturals

CONSTANTS Sessions,   \* the sessions to replay (for a recycled replay, its plays)
          Turns       \* Turns[s] is the number of turns of session s, at least one

VARIABLES sent,       \* sent[s]: turns of s put on the wire
          answered,   \* answered[s]: turns of s whose result came back
          broken      \* broken[s]: a turn of s failed

vars == <<sent, answered, broken>>

Init ==
  /\ sent = [s \in Sessions |-> 0]
  /\ answered = [s \in Sessions |-> 0]
  /\ broken = [s \in Sessions |-> FALSE]

\* The next turn of s goes out.
Send(s) ==
  /\ ~broken[s]
  /\ answered[s] = sent[s]
  /\ sent[s] < Turns[s]
  /\ sent'[s] = sent[s] + 1
  /\ answered'[s] = answered[s]
  /\ broken'[s] = FALSE

\* The turn of s on the wire comes back, with success or not.
Answer(s) ==
  /\ answered[s] < sent[s]
  /\ sent'[s] = sent[s]
  /\ answered'[s] = sent[s]
  /\ broken'[s] \in BOOLEAN

\* The turn on the wire comes back with success and the next one goes out at once.
AnswerAndSend(s) ==
  /\ answered[s] < sent[s]
  /\ sent[s] < Turns[s]
  /\ sent'[s] = sent[s] + 1
  /\ answered'[s] = sent[s]
  /\ broken'[s] = FALSE

Rest(s) ==
  /\ sent'[s] = sent[s]
  /\ answered'[s] = answered[s]
  /\ broken'[s] = broken[s]

Next == \A s \in Sessions : Send(s) \/ Answer(s) \/ AnswerAndSend(s) \/ Rest(s)

Spec == Init /\ [][Next]_vars

\* Every session is played to its end: its last turn answered, or a turn failed.
Ended(s) == answered[s] = sent[s] /\ (broken[s] \/ sent[s] = Turns[s])
==============================================================================
