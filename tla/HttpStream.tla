------------------------------ MODULE HttpStream ------------------------------
(***************************************************************************)
(* One streamed request (quettabench/engines/drivers.py, _stream_chat and  *)
(* _stream_completions), the rules a reply must pass to count as a success *)
(* (quettabench/modes/serve.py, enforce_first_chunk, enforce_usage,        *)
(* enforce_output_length), and the count of its tokens by arrival          *)
(* (quettabench/metrics/summary.py, chunk_times and chunk_shares).         *)
(*                                                                         *)
(* One action is one line of the stream, or what ends it.  The server may  *)
(* send any lines, break off anywhere or say nothing more.  said and       *)
(* local.read are history: what the server said, and the characters of it  *)
(* that were read.                                                         *)
(***************************************************************************)
EXTENDS Integers, Sequences, FiniteSets, SequencesExt

CONSTANTS MaxLines,    \* bound: data lines a server sends
          MaxTokens,   \* bound: tokens in one of them
          MaxPlanned,  \* bound: the request's max_tokens
          MaxTicks     \* bound: ticks of the client's clock

BoundsAssumption == MaxLines \in Nat /\ MaxTokens \in Nat /\ MaxPlanned \in Nat

NoTime == -1
NoCount == -1   \* NO_COUNT

\* A chunk's usage block: none, both counts, or one that lacks the prompt's or the completion's.
Usages == {"none", "both", "noPrompt", "noCompletion"}

VARIABLES
  endpoint,  \* "chat" or "completions"
  planned,   \* request.max_tokens
  mode,      \* mode.allow_missing_usage and mode.exact_output_length
  now,       \* perf_counter, from the send
  said,      \* what the server has said: its lines, their characters and tokens
  local,     \* the variables of _stream_chat and _stream_completions
  result     \* the RequestResult: none while the stream is on

given == <<endpoint, planned, mode>>
vars == <<given, now, said, local, result>>

None == [kind |-> "none"]

Init ==
  /\ endpoint \in {"chat", "completions"}
  /\ planned \in 1 .. MaxPlanned
  /\ mode \in [allowMissingUsage : BOOLEAN, exactOutputLength : BOOLEAN]
  /\ now = 0
  /\ said = [lines |-> 0, chars |-> 0, tokens |-> 0, done |-> FALSE]
  /\ local = [ttft |-> NoTime, itl |-> <<>>, lastToken |-> 0, lastChoices |-> 0, output |-> 0, reported |-> FALSE,
              done |-> FALSE, bad |-> FALSE, read |-> 0, chars |-> <<>>, counts |-> <<>>]
  /\ result = None

Streaming == result = None

\* A reading of the clock: at least the last one.
Clock == \E pause \in 0 .. 1 : now' = now + pause /\ now' <= MaxTicks

Says(chars, tokens) ==
  /\ said.lines < MaxLines /\ ~said.done
  /\ said' = [said EXCEPT !.lines = @ + 1, !.chars = @ + chars, !.tokens = @ + tokens]

-------------------------------------------------------------------------------
(* The lines. *)

\* _read_usage: the last block counts, and one that lacks a count is unreported.
ReadUsage(l, usage, total) ==
  IF usage = "none" THEN l
  ELSE [l EXCEPT !.output = IF usage = "noCompletion" THEN 0 ELSE total, !.reported = usage = "both"]

\* _chunk_count.
ChunkCount(usage, total) == IF usage \in {"both", "noPrompt"} THEN total ELSE NoCount

\* A token event: its characters and count recorded, its time the first or a gap.
TokenEvent(l, chars, count, at) ==
  LET kept == [l EXCEPT !.chars = Append(@, chars), !.counts = Append(@, count), !.lastToken = at]
  IN  IF l.ttft = NoTime THEN [kept EXCEPT !.ttft = at]
                         ELSE [kept EXCEPT !.itl = Append(@, at - l.lastToken)]

\* Mutant: the characters of an empty delta are not recorded.
ReadChoicesSkipEmpty(l, chars, count, at) ==
  LET l1 == [l EXCEPT !.lastChoices = at, !.read = @ + chars]
      l2 == TokenEvent(l1, chars, count, at)
  IN  IF chars > 0 THEN l2 ELSE IF endpoint = "chat" THEN [l2 EXCEPT !.chars = l.chars] ELSE l1

\* A chunk with choices: a token event for chat whatever its delta holds, for completions when it has text.
ReadChoices(l, chars, count, at) ==
  LET l1 == [l EXCEPT !.lastChoices = at, !.read = @ + chars]
  IN  IF endpoint = "chat" \/ chars > 0 THEN TokenEvent(l1, chars, count, at) ELSE l1

\* A chunk that parses.  What a buffering server says at once is one chunk of several tokens.
Chunk ==
  /\ Streaming /\ ~local.done
  /\ Clock
  /\ \E chars \in 0 .. 1, tokens \in 0 .. MaxTokens, usage \in Usages, choices \in BOOLEAN :
       /\ ~choices => chars = 0 /\ tokens = 0
       /\ Says(chars, tokens)
       /\ LET l == ReadUsage(local, usage, said'.tokens)
          IN  local' = IF choices THEN ReadChoices(l, chars, ChunkCount(usage, said'.tokens), now') ELSE l
  /\ UNCHANGED <<given, result>>

\* A data line that does not parse, what it said lost.
BadLine ==
  /\ Streaming /\ ~local.done
  /\ Clock
  /\ \E tokens \in 0 .. MaxTokens : Says(1, tokens)
  /\ local' = [local EXCEPT !.bad = TRUE]
  /\ UNCHANGED <<given, result>>

\* [DONE]: the client reads no further.
DoneLine ==
  /\ Streaming /\ ~said.done
  /\ Clock
  /\ said' = [said EXCEPT !.done = TRUE]
  /\ local' = [local EXCEPT !.done = TRUE]
  /\ UNCHANGED <<given, result>>

-------------------------------------------------------------------------------
(* The end of the stream. *)

\* The RequestResult of a stream that ended with `kind` ("ok" for success): its timings, and its chunks if kept.
Result(kind, e2el, chunks) ==
  [kind |-> kind, ttft |-> local.ttft, itl |-> local.itl, e2el |-> e2el, output |-> local.output,
   reported |-> local.reported, chars |-> IF chunks THEN local.chars ELSE <<>>,
   counts |-> IF chunks /\ \E i \in DOMAIN local.counts : local.counts[i] # NoCount THEN local.counts ELSE <<>>]

\* Mutant: a line that does not parse is forgiven.
StreamFailureForgiving == IF ~local.done THEN "incomplete_stream" ELSE "ok"

\* _stream_failure.
StreamFailure ==
  IF local.bad THEN "malformed_stream" ELSE IF ~local.done THEN "incomplete_stream" ELSE "ok"

\* The request's end, for a stream read to its own: the last chunk that timed it.
E2el ==
  IF local.ttft = NoTime THEN now'
  ELSE IF endpoint = "chat" THEN local.lastToken ELSE local.lastChoices

\* enforce_first_chunk, enforce_usage and enforce_output_length, in _dispatch's order.
Enforced(r) ==
  CASE r.kind # "ok" -> r
    [] r.kind = "ok" /\ r.ttft = NoTime -> [r EXCEPT !.kind = "empty_reply"]
    [] r.kind = "ok" /\ r.ttft # NoTime /\ ~r.reported /\ ~mode.allowMissingUsage -> [r EXCEPT !.kind = "missing_usage"]
    [] r.kind = "ok" /\ r.ttft # NoTime /\ (r.reported \/ mode.allowMissingUsage) ->
         IF mode.exactOutputLength /\ r.output # planned THEN [r EXCEPT !.kind = "short_output"] ELSE r

\* [DONE] was read, or the server closed the connection before it.
StreamEnds ==
  /\ Streaming
  /\ Clock
  /\ result' = Enforced(Result(StreamFailure, E2el, TRUE))
  /\ UNCHANGED <<given, said, local>>

\* Refused before the send: a completions request with a tool schema, or with no prompt.
Refused ==
  /\ Streaming /\ endpoint = "completions" /\ now = 0 /\ said.lines = 0 /\ ~said.done
  /\ result' = Result("client_error", 0, FALSE)
  /\ UNCHANGED <<given, now, said, local>>

\* Any status but 200, before the first line.
HttpError ==
  /\ Streaming /\ said.lines = 0 /\ ~said.done
  /\ Clock
  /\ result' = Result("http_error", now', FALSE)
  /\ UNCHANGED <<given, said, local>>

\* A chunk that carries an error ends the request.
ErrorChunk ==
  /\ Streaming /\ ~local.done
  /\ Clock
  /\ Says(0, 0)
  /\ result' = Result("server_error", now', FALSE)
  /\ UNCHANGED <<given, local>>

\* An exception: the total timeout, a connection that broke, a chunk of an unexpected shape; "raised" stands for the
\* three kinds they leave.
StreamRaises ==
  /\ Streaming /\ ~local.done
  /\ Clock
  /\ result' = Result("raised", now', FALSE)
  /\ UNCHANGED <<given, said, local>>

\* CancelledError goes up: there is no result.
Cancelled ==
  /\ Streaming
  /\ result' = [kind |-> "cancelled"]
  /\ UNCHANGED <<given, now, said, local>>

Over == ~Streaming /\ UNCHANGED vars

Next ==
  \/ Chunk \/ BadLine \/ DoneLine
  \/ StreamEnds \/ Refused \/ HttpError \/ ErrorChunk \/ StreamRaises \/ Cancelled \/ Over

Spec == Init /\ [][Next]_vars

-------------------------------------------------------------------------------
(* The tokens by arrival. *)

Total(s) == FoldLeft(+, 0, s)

\* The clock times of the chunks: the first at ttft, each later one a gap on.
TimeOf(r, i) == r.ttft + Total(SubSeq(r.itl, 1, i - 1))
ChunkTimes(r) == IF r.ttft = NoTime THEN <<>> ELSE [i \in 1 .. Len(r.itl) + 1 |-> TimeOf(r, i)]

\* Mutant: the counts are used though some chunk carries none.
CountedWhatever(r, n) == r.counts # <<>> /\ Len(r.counts) = n

\* Every chunk carries the server's count.
Counted(r, n) == r.counts # <<>> /\ Len(r.counts) = n /\ \A i \in 1 .. n : r.counts[i] # NoCount

\* chunk_shares: the tokens of each chunk, as numerators over one denominator.
Shares(r, n) ==
  LET grown(i) == r.counts[i] - (IF i = 1 THEN 0 ELSE r.counts[i - 1])
      chars == IF Len(r.chars) = n THEN r.chars ELSE [i \in 1 .. n |-> 0]
      texts == Cardinality({i \in 1 .. n : chars[i] > 0})
      total == Total(chars)
  IN  IF Counted(r, n) THEN [of |-> 1, num |-> [i \in 1 .. n |-> IF grown(i) > 0 THEN grown(i) ELSE 0]]
      ELSE IF Len(r.chars) = n /\ n > 0 /\ texts = r.output
      THEN [of |-> 1, num |-> [i \in 1 .. n |-> IF chars[i] > 0 THEN 1 ELSE 0]]
      ELSE IF total > 0 THEN [of |-> total, num |-> [i \in 1 .. n |-> r.output * chars[i]]]
      ELSE [of |-> 1, num |-> [i \in 1 .. n |-> IF i = n THEN r.output ELSE 0]]

-------------------------------------------------------------------------------
(* Properties. *)

Times == Seq(Nat)
TypeOK ==
  /\ endpoint \in {"chat", "completions"} /\ planned \in 1 .. MaxPlanned
  /\ mode \in [allowMissingUsage : BOOLEAN, exactOutputLength : BOOLEAN]
  /\ now \in Nat
  /\ said \in [lines : 0 .. MaxLines, chars : Nat, tokens : Nat, done : BOOLEAN]
  /\ local \in [ttft : Nat \cup {NoTime}, itl : Times, lastToken : Nat, lastChoices : Nat, output : Nat,
                reported : BOOLEAN, done : BOOLEAN, bad : BOOLEAN, read : Nat, chars : Times,
                counts : Seq(Nat \cup {NoCount})]
  /\ result.kind \in {"none", "ok", "incomplete_stream", "malformed_stream", "empty_reply", "missing_usage",
                      "short_output", "http_error", "server_error", "raised", "client_error", "cancelled"}

Timed == result.kind \notin {"none", "cancelled"}
Succeeded == result.kind = "ok"

\* A request counts as a success only if all the server said up to its [DONE] was read, it carried a token, and its
\* token count is the server's, or missing by leave (docs/session-replay.md, Timing rules).
SuccessIsWhole ==
  Succeeded =>
    /\ said.done /\ local.read = said.chars
    /\ result.ttft # NoTime
    /\ result.reported \/ mode.allowMissingUsage
    /\ mode.exactOutputLength => result.output = planned

\* Whatever lines the stream had and however it ended, what is kept of the chunks has one entry for each of their times
\* (chunk_times is zipped with chunk_shares).
ChunksMatch ==
  Timed =>
    LET n == Len(ChunkTimes(result))
    IN  /\ result.chars # <<>> => Len(result.chars) = n
        /\ result.counts # <<>> => Len(result.counts) = n

\* The timings of a request, failed or not, add up: its chunks lie in its duration, and a whole chat reply ends at its
\* last one.
TimesAddUp ==
  Timed =>
    LET times == ChunkTimes(result)
    IN  /\ \A i \in DOMAIN times : times[i] <= result.e2el
        /\ endpoint = "chat" /\ Succeeded => result.e2el = Last(times)

\* The types, and times that add up.
Inv == TypeOK /\ TimesAddUp

\* The tokens counted by arrival over a whole chat reply are its output tokens, whichever rule counts them; of a
\* completion the tokens said after its last text are missed.
TokensByArrival ==
  Succeeded /\ result.reported /\ result.output = said.tokens =>
    LET n == Len(ChunkTimes(result))
        shares == Shares(result, n)
        sum == Total(shares.num)
    IN  /\ sum <= shares.of * said.tokens
        /\ endpoint = "chat" => sum = shares.of * said.tokens
===============================================================================
