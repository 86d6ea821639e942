------------------------------ MODULE RemoteCalls ------------------------------
(***************************************************************************)
(* The calls one backend makes to model endpoints (http.rs, egress.rs,     *)
(* embed.rs, rerank.rs, chat.rs, ai_op.rs): the egress guard, the circuit  *)
(* breaker of an endpoint, the retries of a send, and how an answer is     *)
(* matched with the inputs of a batch.                                     *)
(*                                                                         *)
(* An input is its position in the caller's array, and the endpoint is     *)
(* honest: it answers what it was asked, in any order and not always all.  *)
(***************************************************************************)
EXTENDS Naturals, Sequences, SequencesExt, FiniteSets

CONSTANTS Endpoints,
          K,          \* BREAKER_K
          Retries,    \* MAX_RETRIES
          OpenFor,    \* theodb.http_breaker_open_ms, in ticks
          Chunk,      \* theodb.ai_max_batch
          MaxInputs,  \* bound: inputs of a call
          MaxTime     \* bound: the clock

\* BREAKER_K is 5; the window is a number of milliseconds, which may be 0;
\* ai_max_batch() is never below 1.
ASSUME CallAssumption ==
  /\ K \in Nat \ {0} /\ OpenFor \in Nat
  /\ Chunk \in Nat \ {0} /\ MaxInputs \in Nat

VARIABLES now,      \* the clock (Instant)
          breaker,  \* per endpoint: [state, until, fails]
          call,     \* the call being made, or NoCall
          result,   \* what the last call gave its caller
          streak,   \* per endpoint: calls in a row that the endpoint failed
          failedAt  \* per endpoint: when the last of them ended

callVars == <<now, breaker, call, result, streak, failedAt>>

NoCall == [op |-> "none"]
Given(out) == [ok |-> TRUE, out |-> out]
Error == [ok |-> FALSE, out |-> <<>>]
Null == 0
NoIndex == 0
Closed == [state |-> "closed", until |-> 0, fails |-> 0]

CallInit ==
  /\ now = 0
  /\ breaker = [e \in Endpoints |-> Closed]
  /\ call = NoCall
  /\ result = Given(<<>>)
  /\ streak = [e \in Endpoints |-> 0]
  /\ failedAt = [e \in Endpoints |-> 0]
-----------------------------------------------------------------------------
(* The answer to a batch.                                                   *)

\* The input an item of the answer is for: its "index", else its position.
Slot(data, pos) == IF data[pos] = NoIndex THEN pos ELSE data[pos]
Slots(data) == [pos \in DOMAIN data |-> Slot(data, pos)]

\* A fault: the answers are taken in the order they come.
ParseInOrder(data, n) == IF Len(data) # n THEN Error ELSE Given(Slots(data))

\* parse_embedding_data and parse_rerank_results: the count must match, an index
\* must be in range and used once.  An item carries the answer to its own input.
ParseIndexed(data, n) ==
  IF Len(data) # n \/ (\E pos \in 1..n : Slot(data, pos) > n) \/ ~IsInjective(Slots(data))
  THEN Error
  ELSE Given([i \in 1..n |-> Slots(data)[CHOOSE pos \in 1..n : Slot(data, pos) = i]])

\* ai_if_batch_impl: the positions of the values that are not NULL, in order.
\* (A selection written as a fold: the proofs unfold it.)
KeepOwned(vals, kept, i) == IF vals[i] THEN Append(kept, i) ELSE kept
Owned(vals) ==
  FoldLeft(LAMBDA kept, i : KeepOwned(vals, kept, i), <<>>, [i \in DOMAIN vals |-> i])

\* A fault: the answers fill the array from its start.
AlignedFromStart(vals, answers) ==
  [i \in DOMAIN vals |-> IF i <= Len(answers) THEN answers[i] ELSE Null]

Aligned(vals, answers) ==
  [i \in DOMAIN vals |->
     IF vals[i] THEN answers[CHOOSE j \in DOMAIN answers : Owned(vals)[j] = i] ELSE Null]
-----------------------------------------------------------------------------
(* The breaker.                                                             *)

\* A fault: an open breaker lets every call probe.
AllowProbes(e) == TRUE

\* breaker_allow: closed, half-open, or open long enough.
Allow(e) == breaker[e].state # "open" \/ now >= breaker[e].until

\* The first call after the window is the probe.
Probing(e) == IF breaker[e].state = "open" THEN [breaker[e] EXCEPT !.state = "half"]
               ELSE breaker[e]

\* A fault: a failure of a closed breaker starts the count again.
RecordedForgets(e, ok) ==
  IF ok THEN Closed
  ELSE IF breaker[e].state = "half" THEN [state |-> "open", until |-> now + OpenFor, fails |-> 1]
  ELSE [Closed EXCEPT !.fails = 1]

\* breaker_record: a success closes and resets; the K-th failure in a row, or a
\* failed probe, opens.
Recorded(e, ok) ==
  LET fails == breaker[e].fails + 1 IN
  IF ok THEN Closed
  ELSE IF breaker[e].state = "half" \/ fails >= K
  THEN [state |-> "open", until |-> now + OpenFor, fails |-> fails]
  ELSE [Closed EXCEPT !.fails = fails]

Record(e, ok) ==
  /\ breaker' = [breaker EXCEPT ![e] = Recorded(e, ok)]
  /\ streak' = [streak EXCEPT ![e] = IF ok THEN 0 ELSE IF @ < K THEN @ + 1 ELSE @]
  /\ failedAt' = [failedAt EXCEPT ![e] = IF ok THEN @ ELSE now]
-----------------------------------------------------------------------------
(* A call.                                                                  *)

\* guard_egress: the classes of hosts it tells apart, and the ones it lets pass.
Hosts == {"allowlisted", "public", "blocked", "unresolved", "unusable"}
GuardEgress(host) == host \in {"allowlisted", "public"}

Give(value) == call' = NoCall /\ result' = value

\* post_json up to the send: the guard, then the breaker.
Post(e, host, request) ==
  IF GuardEgress(host) /\ Allow(e)
  THEN /\ call' = request
       /\ breaker' = [breaker EXCEPT ![e] = Probing(e)]
       /\ result' = Given(<<>>)
  ELSE Give(Error) /\ UNCHANGED breaker

\* embed_batch and rerank: an empty array is answered without a call; a NULL
\* element is refused before one.
StartIndexed(e, host, n) ==
  /\ call = NoCall
  /\ IF n = 0 THEN Give(Given(<<>>)) /\ UNCHANGED breaker
     ELSE Post(e, host, [op |-> "indexed", to |-> e, n |-> n, attempt |-> 0])
  /\ UNCHANGED <<now, streak, failedAt>>

\* ai.if_batch: one chat for each chunk of the values that are not NULL.
StartBatch(e, host, vals) ==
  /\ call = NoCall
  /\ IF Owned(vals) = <<>> THEN Give(Given([i \in DOMAIN vals |-> Null])) /\ UNCHANGED breaker
     ELSE Post(e, host, [op |-> "batch", to |-> e, vals |-> vals, answers |-> <<>>,
                         attempt |-> 0])
  /\ UNCHANGED <<now, streak, failedAt>>

\* An attempt that may be repeated: 429, 502, 503 or no connection; the backoff
\* takes time.
Retry ==
  /\ call # NoCall /\ call.attempt < Retries
  /\ call' = [call EXCEPT !.attempt = @ + 1]
  /\ now' \in {now, now + 1} /\ now' <= MaxTime
  /\ UNCHANGED <<breaker, result, streak, failedAt>>

\* The warning of a retry is where PostgreSQL looks for a cancel: the call ends and
\* the breaker is told nothing, so that it may stay half-open.
CancelledAtRetry ==
  /\ call # NoCall /\ call.attempt < Retries
  /\ Give(Error)
  /\ UNCHANGED <<now, breaker, streak, failedAt>>

\* The last attempt failed, or one with a status that is not retried; a 4xx other
\* than 429 is the caller's fault and closes the breaker.
Fail(ok) ==
  /\ call # NoCall
  /\ Record(call.to, ok)
  /\ Give(Error)
  /\ UNCHANGED now

\* A 2xx whose body is not the JSON that was asked for.
Unparseable ==
  /\ call # NoCall
  /\ Record(call.to, TRUE)
  /\ Give(Error)
  /\ UNCHANGED now

ReceiveIndexed(data) ==
  /\ call.op = "indexed"
  /\ Record(call.to, TRUE)
  /\ Give(ParseIndexed(data, call.n))
  /\ UNCHANGED now

\* chat's answer to one chunk: an array of as many strings as there were prompts,
\* or an error (parse_batch); a string that is no yes or no is NULL.  The next
\* chunk is a call of its own.
Prompts == LET asked == Len(call.answers)
               owned == Owned(call.vals)
           IN  SubSeq(owned, asked + 1, Min({asked + Chunk, Len(owned)}))
Reply(prompts, unclear) ==
  [j \in DOMAIN prompts |-> IF j \in unclear THEN Null ELSE prompts[j]]
ReceiveChunk(unclear) ==
  /\ call.op = "batch"
  /\ Record(call.to, TRUE)
  /\ LET answers == call.answers \o Reply(Prompts, unclear)
     IN  IF Len(answers) = Len(Owned(call.vals))
         THEN Give(Given(Aligned(call.vals, answers)))
         ELSE /\ call' = [call EXCEPT !.answers = answers, !.attempt = 0]
              /\ UNCHANGED result
  /\ UNCHANGED now

Tick ==
  /\ call = NoCall /\ now < MaxTime
  /\ now' = now + 1
  /\ UNCHANGED <<breaker, call, result, streak, failedAt>>
-----------------------------------------------------------------------------
Answers == UNION {[1..k -> NoIndex..(MaxInputs + 1)] : k \in 0..MaxInputs}
Values == UNION {[1..k -> BOOLEAN] : k \in 0..MaxInputs}

CallNext ==
  \/ \E e \in Endpoints, host \in Hosts :
       \/ \E n \in 0..MaxInputs : StartIndexed(e, host, n)
       \/ \E vals \in Values : StartBatch(e, host, vals)
  \/ Retry
  \/ CancelledAtRetry
  \/ \E ok \in BOOLEAN : Fail(ok)
  \/ Unparseable
  \/ \E data \in Answers : ReceiveIndexed(data)
  \/ \E unclear \in SUBSET (1..Chunk) : ReceiveChunk(unclear)
  \/ Tick

CallSpec == CallInit /\ [][CallNext]_callVars
-----------------------------------------------------------------------------
LeftAlone ==
  \A e \in Endpoints :
    call = NoCall /\ call' # NoCall /\ call'.to = e
      => streak[e] < K \/ now >= failedAt[e] + OpenFor

\* M104: once K calls in a row have failed, no call reaches the endpoint before
\* the window after the last failure is over, through probes that fail, retries
\* that take time and calls of other endpoints.
DeadEndpointLeftAlone == [][LeftAlone]_callVars

\* Whatever order the answers come in, with or without an index, in one chunk or
\* more, and with NULLs among the values: a caller that gets an answer for a
\* position gets the answer to what stood there.
AnswersAligned ==
  \A i \in DOMAIN result.out : result.out[i] \in {i, Null}
=============================================================================
