----------------------------- MODULE BackendProofs -----------------------------
(***************************************************************************)
(* What one backend keeps between calls outside every transaction: the     *)
(* circuit breakers of the model endpoints (RemoteCalls), the slots        *)
(* through which a custom plan node tells the scan below it what it may    *)
(* leave out (VecFilter, ProjectScan), and what the planner's runs note    *)
(* for the swap of plan nodes (PlanSwap).                                  *)
(***************************************************************************)
EXTENDS VecFilter, ProjectScan, RemoteCalls, PlanSwap, SequenceTheorems, FiniteSetTheorems,
        TLAPS

-----------------------------------------------------------------------------
(* The circuit breaker.                                                    *)

Breaker == [state : {"closed", "open", "half"}, until : Nat, fails : Nat]

\* A call is made to an endpoint whose breaker let it pass, and counts as its probe
\* when it was open.
CallAddressed == call # NoCall =>
    "to" \in DOMAIN call /\ call.to \in Endpoints /\ breaker[call.to].state # "open"

CallTypes ==
    /\ now \in Nat
    /\ breaker \in [Endpoints -> Breaker]
    /\ streak \in [Endpoints -> Nat]
    /\ failedAt \in [Endpoints -> Nat]

\* A closed breaker counts the failures in a row and has not seen the K-th; an open
\* one keeps the time of the last; a half-open one has waited for it.
BreakerKnows(e) ==
    /\ breaker[e].state = "closed" => streak[e] = breaker[e].fails /\ streak[e] < K
    /\ breaker[e].state = "open" => breaker[e].until = failedAt[e] + OpenFor
    /\ breaker[e].state = "half" => now >= failedAt[e] + OpenFor

CallInv == CallAddressed /\ CallTypes /\ \A e \in Endpoints : BreakerKnows(e)

\* The start of the invariant: every breaker is closed and nothing has failed.
LEMMA CallInit_Inv ==
    ASSUME CallInit PROVE CallInv
BY CallAssumption DEF CallInit, CallInv, CallAddressed, CallTypes, BreakerKnows, Breaker, Closed,
                      NoCall

\* breaker_record keeps the account of every endpoint.
LEMMA Record_Inv ==
    ASSUME CallInv, NEW e \in Endpoints, NEW ok \in BOOLEAN, Record(e, ok), now' = now,
           breaker[e].state # "open"
    PROVE  CallTypes' /\ \A x \in Endpoints : BreakerKnows(x)'
<1>1. /\ breaker[e] \in Breaker /\ streak[e] \in Nat /\ failedAt[e] \in Nat /\ now \in Nat
      /\ BreakerKnows(e)
  BY DEF CallInv, CallTypes
<1>2. Recorded(e, ok) \in Breaker
  BY <1>1, CallAssumption DEF Recorded, Breaker, Closed
<1>3. CallTypes'
  BY <1>1, <1>2 DEF CallInv, CallTypes, Record
<1>4. ASSUME NEW x \in Endpoints PROVE BreakerKnows(x)'
  <2>1. CASE x # e
    <3>1. breaker'[x] = breaker[x] /\ streak'[x] = streak[x] /\ failedAt'[x] = failedAt[x]
      BY <2>1 DEF CallInv, CallTypes, Record
    <3>2. breaker[x] \in Breaker /\ streak[x] \in Nat /\ failedAt[x] \in Nat /\ BreakerKnows(x)
      BY DEF CallInv, CallTypes
    <3> HIDE DEF Record
    <3> QED BY <1>1, <3>1, <3>2, CallAssumption DEF BreakerKnows, Breaker
  <2>2. CASE x = e
    <3>1. /\ breaker'[e] = Recorded(e, ok)
          /\ streak'[e] = IF ok THEN 0 ELSE IF streak[e] < K THEN streak[e] + 1 ELSE streak[e]
          /\ failedAt'[e] = IF ok THEN failedAt[e] ELSE now
      BY DEF CallInv, CallTypes, Record
    <3> HIDE DEF Record
    <3>2. CASE ok
      BY <1>1, <2>2, <3>1, <3>2, CallAssumption DEF Recorded, Closed, BreakerKnows
    <3>3. CASE ~ok
      <4>1. CASE breaker[e].state = "half" \/ breaker[e].fails + 1 >= K
        <5>1. Recorded(e, ok) = [state |-> "open", until |-> now + OpenFor,
                                 fails |-> breaker[e].fails + 1]
          BY <3>3, <4>1 DEF Recorded
        <5> QED BY <1>1, <2>2, <3>1, <3>3, <5>1, CallAssumption DEF BreakerKnows
      <4>2. CASE ~(breaker[e].state = "half" \/ breaker[e].fails + 1 >= K)
        <5>1. Recorded(e, ok) = [Closed EXCEPT !.fails = breaker[e].fails + 1]
          BY <3>3, <4>2 DEF Recorded
        <5>2. Recorded(e, ok).state = "closed" /\ Recorded(e, ok).fails = breaker[e].fails + 1
          BY <5>1 DEF Closed
        <5> QED BY <1>1, <2>2, <3>1, <3>3, <4>2, <5>2, CallAssumption DEF BreakerKnows, Breaker
      <4> QED BY <4>1, <4>2
    <3> QED BY <3>2, <3>3
  <2> QED BY <2>1, <2>2
<1> QED BY <1>3, <1>4

\* post_json: the probe of an open breaker is sent after its window.
LEMMA Post_Inv ==
    ASSUME CallInv, NEW e \in Endpoints, NEW host, NEW request, Post(e, host, request),
           request # NoCall, "to" \in DOMAIN request, request.to = e,
           UNCHANGED <<now, streak, failedAt>>
    PROVE  CallInv'
<1>1. CASE GuardEgress(host) /\ Allow(e)
  <2>1. call' = request /\ breaker' = [breaker EXCEPT ![e] = Probing(e)]
    BY <1>1 DEF Post
  <2>2. breaker[e] \in Breaker /\ BreakerKnows(e) /\ now \in Nat /\ failedAt[e] \in Nat
    BY DEF CallInv, CallTypes
  <2>3. /\ Probing(e) \in Breaker
        /\ Probing(e).state = "closed" => Probing(e) = breaker[e]
        /\ Probing(e).state # "open"
        /\ Probing(e).state = "half" => now >= failedAt[e] + OpenFor
    BY <1>1, <2>2, CallAssumption DEF Probing, Breaker, Allow, BreakerKnows
  <2>4. CallTypes'
    BY <2>1, <2>3 DEF CallInv, CallTypes
  <2>5. ASSUME NEW x \in Endpoints PROVE BreakerKnows(x)'
    BY <2>1, <2>2, <2>3 DEF CallInv, CallTypes, BreakerKnows
  <2>6. breaker'[e].state # "open"
    BY <2>1, <2>3 DEF CallInv, CallTypes
  <2> QED BY <2>1, <2>4, <2>5, <2>6 DEF CallInv, CallAddressed
<1>2. CASE ~(GuardEgress(host) /\ Allow(e))
  BY <1>2 DEF Post, Give, CallInv, CallTypes, CallAddressed, BreakerKnows
<1> QED BY <1>1, <1>2

\* Every step keeps the account.
LEMMA CallNext_Inv ==
    ASSUME CallInv, [CallNext]_callVars PROVE CallInv'
<1>1. ASSUME NEW e \in Endpoints, NEW host \in Hosts, NEW n \in 0..MaxInputs,
             StartIndexed(e, host, n)
      PROVE  CallInv'
  <2>1. CASE n = 0
    BY <1>1, <2>1 DEF StartIndexed, Give, CallInv, CallTypes, CallAddressed, BreakerKnows
  <2>2. CASE n # 0
    BY <1>1, <2>2, Post_Inv DEF StartIndexed, NoCall
  <2> QED BY <2>1, <2>2
<1>2. ASSUME NEW e \in Endpoints, NEW host \in Hosts, NEW vals \in Values, StartBatch(e, host, vals)
      PROVE  CallInv'
  <2>1. CASE Owned(vals) = <<>>
    BY <1>2, <2>1 DEF StartBatch, Give, CallInv, CallTypes, CallAddressed, BreakerKnows
  <2>2. CASE Owned(vals) # <<>>
    BY <1>2, <2>2, Post_Inv DEF StartBatch, NoCall
  <2> QED BY <2>1, <2>2
<1>3. CASE Retry
  <2>1. CallAddressed'
    BY <1>3 DEF Retry, CallInv, CallAddressed
  <2>2. CallTypes'
    BY <1>3 DEF Retry, CallInv, CallTypes
  <2>3. ASSUME NEW x \in Endpoints PROVE BreakerKnows(x)'
    BY <1>3, CallAssumption DEF Retry, CallInv, CallTypes, BreakerKnows
  <2> QED BY <2>1, <2>2, <2>3 DEF CallInv
<1>4. ASSUME NEW ok \in BOOLEAN, Fail(ok) PROVE CallInv'
  BY <1>4, Record_Inv DEF Fail, Give, CallInv, CallAddressed
<1>5. CASE Unparseable
  BY <1>5, Record_Inv DEF Unparseable, Give, CallInv, CallAddressed
<1>6. ASSUME NEW data \in Answers, ReceiveIndexed(data) PROVE CallInv'
  <2>1. call # NoCall
    BY <1>6 DEF ReceiveIndexed, NoCall
  <2> QED BY <1>6, <2>1, Record_Inv DEF ReceiveIndexed, Give, CallInv, CallAddressed
<1>7. ASSUME NEW unclear \in SUBSET (1..Chunk), ReceiveChunk(unclear) PROVE CallInv'
  <2>0. call.op = "batch" /\ now' = now /\ Record(call.to, TRUE)
    BY <1>7, Zenon DEF ReceiveChunk
  <2>1. call # NoCall
    BY <2>0 DEF NoCall
  <2>2. call' = NoCall \/ \E answers : call' = [call EXCEPT !.answers = answers, !.attempt = 0]
    BY <1>7, Zenon DEF ReceiveChunk, Give
  <2>3. call.to \in Endpoints /\ breaker'[call.to].state # "open"
    BY <2>0, <2>1 DEF CallInv, CallAddressed, CallTypes, Record, Recorded, Closed
  <2>4. CallAddressed'
    BY <2>1, <2>2, <2>3 DEF CallInv, CallAddressed
  <2> QED BY <2>0, <2>1, <2>4, Record_Inv DEF CallInv, CallAddressed
<1>8. CASE Tick
  BY <1>8, CallAssumption DEF Tick, CallInv, CallTypes, CallAddressed, BreakerKnows
<1>9. CASE CancelledAtRetry
  BY <1>9 DEF CancelledAtRetry, Give, CallInv, CallTypes, CallAddressed, BreakerKnows
<1>10. CASE UNCHANGED callVars
  BY <1>10 DEF callVars, CallInv, CallTypes, CallAddressed, BreakerKnows
<1> QED BY <1>1, <1>2, <1>3, <1>4, <1>5, <1>6, <1>7, <1>8, <1>9, <1>10 DEF CallNext

\* post_json sends a request to an endpoint that breaker_allow lets it call only.
LEMMA Post_Allowed ==
    ASSUME CallInv, NEW e \in Endpoints, NEW host, NEW request, Post(e, host, request),
           call' # NoCall
    PROVE  streak[e] < K \/ now >= failedAt[e] + OpenFor
<1>1. Allow(e)
  BY DEF Post, Give
<1>2. breaker[e] \in Breaker /\ BreakerKnows(e)
  BY DEF CallInv, CallTypes
<1> QED BY <1>1, <1>2 DEF Allow, Breaker, BreakerKnows

\* A step that starts a call leaves a dead endpoint alone.
LEMMA CallNext_LeftAlone ==
    ASSUME CallInv, [CallNext]_callVars PROVE [LeftAlone]_callVars
<1>1. ASSUME NEW e \in Endpoints, NEW host, NEW request, Post(e, host, request),
             request.to = e
      PROVE  LeftAlone
  BY <1>1, Post_Allowed DEF LeftAlone, Post, Give
<1>2. ASSUME NEW e \in Endpoints, NEW host \in Hosts, NEW n \in 0..MaxInputs,
             StartIndexed(e, host, n)
      PROVE  LeftAlone
  <2>1. CASE n = 0
    BY <1>2, <2>1 DEF StartIndexed, Give, LeftAlone
  <2>2. CASE n # 0
    BY <1>1, <1>2, <2>2 DEF StartIndexed
  <2> QED BY <2>1, <2>2
<1>3. ASSUME NEW e \in Endpoints, NEW host \in Hosts, NEW vals \in Values, StartBatch(e, host, vals)
      PROVE  LeftAlone
  <2>1. CASE Owned(vals) = <<>>
    BY <1>3, <2>1 DEF StartBatch, Give, LeftAlone
  <2>2. CASE Owned(vals) # <<>>
    BY <1>1, <1>3, <2>2 DEF StartBatch
  <2> QED BY <2>1, <2>2
<1>4. ASSUME call # NoCall \/ call' = NoCall PROVE LeftAlone
  BY <1>4 DEF LeftAlone
<1>5. Retry => call # NoCall
  BY DEF Retry
<1>6. \A ok \in BOOLEAN : Fail(ok) => call # NoCall
  BY DEF Fail
<1>7. Unparseable => call # NoCall
  BY DEF Unparseable
<1>8. \A data \in Answers : ReceiveIndexed(data) => call # NoCall
  BY DEF ReceiveIndexed, NoCall
<1>9. \A unclear \in SUBSET (1..Chunk) : ReceiveChunk(unclear) => call # NoCall
  BY DEF ReceiveChunk, NoCall
<1>10. Tick => call' = NoCall
  BY DEF Tick
<1>11. CancelledAtRetry => call # NoCall
  BY DEF CancelledAtRetry
<1> QED BY <1>2, <1>3, <1>4, <1>5, <1>6, <1>7, <1>8, <1>9, <1>10, <1>11 DEF CallNext

\* http.rs, post_json, breaker_allow and breaker_record: after K failures in a row
\* no call reaches an endpoint before the window after the last is over.
THEOREM DeadEndpoints == CallSpec => DeadEndpointLeftAlone
<1>1. CallInit => CallInv
  BY CallInit_Inv
<1>2. CallInv /\ [CallNext]_callVars => CallInv'
  BY CallNext_Inv
<1>3. CallInv /\ [CallNext]_callVars => [LeftAlone]_callVars
  BY CallNext_LeftAlone
<1> QED BY <1>1, <1>2, <1>3, PTL DEF CallSpec, DeadEndpointLeftAlone

-----------------------------------------------------------------------------
(* The answers of a batch.                                                 *)

OwnedFold == INSTANCE FoldFacts WITH Op <- KeepOwned

LEMMA Owned_Append ==
    ASSUME NEW vals, NEW N, NEW s \in Seq(N), NEW x \in N
    PROVE  /\ OwnedFold!Fold(vals, <<>>, s) \in Seq(N)
           /\ OwnedFold!Fold(vals, <<>>, Append(s, x))
                = KeepOwned(vals, OwnedFold!Fold(vals, <<>>, s), x)
<1> DEFINE W == Seq(N)
<1>1. <<>> \in W /\ \A a \in W, i \in N : KeepOwned(vals, a, i) \in W
  BY DEF KeepOwned
<1> HIDE DEF W
<1>2. OwnedFold!Fold(vals, <<>>, s) \in W
  BY <1>1, OwnedFold!Fold_In
<1>3. OwnedFold!Fold(vals, <<>>, Append(s, x))
        = KeepOwned(vals, OwnedFold!Fold(vals, <<>>, s), x)
  BY <1>1, OwnedFold!Fold_Append
<1> QED BY <1>2, <1>3 DEF W

\* Every value that is not NULL has a place among those that are asked.
LEMMA Owned_All ==
    ASSUME NEW n \in Nat, NEW vals \in [1 .. n -> BOOLEAN]
    PROVE  /\ Owned(vals) \in Seq(Nat)
           /\ \A i \in 1 .. n : vals[i] => \E j \in DOMAIN Owned(vals) : Owned(vals)[j] = i
<1> DEFINE all == [i \in DOMAIN vals |-> i]
           W == Seq(Nat)
           Kept(s) == OwnedFold!Fold(vals, <<>>, s)
           Has(s) == \A i \in DOMAIN s : vals[s[i]] => \E j \in DOMAIN Kept(s) : Kept(s)[j] = s[i]
           P == {s \in Seq(Nat) : Has(s)}
<1>1. <<>> \in W /\ \A a \in W, i \in Nat : KeepOwned(vals, a, i) \in W
  BY DEF KeepOwned
<1>2. <<>> \in P
  OBVIOUS
<1>3. ASSUME NEW s \in Seq(Nat), NEW x \in Nat, s \in P PROVE Append(s, x) \in P
  <2> DEFINE old == Kept(s)
             new == Kept(Append(s, x))
  <2>1. old \in W /\ new = KeepOwned(vals, old, x)
    <3> QED BY Owned_Append
  <2>2. \A i \in DOMAIN s : vals[s[i]] => \E j \in DOMAIN old : old[j] = s[i]
    BY <1>3
  <2> HIDE DEF old, new
  <2>3. ASSUME NEW i \in DOMAIN Append(s, x), vals[Append(s, x)[i]]
        PROVE  \E j \in DOMAIN new : new[j] = Append(s, x)[i]
    <3>1. CASE i \in DOMAIN s
      <4>1. Append(s, x)[i] = s[i]
        BY <3>1
      <4>2. PICK j \in DOMAIN old : old[j] = s[i]
        BY <2>2, <2>3, <3>1, <4>1
      <4>3. j \in DOMAIN new /\ new[j] = old[j]
        BY <2>1, <4>2 DEF KeepOwned
      <4> QED BY <4>1, <4>2, <4>3
    <3>2. CASE i = Len(s) + 1
      <4>1. Append(s, x)[i] = x
        BY <3>2
      <4>2. new = Append(old, x)
        BY <2>1, <2>3, <4>1 DEF KeepOwned
      <4>3. Len(old) + 1 \in DOMAIN new /\ new[Len(old) + 1] = x
        BY <2>1, <4>2
      <4> QED BY <4>1, <4>3
    <3>3. i \in DOMAIN s \/ i = Len(s) + 1
      OBVIOUS
    <3> QED BY <3>1, <3>2, <3>3
  <2>4. Append(s, x) \in Seq(Nat)
    OBVIOUS
  <2>5. Has(Append(s, x))
    BY <2>3 DEF new
  <2> HIDE DEF Has
  <2> QED BY <2>4, <2>5
<1>4. all \in Seq(Nat) /\ DOMAIN all = 1 .. n /\ \A i \in 1 .. n : all[i] = i
  OBVIOUS
<1>5. Owned(vals) = Kept(all)
  BY DEF Owned, FoldLeft, MapThenFoldSet, Max, OwnedFold!Fold, OwnedFold!Greatest
<1> HIDE DEF P
<1>6. all \in P
  BY <1>2, <1>3, <1>4, OwnedFold!SequenceInduction
<1>7. Kept(all) \in W
  <2> HIDE DEF W, all
  <2> QED BY <1>1, <1>4, OwnedFold!Fold_In
<1> HIDE DEF all, Kept
<1>8. Has(all)
  BY <1>6 DEF P
<1> QED BY <1>4, <1>5, <1>7, <1>8

\* An answer of as many items as inputs, with indices in range and none used twice,
\* has an item for each input.
LEMMA ParseIndexed_Aligned ==
    ASSUME NEW data, NEW n \in Nat, data \in Seq(Nat)
    PROVE  LET out == ParseIndexed(data, n).out IN \A i \in DOMAIN out : out[i] = i
<1> DEFINE S == Slots(data)
           out == ParseIndexed(data, n).out
<1>1. CASE Len(data) # n \/ (\E pos \in 1 .. n : Slot(data, pos) > n) \/ ~IsInjective(S)
  <2>1. out = <<>>
    BY <1>1 DEF ParseIndexed, Error
  <2> QED BY <2>1
<1>2. CASE Len(data) = n /\ (\A pos \in 1 .. n : ~(Slot(data, pos) > n)) /\ IsInjective(S)
  <2>1. DOMAIN data = 1 .. n /\ \A pos \in 1 .. n : data[pos] \in Nat
    BY <1>2
  <2>2. \A pos \in 1 .. n : S[pos] = Slot(data, pos) /\ S[pos] \in 1 .. n
    BY <1>2, <2>1 DEF Slots, Slot, NoIndex
  <2>3. S \in [1 .. n -> 1 .. n]
    BY <2>1, <2>2 DEF Slots
  <2> HIDE DEF S
  <2>4. S \in Injection(1 .. n, 1 .. n)
    BY <1>2, <2>3 DEF Injection
  <2>5. IsFiniteSet(1 .. n)
    BY FS_Interval
  <2>6. S \in Surjection(1 .. n, 1 .. n)
    BY <2>4, <2>5, FS_Injection
  <2>7. \A i \in 1 .. n : \E pos \in 1 .. n : S[pos] = i
    BY <2>6 DEF Surjection
  <2>8. out = [i \in 1 .. n |-> S[CHOOSE pos \in 1 .. n : Slot(data, pos) = i]]
    <3>1. ~(Len(data) # n \/ (\E pos \in 1 .. n : Slot(data, pos) > n) \/ ~IsInjective(S))
      BY <1>2
    <3> QED BY <3>1 DEF ParseIndexed, Given, S
  <2>9. \A i \in 1 .. n : S[CHOOSE pos \in 1 .. n : Slot(data, pos) = i] = i
    BY <2>2, <2>7
  <2> HIDE DEF out
  <2>10. \A i \in DOMAIN out : out[i] = i
    BY <2>8, <2>9
  <2> QED BY <2>10 DEF out
<1> QED BY <1>1, <1>2

\* What is to come back for each value asked so far.
Answering(vals, answers) ==
    /\ answers \in Seq(Nat) /\ Len(answers) <= Len(Owned(vals))
    /\ \A j \in 1 .. Len(answers) : answers[j] \in {Owned(vals)[j], Null}

AlignInv ==
    /\ AnswersAligned
    /\ call # NoCall /\ call.op = "indexed" => call.n \in Nat
    /\ call # NoCall /\ call.op = "batch" =>
         call.vals \in Values /\ Answering(call.vals, call.answers)

LEMMA Aligned_Aligned ==
    ASSUME NEW vals \in Values, NEW answers, Answering(vals, answers),
           Len(answers) = Len(Owned(vals))
    PROVE  \A i \in DOMAIN Aligned(vals, answers) : Aligned(vals, answers)[i] \in {i, Null}
<1>1. PICK n \in Nat : vals \in [1 .. n -> BOOLEAN]
  BY CallAssumption DEF Values
<1>2. /\ Owned(vals) \in Seq(Nat)
      /\ \A i \in 1 .. n : vals[i] => \E j \in DOMAIN Owned(vals) : Owned(vals)[j] = i
  BY <1>1, Owned_All
<1>3. DOMAIN answers = DOMAIN Owned(vals) /\ DOMAIN answers = 1 .. Len(answers)
  BY <1>2 DEF Answering
<1> SUFFICES ASSUME NEW i \in 1 .. n PROVE Aligned(vals, answers)[i] \in {i, Null}
  BY <1>1 DEF Aligned
<1>4. CASE ~vals[i]
  BY <1>1, <1>4 DEF Aligned
<1>5. CASE vals[i]
  <2> DEFINE j == CHOOSE j \in DOMAIN answers : Owned(vals)[j] = i
  <2>1. j \in DOMAIN answers /\ Owned(vals)[j] = i
    BY <1>2, <1>3, <1>5
  <2>2. Aligned(vals, answers)[i] = answers[j]
    BY <1>1, <1>5 DEF Aligned
  <2> HIDE DEF j
  <2>3. answers[j] \in {Owned(vals)[j], Null}
    BY <1>3, <2>1 DEF Answering
  <2> QED BY <2>1, <2>2, <2>3
<1> QED BY <1>4, <1>5

LEMMA Slice ==
    ASSUME NEW T, NEW s \in Seq(T), NEW a \in Nat, NEW b \in Nat, a <= b, b <= Len(s)
    PROVE  /\ SubSeq(s, a + 1, b) \in Seq(T) /\ Len(SubSeq(s, a + 1, b)) = b - a
           /\ \A j \in 1 .. b - a : SubSeq(s, a + 1, b)[j] = s[a + j]
<1> DEFINE c == a + 1
<1>1. c \in Int /\ \A i \in c .. b : s[i] \in T
  OBVIOUS
<1> HIDE DEF c
<1>2. /\ SubSeq(s, c, b) \in Seq(T)
      /\ Len(SubSeq(s, c, b)) = IF c <= b THEN b - c + 1 ELSE 0
      /\ \A i \in 1 .. b - c + 1 : SubSeq(s, c, b)[i] = s[c + i - 1]
  BY <1>1, SubSeqProperties
<1>3. b - c + 1 = b - a /\ (~(c <= b) => b - a = 0) /\ \A i \in Int : c + i - 1 = a + i
  BY DEF c
<1>4. /\ Len(SubSeq(s, c, b)) = b - a
      /\ \A j \in 1 .. b - a : SubSeq(s, c, b)[j] = s[a + j]
  BY <1>2, <1>3
<1> QED BY <1>2, <1>4 DEF c

LEMMA Reply_Of ==
    ASSUME NEW prompts \in Seq(Nat), NEW unclear
    PROVE  LET reply == Reply(prompts, unclear) IN
           /\ reply \in Seq(Nat) /\ Len(reply) = Len(prompts)
           /\ \A j \in 1 .. Len(prompts) : reply[j] \in {prompts[j], Null}
<1> DEFINE d == Len(prompts)
           reply == Reply(prompts, unclear)
<1>1. d \in Nat /\ DOMAIN prompts = 1 .. d /\ \A j \in 1 .. d : prompts[j] \in Nat
  OBVIOUS
<1> HIDE DEF d
<1>2. reply \in [1 .. d -> Nat] /\ \A j \in 1 .. d : reply[j] \in {prompts[j], Null}
  BY <1>1 DEF Null, Reply
<1> HIDE DEF reply
<1>3. reply \in Seq(Nat) /\ Len(reply) = d
  BY <1>1, <1>2
<1> QED BY <1>2, <1>3 DEF d, reply

\* Answers to the next prompts, each to its own or none.
LEMMA Answers_On ==
    ASSUME NEW owned \in Seq(Nat), NEW answers \in Seq(Nat), NEW reply \in Seq(Nat),
           NEW m \in Nat, m = Len(answers), NEW last \in Nat, m <= last,
           Len(reply) = last - m,
           \A j \in 1 .. m : answers[j] \in {owned[j], Null},
           \A j \in 1 .. last - m : reply[j] \in {owned[m + j], Null}
    PROVE  /\ answers \o reply \in Seq(Nat) /\ Len(answers \o reply) = last
           /\ \A j \in 1 .. last : (answers \o reply)[j] \in {owned[j], Null}
<1>1. /\ answers \o reply \in Seq(Nat) /\ Len(answers \o reply) = last
      /\ \A j \in 1 .. last : (answers \o reply)[j] = IF j <= m THEN answers[j] ELSE reply[j - m]
  <2>1. answers \o reply \in Seq(Nat)
    OBVIOUS
  <2>2. Len(answers \o reply) = last
    OBVIOUS
  <2>3. ASSUME NEW j \in 1 .. last
        PROVE  (answers \o reply)[j] = IF j <= m THEN answers[j] ELSE reply[j - m]
    <3>1. j \in 1 .. Len(answers) + Len(reply)
      OBVIOUS
    <3> QED BY <3>1
  <2> QED BY <2>1, <2>2, <2>3
<1>2. ASSUME NEW j \in 1 .. last PROVE (answers \o reply)[j] \in {owned[j], Null}
  <2>1. CASE j <= m
    BY <1>1, <2>1
  <2>2. CASE ~(j <= m)
    <3>1. j - m \in 1 .. last - m /\ m + (j - m) = j
      BY <2>2
    <3>2. reply[j - m] \in {owned[j], Null}
      BY <3>1
    <3> QED BY <1>1, <2>2, <3>2
  <2> QED BY <2>1, <2>2
<1> QED BY <1>1, <1>2

\* The next chunk ends within the prompts.
LEMMA Chunk_End ==
    ASSUME NEW m \in Nat, NEW k \in Nat, m <= k
    PROVE  LET last == Min({m + Chunk, k}) IN last \in Nat /\ m <= last /\ last <= k
<1>1. \E x \in {m + Chunk, k} : \A y \in {m + Chunk, k} : x <= y
  BY CallAssumption
<1> DEFINE last == Min({m + Chunk, k})
<1>2. last \in {m + Chunk, k} /\ \A y \in {m + Chunk, k} : last <= y
  BY <1>1 DEF Min
<1> HIDE DEF last
<1>3. last \in Nat /\ m <= last /\ last <= k
  BY <1>2, CallAssumption
<1> QED BY <1>3 DEF last

LEMMA Chunk_Answering ==
    ASSUME NEW vals \in Values, NEW answers, Answering(vals, answers), NEW unclear
    PROVE  LET prompts == SubSeq(Owned(vals), Len(answers) + 1,
                                 Min({Len(answers) + Chunk, Len(Owned(vals))}))
           IN  Answering(vals, answers \o Reply(prompts, unclear))
<1> DEFINE m == Len(answers)
           owned == Owned(vals)
           last == Min({m + Chunk, Len(owned)})
           prompts == SubSeq(owned, m + 1, last)
           reply == Reply(prompts, unclear)
           N == Nat
<1>1. PICK n \in Nat : vals \in [1 .. n -> BOOLEAN]
  BY CallAssumption DEF Values
<1>2. /\ owned \in Seq(Nat) /\ Len(owned) \in Nat /\ answers \in Seq(Nat) /\ m \in Nat
      /\ m <= Len(owned) /\ \A j \in 1 .. m : answers[j] \in {owned[j], Null}
  BY <1>1, Owned_All DEF Answering
<1>3. m = Len(answers)
  OBVIOUS
<1> HIDE DEF owned, m
<1>4. last \in Nat /\ m <= last /\ last <= Len(owned)
  BY <1>2, Chunk_End
<1> HIDE DEF last
<1>5. /\ prompts \in Seq(Nat) /\ Len(prompts) = last - m
      /\ \A j \in 1 .. last - m : prompts[j] = owned[m + j]
  <2>1. owned \in Seq(N) /\ m \in Nat /\ last \in Nat /\ m <= last /\ last <= Len(owned)
    BY <1>2, <1>4
  <2> HIDE DEF N
  <2>2. /\ SubSeq(owned, m + 1, last) \in Seq(N) /\ Len(SubSeq(owned, m + 1, last)) = last - m
        /\ \A j \in 1 .. last - m : SubSeq(owned, m + 1, last)[j] = owned[m + j]
    BY <2>1, Slice
  <2> QED BY <2>2 DEF N
<1> HIDE DEF prompts
<1>6. /\ reply \in Seq(Nat) /\ Len(reply) = Len(prompts)
      /\ \A j \in 1 .. Len(prompts) : reply[j] \in {prompts[j], Null}
  BY <1>5, Reply_Of
<1> HIDE DEF reply
<1>7. Len(reply) = last - m /\ \A j \in 1 .. last - m : reply[j] \in {owned[m + j], Null}
  BY <1>5, <1>6
<1>8. /\ answers \o reply \in Seq(Nat) /\ Len(answers \o reply) = last
      /\ \A j \in 1 .. last : (answers \o reply)[j] \in {owned[j], Null}
  BY <1>2, <1>3, <1>4, <1>6, <1>7, Answers_On
<1> QED BY <1>4, <1>8 DEF Answering, owned, m, last, prompts, reply

LEMMA AlignInv_Next ==
    ASSUME AlignInv, [CallNext]_callVars PROVE AlignInv'
<1>1. ASSUME NEW e \in Endpoints, NEW host \in Hosts, NEW n \in 0 .. MaxInputs,
             StartIndexed(e, host, n)
      PROVE  AlignInv'
  <2>1. n \in Nat
    BY CallAssumption
  <2>2. result'.out = <<>>
    BY <1>1 DEF StartIndexed, Give, Given, Post, Error
  <2>3. call' = NoCall \/ (call'.op = "indexed" /\ call'.n = n)
    BY <1>1 DEF StartIndexed, Give, Post
  <2> QED BY <2>1, <2>2, <2>3 DEF AlignInv, AnswersAligned
<1>2. ASSUME NEW e \in Endpoints, NEW host \in Hosts, NEW vals \in Values,
             StartBatch(e, host, vals)
      PROVE  AlignInv'
  <2>1. \A i \in DOMAIN result'.out : result'.out[i] = Null
    BY <1>2 DEF StartBatch, Give, Given, Post, Error
  <2>2. call' = NoCall \/ (call'.op = "batch" /\ call'.vals = vals /\ call'.answers = <<>>)
    BY <1>2 DEF StartBatch, Give, Post
  <2>3. Answering(vals, <<>>)
    <3>1. PICK n \in Nat : vals \in [1 .. n -> BOOLEAN]
      BY CallAssumption DEF Values
    <3>2. Owned(vals) \in Seq(Nat)
      BY <3>1, Owned_All
    <3> QED BY <3>2 DEF Answering
  <2> QED BY <2>1, <2>2, <2>3 DEF AlignInv, AnswersAligned
<1>3. CASE Retry
  <2>1. call' = [call EXCEPT !.attempt = @ + 1] /\ result' = result /\ call # NoCall
    BY <1>3 DEF Retry
  <2>2. /\ call'.op = call.op /\ call'.n = call.n /\ call'.vals = call.vals
        /\ call'.answers = call.answers
    BY <2>1
  <2> QED BY <2>1, <2>2 DEF AlignInv, AnswersAligned
<1>4. ASSUME call' = NoCall, result'.out = <<>> PROVE AlignInv'
  BY <1>4 DEF AlignInv, AnswersAligned
<1>5. ASSUME NEW ok \in BOOLEAN, Fail(ok) PROVE AlignInv'
  BY <1>4, <1>5 DEF Fail, Give, Error
<1>6. CASE Unparseable
  BY <1>4, <1>6 DEF Unparseable, Give, Error
<1>7. ASSUME NEW data \in Answers, ReceiveIndexed(data) PROVE AlignInv'
  <2>1. data \in Seq(Nat)
    <3>1. PICK k \in 0 .. MaxInputs : data \in [1 .. k -> NoIndex .. MaxInputs + 1]
      BY DEF Answers
    <3>2. k \in Nat /\ \A i \in 1 .. k : data[i] \in Nat
      BY <3>1, CallAssumption DEF NoIndex
    <3> QED BY <3>1, <3>2
  <2>2. call' = NoCall /\ result' = ParseIndexed(data, call.n) /\ call.n \in Nat
    BY <1>7 DEF ReceiveIndexed, Give, AlignInv, NoCall
  <2>3. \A i \in DOMAIN result'.out : result'.out[i] = i
    BY <2>1, <2>2, ParseIndexed_Aligned
  <2> QED BY <2>2, <2>3 DEF AlignInv, AnswersAligned
<1>8. ASSUME NEW unclear \in SUBSET (1 .. Chunk), ReceiveChunk(unclear) PROVE AlignInv'
  <2> DEFINE answers == call.answers \o Reply(Prompts, unclear)
  <2>1. call.op = "batch" /\ call # NoCall
    BY <1>8 DEF ReceiveChunk, NoCall
  <2>2. call.vals \in Values /\ Answering(call.vals, call.answers)
    BY <2>1 DEF AlignInv
  <2>3. Prompts = SubSeq(Owned(call.vals), Len(call.answers) + 1,
                         Min({Len(call.answers) + Chunk, Len(Owned(call.vals))}))
    BY DEF Prompts
  <2>4. Answering(call.vals, answers)
    BY <2>2, <2>3, Chunk_Answering
  <2>5. \/ /\ Len(answers) = Len(Owned(call.vals))
           /\ call' = NoCall /\ result'.out = Aligned(call.vals, answers)
        \/ call' = [call EXCEPT !.answers = answers, !.attempt = 0] /\ result' = result
    BY <1>8 DEF ReceiveChunk, Give, Given
  <2> HIDE DEF answers
  <2>6. CASE Len(answers) = Len(Owned(call.vals))
             /\ call' = NoCall /\ result'.out = Aligned(call.vals, answers)
    BY <2>2, <2>4, <2>6, Aligned_Aligned DEF AlignInv, AnswersAligned
  <2>7. CASE call' = [call EXCEPT !.answers = answers, !.attempt = 0] /\ result' = result
    <3>1. call'.op = "batch" /\ call'.vals = call.vals
      BY <2>1, <2>7
    <3>2. call'.answers = answers \/ call'.answers = call.answers
      BY <2>7
    <3> QED BY <2>2, <2>4, <2>7, <3>1, <3>2 DEF AlignInv, AnswersAligned
  <2> QED BY <2>5, <2>6, <2>7
<1>9. CASE Tick
  BY <1>9 DEF Tick, AlignInv, AnswersAligned
<1>10. CASE CancelledAtRetry
  BY <1>4, <1>10 DEF CancelledAtRetry, Give, Error
<1>11. CASE UNCHANGED callVars
  BY <1>11 DEF callVars, AlignInv, AnswersAligned
<1> QED BY <1>1, <1>2, <1>3, <1>5, <1>6, <1>7, <1>8, <1>9, <1>10, <1>11 DEF CallNext

\* A caller that gets an answer for a position gets the answer to what stood there,
\* in one chunk or more, in whatever order the endpoint answers.
THEOREM AnswersOwnInputs == CallSpec => []AnswersAligned
<1>1. CallInit => AlignInv
  BY DEF CallInit, AlignInv, AnswersAligned, Given
<1>2. AlignInv /\ [CallNext]_callVars => AlignInv'
  BY AlignInv_Next
<1>3. AlignInv => AnswersAligned
  BY DEF AlignInv
<1> QED BY <1>1, <1>2, <1>3, PTL DEF CallSpec

-----------------------------------------------------------------------------
(* Pulls and subtransactions nest: what custom plan nodes of both kinds    *)
(* rely on.  ps: the pulls under way; ss: per open subtransaction, the     *)
(* pulls it began under; depth: per address, how many subtransactions were *)
(* open when the node there began.                                         *)

Nested(ps, ss, depth) ==
    /\ \A k \in DOMAIN ss : ss[k] <= Len(ps)
    /\ \A j, k \in DOMAIN ss : j <= k => ss[j] <= ss[k]
    /\ \A k \in DOMAIN ss : \A i \in 1..ss[k] : depth[ps[i].node] < k

\* No node is pulled within its own pull.
PulledOnce(ps) == \A i, j \in DOMAIN ps : ps[i].node = ps[j].node => i = j

\* A prefix of a sequence.
LEMMA PrefixOfSeq ==
    ASSUME NEW S, NEW s \in Seq(S), NEW n \in Nat, n <= Len(s)
    PROVE  /\ SubSeq(s, 1, n) \in Seq(S) /\ Len(SubSeq(s, 1, n)) = n
           /\ \A i \in 1..n : SubSeq(s, 1, n)[i] = s[i] /\ i \in DOMAIN s
<1>1. SubSeq(s, 1, n) \in Seq(S)
  OBVIOUS
<1>2. Len(SubSeq(s, 1, n)) = n
  OBVIOUS
<1>3. \A i \in 1..n : SubSeq(s, 1, n)[i] = s[i] /\ i \in DOMAIN s
  OBVIOUS
<1> QED BY <1>1, <1>2, <1>3

\* What is left when the last element goes.
LEMMA FrontOfSeq ==
    ASSUME NEW S, NEW s \in Seq(S), s # <<>>
    PROVE  /\ Len(s) \in Nat \ {0} /\ Last(s) = s[Len(s)] /\ Last(s) \in S
           /\ Front(s) \in Seq(S) /\ Len(Front(s)) = Len(s) - 1
           /\ \A i \in 1..Len(s) - 1 : Front(s)[i] = s[i]
<1>1. Len(s) \in Nat \ {0} /\ s[Len(s)] \in S
  OBVIOUS
<1>2. /\ SubSeq(s, 1, Len(s) - 1) \in Seq(S) /\ Len(SubSeq(s, 1, Len(s) - 1)) = Len(s) - 1
      /\ \A i \in 1..Len(s) - 1 : SubSeq(s, 1, Len(s) - 1)[i] = s[i]
  BY <1>1, PrefixOfSeq
<1> QED BY <1>1, <1>2 DEF Front, Last

\* exec_custom_scan begins inside every open subtransaction.
LEMMA Nested_Push ==
    ASSUME NEW P, NEW ps \in Seq(P), NEW p \in P, NEW ss \in Seq(Nat), NEW depth,
           Nested(ps, ss, depth)
    PROVE  /\ Append(ps, p) \in Seq(P) /\ Len(Append(ps, p)) = Len(ps) + 1
           /\ \A i \in 1..Len(ps) : Append(ps, p)[i] = ps[i]
           /\ Append(ps, p)[Len(ps) + 1] = p
           /\ Nested(Append(ps, p), ss, depth)
<1>1. /\ Append(ps, p) \in Seq(P) /\ Len(Append(ps, p)) = Len(ps) + 1
      /\ \A i \in 1..Len(ps) : Append(ps, p)[i] = ps[i]
      /\ Append(ps, p)[Len(ps) + 1] = p
  OBVIOUS
<1>2. \A k \in DOMAIN ss : ss[k] \in Nat
  OBVIOUS
<1>3. Len(ps) \in Nat
  OBVIOUS
<1> QED BY <1>1, <1>2, <1>3 DEF Nested

\* exec_custom_scan ends inside every open subtransaction.
LEMMA Nested_Pop ==
    ASSUME NEW P, NEW ps \in Seq(P), NEW ss \in Seq(Nat), NEW depth, Nested(ps, ss, depth),
           Len(ps) > IF ss = <<>> THEN 0 ELSE Last(ss)
    PROVE  /\ ps # <<>> /\ Front(ps) \in Seq(P) /\ Len(Front(ps)) = Len(ps) - 1
           /\ \A i \in 1..Len(ps) - 1 : Front(ps)[i] = ps[i]
           /\ Nested(Front(ps), ss, depth)
<1>0. ps # <<>>
  <2>1. CASE ss = <<>>
    BY <2>1
  <2>2. CASE ss # <<>>
    <3>1. Last(ss) \in Nat
      BY <2>2, FrontOfSeq
    <3> QED BY <2>2, <3>1
  <2> QED BY <2>1, <2>2
<1>1. /\ Len(ps) \in Nat \ {0} /\ Front(ps) \in Seq(P) /\ Len(Front(ps)) = Len(ps) - 1
      /\ \A i \in 1..Len(ps) - 1 : Front(ps)[i] = ps[i]
  BY <1>0, FrontOfSeq
<1>2. \A k \in DOMAIN ss : ss[k] \in Nat /\ ss[k] <= Len(ps) - 1
  <2> TAKE k \in DOMAIN ss
  <2>1. /\ ss # <<>> /\ Len(ss) \in DOMAIN ss /\ k <= Len(ss) /\ ss[k] \in Nat
        /\ ss[Len(ss)] \in Nat
    OBVIOUS
  <2> QED BY <1>1, <2>1 DEF Nested, Last
<1>3. Nested(Front(ps), ss, depth)
  <2>1. \A k \in DOMAIN ss : \A i \in 1..ss[k] : i \in 1..Len(ps) - 1 /\ Front(ps)[i] = ps[i]
    <3> TAKE k \in DOMAIN ss
    <3>1. ss[k] \in Nat /\ ss[k] <= Len(ps) - 1
      BY <1>2
    <3> QED BY <1>1, <3>1
  <2> QED BY <1>1, <1>2, <2>1 DEF Nested
<1> QED BY <1>0, <1>1, <1>3

\* A subtransaction begins.
LEMMA Nested_Open ==
    ASSUME NEW P, NEW ps \in Seq(P), NEW ss \in Seq(Nat), NEW depth, Nested(ps, ss, depth),
           \A i \in DOMAIN ps : depth[ps[i].node] <= Len(ss) /\ depth[ps[i].node] \in Nat
    PROVE  Append(ss, Len(ps)) \in Seq(Nat) /\ Nested(ps, Append(ss, Len(ps)), depth)
<1> DEFINE new == Append(ss, Len(ps))
<1>1. /\ new \in Seq(Nat) /\ DOMAIN new = 1..Len(ss) + 1 /\ new[Len(ss) + 1] = Len(ps)
      /\ \A k \in 1..Len(ss) : new[k] = ss[k]
      /\ Len(ss) \in Nat /\ Len(ps) \in Nat /\ DOMAIN ps = 1..Len(ps)
      /\ DOMAIN ss = 1..Len(ss) /\ \A k \in 1..Len(ss) : ss[k] \in Nat
  OBVIOUS
<1> HIDE DEF new
<1>2. ASSUME NEW k \in DOMAIN new
      PROVE  new[k] \in Nat /\ new[k] <= Len(ps) /\ \A i \in 1..new[k] : depth[ps[i].node] < k
  <2>1. CASE k \in 1..Len(ss)
    BY <1>1, <2>1 DEF Nested
  <2>2. CASE k = Len(ss) + 1
    <3>1. new[k] = Len(ps) /\ \A i \in 1..Len(ps) : depth[ps[i].node] <= Len(ss)
                                             /\ depth[ps[i].node] \in Nat
      BY <1>1, <2>2
    <3> QED BY <1>1, <2>2, <3>1
  <2> QED BY <1>1, <2>1, <2>2
<1>3. ASSUME NEW j \in DOMAIN new, NEW k \in DOMAIN new, j <= k PROVE new[j] <= new[k]
  <2>1. CASE k = Len(ss) + 1
    BY <1>1, <1>2, <2>1
  <2>2. CASE k \in 1..Len(ss)
    <3>1. j \in DOMAIN ss /\ k \in DOMAIN ss /\ new[j] = ss[j] /\ new[k] = ss[k]
      BY <1>1, <1>3, <2>2
    <3> QED BY <1>3, <3>1 DEF Nested
  <2> QED BY <1>1, <2>1, <2>2
<1>4. Nested(ps, new, depth)
  BY <1>2, <1>3 DEF Nested
<1> QED BY <1>1, <1>4 DEF new

\* The pulls that go on keep the depth of their nodes.
KeptDepths(ps, ss, depth, new) == \A i \in 1..Last(ss) :
    depth[ps[i].node] < Len(ss) => new[ps[i].node] = depth[ps[i].node]

\* What is left when the innermost subtransaction ends.
Closes(P, ps, ss, depth, new) ==
    /\ Front(ss) \in Seq(Nat) /\ Len(Front(ss)) = Len(ss) - 1
    /\ Last(ss) \in Nat /\ Last(ss) <= Len(ps)
    /\ SubSeq(ps, 1, Last(ss)) \in Seq(P) /\ Len(SubSeq(ps, 1, Last(ss))) = Last(ss)
    /\ \A i \in 1..Last(ss) : /\ SubSeq(ps, 1, Last(ss))[i] = ps[i] /\ i \in DOMAIN ps
                              /\ depth[ps[i].node] < Len(ss)
    /\ Nested(SubSeq(ps, 1, Last(ss)), Front(ss), new)

\* A subtransaction ends, in order or by an error: the pulls that began before it go on.
LEMMA Nested_Close ==
    ASSUME NEW P, NEW ps \in Seq(P), NEW ss \in Seq(Nat), ss # <<>>, NEW depth, NEW new,
           Nested(ps, ss, depth), KeptDepths(ps, ss, depth, new)
    PROVE  Closes(P, ps, ss, depth, new)
<1> DEFINE n == Last(ss)
<1>1. /\ Len(ss) \in Nat \ {0} /\ Last(ss) = ss[Len(ss)] /\ Last(ss) \in Nat
      /\ Front(ss) \in Seq(Nat) /\ Len(Front(ss)) = Len(ss) - 1
      /\ \A k \in 1..Len(ss) - 1 : Front(ss)[k] = ss[k]
  BY FrontOfSeq
<1>2. /\ DOMAIN ss = 1..Len(ss) /\ DOMAIN Front(ss) = 1..Len(ss) - 1
      /\ \A k \in 1..Len(ss) : ss[k] \in Nat
  <2>1. DOMAIN ss = 1..Len(ss)
    OBVIOUS
  <2>2. DOMAIN Front(ss) = 1..Len(Front(ss))
    BY <1>1
  <2>3. \A k \in 1..Len(ss) : ss[k] \in Nat
    OBVIOUS
  <2> QED BY <1>1, <2>1, <2>2, <2>3
<1>3. Len(ss) \in DOMAIN ss /\ n <= Len(ps) /\ \A i \in 1..n : depth[ps[i].node] < Len(ss)
  BY <1>1, <1>2 DEF Nested
<1> HIDE DEF n
<1>4. /\ SubSeq(ps, 1, n) \in Seq(P) /\ Len(SubSeq(ps, 1, n)) = n
      /\ \A i \in 1..n : SubSeq(ps, 1, n)[i] = ps[i] /\ i \in DOMAIN ps
  BY <1>1, <1>3, PrefixOfSeq DEF n
<1>5. \A i \in 1..n : new[ps[i].node] = depth[ps[i].node]
  BY <1>3 DEF n, KeptDepths
<1>6. \A k \in DOMAIN Front(ss) : /\ Front(ss)[k] = ss[k] /\ ss[k] <= n /\ k \in DOMAIN ss
                                  /\ \A i \in 1..ss[k] : i \in 1..n
  <2> TAKE k \in DOMAIN Front(ss)
  <2>0. k \in 1..Len(ss) - 1
    BY <1>2
  <2>1. k \in 1..Len(ss) - 1 /\ Front(ss)[k] = ss[k] /\ k \in DOMAIN ss /\ k <= Len(ss)
    <3>1. Front(ss)[k] = ss[k]
      BY <1>1, <2>0
    <3>2. k \in 1..Len(ss) /\ k <= Len(ss)
      BY <1>1, <2>0
    <3> QED BY <1>2, <2>0, <3>1, <3>2
  <2>2. ss[k] <= n
    BY <1>1, <1>3, <2>1 DEF Nested, n
  <2>3. ss[k] \in Nat /\ n \in Nat
    BY <1>1, <1>2, <2>1 DEF n
  <2> QED BY <2>1, <2>2, <2>3
<1>7. Nested(SubSeq(ps, 1, n), Front(ss), new)
  <2>1. \A k \in DOMAIN Front(ss) : Front(ss)[k] <= Len(SubSeq(ps, 1, n))
    BY <1>4, <1>6
  <2>2. \A j, k \in DOMAIN Front(ss) : j <= k => Front(ss)[j] <= Front(ss)[k]
    BY <1>6 DEF Nested
  <2>3. ASSUME NEW k \in DOMAIN Front(ss), NEW i \in 1..Front(ss)[k]
        PROVE  new[SubSeq(ps, 1, n)[i].node] < k
    <3>1. k \in DOMAIN ss /\ i \in 1..ss[k] /\ i \in 1..n
      BY <1>6
    <3>2. SubSeq(ps, 1, n)[i] = ps[i] /\ new[ps[i].node] = depth[ps[i].node]
      BY <1>4, <1>5, <3>1
    <3> QED BY <3>1, <3>2 DEF Nested
  <2> QED BY <2>1, <2>2, <2>3 DEF Nested
<1> QED BY <1>1, <1>3, <1>4, <1>7, Zenon DEF n, Closes

-----------------------------------------------------------------------------
(* The filtered vector scan.                                               *)

Sets == [exact : SUBSET TupleIds, lossy : SUBSET Blocks]
FilterNode == [live : BOOLEAN, want : SUBSET TupleIds, sub : Nat]
FilterPull == [node : Addresses, saved : Sets \cup {NoSet}]

FilterTypes ==
    /\ nodes \in [Addresses -> FilterNode]
    /\ registry \in [Addresses -> Sets \cup {NoSet}]
    /\ active \in Sets \cup {NoSet}
    /\ pulls \in Seq(FilterPull)
    /\ subs \in Seq(Nat)

\* A live node's set is there and admits what its WHERE clause matches; it began
\* under subtransactions that are open.
Registered(a) == nodes[a].live =>
    /\ registry[a] # NoSet
    /\ nodes[a].want \subseteq Admitted(registry[a])
    /\ nodes[a].sub <= Len(subs)

\* Only live nodes are pulled, and none within its own pull.
PulledLive == PulledOnce(pulls) /\ \A i \in DOMAIN pulls : nodes[pulls[i].node].live

Depths == [a \in Addresses |-> nodes[a].sub]
FilterNested == Nested(pulls, subs, Depths)

\* What the slot may hold within the first i pulls: the set of the innermost, or
\* nothing after an error was caught there.
Within(ps, reg, i) == IF i = 0 THEN {NoSet} ELSE {NoSet, reg[ps[i].node]}
SlotHeld ==
    /\ active \in Within(pulls, registry, Len(pulls))
    /\ \A i \in DOMAIN pulls : pulls[i].saved \in Within(pulls, registry, i - 1)

FilterInv ==
    /\ FilterTypes /\ (\A a \in Addresses : Registered(a)) /\ PulledLive /\ FilterNested /\ SlotHeld

\* A bitmap's set admits every tuple of the bitmap, whichever pages are lossy.
LEMMA Materialize_Admits ==
    ASSUME NEW want \in SUBSET TupleIds, NEW lossy \in LossyPages(want)
    PROVE  /\ MaterializeBitmap(want, lossy) \in Sets
           /\ MaterializeBitmap(want, lossy) # NoSet
           /\ want \subseteq Admitted(MaterializeBitmap(want, lossy))
<1>1. lossy \subseteq Blocks
  BY DEF LossyPages, TupleIds
<1>2. MaterializeBitmap(want, lossy) \in Sets
  BY <1>1 DEF MaterializeBitmap, Sets
<1>3. MaterializeBitmap(want, lossy) # NoSet
  BY <1>2, FilterAssumption DEF Sets
<1> QED BY <1>2, <1>3 DEF Admitted, MaterializeBitmap

\* No pull is under way when a backend starts.
LEMMA FilterInit_Inv ==
    ASSUME FilterInit PROVE FilterInv
<1>1. FilterTypes
  BY DEF FilterInit, FilterTypes, FilterNode, NoNode
<1>2. \A a \in Addresses : Registered(a)
  BY DEF FilterInit, Registered, NoNode
<1>3. PulledLive /\ FilterNested /\ SlotHeld
  BY DEF FilterInit, PulledLive, PulledOnce, FilterNested, Nested, SlotHeld, Within
<1> QED BY <1>1, <1>2, <1>3 DEF FilterInv

\* A node that is not pulled begins, is given another set, or ends.
LEMMA FilterNode_Inv ==
    ASSUME FilterInv, NEW a \in Addresses, \A i \in DOMAIN pulls : pulls[i].node # a,
           NEW n \in FilterNode, NEW r \in Sets \cup {NoSet},
           n.live => r # NoSet /\ n.want \subseteq Admitted(r) /\ n.sub <= Len(subs),
           nodes' = [nodes EXCEPT ![a] = n], registry' = [registry EXCEPT ![a] = r],
           UNCHANGED <<active, pulls, subs>>
    PROVE  FilterInv'
<1>1. /\ nodes'[a] = n /\ registry'[a] = r
      /\ \A b \in Addresses \ {a} : nodes'[b] = nodes[b] /\ registry'[b] = registry[b]
  BY DEF FilterInv, FilterTypes
<1>2. FilterTypes'
  BY DEF FilterInv, FilterTypes
<1>3. \A b \in Addresses : Registered(b)'
  BY <1>1 DEF FilterInv, Registered, Admitted
<1>4. \A i \in DOMAIN pulls : /\ pulls[i].node \in Addresses \ {a}
                              /\ nodes'[pulls[i].node] = nodes[pulls[i].node]
                              /\ registry'[pulls[i].node] = registry[pulls[i].node]
  <2> TAKE i \in DOMAIN pulls
  <2>1. pulls[i] \in FilterPull
    BY DEF FilterInv, FilterTypes
  <2>2. pulls[i].node \in Addresses \ {a}
    BY <2>1 DEF FilterPull
  <2> QED BY <1>1, <2>2
<1>5. PulledLive'
  BY <1>4 DEF FilterInv, PulledLive
<1>6. FilterNested'
  <2>1. \A i \in DOMAIN pulls : Depths'[pulls[i].node] = Depths[pulls[i].node]
    BY <1>4 DEF Depths
  <2>2. \A k \in DOMAIN subs : \A i \in 1..subs[k] : i \in DOMAIN pulls
    <3> TAKE k \in DOMAIN subs
    <3>1. subs[k] \in Nat /\ subs[k] <= Len(pulls) /\ Len(pulls) \in Nat
          /\ DOMAIN pulls = 1..Len(pulls)
      BY DEF FilterInv, FilterTypes, FilterNested, Nested
    <3> QED BY <3>1
  <2> QED BY <2>1, <2>2 DEF FilterInv, FilterNested, Nested
<1>7. SlotHeld'
  <2>1. Len(pulls) \in Nat /\ DOMAIN pulls = 1..Len(pulls)
    BY DEF FilterInv, FilterTypes
  <2>2. ASSUME NEW i \in 0..Len(pulls)
        PROVE  Within(pulls', registry', i) = Within(pulls, registry, i)
    <3>1. CASE i = 0
      BY <3>1 DEF Within
    <3>2. CASE i # 0
      <4>1. i \in DOMAIN pulls
        BY <2>1, <3>2
      <4> QED BY <1>4, <3>2, <4>1 DEF Within
    <3> QED BY <3>1, <3>2
  <2>3. Len(pulls) \in 0..Len(pulls) /\ \A i \in DOMAIN pulls : i - 1 \in 0..Len(pulls)
    BY <2>1
  <2>4. pulls' = pulls /\ active' = active
    OBVIOUS
  <2> QED BY <2>2, <2>3, <2>4 DEF FilterInv, SlotHeld
<1> QED BY <1>2, <1>3, <1>5, <1>6, <1>7 DEF FilterInv

\* ActiveGuard::install.
LEMMA StartPull_Inv ==
    ASSUME FilterInv, NEW a \in Addresses, StartPull(a) PROVE FilterInv'
<1> DEFINE p == [node |-> a, saved |-> active]
<1>1. /\ p \in FilterPull /\ pulls \in Seq(FilterPull) /\ subs \in Seq(Nat)
      /\ Nested(pulls, subs, Depths)
  BY DEF FilterInv, FilterTypes, FilterPull, FilterNested
<1>2. /\ pulls' \in Seq(FilterPull) /\ Len(pulls') = Len(pulls) + 1 /\ Len(pulls) \in Nat
      /\ \A i \in 1..Len(pulls) : pulls'[i] = pulls[i] /\ i \in DOMAIN pulls
      /\ pulls'[Len(pulls) + 1] = p
      /\ Nested(pulls', subs, Depths)
      /\ DOMAIN pulls' = 1..Len(pulls) + 1
  BY <1>1, Nested_Push DEF StartPull
<1>3. /\ nodes' = nodes /\ registry' = registry /\ subs' = subs /\ active' = registry[a]
      /\ nodes[a].live /\ \A i \in DOMAIN pulls : pulls[i].node # a
  BY DEF StartPull, Pulling
<1> HIDE DEF p
<1>4. FilterTypes' /\ \A b \in Addresses : Registered(b)'
  BY <1>2, <1>3 DEF FilterInv, FilterTypes, Registered, Admitted
<1>5. PulledLive'
  BY <1>2, <1>3 DEF FilterInv, PulledLive, PulledOnce, p
<1>6. FilterNested'
  BY <1>2, <1>3 DEF FilterNested, Depths
<1>7. SlotHeld'
  <2>1. ASSUME NEW i \in 0..Len(pulls)
        PROVE  Within(pulls', registry', i) = Within(pulls, registry, i)
    <3>1. CASE i = 0
      BY <3>1 DEF Within
    <3>2. CASE i # 0
      BY <1>2, <1>3, <3>2 DEF Within
    <3> QED BY <3>1, <3>2
  <2>2. active' \in Within(pulls', registry', Len(pulls'))
    BY <1>2, <1>3 DEF Within, p
  <2>3. ASSUME NEW i \in DOMAIN pulls' PROVE pulls'[i].saved \in Within(pulls', registry', i - 1)
    <3>1. CASE i = Len(pulls) + 1
      BY <1>2, <2>1, <3>1 DEF FilterInv, SlotHeld, p
    <3>2. CASE i \in 1..Len(pulls)
      BY <1>2, <2>1, <3>2 DEF FilterInv, SlotHeld
    <3> QED BY <1>2, <3>1, <3>2
  <2> QED BY <2>2, <2>3 DEF SlotHeld
<1> QED BY <1>4, <1>5, <1>6, <1>7 DEF FilterInv

\* The guard's drop: the slot is the outer pull's again.
LEMMA EndPull_Inv ==
    ASSUME FilterInv, EndPull PROVE FilterInv'
<1>1. /\ pulls \in Seq(FilterPull) /\ subs \in Seq(Nat) /\ Nested(pulls, subs, Depths)
      /\ Len(pulls) > IF subs = <<>> THEN 0 ELSE Last(subs)
  BY DEF FilterInv, FilterTypes, FilterNested, EndPull, Base
<1>2. /\ pulls' \in Seq(FilterPull) /\ Len(pulls') = Len(pulls) - 1 /\ pulls # <<>>
      /\ \A i \in 1..Len(pulls) - 1 : pulls'[i] = pulls[i]
      /\ Nested(pulls', subs, Depths)
  BY <1>1, Nested_Pop DEF EndPull
<1>3. /\ Len(pulls) \in Nat \ {0} /\ DOMAIN pulls = 1..Len(pulls)
      /\ DOMAIN pulls' = 1..Len(pulls) - 1 /\ Last(pulls) = pulls[Len(pulls)]
      /\ pulls[Len(pulls)] \in FilterPull
  BY <1>1, <1>2 DEF Last
<1>4. /\ nodes' = nodes /\ registry' = registry /\ subs' = subs
      /\ active' = pulls[Len(pulls)].saved
  BY <1>3 DEF EndPull, Restore
<1>5. FilterTypes' /\ \A b \in Addresses : Registered(b)'
  BY <1>2, <1>3, <1>4 DEF FilterInv, FilterTypes, FilterPull, Registered, Admitted
<1>6. PulledLive'
  BY <1>2, <1>3, <1>4 DEF FilterInv, PulledLive, PulledOnce
<1>7. FilterNested'
  BY <1>2, <1>4 DEF FilterNested, Depths
<1>8. SlotHeld'
  <2>1. ASSUME NEW i \in 0..Len(pulls) - 1
        PROVE  Within(pulls', registry', i) = Within(pulls, registry, i)
    <3>1. CASE i = 0
      BY <3>1 DEF Within
    <3>2. CASE i # 0
      BY <1>2, <1>3, <1>4, <3>2 DEF Within
    <3> QED BY <3>1, <3>2
  <2> QED BY <1>2, <1>3, <1>4, <2>1 DEF FilterInv, SlotHeld
<1> QED BY <1>5, <1>6, <1>7, <1>8 DEF FilterInv

\* What the invariant says of the pulls and the subtransactions.
LEMMA FilterPulls ==
    ASSUME FilterInv
    PROVE  /\ pulls \in Seq(FilterPull) /\ subs \in Seq(Nat) /\ Nested(pulls, subs, Depths)
           /\ Len(subs) \in Nat /\ Len(pulls) \in Nat /\ DOMAIN pulls = 1..Len(pulls)
           /\ \A i \in DOMAIN pulls : pulls[i] \in FilterPull /\ pulls[i].node \in Addresses
<1>1. pulls \in Seq(FilterPull) /\ subs \in Seq(Nat) /\ Nested(pulls, subs, Depths)
  BY DEF FilterInv, FilterTypes, FilterNested
<1>2. \A i \in DOMAIN pulls : pulls[i] \in FilterPull
  BY <1>1
<1> QED BY <1>1, <1>2 DEF FilterPull

\* A subtransaction ends, and the nodes that are pulled in spite of it keep their depths.
LEMMA FilterClose ==
    ASSUME FilterInv, subs # <<>>, NEW new,
           \A i \in 1..Last(subs) :
             Depths[pulls[i].node] < Len(subs) => new[pulls[i].node] = Depths[pulls[i].node]
    PROVE  /\ Front(subs) \in Seq(Nat) /\ Len(Front(subs)) = Len(subs) - 1
           /\ Last(subs) \in Nat /\ Last(subs) <= Len(pulls)
           /\ SubSeq(pulls, 1, Last(subs)) \in Seq(FilterPull)
           /\ Len(SubSeq(pulls, 1, Last(subs))) = Last(subs)
           /\ \A i \in 1..Last(subs) : /\ SubSeq(pulls, 1, Last(subs))[i] = pulls[i]
                                       /\ i \in DOMAIN pulls /\ Depths[pulls[i].node] < Len(subs)
           /\ Nested(SubSeq(pulls, 1, Last(subs)), Front(subs), new)
<1>1. pulls \in Seq(FilterPull) /\ subs \in Seq(Nat) /\ Nested(pulls, subs, Depths)
  BY FilterPulls
<1>2. KeptDepths(pulls, subs, Depths, new)
  BY Zenon DEF KeptDepths
<1>3. Closes(FilterPull, pulls, subs, Depths, new)
  BY <1>1, <1>2, Nested_Close
<1> QED BY <1>3, Zenon DEF Closes

\* EXCEPTION blocks: a subtransaction ends in order.
LEMMA EndSub_Inv ==
    ASSUME FilterInv, EndSub PROVE FilterInv'
<1>1. /\ pulls \in Seq(FilterPull) /\ subs \in Seq(Nat) /\ subs # <<>>
      /\ Len(subs) \in Nat \ {0} /\ DOMAIN pulls = 1..Len(pulls)
      /\ \A i \in DOMAIN pulls : pulls[i].node \in Addresses
  BY FilterPulls DEF EndSub
<1>2. /\ Len(pulls) = Last(subs) /\ subs' = Front(subs) /\ UNCHANGED <<registry, active, pulls>>
      /\ nodes' = [a \in Addresses |->
                     IF nodes[a].sub = Len(subs) THEN [nodes[a] EXCEPT !.sub = @ - 1] ELSE nodes[a]]
  BY DEF EndSub
<1>3. \A a \in Addresses :
        /\ nodes[a] \in FilterNode /\ nodes'[a] \in FilterNode
        /\ nodes'[a].live = nodes[a].live /\ nodes'[a].want = nodes[a].want
        /\ nodes[a].sub < Len(subs) => nodes'[a].sub = nodes[a].sub
        /\ nodes[a].sub <= Len(subs) => nodes'[a].sub <= Len(subs) - 1
  <2> TAKE a \in Addresses
  <2>1. nodes[a] \in FilterNode
    BY DEF FilterInv, FilterTypes
  <2>2. CASE nodes[a].sub = Len(subs)
    <3>1. nodes'[a] = [nodes[a] EXCEPT !.sub = nodes[a].sub - 1]
      BY <1>2, <2>2
    <3>2. Len(subs) - 1 \in Nat /\ Len(subs) \in Nat
      BY <1>1
    <3>3. /\ nodes'[a] \in FilterNode /\ nodes'[a].sub = Len(subs) - 1
          /\ nodes'[a].live = nodes[a].live /\ nodes'[a].want = nodes[a].want
      BY <2>1, <2>2, <3>1, <3>2 DEF FilterNode
    <3> QED BY <2>1, <2>2, <3>2, <3>3
  <2>3. CASE nodes[a].sub # Len(subs)
    <3>1. nodes'[a] = nodes[a]
      BY <1>2, <2>3
    <3>2. nodes[a].sub \in Nat
      BY <2>1 DEF FilterNode
    <3>3. nodes[a].sub <= Len(subs) => nodes[a].sub <= Len(subs) - 1
      BY <1>1, <2>3, <3>2
    <3> QED BY <2>1, <3>1, <3>3
  <2> QED BY <2>2, <2>3
<1>4. \A i \in 1..Last(subs) :
        Depths[pulls[i].node] < Len(subs) => Depths'[pulls[i].node] = Depths[pulls[i].node]
  <2>1. \A i \in 1..Last(subs) : i \in DOMAIN pulls
    BY <1>1, <1>2
  <2> QED BY <1>1, <1>3, <2>1 DEF Depths
<1>5. SubSeq(pulls, 1, Last(subs)) = pulls
  BY <1>1, <1>2
<1>6. subs' \in Seq(Nat) /\ Len(subs') = Len(subs) - 1 /\ Nested(pulls, subs', Depths')
  <2> DEFINE new == Depths'
  <2>1. \A i \in 1..Last(subs) :
          Depths[pulls[i].node] < Len(subs) => new[pulls[i].node] = Depths[pulls[i].node]
    BY <1>4
  <2> HIDE DEF new
  <2>2. /\ Front(subs) \in Seq(Nat) /\ Len(Front(subs)) = Len(subs) - 1
        /\ Nested(SubSeq(pulls, 1, Last(subs)), Front(subs), new)
    BY <1>1, <2>1, FilterClose
  <2> QED BY <1>2, <1>5, <2>2 DEF new
<1>7. FilterTypes'
  BY <1>2, <1>3, <1>6 DEF FilterInv, FilterTypes
<1>8. \A a \in Addresses : Registered(a)'
  BY <1>2, <1>3, <1>6 DEF FilterInv, Registered, Admitted
<1>9. PulledLive' /\ FilterNested' /\ SlotHeld'
  BY <1>1, <1>2, <1>3, <1>6 DEF FilterInv, PulledLive, FilterNested, SlotHeld
<1> QED BY <1>7, <1>8, <1>9 DEF FilterInv

\* subxact_clear_membership: the nodes that go on were pulled before the block, and
\* their sets are in the registry still.
LEMMA CatchError_Inv ==
    ASSUME FilterInv, CatchError PROVE FilterInv'
<1>1. /\ pulls \in Seq(FilterPull) /\ subs \in Seq(Nat) /\ subs # <<>>
      /\ Len(subs) \in Nat \ {0} /\ DOMAIN pulls = 1..Len(pulls)
      /\ \A i \in DOMAIN pulls : pulls[i].node \in Addresses
  BY FilterPulls DEF CatchError
<1>2. /\ pulls' = SubSeq(pulls, 1, Last(subs)) /\ subs' = Front(subs)
      /\ active' = NoSet /\ registry' = registry
      /\ nodes' = [a \in Addresses |-> IF nodes[a].sub = Len(subs) THEN NoNode ELSE nodes[a]]
  BY DEF CatchError, SubAbortRegistry
<1>3. \A a \in Addresses :
        /\ nodes[a] \in FilterNode /\ nodes'[a] \in FilterNode
        /\ nodes'[a].live => nodes'[a] = nodes[a] /\ nodes[a].sub # Len(subs)
        /\ nodes[a].sub < Len(subs) => nodes'[a] = nodes[a]
  <2> TAKE a \in Addresses
  <2>1. nodes[a] \in FilterNode
    BY DEF FilterInv, FilterTypes
  <2>2. CASE nodes[a].sub = Len(subs)
    BY <1>1, <1>2, <2>1, <2>2 DEF FilterNode, NoNode
  <2>3. CASE nodes[a].sub # Len(subs)
    BY <1>2, <2>1, <2>3
  <2> QED BY <2>2, <2>3
<1>4. \A i \in 1..Last(subs) :
        Depths[pulls[i].node] < Len(subs) => Depths'[pulls[i].node] = Depths[pulls[i].node]
  <2>1. \A i \in 1..Last(subs) : i \in DOMAIN pulls
    <3>1. Last(subs) \in Nat /\ Last(subs) = subs[Len(subs)]
      BY <1>1, FrontOfSeq
    <3>2. Len(subs) \in DOMAIN subs /\ Len(pulls) \in Nat
      BY <1>1
    <3>3. Last(subs) <= Len(pulls)
      BY <3>1, <3>2, FilterPulls DEF Nested
    <3> QED BY <1>1, <3>1, <3>2, <3>3
  <2> QED BY <1>1, <1>3, <2>1 DEF Depths
<1>5. /\ subs' \in Seq(Nat) /\ Len(subs') = Len(subs) - 1
      /\ pulls' \in Seq(FilterPull) /\ Len(pulls') = Last(subs) /\ Last(subs) \in Nat
      /\ \A i \in 1..Last(subs) : /\ pulls'[i] = pulls[i] /\ i \in DOMAIN pulls
                                  /\ Depths[pulls[i].node] < Len(subs)
      /\ Nested(pulls', subs', Depths')
  <2> DEFINE new == Depths'
  <2>1. \A i \in 1..Last(subs) :
          Depths[pulls[i].node] < Len(subs) => new[pulls[i].node] = Depths[pulls[i].node]
    BY <1>4
  <2> HIDE DEF new
  <2>2. /\ Front(subs) \in Seq(Nat) /\ Len(Front(subs)) = Len(subs) - 1
        /\ Last(subs) \in Nat /\ SubSeq(pulls, 1, Last(subs)) \in Seq(FilterPull)
        /\ Len(SubSeq(pulls, 1, Last(subs))) = Last(subs)
        /\ \A i \in 1..Last(subs) : /\ SubSeq(pulls, 1, Last(subs))[i] = pulls[i]
                                    /\ i \in DOMAIN pulls /\ Depths[pulls[i].node] < Len(subs)
        /\ Nested(SubSeq(pulls, 1, Last(subs)), Front(subs), new)
    BY <1>1, <2>1, FilterClose
  <2> QED BY <1>2, <2>2 DEF new
<1>6. DOMAIN pulls' = 1..Last(subs)
  BY <1>5
<1>7. FilterTypes'
  BY <1>2, <1>3, <1>5 DEF FilterInv, FilterTypes
<1>8. \A a \in Addresses : Registered(a)'
  <2> TAKE a \in Addresses
  <2>1. nodes'[a].live => nodes'[a] = nodes[a] /\ nodes[a].sub # Len(subs) /\ nodes[a].sub \in Nat
    BY <1>3 DEF FilterNode
  <2> QED BY <1>1, <1>2, <1>5, <2>1 DEF FilterInv, Registered, Admitted
<1>9. PulledLive'
  <2>1. \A i \in 1..Last(subs) : nodes'[pulls[i].node] = nodes[pulls[i].node]
    BY <1>1, <1>3, <1>5 DEF Depths
  <2> QED BY <1>5, <1>6, <2>1 DEF FilterInv, PulledLive, PulledOnce
<1>10. FilterNested'
  BY <1>5 DEF FilterNested
<1>11. SlotHeld'
  <2>1. active' \in Within(pulls', registry', Len(pulls'))
    BY <1>2 DEF Within
  <2>2. ASSUME NEW i \in DOMAIN pulls' PROVE pulls'[i].saved \in Within(pulls', registry', i - 1)
    <3>1. i \in 1..Last(subs) /\ i \in DOMAIN pulls /\ pulls'[i] = pulls[i]
          /\ pulls[i].saved \in Within(pulls, registry, i - 1)
      BY <1>5, <1>6 DEF FilterInv, SlotHeld
    <3>2. CASE i = 1
      BY <3>1, <3>2 DEF Within
    <3>3. CASE i # 1
      <4>1. i - 1 \in 1..Last(subs) /\ pulls'[i - 1] = pulls[i - 1]
        BY <1>5, <3>1, <3>3
      <4> QED BY <1>2, <3>1, <4>1 DEF Within
    <3> QED BY <3>2, <3>3
  <2> QED BY <2>1, <2>2 DEF SlotHeld
<1> QED BY <1>7, <1>8, <1>9, <1>10, <1>11 DEF FilterInv

\* A subtransaction begins: what is live began before it.
LEMMA BeginSub_Inv ==
    ASSUME FilterInv, BeginSub PROVE FilterInv'
<1>1. /\ pulls \in Seq(FilterPull) /\ subs \in Seq(Nat) /\ Nested(pulls, subs, Depths)
      /\ Len(subs) \in Nat
  BY DEF FilterInv, FilterTypes, FilterNested
<1>2. ASSUME NEW i \in DOMAIN pulls
      PROVE  Depths[pulls[i].node] <= Len(subs) /\ Depths[pulls[i].node] \in Nat
  <2>1. pulls[i].node \in Addresses /\ nodes[pulls[i].node] \in FilterNode
        /\ nodes[pulls[i].node].live /\ Registered(pulls[i].node)
    BY FilterPulls DEF FilterInv, FilterTypes, PulledLive
  <2> QED BY <2>1 DEF Registered, Depths, FilterNode
<1>3. subs' = Append(subs, Len(pulls)) /\ UNCHANGED <<nodes, registry, active, pulls>>
  BY DEF BeginSub
<1>4. subs' \in Seq(Nat) /\ Nested(pulls, subs', Depths) /\ Len(subs') = Len(subs) + 1
  BY <1>1, <1>2, <1>3, Nested_Open
<1>5. FilterTypes'
  BY <1>3, <1>4 DEF FilterInv, FilterTypes
<1>6. \A a \in Addresses : Registered(a)'
  <2> TAKE a \in Addresses
  <2>1. nodes[a].sub \in Nat
    BY DEF FilterInv, FilterTypes, FilterNode
  <2> QED BY <1>1, <1>3, <1>4, <2>1 DEF FilterInv, Registered, Admitted
<1>7. PulledLive' /\ FilterNested' /\ SlotHeld'
  BY <1>3, <1>4 DEF FilterInv, PulledLive, FilterNested, SlotHeld, Depths
<1> QED BY <1>5, <1>6, <1>7 DEF FilterInv

\* Every step of a backend's filtered scans keeps the invariant.
LEMMA FilterNext_Inv ==
    ASSUME FilterInv, [FilterNext]_filterVars PROVE FilterInv'
<1>1. ASSUME NEW a \in Addresses, NEW want \in Quals, NEW lossy \in LossyPages(want),
             BeginCustomScan(a, want, lossy) \/ RescanCustomScan(a, want, lossy)
      PROVE  FilterInv'
  <2> DEFINE r == MaterializeBitmap(want, lossy)
  <2>1. want \in SUBSET TupleIds /\ r \in Sets /\ r # NoSet /\ want \subseteq Admitted(r)
    BY FilterAssumption, Materialize_Admits
  <2>2. registry' = [registry EXCEPT ![a] = r] /\ UNCHANGED <<active, pulls, subs>>
    BY <1>1 DEF BeginCustomScan, RescanCustomScan
  <2>3. \A i \in DOMAIN pulls : pulls[i].node # a
    BY <1>1 DEF BeginCustomScan, RescanCustomScan, FilterInv, PulledLive, Pulling
  <2>4. nodes[a] \in FilterNode /\ Len(subs) \in Nat
    BY DEF FilterInv, FilterTypes
  <2> HIDE DEF r
  <2>5. CASE BeginCustomScan(a, want, lossy)
    <3> DEFINE n == [live |-> TRUE, want |-> want, sub |-> Len(subs)]
    <3>1. nodes' = [nodes EXCEPT ![a] = n]
      BY <2>5 DEF BeginCustomScan
    <3>2. n \in FilterNode /\ n.want = want /\ n.sub <= Len(subs)
      BY <2>1, <2>4 DEF FilterNode
    <3> HIDE DEF n
    <3> QED BY <2>1, <2>2, <2>3, <3>1, <3>2, FilterNode_Inv
  <2>6. CASE RescanCustomScan(a, want, lossy)
    <3> DEFINE n == [nodes[a] EXCEPT !.want = want]
    <3>1. nodes' = [nodes EXCEPT ![a] = n] /\ nodes[a].live
      BY <2>6 DEF RescanCustomScan
    <3>2. n \in FilterNode /\ n.want = want /\ n.sub = nodes[a].sub /\ n.sub <= Len(subs)
      BY <2>1, <2>4, <3>1 DEF FilterNode, FilterInv, Registered
    <3> HIDE DEF n
    <3> QED BY <2>1, <2>2, <2>3, <3>1, <3>2, FilterNode_Inv
  <2> QED BY <1>1, <2>5, <2>6
<1>2. ASSUME NEW a \in Addresses, EndCustomScan(a) PROVE FilterInv'
  <2>1. /\ nodes' = [nodes EXCEPT ![a] = NoNode] /\ registry' = [registry EXCEPT ![a] = NoSet]
        /\ UNCHANGED <<active, pulls, subs>> /\ \A i \in DOMAIN pulls : pulls[i].node # a
    BY <1>2 DEF EndCustomScan, Pulling
  <2>2. NoNode \in FilterNode /\ ~NoNode.live
    BY DEF NoNode, FilterNode
  <2> QED BY <2>1, <2>2, FilterNode_Inv
<1>3. CASE EndXact
  <2>1. FilterTypes'
    BY <1>3 DEF EndXact, FilterTypes, FilterNode, NoNode
  <2>2. \A a \in Addresses : Registered(a)'
    BY <1>3 DEF EndXact, Registered, NoNode
  <2>3. PulledLive' /\ FilterNested' /\ SlotHeld'
    BY <1>3 DEF EndXact, PulledLive, PulledOnce, FilterNested, Nested, SlotHeld, Within
  <2> QED BY <2>1, <2>2, <2>3 DEF FilterInv
<1>4. CASE UNCHANGED filterVars
  <2>1. UNCHANGED <<nodes, registry, active, pulls, subs>>
    BY <1>4 DEF filterVars
  <2> QED BY <2>1 DEF FilterInv, FilterTypes, Registered, Admitted, PulledLive, FilterNested,
                      SlotHeld, Depths
<1> QED BY <1>1, <1>2, <1>3, <1>4, StartPull_Inv, EndPull_Inv, BeginSub_Inv, EndSub_Inv,
           CatchError_Inv DEF FilterNext

\* customscan.rs: the index scan of a pull is given a set that admits all the rows its
\* own WHERE clause matches, or none.
THEOREM PullsAdmitMatches == FilterSpec => []MatchesAdmitted
<1>1. FilterInit => FilterInv
  BY FilterInit_Inv
<1>2. FilterInv /\ [FilterNext]_filterVars => FilterInv'
  BY FilterNext_Inv
<1>3. FilterInv => MatchesAdmitted
  <2> SUFFICES ASSUME FilterInv PROVE MatchesAdmitted
    OBVIOUS
  <2>1. CASE pulls = <<>>
    BY <2>1 DEF FilterInv, SlotHeld, Within, MatchesAdmitted
  <2>2. CASE pulls # <<>>
    <3> DEFINE a == pulls[Len(pulls)].node
    <3>1. Len(pulls) \in DOMAIN pulls /\ Len(pulls) # 0 /\ pulls[Len(pulls)] \in FilterPull
      BY <2>2 DEF FilterInv, FilterTypes
    <3>2. a \in Addresses /\ nodes[a].live /\ nodes[a] \in FilterNode /\ Registered(a)
          /\ active \in {NoSet, registry[a]}
      BY <3>1 DEF FilterInv, FilterTypes, FilterPull, PulledLive, SlotHeld, Within
    <3>3. nodes[a].want \subseteq Admitted(active)
      BY <3>2 DEF Registered, Admitted, FilterNode
    <3> QED BY <2>2, <3>3 DEF MatchesAdmitted, Last
  <2> QED BY <2>1, <2>2
<1> QED BY <1>1, <1>2, <1>3, PTL DEF FilterSpec

\* customscan.rs: no error that another node met takes a live node's set away.
THEOREM LiveNodesKeepSets == FilterSpec => []LiveNodesRegistered
<1>1. FilterInit => FilterInv
  BY FilterInit_Inv
<1>2. FilterInv /\ [FilterNext]_filterVars => FilterInv'
  BY FilterNext_Inv
<1>3. FilterInv => LiveNodesRegistered
  BY DEF FilterInv, Registered, LiveNodesRegistered
<1> QED BY <1>1, <1>2, <1>3, PTL DEF FilterSpec

-----------------------------------------------------------------------------
(* The projecting columnar scan.                                           *)

ProjNode == [desc : Descriptors, plan : Plans, sub : Nat]
SlotPairs == [cols : {Absent} \cup (Descriptors \X SUBSET Columns),
           preds : {Absent} \cup (Descriptors \X SUBSET Preds)]
ProjPull == [node : NodeAddresses, saved : SlotPairs]

ProjTypes ==
    /\ projNodes \in [NodeAddresses -> ProjNode \cup {Absent}]
    /\ plainScans \in SUBSET Descriptors
    /\ wanted \in [NodeAddresses -> (SUBSET Columns) \cup {Absent}]
    /\ pushed \in [NodeAddresses -> (SUBSET Preds) \cup {Absent}]
    /\ scanSlots \in SlotPairs
    /\ projPulls \in Seq(ProjPull)
    /\ projSubs \in Seq(Nat)

\* A live node's entries are what its own plan asks for; it began under subtransactions
\* that are open, and its descriptor is no other scan's.
Entered(a) == projNodes[a] # Absent =>
    /\ wanted[a] = ColumnsNeeded(projNodes[a].plan)
    /\ pushed[a] = projNodes[a].plan.quals
    /\ projNodes[a].sub <= Len(projSubs)
    /\ projNodes[a].desc \notin plainScans
OwnDescriptors == \A a, b \in NodeAddresses :
    projNodes[a] # Absent /\ projNodes[b] # Absent /\ projNodes[a].desc = projNodes[b].desc
      => a = b

ProjPulledLive ==
    PulledOnce(projPulls) /\ \A i \in DOMAIN projPulls : projNodes[projPulls[i].node] # Absent

ProjDepths == [a \in NodeAddresses |-> IF projNodes[a] = Absent THEN 0 ELSE projNodes[a].sub]
ProjNested == Nested(projPulls, projSubs, ProjDepths)

\* What both slots hold during a pull of the node n.
SlotsOf(n) ==
    [cols  |-> IF ColumnsNeeded(n.plan) = Absent THEN Absent ELSE <<n.desc, ColumnsNeeded(n.plan)>>,
     preds |-> IF n.plan.quals \in {Absent, {}} THEN Absent ELSE <<n.desc, n.plan.quals>>]

\* What they may hold within the first i pulls.
SlotsWithin(ps, ns, i) == IF i = 0 THEN {EmptySlots} ELSE {EmptySlots, SlotsOf(ns[ps[i].node])}
SlotsHeld ==
    /\ scanSlots \in SlotsWithin(projPulls, projNodes, Len(projPulls))
    /\ \A i \in DOMAIN projPulls : projPulls[i].saved \in SlotsWithin(projPulls, projNodes, i - 1)

ProjInv ==
    /\ ProjTypes /\ (\A a \in NodeAddresses : Entered(a)) /\ OwnDescriptors
    /\ ProjPulledLive /\ ProjNested /\ SlotsHeld

\* What the invariant says of the pulls and the subtransactions.
LEMMA ProjPulls_Facts ==
    ASSUME ProjInv
    PROVE  /\ projPulls \in Seq(ProjPull) /\ projSubs \in Seq(Nat)
           /\ Nested(projPulls, projSubs, ProjDepths)
           /\ Len(projSubs) \in Nat /\ Len(projPulls) \in Nat
           /\ DOMAIN projPulls = 1..Len(projPulls)
           /\ \A i \in DOMAIN projPulls :
                projPulls[i] \in ProjPull /\ projPulls[i].node \in NodeAddresses
<1>1. /\ projPulls \in Seq(ProjPull) /\ projSubs \in Seq(Nat)
      /\ Nested(projPulls, projSubs, ProjDepths)
  BY DEF ProjInv, ProjTypes, ProjNested
<1>2. \A i \in DOMAIN projPulls : projPulls[i] \in ProjPull
  BY <1>1
<1> QED BY <1>1, <1>2 DEF ProjPull

\* What it says of a node that is live.
LEMMA ProjLive_Facts ==
    ASSUME ProjInv, NEW a \in NodeAddresses, projNodes[a] # Absent
    PROVE  /\ projNodes[a] \in ProjNode /\ projNodes[a].desc \in Descriptors
           /\ projNodes[a].plan \in Plans /\ projNodes[a].sub \in Nat
           /\ ProjDepths[a] = projNodes[a].sub /\ Entered(a)
<1>1. projNodes[a] \in ProjNode /\ Entered(a)
  BY DEF ProjInv, ProjTypes
<1> QED BY <1>1 DEF ProjNode, ProjDepths

\* No pull is under way when a backend starts.
LEMMA ProjInit_Inv ==
    ASSUME ProjInit PROVE ProjInv
<1>1. ProjTypes
  <2>1. EmptySlots \in SlotPairs
    BY DEF EmptySlots, SlotPairs
  <2>2. /\ Nowhere \in [NodeAddresses -> ProjNode \cup {Absent}]
        /\ Nowhere \in [NodeAddresses -> (SUBSET Columns) \cup {Absent}]
        /\ Nowhere \in [NodeAddresses -> (SUBSET Preds) \cup {Absent}]
    BY DEF Nowhere
  <2> QED BY <2>1, <2>2 DEF ProjInit, ProjTypes
<1>2. (\A a \in NodeAddresses : Entered(a)) /\ OwnDescriptors
  BY DEF ProjInit, Nowhere, Entered, OwnDescriptors
<1>3. ProjPulledLive /\ ProjNested /\ SlotsHeld
  BY DEF ProjInit, ProjPulledLive, PulledOnce, ProjNested, Nested, SlotsHeld, SlotsWithin
<1> QED BY <1>1, <1>2, <1>3 DEF ProjInv

\* A node that is not pulled begins or ends.
LEMMA ProjNode_Inv ==
    ASSUME ProjInv, NEW a \in NodeAddresses, \A i \in DOMAIN projPulls : projPulls[i].node # a,
           NEW n \in ProjNode \cup {Absent}, NEW w \in (SUBSET Columns) \cup {Absent},
           NEW q \in (SUBSET Preds) \cup {Absent},
           n # Absent => /\ w = ColumnsNeeded(n.plan) /\ q = n.plan.quals /\ n.sub <= Len(projSubs)
                         /\ n.desc \notin InUse,
           projNodes' = [projNodes EXCEPT ![a] = n],
           wanted' = [wanted EXCEPT ![a] = w], pushed' = [pushed EXCEPT ![a] = q],
           UNCHANGED <<plainScans, scanSlots, projPulls, projSubs>>
    PROVE  ProjInv'
<1>1. /\ projNodes'[a] = n /\ wanted'[a] = w /\ pushed'[a] = q
      /\ \A b \in NodeAddresses \ {a} :
           projNodes'[b] = projNodes[b] /\ wanted'[b] = wanted[b] /\ pushed'[b] = pushed[b]
  BY DEF ProjInv, ProjTypes
<1>2. ProjTypes'
  BY DEF ProjInv, ProjTypes
<1>3. \A b \in NodeAddresses : Entered(b)'
  BY <1>1 DEF ProjInv, Entered, InUse
<1>4. OwnDescriptors'
  <2>1. n # Absent => \A b \in NodeAddresses : projNodes[b] # Absent => projNodes[b].desc # n.desc
    BY DEF InUse, LiveNodes
  <2> QED BY <1>1, <2>1 DEF ProjInv, OwnDescriptors
<1>5. \A i \in DOMAIN projPulls : /\ projPulls[i].node \in NodeAddresses \ {a}
                                  /\ projNodes'[projPulls[i].node] = projNodes[projPulls[i].node]
  BY <1>1, ProjPulls_Facts
<1>6. ProjPulledLive'
  BY <1>5 DEF ProjInv, ProjPulledLive
<1>7. ProjNested'
  <2>1. \A i \in DOMAIN projPulls : ProjDepths'[projPulls[i].node] = ProjDepths[projPulls[i].node]
    BY <1>5 DEF ProjDepths
  <2>2. \A k \in DOMAIN projSubs : \A i \in 1..projSubs[k] : i \in DOMAIN projPulls
    <3> TAKE k \in DOMAIN projSubs
    <3>1. projSubs[k] \in Nat /\ projSubs[k] <= Len(projPulls)
      BY ProjPulls_Facts DEF Nested
    <3> QED BY <3>1, ProjPulls_Facts
  <2> QED BY <2>1, <2>2 DEF ProjInv, ProjNested, Nested
<1>8. SlotsHeld'
  <2>1. Len(projPulls) \in Nat /\ DOMAIN projPulls = 1..Len(projPulls)
    BY ProjPulls_Facts
  <2>2. \A i \in 0..Len(projPulls) :
          SlotsWithin(projPulls, projNodes, i) = SlotsWithin(projPulls, projNodes', i)
    <3>1. \A i \in 1..Len(projPulls) :
            /\ projPulls[i].node = projPulls[i].node
            /\ SlotsOf(projNodes[projPulls[i].node]) = SlotsOf(projNodes'[projPulls[i].node])
      BY <1>5, <2>1
    <3> TAKE i \in 0..Len(projPulls)
    <3>2. CASE i = 0
      BY <3>2 DEF SlotsWithin
    <3>3. CASE i # 0
      <4>1. i \in 1..Len(projPulls)
        BY <2>1, <3>3
      <4> QED BY <3>1, <3>3, <4>1 DEF SlotsWithin
    <3> QED BY <3>2, <3>3
  <2>3. /\ Len(projPulls) \in 0..Len(projPulls)
        /\ \A i \in DOMAIN projPulls : i - 1 \in 0..Len(projPulls)
    BY <2>1
  <2>4. projPulls' = projPulls /\ scanSlots' = scanSlots
    OBVIOUS
  <2> QED BY <2>2, <2>3, <2>4 DEF ProjInv, SlotsHeld
<1> QED BY <1>2, <1>3, <1>4, <1>6, <1>7, <1>8 DEF ProjInv

\* ProjectionGuard::install and PredicatesGuard::install.
LEMMA StartProjPull_Inv ==
    ASSUME ProjInv, NEW a \in NodeAddresses, StartProjPull(a) PROVE ProjInv'
<1> DEFINE p == [node |-> a, saved |-> scanSlots]
<1>1. p \in ProjPull /\ scanSlots \in SlotPairs
  BY DEF ProjInv, ProjTypes, ProjPull
<1>2. /\ projPulls' = Append(projPulls, p)
      /\ projNodes' = projNodes /\ plainScans' = plainScans /\ wanted' = wanted
      /\ pushed' = pushed /\ projSubs' = projSubs
      /\ projNodes[a] # Absent /\ \A i \in DOMAIN projPulls : projPulls[i].node # a
  BY DEF StartProjPull, LiveNodes, PullingNodes
<1>3. /\ projPulls' \in Seq(ProjPull) /\ Len(projPulls') = Len(projPulls) + 1
      /\ \A i \in 1..Len(projPulls) : projPulls'[i] = projPulls[i]
      /\ projPulls'[Len(projPulls) + 1] = p
      /\ Nested(projPulls', projSubs, ProjDepths)
  BY <1>1, <1>2, ProjPulls_Facts, Nested_Push
<1>4. /\ Len(projPulls) \in Nat /\ DOMAIN projPulls' = 1..Len(projPulls) + 1
      /\ DOMAIN projPulls = 1..Len(projPulls)
  BY <1>3, ProjPulls_Facts
<1>5. scanSlots' = SlotsOf(projNodes[a]) /\ scanSlots' \in SlotPairs
  <2>1. /\ projNodes[a].desc \in Descriptors /\ projNodes[a].plan \in Plans
        /\ wanted[a] = ColumnsNeeded(projNodes[a].plan) /\ pushed[a] = projNodes[a].plan.quals
    BY <1>2, ProjLive_Facts DEF Entered
  <2>2. scanSlots' = SlotsOf(projNodes[a])
    BY <2>1 DEF StartProjPull, SlotsOf
  <2> QED BY <2>1, <2>2 DEF SlotsOf, SlotPairs, ColumnsNeeded, Plans
<1> HIDE DEF p
<1>6. ProjTypes'
  BY <1>2, <1>3, <1>5 DEF ProjInv, ProjTypes
<1>7. (\A b \in NodeAddresses : Entered(b)') /\ OwnDescriptors'
  BY <1>2 DEF ProjInv, Entered, OwnDescriptors
<1>8. ProjPulledLive'
  BY <1>2, <1>3, <1>4 DEF ProjInv, ProjPulledLive, PulledOnce, p
<1>9. ProjNested'
  BY <1>2, <1>3 DEF ProjNested, ProjDepths
<1>10. SlotsHeld'
  <2>1. \A i \in 0..Len(projPulls) :
          SlotsWithin(projPulls, projNodes, i) = SlotsWithin(projPulls', projNodes', i)
    <3>1. \A i \in 1..Len(projPulls) :
            /\ projPulls[i].node = projPulls'[i].node
            /\ SlotsOf(projNodes[projPulls[i].node]) = SlotsOf(projNodes'[projPulls'[i].node])
      BY <1>2, <1>3
    <3> TAKE i \in 0..Len(projPulls)
    <3>2. CASE i = 0
      BY <3>2 DEF SlotsWithin
    <3>3. CASE i # 0
      <4>1. i \in 1..Len(projPulls)
        BY <1>4, <3>3
      <4> QED BY <3>1, <3>3, <4>1 DEF SlotsWithin
    <3> QED BY <3>2, <3>3
  <2>2. scanSlots' \in SlotsWithin(projPulls', projNodes', Len(projPulls'))
    BY <1>2, <1>3, <1>4, <1>5 DEF SlotsWithin, p
  <2>3. ASSUME NEW i \in DOMAIN projPulls'
        PROVE  projPulls'[i].saved \in SlotsWithin(projPulls', projNodes', i - 1)
    <3>1. i - 1 \in 0..Len(projPulls)
      BY <1>4
    <3>2. CASE i = Len(projPulls) + 1
      BY <1>3, <1>4, <2>1, <3>1, <3>2 DEF ProjInv, SlotsHeld, p
    <3>3. CASE i \in 1..Len(projPulls)
      BY <1>3, <1>4, <2>1, <3>1, <3>3 DEF ProjInv, SlotsHeld
    <3> QED BY <1>4, <3>2, <3>3
  <2> QED BY <2>2, <2>3 DEF SlotsHeld
<1> QED BY <1>6, <1>7, <1>8, <1>9, <1>10 DEF ProjInv

\* The guards' drops: the slots are the outer pull's again.
LEMMA EndProjPull_Inv ==
    ASSUME ProjInv, EndProjPull PROVE ProjInv'
<1>1. /\ projPulls \in Seq(ProjPull) /\ projSubs \in Seq(Nat)
      /\ Nested(projPulls, projSubs, ProjDepths)
      /\ Len(projPulls) > IF projSubs = <<>> THEN 0 ELSE Last(projSubs)
  BY ProjPulls_Facts DEF EndProjPull, OuterPulls
<1>2. /\ projPulls' \in Seq(ProjPull) /\ Len(projPulls') = Len(projPulls) - 1 /\ projPulls # <<>>
      /\ \A i \in 1..Len(projPulls) - 1 : projPulls'[i] = projPulls[i]
      /\ Nested(projPulls', projSubs, ProjDepths)
  BY <1>1, Nested_Pop DEF EndProjPull
<1>3. /\ Len(projPulls) \in Nat \ {0} /\ DOMAIN projPulls = 1..Len(projPulls)
      /\ DOMAIN projPulls' = 1..Len(projPulls) - 1 /\ Last(projPulls) = projPulls[Len(projPulls)]
      /\ projPulls[Len(projPulls)] \in ProjPull
  BY <1>1, <1>2 DEF Last
<1>4. /\ projNodes' = projNodes /\ plainScans' = plainScans /\ wanted' = wanted
      /\ pushed' = pushed /\ projSubs' = projSubs
      /\ scanSlots' = projPulls[Len(projPulls)].saved
  BY <1>3 DEF EndProjPull
<1>5. ProjTypes'
  BY <1>2, <1>3, <1>4 DEF ProjInv, ProjTypes, ProjPull
<1>6. (\A b \in NodeAddresses : Entered(b)') /\ OwnDescriptors'
  BY <1>4 DEF ProjInv, Entered, OwnDescriptors
<1>7. ProjPulledLive'
  BY <1>2, <1>3, <1>4 DEF ProjInv, ProjPulledLive, PulledOnce
<1>8. ProjNested'
  BY <1>2, <1>4 DEF ProjNested, ProjDepths
<1>9. SlotsHeld'
  <2>1. ASSUME NEW i \in 0..Len(projPulls) - 1
        PROVE  SlotsWithin(projPulls', projNodes', i) = SlotsWithin(projPulls, projNodes, i)
    <3>1. CASE i = 0
      BY <3>1 DEF SlotsWithin
    <3>2. CASE i # 0
      BY <1>2, <1>3, <1>4, <3>2 DEF SlotsWithin
    <3> QED BY <3>1, <3>2
  <2> QED BY <1>2, <1>3, <1>4, <2>1 DEF ProjInv, SlotsHeld
<1> QED BY <1>5, <1>6, <1>7, <1>8, <1>9 DEF ProjInv

\* A subtransaction ends, and the nodes that are pulled in spite of it keep their depths.
LEMMA ProjClose ==
    ASSUME ProjInv, projSubs # <<>>, NEW new,
           \A i \in 1..Last(projSubs) : ProjDepths[projPulls[i].node] < Len(projSubs)
             => new[projPulls[i].node] = ProjDepths[projPulls[i].node]
    PROVE  /\ Front(projSubs) \in Seq(Nat) /\ Len(Front(projSubs)) = Len(projSubs) - 1
           /\ Last(projSubs) \in Nat /\ Last(projSubs) <= Len(projPulls)
           /\ SubSeq(projPulls, 1, Last(projSubs)) \in Seq(ProjPull)
           /\ Len(SubSeq(projPulls, 1, Last(projSubs))) = Last(projSubs)
           /\ \A i \in 1..Last(projSubs) :
                /\ SubSeq(projPulls, 1, Last(projSubs))[i] = projPulls[i]
                /\ i \in DOMAIN projPulls /\ ProjDepths[projPulls[i].node] < Len(projSubs)
           /\ Nested(SubSeq(projPulls, 1, Last(projSubs)), Front(projSubs), new)
<1>1. /\ projPulls \in Seq(ProjPull) /\ projSubs \in Seq(Nat)
      /\ Nested(projPulls, projSubs, ProjDepths)
  BY ProjPulls_Facts
<1>2. KeptDepths(projPulls, projSubs, ProjDepths, new)
  BY Zenon DEF KeptDepths
<1>3. Closes(ProjPull, projPulls, projSubs, ProjDepths, new)
  BY <1>1, <1>2, Nested_Close
<1> QED BY <1>3, Zenon DEF Closes

\* The pulls that a subtransaction began under are there when it ends.
LEMMA ProjOuter_Facts ==
    ASSUME ProjInv, projSubs # <<>>
    PROVE  Len(projSubs) \in Nat \ {0} /\ \A i \in 1..Last(projSubs) : i \in DOMAIN projPulls
<1>1. projSubs \in Seq(Nat)
  BY ProjPulls_Facts
<1>2. /\ Last(projSubs) \in Nat /\ Last(projSubs) = projSubs[Len(projSubs)]
      /\ Len(projSubs) \in Nat \ {0}
  BY <1>1, FrontOfSeq
<1>3. Len(projSubs) \in DOMAIN projSubs
  BY <1>1, <1>2
<1>4. Last(projSubs) <= Len(projPulls)
  BY <1>2, <1>3, ProjPulls_Facts DEF Nested
<1> QED BY <1>2, <1>4, ProjPulls_Facts

\* A subtransaction ends in order.
LEMMA ProjEndSub_Inv ==
    ASSUME ProjInv, ProjEndSub PROVE ProjInv'
<1>1. /\ projSubs # <<>> /\ Len(projPulls) = Last(projSubs) /\ projSubs' = Front(projSubs)
      /\ plainScans' = plainScans /\ wanted' = wanted /\ pushed' = pushed
      /\ scanSlots' = scanSlots /\ projPulls' = projPulls
      /\ projNodes' = [a \in NodeAddresses |->
                         IF a \in LiveNodes /\ projNodes[a].sub = Len(projSubs)
                           THEN [projNodes[a] EXCEPT !.sub = @ - 1] ELSE projNodes[a]]
  BY DEF ProjEndSub
<1>2. Len(projSubs) \in Nat \ {0} /\ \A i \in 1..Last(projSubs) : i \in DOMAIN projPulls
  BY <1>1, ProjOuter_Facts
<1>3. \A a \in NodeAddresses :
        /\ projNodes'[a] \in ProjNode \cup {Absent}
        /\ projNodes[a] = Absent => projNodes'[a] = Absent
        /\ projNodes[a] # Absent =>
             /\ projNodes'[a].desc = projNodes[a].desc /\ projNodes'[a].plan = projNodes[a].plan
             /\ projNodes[a].sub <= Len(projSubs) => projNodes'[a].sub <= Len(projSubs) - 1
             /\ projNodes[a].sub < Len(projSubs) => projNodes'[a] = projNodes[a]
  <2> TAKE a \in NodeAddresses
  <2>1. CASE projNodes[a] = Absent
    BY <1>1, <2>1 DEF LiveNodes
  <2>2. CASE projNodes[a] # Absent /\ projNodes[a].sub = Len(projSubs)
    <3>1. projNodes'[a] = [projNodes[a] EXCEPT !.sub = projNodes[a].sub - 1]
      BY <1>1, <2>2 DEF LiveNodes
    <3>2. Len(projSubs) - 1 \in Nat /\ Len(projSubs) \in Nat /\ projNodes[a] \in ProjNode
      BY <1>2, <2>2, ProjLive_Facts
    <3>3. /\ projNodes'[a] \in ProjNode /\ projNodes'[a].sub = Len(projSubs) - 1
          /\ projNodes'[a].desc = projNodes[a].desc /\ projNodes'[a].plan = projNodes[a].plan
      BY <2>2, <3>1, <3>2 DEF ProjNode
    <3> QED BY <2>2, <3>2, <3>3
  <2>3. CASE projNodes[a] # Absent /\ projNodes[a].sub # Len(projSubs)
    <3>1. projNodes'[a] = projNodes[a]
      BY <1>1, <2>3
    <3>2. projNodes[a].sub \in Nat /\ projNodes[a] \in ProjNode
      BY <2>3, ProjLive_Facts
    <3>3. projNodes[a].sub <= Len(projSubs) => projNodes[a].sub <= Len(projSubs) - 1
      BY <1>2, <2>3, <3>2
    <3> QED BY <2>3, <3>1, <3>2, <3>3
  <2> QED BY <2>1, <2>2, <2>3
<1>4. SubSeq(projPulls, 1, Last(projSubs)) = projPulls
  <2>1. projPulls \in Seq(ProjPull)
    BY ProjPulls_Facts
  <2> QED BY <1>1, <2>1
<1>5. /\ projSubs' \in Seq(Nat) /\ Len(projSubs') = Len(projSubs) - 1
      /\ Nested(projPulls', projSubs', ProjDepths')
      /\ \A i \in DOMAIN projPulls : projNodes'[projPulls[i].node] = projNodes[projPulls[i].node]
  <2> DEFINE new == ProjDepths'
  <2>1. ASSUME NEW i \in 1..Last(projSubs), ProjDepths[projPulls[i].node] < Len(projSubs)
        PROVE  /\ projNodes'[projPulls[i].node] = projNodes[projPulls[i].node]
               /\ new[projPulls[i].node] = ProjDepths[projPulls[i].node]
    <3>1. projPulls[i].node \in NodeAddresses /\ projNodes[projPulls[i].node] # Absent
      BY <1>2, ProjPulls_Facts DEF ProjInv, ProjPulledLive
    <3>2. projNodes'[projPulls[i].node] = projNodes[projPulls[i].node]
      BY <1>3, <2>1, <3>1, ProjLive_Facts
    <3> QED BY <3>1, <3>2 DEF ProjDepths
  <2> HIDE DEF new
  <2>2. /\ Front(projSubs) \in Seq(Nat) /\ Len(Front(projSubs)) = Len(projSubs) - 1
        /\ \A i \in 1..Last(projSubs) : ProjDepths[projPulls[i].node] < Len(projSubs)
        /\ Nested(SubSeq(projPulls, 1, Last(projSubs)), Front(projSubs), new)
    BY <1>1, <2>1, ProjClose
  <2>3. \A i \in DOMAIN projPulls : i \in 1..Last(projSubs)
    BY <1>1, ProjPulls_Facts
  <2> QED BY <1>1, <1>4, <2>1, <2>2, <2>3 DEF new
<1>6. ProjTypes'
  <2>1. projNodes' \in [NodeAddresses -> ProjNode \cup {Absent}]
    BY <1>1, <1>3
  <2> QED BY <1>1, <1>5, <2>1 DEF ProjInv, ProjTypes
<1>7. ASSUME NEW a \in NodeAddresses PROVE Entered(a)'
  <2>1. SUFFICES ASSUME projNodes'[a] # Absent PROVE Entered(a)'
    BY DEF Entered
  <2>2. /\ projNodes[a] # Absent /\ Entered(a)
        /\ projNodes'[a].desc = projNodes[a].desc /\ projNodes'[a].plan = projNodes[a].plan
        /\ projNodes[a].sub <= Len(projSubs) => projNodes'[a].sub <= Len(projSubs) - 1
    BY <1>3, <2>1 DEF ProjInv
  <2> QED BY <1>1, <1>5, <2>2 DEF Entered
<1>8. OwnDescriptors'
  BY <1>3 DEF ProjInv, OwnDescriptors
<1>9. ProjPulledLive'
  <2>1. \A i \in DOMAIN projPulls : projNodes[projPulls[i].node] # Absent
    BY DEF ProjInv, ProjPulledLive
  <2>2. \A i \in DOMAIN projPulls : projNodes'[projPulls[i].node] # Absent
    BY <1>5, <2>1
  <2> QED BY <1>1, <2>2 DEF ProjInv, ProjPulledLive
<1>10. SlotsHeld'
  <2>1. Len(projPulls) \in Nat /\ DOMAIN projPulls = 1..Len(projPulls)
    BY ProjPulls_Facts
  <2>2. ASSUME NEW i \in 0..Len(projPulls)
        PROVE  SlotsWithin(projPulls', projNodes', i) = SlotsWithin(projPulls, projNodes, i)
    <3>1. CASE i = 0
      BY <3>1 DEF SlotsWithin
    <3>2. CASE i # 0
      <4>1. i \in DOMAIN projPulls
        BY <2>1, <3>2
      <4> QED BY <1>1, <1>5, <3>2, <4>1 DEF SlotsWithin
    <3> QED BY <3>1, <3>2
  <2>3. /\ Len(projPulls) \in 0..Len(projPulls)
        /\ \A i \in DOMAIN projPulls : i - 1 \in 0..Len(projPulls)
    BY <2>1
  <2> QED BY <1>1, <2>2, <2>3 DEF ProjInv, SlotsHeld
<1> QED BY <1>5, <1>6, <1>7, <1>8, <1>9, <1>10 DEF ProjInv, ProjNested

\* subxact_clear: the nodes that go on have their entries, and find the slots empty.
LEMMA ProjCatchError_Inv ==
    ASSUME ProjInv, ProjCatchError PROVE ProjInv'
<1>1. /\ projSubs # <<>> /\ projPulls' = SubSeq(projPulls, 1, Last(projSubs))
      /\ scanSlots' = EmptySlots /\ plainScans' \in SUBSET plainScans
      /\ projSubs' = Front(projSubs) /\ wanted' = wanted /\ pushed' = pushed
      /\ projNodes' = [a \in NodeAddresses |->
                         IF a \in LiveNodes /\ projNodes[a].sub = Len(projSubs)
                           THEN Absent ELSE projNodes[a]]
  BY DEF ProjCatchError
<1>2. Len(projSubs) \in Nat \ {0} /\ \A i \in 1..Last(projSubs) : i \in DOMAIN projPulls
  BY <1>1, ProjOuter_Facts
<1>3. \A a \in NodeAddresses :
        /\ projNodes'[a] \in {projNodes[a], Absent}
        /\ projNodes'[a] # Absent => projNodes[a].sub # Len(projSubs)
        /\ projNodes[a] # Absent /\ projNodes[a].sub < Len(projSubs) => projNodes'[a] = projNodes[a]
  BY <1>1, <1>2 DEF LiveNodes
<1>4. /\ projSubs' \in Seq(Nat) /\ Len(projSubs') = Len(projSubs) - 1
      /\ projPulls' \in Seq(ProjPull) /\ Len(projPulls') = Last(projSubs) /\ Last(projSubs) \in Nat
      /\ \A i \in 1..Last(projSubs) : projPulls'[i] = projPulls[i] /\ i \in DOMAIN projPulls
      /\ Nested(projPulls', projSubs', ProjDepths')
      /\ \A i \in 1..Last(projSubs) : projNodes'[projPulls[i].node] = projNodes[projPulls[i].node]
  <2> DEFINE new == ProjDepths'
  <2>1. ASSUME NEW i \in 1..Last(projSubs), ProjDepths[projPulls[i].node] < Len(projSubs)
        PROVE  /\ projNodes'[projPulls[i].node] = projNodes[projPulls[i].node]
               /\ new[projPulls[i].node] = ProjDepths[projPulls[i].node]
    <3>1. projPulls[i].node \in NodeAddresses /\ projNodes[projPulls[i].node] # Absent
      BY <1>2, ProjPulls_Facts DEF ProjInv, ProjPulledLive
    <3>2. projNodes'[projPulls[i].node] = projNodes[projPulls[i].node]
      BY <1>3, <2>1, <3>1, ProjLive_Facts
    <3> QED BY <3>1, <3>2 DEF ProjDepths
  <2> HIDE DEF new
  <2>2. /\ Front(projSubs) \in Seq(Nat) /\ Len(Front(projSubs)) = Len(projSubs) - 1
        /\ Last(projSubs) \in Nat
        /\ SubSeq(projPulls, 1, Last(projSubs)) \in Seq(ProjPull)
        /\ Len(SubSeq(projPulls, 1, Last(projSubs))) = Last(projSubs)
        /\ \A i \in 1..Last(projSubs) :
             /\ SubSeq(projPulls, 1, Last(projSubs))[i] = projPulls[i]
             /\ i \in DOMAIN projPulls /\ ProjDepths[projPulls[i].node] < Len(projSubs)
        /\ Nested(SubSeq(projPulls, 1, Last(projSubs)), Front(projSubs), new)
    BY <1>1, <2>1, ProjClose
  <2> QED BY <1>1, <2>1, <2>2 DEF new
<1>5. DOMAIN projPulls' = 1..Last(projSubs)
  BY <1>4
<1>6. ProjTypes'
  <2>1. projNodes' \in [NodeAddresses -> ProjNode \cup {Absent}]
    BY <1>1 DEF ProjInv, ProjTypes
  <2>2. scanSlots' \in SlotPairs
    BY <1>1 DEF EmptySlots, SlotPairs
  <2> QED BY <1>1, <1>4, <2>1, <2>2 DEF ProjInv, ProjTypes
<1>7. ASSUME NEW a \in NodeAddresses PROVE Entered(a)'
  <2>1. SUFFICES ASSUME projNodes'[a] # Absent PROVE Entered(a)'
    BY DEF Entered
  <2>2. projNodes'[a] = projNodes[a] /\ projNodes[a] # Absent /\ projNodes[a].sub # Len(projSubs)
    BY <1>3, <2>1
  <2>3. projNodes[a].sub \in Nat /\ Entered(a)
    BY <2>2, ProjLive_Facts
  <2>4. projNodes[a].sub <= Len(projSubs) - 1
    BY <1>2, <2>2, <2>3 DEF Entered
  <2> QED BY <1>1, <1>4, <2>2, <2>3, <2>4 DEF Entered
<1>8. OwnDescriptors'
  BY <1>3 DEF ProjInv, OwnDescriptors
<1>9. ProjPulledLive'
  BY <1>4, <1>5 DEF ProjInv, ProjPulledLive, PulledOnce
<1>10. SlotsHeld'
  <2>1. scanSlots' \in SlotsWithin(projPulls', projNodes', Len(projPulls'))
    BY <1>1 DEF SlotsWithin
  <2>2. ASSUME NEW i \in DOMAIN projPulls'
        PROVE  projPulls'[i].saved \in SlotsWithin(projPulls', projNodes', i - 1)
    <3>1. i \in 1..Last(projSubs) /\ i \in DOMAIN projPulls /\ projPulls'[i] = projPulls[i]
          /\ projPulls[i].saved \in SlotsWithin(projPulls, projNodes, i - 1)
      BY <1>4, <1>5 DEF ProjInv, SlotsHeld
    <3>2. CASE i = 1
      BY <3>1, <3>2 DEF SlotsWithin
    <3>3. CASE i # 1
      <4>1. i - 1 \in 1..Last(projSubs) /\ projPulls'[i - 1] = projPulls[i - 1]
            /\ projNodes'[projPulls[i - 1].node] = projNodes[projPulls[i - 1].node]
        BY <1>4, <3>1, <3>3
      <4> QED BY <3>1, <4>1 DEF SlotsWithin
    <3> QED BY <3>2, <3>3
  <2> QED BY <2>1, <2>2 DEF SlotsHeld
<1> QED BY <1>4, <1>6, <1>7, <1>8, <1>9, <1>10 DEF ProjInv, ProjNested

\* A subtransaction begins: what is live began before it.
LEMMA ProjBeginSub_Inv ==
    ASSUME ProjInv, ProjBeginSub PROVE ProjInv'
<1>1. /\ projPulls \in Seq(ProjPull) /\ projSubs \in Seq(Nat)
      /\ Nested(projPulls, projSubs, ProjDepths) /\ Len(projSubs) \in Nat
  BY ProjPulls_Facts
<1>2. ASSUME NEW i \in DOMAIN projPulls
      PROVE  ProjDepths[projPulls[i].node] <= Len(projSubs) /\ ProjDepths[projPulls[i].node] \in Nat
  <2>1. projPulls[i].node \in NodeAddresses /\ projNodes[projPulls[i].node] # Absent
    BY ProjPulls_Facts DEF ProjInv, ProjPulledLive
  <2> QED BY <2>1, ProjLive_Facts DEF Entered
<1>3. /\ projSubs' = Append(projSubs, Len(projPulls))
      /\ UNCHANGED <<projNodes, plainScans, wanted, pushed, scanSlots, projPulls>>
  BY DEF ProjBeginSub
<1>4. /\ projSubs' \in Seq(Nat) /\ Nested(projPulls, projSubs', ProjDepths)
      /\ Len(projSubs') = Len(projSubs) + 1
  BY <1>1, <1>2, <1>3, Nested_Open
<1>5. ProjTypes'
  BY <1>3, <1>4 DEF ProjInv, ProjTypes
<1>6. ASSUME NEW a \in NodeAddresses PROVE Entered(a)'
  <2>1. SUFFICES ASSUME projNodes[a] # Absent PROVE Entered(a)'
    BY <1>3 DEF Entered
  <2>2. projNodes[a].sub \in Nat /\ Entered(a)
    BY <2>1, ProjLive_Facts
  <2> QED BY <1>1, <1>3, <1>4, <2>2 DEF Entered
<1>7. OwnDescriptors' /\ ProjPulledLive' /\ ProjNested' /\ SlotsHeld'
  BY <1>3, <1>4 DEF ProjInv, OwnDescriptors, ProjPulledLive, ProjNested, SlotsHeld, ProjDepths
<1> QED BY <1>5, <1>6, <1>7 DEF ProjInv

\* Every step of a backend's columnar scans keeps the invariant.
LEMMA ProjNext_Inv ==
    ASSUME ProjInv, [ProjNext]_projVars PROVE ProjInv'
<1>1. ASSUME NEW a \in NodeAddresses, NEW d \in Descriptors, NEW plan \in Plans,
             BeginProjection(a, d, plan)
      PROVE  ProjInv'
  <2> DEFINE n == [desc |-> d, plan |-> plan, sub |-> Len(projSubs)]
  <2>1. /\ projNodes' = [projNodes EXCEPT ![a] = n]
        /\ wanted' = [wanted EXCEPT ![a] = ColumnsNeeded(plan)]
        /\ pushed' = [pushed EXCEPT ![a] = plan.quals]
        /\ UNCHANGED <<plainScans, scanSlots, projPulls, projSubs>>
        /\ d \notin InUse /\ projNodes[a] = Absent
    BY <1>1 DEF BeginProjection, Synchronized
  <2>2. \A i \in DOMAIN projPulls : projPulls[i].node # a
    BY <2>1 DEF ProjInv, ProjPulledLive
  <2>3. /\ n \in ProjNode /\ ColumnsNeeded(plan) \in (SUBSET Columns) \cup {Absent}
        /\ plan.quals \in (SUBSET Preds) \cup {Absent}
    BY ProjPulls_Facts DEF ProjNode, ColumnsNeeded, Plans
  <2>4. n.plan = plan /\ n.desc = d /\ n.sub <= Len(projSubs)
    BY ProjPulls_Facts
  <2> HIDE DEF n
  <2> QED BY <2>1, <2>2, <2>3, <2>4, ProjNode_Inv
<1>2. ASSUME NEW a \in NodeAddresses, EndProjection(a) PROVE ProjInv'
  <2>1. /\ projNodes' = [projNodes EXCEPT ![a] = Absent]
        /\ wanted' = [wanted EXCEPT ![a] = Absent] /\ pushed' = [pushed EXCEPT ![a] = Absent]
        /\ UNCHANGED <<plainScans, scanSlots, projPulls, projSubs>>
        /\ \A i \in DOMAIN projPulls : projPulls[i].node # a
    BY <1>2 DEF EndProjection, PullingNodes
  <2> QED BY <2>1, ProjNode_Inv
<1>3. ASSUME NEW d \in Descriptors, PlainScanStep(d) PROVE ProjInv'
  <2>1. /\ UNCHANGED <<projNodes, wanted, pushed, scanSlots, projPulls, projSubs>>
        /\ plainScans' \in SUBSET Descriptors
        /\ \A a \in NodeAddresses : projNodes[a] # Absent /\ projNodes[a].desc \notin plainScans
             => projNodes[a].desc \notin plainScans'
    BY <1>3 DEF PlainScanStep, PlainScan, InUse, LiveNodes, ProjInv, ProjTypes
  <2> QED BY <2>1 DEF ProjInv, ProjTypes, Entered, OwnDescriptors, ProjPulledLive, ProjNested,
                      SlotsHeld, ProjDepths
<1>4. CASE ProjEndXact
  <2>1. ProjTypes'
    <3>1. EmptySlots \in SlotPairs
      BY DEF EmptySlots, SlotPairs
    <3>2. /\ Nowhere \in [NodeAddresses -> ProjNode \cup {Absent}]
          /\ Nowhere \in [NodeAddresses -> (SUBSET Columns) \cup {Absent}]
          /\ Nowhere \in [NodeAddresses -> (SUBSET Preds) \cup {Absent}]
      BY DEF Nowhere
    <3> QED BY <1>4, <3>1, <3>2 DEF ProjEndXact, ProjTypes
  <2>2. (\A a \in NodeAddresses : Entered(a)') /\ OwnDescriptors'
    BY <1>4 DEF ProjEndXact, Nowhere, Entered, OwnDescriptors
  <2>3. ProjPulledLive' /\ ProjNested' /\ SlotsHeld'
    BY <1>4 DEF ProjEndXact, ProjPulledLive, PulledOnce, ProjNested, Nested, SlotsHeld, SlotsWithin
  <2> QED BY <2>1, <2>2, <2>3 DEF ProjInv
<1>5. CASE UNCHANGED projVars
  <2>1. UNCHANGED <<projNodes, plainScans, wanted, pushed, scanSlots, projPulls, projSubs>>
    BY <1>5 DEF projVars
  <2> QED BY <2>1 DEF ProjInv, ProjTypes, Entered, OwnDescriptors, ProjPulledLive, ProjNested,
                      SlotsHeld, ProjDepths
<1> QED BY <1>1, <1>2, <1>3, <1>4, <1>5, StartProjPull_Inv, EndProjPull_Inv, ProjBeginSub_Inv,
           ProjEndSub_Inv, ProjCatchError_Inv DEF ProjNext

\* columnar_project.rs, scan_projection and scan_predicates: a scan decodes the columns
\* of its own plan and skips by predicates of its own filter.
THEOREM ScansKeepOwnPlan == ProjSpec => []OwnColumnsAndPredicates
<1>1. ProjInit => ProjInv
  BY ProjInit_Inv
<1>2. ProjInv /\ [ProjNext]_projVars => ProjInv'
  BY ProjNext_Inv
<1>3. ProjInv => OwnColumnsAndPredicates
  <2> SUFFICES ASSUME ProjInv PROVE OwnColumnsAndPredicates
    OBVIOUS
  <2>1. \/ scanSlots = EmptySlots
        \/ \E m \in NodeAddresses : projNodes[m] # Absent /\ scanSlots = SlotsOf(projNodes[m])
    <3>1. CASE Len(projPulls) = 0
      BY <3>1 DEF ProjInv, SlotsHeld, SlotsWithin
    <3>2. CASE Len(projPulls) # 0
      <4>1. Len(projPulls) \in DOMAIN projPulls
        BY <3>2, ProjPulls_Facts
      <4> QED BY <3>2, <4>1, ProjPulls_Facts DEF ProjInv, SlotsHeld, SlotsWithin, ProjPulledLive
    <3> QED BY <3>1, <3>2
  <2>2. ASSUME NEW d \in Descriptors, ScanProjection(d) # Columns \/ ScanPredicates(d) # {}
        PROVE  \E m \in NodeAddresses :
                 projNodes[m] # Absent /\ projNodes[m].desc = d /\ scanSlots = SlotsOf(projNodes[m])
    BY <2>1, <2>2 DEF ScanProjection, ScanPredicates, MeantFor, EmptySlots, SlotsOf
  <2>3. ASSUME NEW a \in LiveNodes
        PROVE  /\ (IF projNodes[a].plan.simple THEN projNodes[a].plan.reads ELSE Columns)
                    \subseteq ScanProjection(projNodes[a].desc)
               /\ ScanPredicates(projNodes[a].desc) \subseteq projNodes[a].plan.quals
    <3>1. a \in NodeAddresses /\ projNodes[a] # Absent
          /\ projNodes[a].desc \in Descriptors /\ projNodes[a].plan \in Plans
      BY ProjLive_Facts DEF LiveNodes
    <3>2. CASE ScanProjection(projNodes[a].desc) = Columns /\ ScanPredicates(projNodes[a].desc) = {}
      BY <3>1, <3>2 DEF Plans
    <3>3. CASE scanSlots = SlotsOf(projNodes[a])
      BY <3>1, <3>3 DEF ScanProjection, ScanPredicates, MeantFor, SlotsOf, ColumnsNeeded, Plans
    <3> QED BY <2>2, <3>1, <3>2, <3>3 DEF ProjInv, OwnDescriptors
  <2>4. ASSUME NEW d \in plainScans
        PROVE  ScanProjection(d) = Columns /\ ScanPredicates(d) = {}
    <3>1. /\ d \in Descriptors
          /\ ~\E m \in NodeAddresses : projNodes[m] # Absent /\ projNodes[m].desc = d
      BY DEF ProjInv, ProjTypes, Entered
    <3> QED BY <2>2, <3>1
  <2> QED BY <2>3, <2>4 DEF OwnColumnsAndPredicates
<1> QED BY <1>1, <1>2, <1>3, PTL DEF ProjSpec

-----------------------------------------------------------------------------
(* What PlanSwap promises of a finished plan, for every set of query       *)
(* blocks, every nesting of planner runs and every length of a statement.  *)
(* Layouts and the walk are folds over sequences: what they compute is     *)
(* proved by induction, with the facts of FoldFacts.                       *)

\* The folds of PlanSwap, as FoldFacts states them.
KindsFold == INSTANCE FoldFacts WITH Op <- KeepKind
PlacesFold == INSTANCE FoldFacts WITH Op <- AtPlace
NodesFold == INSTANCE FoldFacts WITH Op <- SwapNode

LEMMA OfKinds_Fold ==
    ASSUME NEW targets, NEW kinds
    PROVE  OfKinds(targets, kinds) = KindsFold!Fold(kinds, <<>>, targets)
BY DEF OfKinds, FoldLeft, MapThenFoldSet, Max, KindsFold!Fold, KindsFold!Greatest

\* A selection takes the targets one after the other.
LEMMA OfKinds_Empty ==
    ASSUME NEW kinds PROVE OfKinds(<<>>, kinds) = <<>>
BY OfKinds_Fold, KindsFold!Fold_Empty

LEMMA OfKinds_Type ==
    ASSUME NEW T, NEW kinds, NEW targets \in Seq(T) PROVE OfKinds(targets, kinds) \in Seq(T)
<1> DEFINE W == Seq(T)
<1>1. <<>> \in W /\ \A a \in W, x \in T : KeepKind(kinds, a, x) \in W
  BY DEF KeepKind
<1> HIDE DEF W
<1>2. OfKinds(targets, kinds) \in W
  BY <1>1, OfKinds_Fold, KindsFold!Fold_In
<1> QED BY <1>2 DEF W

LEMMA OfKinds_Append ==
    ASSUME NEW T, NEW kinds, NEW targets \in Seq(T), NEW t \in T
    PROVE  /\ OfKinds(targets, kinds) \in Seq(T)
           /\ OfKinds(Append(targets, t), kinds) = KeepKind(kinds, OfKinds(targets, kinds), t)
<1> DEFINE W == Seq(T)
<1>1. <<>> \in W /\ \A a \in W, x \in T : KeepKind(kinds, a, x) \in W
  BY DEF KeepKind
<1>2. OfKinds(targets, kinds) \in W
  BY OfKinds_Type
<1>3. OfKinds(Append(targets, t), kinds) = KeepKind(kinds, OfKinds(targets, kinds), t)
  <2> HIDE DEF W
  <2>1. KindsFold!Fold(kinds, <<>>, Append(targets, t)) =
          KeepKind(kinds, KindsFold!Fold(kinds, <<>>, targets), t)
    BY <1>1, KindsFold!Fold_Append
  <2> QED BY <2>1, OfKinds_Fold
<1> QED BY <1>2, <1>3

\* A target's place among those of its kind, counted in what comes before it and
\* itself, is where the selection of its kind has it.
Placed(targets) ==
    \A i \in 1 .. Len(targets) :
        LET mine == OfKind(targets, targets[i][1])
            place == Len(OfKind(SubSeq(targets, 1, i), targets[i][1]))
        IN  place \in 1 .. Len(mine) /\ mine[place] = targets[i]

LEMMA OfKind_Placed ==
    ASSUME NEW T, NEW targets \in Seq(T)
    PROVE  Placed(targets)
<1> DEFINE P == {s \in Seq(T) : Placed(s)}
<1>1. <<>> \in P
  BY DEF Placed
<1>2. ASSUME NEW s \in Seq(T), NEW x \in T, s \in P PROVE Append(s, x) \in P
  <2> DEFINE more == Append(s, x)
             n == Len(s)
  <2>1. /\ more \in Seq(T) /\ n \in Nat /\ Len(more) = n + 1 /\ more[n + 1] = x
        /\ \A i \in 1 .. n : more[i] = s[i] /\ s[i] \in T
    OBVIOUS
  <2>2. SubSeq(more, 1, n + 1) = more /\ \A i \in 1 .. n : SubSeq(more, 1, i) = SubSeq(s, 1, i)
    <3>1. SubSeq(more, 1, n + 1) = more
      BY <2>1, SubSeqFull
    <3>2. ASSUME NEW i \in 1 .. n PROVE SubSeq(more, 1, i) = SubSeq(s, 1, i)
      <4>1. /\ SubSeq(more, 1, i) \in Seq(T) /\ SubSeq(s, 1, i) \in Seq(T)
            /\ Len(SubSeq(more, 1, i)) = i /\ Len(SubSeq(s, 1, i)) = i
            /\ \A j \in 1 .. i : SubSeq(more, 1, i)[j] = SubSeq(s, 1, i)[j]
        BY <2>1
      <4> QED BY <4>1, SeqEqual
    <3> QED BY <3>1, <3>2
  <2>3. \A kind : /\ OfKind(s, kind) \in Seq(T)
                  /\ OfKind(more, kind) = IF x[1] = kind THEN Append(OfKind(s, kind), x)
                                          ELSE OfKind(s, kind)
    <3> TAKE kind
    <3>1. /\ OfKinds(s, {kind}) \in Seq(T)
          /\ OfKinds(more, {kind}) = KeepKind({kind}, OfKinds(s, {kind}), x)
      BY OfKinds_Append
    <3> QED BY <3>1 DEF OfKind, KeepKind
  <2> HIDE DEF more, n
  <2>4. ASSUME NEW kind, NEW j \in 1 .. Len(OfKind(s, kind))
        PROVE  j \in 1 .. Len(OfKind(more, kind)) /\ OfKind(more, kind)[j] = OfKind(s, kind)[j]
    <3> DEFINE old == OfKind(s, kind)
               new == OfKind(more, kind)
    <3>1. old \in Seq(T) /\ (new = old \/ new = Append(old, x))
      BY <2>3
    <3> HIDE DEF old, new
    <3>2. j \in 1 .. Len(new) /\ new[j] = old[j]
      <4>1. j \in 1 .. Len(old)
        BY DEF old
      <4> QED BY <3>1, <4>1
    <3> QED BY <3>2 DEF old, new
  <2>5. \A i \in 1 .. n :
          /\ Len(OfKind(SubSeq(s, 1, i), s[i][1])) \in 1 .. Len(OfKind(s, s[i][1]))
          /\ OfKind(s, s[i][1])[Len(OfKind(SubSeq(s, 1, i), s[i][1]))] = s[i]
    BY <1>2 DEF Placed, n
  <2>6. ASSUME NEW i \in 1 .. n + 1
        PROVE  /\ Len(OfKind(SubSeq(more, 1, i), more[i][1])) \in 1 .. Len(OfKind(more, more[i][1]))
               /\ OfKind(more, more[i][1])[Len(OfKind(SubSeq(more, 1, i), more[i][1]))] = more[i]
    <3>1. CASE i \in 1 .. n
      BY <2>1, <2>2, <2>4, <2>5, <3>1
    <3>2. CASE i = n + 1
      <4>1. OfKind(more, x[1]) = Append(OfKind(s, x[1]), x) /\ OfKind(s, x[1]) \in Seq(T)
        BY <2>3
      <4>2. /\ Len(OfKind(more, x[1])) \in 1 .. Len(OfKind(more, x[1]))
            /\ OfKind(more, x[1])[Len(OfKind(more, x[1]))] = x
        BY <4>1
      <4> QED BY <2>1, <2>2, <3>2, <4>2
    <3> QED BY <2>1, <3>1, <3>2
  <2>7. Placed(more)
    BY <2>1, <2>6 DEF Placed
  <2> QED BY <2>1, <2>7 DEF more
<1> HIDE DEF P
<1>3. targets \in P
  BY <1>1, <1>2, KindsFold!SequenceInduction
<1> QED BY <1>3 DEF P

\* The targets of one kind are all of them when there is no other.
LEMMA OfKind_All ==
    ASSUME NEW T, NEW kind, NEW targets \in Seq(T),
           \A i \in DOMAIN targets : targets[i][1] = kind
    PROVE  OfKind(targets, kind) = targets
<1> DEFINE P == {s \in Seq(T) : (\A i \in DOMAIN s : s[i][1] = kind) => OfKind(s, kind) = s}
<1>1. <<>> \in P
  BY OfKinds_Empty DEF OfKind
<1>2. ASSUME NEW s \in Seq(T), NEW x \in T, s \in P PROVE Append(s, x) \in P
  <2> SUFFICES ASSUME \A i \in DOMAIN Append(s, x) : Append(s, x)[i][1] = kind
               PROVE  OfKind(Append(s, x), kind) = Append(s, x)
    <3>1. Append(s, x) \in Seq(T)
      OBVIOUS
    <3> QED BY <3>1
  <2>1. x[1] = kind /\ \A i \in DOMAIN s : s[i][1] = kind
    <3>1. Len(s) + 1 \in DOMAIN Append(s, x) /\ Append(s, x)[Len(s) + 1] = x
      OBVIOUS
    <3>2. \A i \in DOMAIN s : i \in DOMAIN Append(s, x) /\ Append(s, x)[i] = s[i]
      OBVIOUS
    <3> QED BY <3>1, <3>2
  <2>2. OfKind(s, kind) = s
    BY <1>2, <2>1
  <2>3. OfKind(Append(s, x), kind) = IF x[1] = kind THEN Append(OfKind(s, kind), x)
                                     ELSE OfKind(s, kind)
    <3>1. OfKinds(Append(s, x), {kind}) = KeepKind({kind}, OfKinds(s, {kind}), x)
      BY OfKinds_Append
    <3> QED BY <3>1 DEF OfKind, KeepKind
  <2> QED BY <2>1, <2>2, <2>3
<1> HIDE DEF P
<1>3. targets \in P
  BY <1>1, <1>2, KindsFold!SequenceInduction
<1> QED BY <1>3 DEF P

\* Keys and expressions are counted apart in an admission and together in a plan node.
LEMMA Keys_Counted ==
    ASSUME NEW T, NEW targets \in Seq(T)
    PROVE  Len(OfKind(targets, "key")) + Len(OfKind(targets, "expr"))
             = Len(OfKinds(targets, {"key", "expr"}))
<1> DEFINE P == {s \in Seq(T) : Len(OfKind(s, "key")) + Len(OfKind(s, "expr"))
                                  = Len(OfKinds(s, {"key", "expr"}))}
<1>1. <<>> \in P
  <2>1. /\ OfKind(<<>>, "key") = <<>> /\ OfKind(<<>>, "expr") = <<>>
        /\ OfKinds(<<>>, {"key", "expr"}) = <<>>
    BY OfKinds_Empty DEF OfKind
  <2> QED BY <2>1
<1>2. ASSUME NEW s \in Seq(T), NEW x \in T, s \in P PROVE Append(s, x) \in P
  <2>1. \A kinds : /\ OfKinds(s, kinds) \in Seq(T)
                   /\ OfKinds(Append(s, x), kinds) = KeepKind(kinds, OfKinds(s, kinds), x)
    BY OfKinds_Append
  <2>2. \A kinds : /\ Len(OfKinds(s, kinds)) \in Nat
                   /\ Len(OfKinds(Append(s, x), kinds)) =
                        IF x[1] \in kinds THEN Len(OfKinds(s, kinds)) + 1 ELSE Len(OfKinds(s, kinds))
    BY <2>1 DEF KeepKind
  <2>3. Len(OfKinds(s, {"key"})) + Len(OfKinds(s, {"expr"})) = Len(OfKinds(s, {"key", "expr"}))
    BY <1>2 DEF OfKind
  <2> DEFINE Count(kinds) == Len(OfKinds(Append(s, x), kinds))
  <2>4. Count({"key"}) + Count({"expr"}) = Count({"key", "expr"})
    BY <2>2, <2>3
  <2> QED BY <2>4 DEF OfKind
<1> HIDE DEF P
<1>3. targets \in P
  BY <1>1, <1>2, KindsFold!SequenceInduction
<1> QED BY <1>3 DEF P

\* A target list is a sequence.
PlanInputs == \A b \in PlanBlocks : \E T : b.targets \in Seq(T)

\* The output of an executor with a layout over the targets' own slots.
LEMMA Row_Own ==
    ASSUME NEW T, NEW targets \in Seq(T), NEW e, e.layout = Layout(targets),
           e.slots = [kind \in {"key", "expr", "const", "agg"} |-> OfKind(targets, kind)],
           \A i \in DOMAIN targets : targets[i][1] \in {"key", "expr", "const", "agg"}
    PROVE  PlanRowOf(e) = targets
<1>1. DOMAIN targets = 1 .. Len(targets) /\ Len(targets) \in Nat
      /\ targets \in [1 .. Len(targets) -> T]
  BY LenProperties
<1>2. CASE targets = <<>>
  <2>1. e.layout = <<>>
    BY <1>2 DEF Layout
  <2>2. e.slots["agg"] = <<>>
    BY <1>2, OfKinds_Empty DEF OfKind
  <2> QED BY <1>2, <2>1, <2>2 DEF PlanRowOf
<1>3. CASE targets # <<>>
  <2>1. 1 \in DOMAIN e.layout /\ DOMAIN e.layout = 1 .. Len(targets)
    BY <1>1, <1>3 DEF Layout
  <2>2. e.layout # <<>>
    BY <2>1
  <2>3. ASSUME NEW i \in 1 .. Len(targets)
        PROVE  /\ e.layout[i][2] \in DOMAIN e.slots[e.layout[i][1]]
               /\ e.slots[e.layout[i][1]][e.layout[i][2]] = targets[i]
    <3> DEFINE mine == OfKind(targets, targets[i][1])
               place == Len(OfKind(SubSeq(targets, 1, i), targets[i][1]))
    <3>1. place \in 1 .. Len(mine) /\ mine[place] = targets[i]
      BY OfKind_Placed DEF Placed
    <3>2. mine \in Seq(T)
      BY OfKinds_Type DEF OfKind
    <3>3. DOMAIN mine = 1 .. Len(mine)
      BY <3>2, LenProperties
    <3>4. e.layout[i] = <<targets[i][1], place>>
      BY <1>1 DEF Layout
    <3>5. e.slots[targets[i][1]] = mine
      BY <1>1
    <3> HIDE DEF mine, place
    <3> QED BY <3>1, <3>3, <3>4, <3>5
  <2>4. PlanRowOf(e) = [i \in DOMAIN e.layout |->
          LET slots == e.slots[e.layout[i][1]] IN
          IF e.layout[i][2] \in DOMAIN slots THEN slots[e.layout[i][2]] ELSE <<"oob", "oob">>]
    BY <2>2 DEF PlanRowOf
  <2>5. PlanRowOf(e) = [i \in 1 .. Len(targets) |-> targets[i]]
    BY <2>1, <2>3, <2>4
  <2> QED BY <1>1, <2>5
<1> QED BY <1>2, <1>3

\* What an admission says of its own block.
OwnShape(e, b) ==
    /\ e.table = b.table /\ e.where = b.where /\ PlanRowOf(e) = b.targets
    /\ Len(e.slots["key"]) + Len(e.slots["expr"]) = Len(Keys(b))
    /\ ExpectedArity(e) = Len(b.targets)

LEMMA Admission_Own ==
    ASSUME PlanInputs, NEW b \in PlanBlocks, Admits(b), NEW run
    PROVE  OwnShape(Admission(b, run), b)
<1> DEFINE e == Admission(b, run)
<1>1. PICK T : b.targets \in Seq(T)
  BY DEF PlanInputs
<1>2. /\ e.table = b.table /\ e.where = b.where
      /\ e.slots = [kind \in {"key", "expr", "const", "agg"} |-> OfKind(b.targets, kind)]
      /\ e.layout = IF Grouped(b) THEN Layout(b.targets) ELSE <<>>
  BY DEF Admission
<1> HIDE DEF e
<1>3. Len(e.slots["key"]) + Len(e.slots["expr"]) = Len(Keys(b))
  BY <1>1, <1>2, Keys_Counted DEF Keys
<1>4. DOMAIN b.targets = 1 .. Len(b.targets) /\ Len(b.targets) \in Nat
  BY <1>1, LenProperties
<1>5. ASSUME Grouped(b) PROVE OwnShape(e, b)
  <2>1. \A i \in DOMAIN b.targets : b.targets[i][1] \in {"key", "expr", "const", "agg"}
    BY DEF Admits, ClassifyTargetNode
  <2>2. PlanRowOf(e) = b.targets
    BY <1>1, <1>2, <1>5, <2>1, Row_Own
  <2>3. b.targets # <<>>
    BY <1>5, OfKinds_Empty DEF Admits, Keys
  <2>4. DOMAIN Layout(b.targets) = 1 .. Len(b.targets) /\ 1 \in DOMAIN Layout(b.targets)
    BY <1>1, <1>4, <2>3 DEF Layout
  <2>5. Layout(b.targets) # <<>> /\ Len(Layout(b.targets)) = Len(b.targets)
    BY <1>4, <2>4
  <2>6. ExpectedArity(e) = Len(b.targets)
    BY <1>2, <1>5, <2>5 DEF ExpectedArity
  <2> QED BY <1>2, <1>3, <2>2, <2>6 DEF OwnShape
<1>6. ASSUME ~Grouped(b) PROVE OwnShape(e, b)
  <2>1. \A i \in DOMAIN b.targets : b.targets[i][1] = "agg"
    BY <1>6 DEF Admits, ClassifyTargetNode
  <2>2. OfKind(b.targets, "agg") = b.targets
    BY <1>1, <2>1, OfKind_All
  <2>3. e.layout = <<>> /\ e.slots["agg"] = b.targets
    BY <1>2, <1>6, <2>2
  <2>4. ExpectedArity(e) = Len(b.targets) /\ PlanRowOf(e) = b.targets
    BY <2>3 DEF ExpectedArity, PlanRowOf
  <2> QED BY <1>2, <1>3, <2>4 DEF OwnShape
<1>7. OwnShape(e, b)
  BY <1>5, <1>6
<1> QED BY <1>7 DEF e

\* What a top-k scan answers.
LEMMA TopK_Own ==
    ASSUME PlanInputs, NEW b \in PlanBlocks, TopKAdmissible(b), NEW run
    PROVE  /\ PlanRowOf(TopKScan(b, run)) = b.targets
           /\ TopKScan(b, run).where = b.where /\ TopKScan(b, run).run = run
<1> DEFINE e == TopKScan(b, run)
<1>1. PICK T : b.targets \in Seq(T)
  BY DEF PlanInputs
<1>2. /\ e.where = b.where /\ e.run = run
      /\ e.slots = [kind \in {"key", "expr", "const", "agg"} |-> OfKind(b.targets, kind)]
      /\ e.layout = Layout(b.targets)
  BY DEF Admission, TopKScan
<1> HIDE DEF e
<1>3. \A i \in DOMAIN b.targets : b.targets[i][1] \in {"key", "expr", "const", "agg"}
  BY DEF TopKAdmissible
<1>4. PlanRowOf(e) = b.targets
  BY <1>1, <1>2, <1>3, Row_Own
<1> QED BY <1>2, <1>4 DEF e

\* The planned blocks of a place, in order.
LEMMA PlannedAt_Fold ==
    ASSUME NEW blocks, NEW place
    PROVE  PlannedAt(blocks, place) = PlacesFold!Fold(place, <<>>, blocks)
BY DEF PlannedAt, FoldLeft, MapThenFoldSet, Max, PlacesFold!Fold, PlacesFold!Greatest

PlacedBlocks == [block : PlanBlocks, place : {"main", "sub"}]

LEMMA PlannedAt_Append ==
    ASSUME NEW blocks \in Seq(PlacedBlocks), NEW p \in PlacedBlocks, NEW place
    PROVE  /\ PlannedAt(<<>>, place) = <<>>
           /\ PlannedAt(blocks, place) \in Seq(PlanBlocks)
           /\ PlannedAt(Append(blocks, p), place) = AtPlace(place, PlannedAt(blocks, place), p)
<1> DEFINE W == Seq(PlanBlocks)
<1>1. <<>> \in W /\ \A a \in W, x \in PlacedBlocks : AtPlace(place, a, x) \in W
  BY DEF AtPlace, PlacedBlocks
<1> HIDE DEF W
<1>2. PlannedAt(<<>>, place) = <<>>
  BY PlannedAt_Fold, PlacesFold!Fold_Empty
<1>3. PlannedAt(blocks, place) \in W
  BY <1>1, PlannedAt_Fold, PlacesFold!Fold_In
<1>4. PlannedAt(Append(blocks, p), place) = AtPlace(place, PlannedAt(blocks, place), p)
  <2>1. PlacesFold!Fold(place, <<>>, Append(blocks, p)) =
          AtPlace(place, PlacesFold!Fold(place, <<>>, blocks), p)
    BY <1>1, PlacesFold!Fold_Append
  <2> QED BY <2>1, PlannedAt_Fold
<1> QED BY <1>2, <1>3, <1>4 DEF W

LEMMA PlannedAt_Type ==
    ASSUME NEW blocks \in Seq(PlacedBlocks), NEW place
    PROVE  PlannedAt(blocks, place) \in Seq(PlanBlocks)
<1> DEFINE W == Seq(PlanBlocks)
<1>1. <<>> \in W /\ \A a \in W, x \in PlacedBlocks : AtPlace(place, a, x) \in W
  BY DEF AtPlace, PlacedBlocks
<1> HIDE DEF W
<1>2. PlannedAt(blocks, place) \in W
  BY <1>1, PlannedAt_Fold, PlacesFold!Fold_In
<1> QED BY <1>2 DEF W

\* The walk meets every block that was planned, and no other.
LEMMA Walk_Meets ==
    ASSUME NEW blocks \in Seq(PlacedBlocks)
    PROVE  /\ WalkOrder(blocks) \in Seq(PlanBlocks)
           /\ \A i \in DOMAIN blocks : \E j \in DOMAIN WalkOrder(blocks) :
                WalkOrder(blocks)[j] = blocks[i].block
<1> DEFINE At(s, place) == PlannedAt(s, place)
           Met(s, i) == \E j \in DOMAIN At(s, s[i].place) : At(s, s[i].place)[j] = s[i].block
           P == {s \in Seq(PlacedBlocks) : \A i \in DOMAIN s : Met(s, i)}
<1>1. <<>> \in P
  OBVIOUS
<1>2. ASSUME NEW s \in Seq(PlacedBlocks), NEW p \in PlacedBlocks, s \in P
      PROVE  Append(s, p) \in P
  <2>1. Append(s, p) \in Seq(PlacedBlocks) /\ DOMAIN Append(s, p) = 1 .. Len(s) + 1
        /\ Len(s) \in Nat /\ DOMAIN s = 1 .. Len(s)
    OBVIOUS
  <2>2. ASSUME NEW i \in DOMAIN Append(s, p) PROVE Met(Append(s, p), i)
    <3> DEFINE q == Append(s, p)[i]
               old == At(s, q.place)
               new == At(Append(s, p), q.place)
    <3>1. old \in Seq(PlanBlocks) /\ new = AtPlace(q.place, old, p)
      BY PlannedAt_Type, PlannedAt_Append
    <3>2. CASE i \in 1 .. Len(s)
      <4>1. q = s[i] /\ Met(s, i)
        BY <1>2, <2>1, <3>2
      <4>2. PICK j \in DOMAIN old : old[j] = q.block
        BY <4>1
      <4> HIDE DEF old, new, q
      <4>3. j \in DOMAIN new /\ new[j] = q.block
        BY <3>1, <4>2 DEF AtPlace
      <4> QED BY <4>3 DEF new, q
    <3>3. CASE i = Len(s) + 1
      <4>1. q = p /\ p.block \in PlanBlocks
        BY <3>3 DEF PlacedBlocks
      <4> HIDE DEF old, new, q
      <4>2. new = Append(old, p.block)
        BY <3>1, <4>1 DEF AtPlace
      <4>3. Len(old) + 1 \in DOMAIN new /\ new[Len(old) + 1] = q.block
        BY <3>1, <4>1, <4>2
      <4> QED BY <4>3 DEF new, q
    <3> QED BY <2>1, <3>2, <3>3
  <2> HIDE DEF Met
  <2> QED BY <2>1, <2>2
<1> HIDE DEF P
<1>3. blocks \in P
  BY <1>1, <1>2, PlacesFold!SequenceInduction
<1> DEFINE main == At(blocks, "main")
           sub == At(blocks, "sub")
<1>4. main \in Seq(PlanBlocks) /\ sub \in Seq(PlanBlocks) /\ WalkOrder(blocks) = main \o sub
  BY PlannedAt_Type DEF WalkOrder
<1>5. ASSUME NEW i \in DOMAIN blocks
      PROVE  \E j \in DOMAIN WalkOrder(blocks) : WalkOrder(blocks)[j] = blocks[i].block
  <2>1. blocks[i].place \in {"main", "sub"}
    <3>1. blocks[i] \in PlacedBlocks
      OBVIOUS
    <3> QED BY <3>1 DEF PlacedBlocks
  <2>2. PICK j \in DOMAIN At(blocks, blocks[i].place) :
             At(blocks, blocks[i].place)[j] = blocks[i].block
    BY <1>3 DEF P
  <2>3. CASE blocks[i].place = "main"
    <3>1. j \in DOMAIN main /\ main[j] = blocks[i].block
      BY <2>2, <2>3
    <3> HIDE DEF main, sub
    <3>2. j \in DOMAIN (main \o sub) /\ (main \o sub)[j] = main[j]
      BY <1>4, <3>1
    <3> QED BY <1>4, <3>1, <3>2
  <2>4. CASE blocks[i].place = "sub"
    <3>1. j \in DOMAIN sub /\ sub[j] = blocks[i].block
      BY <2>2, <2>4
    <3> HIDE DEF main, sub
    <3>2. Len(main) + j \in DOMAIN (main \o sub) /\ (main \o sub)[Len(main) + j] = sub[j]
      BY <1>4, <3>1
    <3> QED BY <1>4, <3>1, <3>2
  <2> QED BY <2>1, <2>3, <2>4
<1> HIDE DEF main, sub
<1>6. WalkOrder(blocks) \in Seq(PlanBlocks)
  BY <1>4
<1> QED BY <1>5, <1>6

\* What the stash of a run can hold: the admissions of blocks planned in it, the
\* ones that were taken among them; and what its walk can make of a node.
Taken(e) == [e EXCEPT !.consumed = TRUE]
Entries(A, run) == {Admission(b, run) : b \in A}
Nodes(A, run) ==
    [block : PlanBlocks,
     by : Entries(A, run) \cup {TopKScan(c, run) : c \in PlanBlocks} \cup {Native}]
SwappedOwn(n, A, run) ==
    \/ n.by = Native
    \/ n.by \in Entries(A, run) /\ Fits(n.by, n.block)
    \/ TopKAdmissible(n.block) /\ n.by = TopKScan(n.block, run)
GoodNodes(A, run) == {n \in Nodes(A, run) : SwappedOwn(n, A, run)}
Stashes(A, run) == Seq(Entries(A, run) \cup {Taken(e) : e \in Entries(A, run)})
Walks(A, run) == [stash : Stashes(A, run), nodes : Seq(GoodNodes(A, run))]

LEMMA Entry_Fields ==
    ASSUME NEW A, NEW run, NEW e \in Entries(A, run)
    PROVE  /\ e.consumed = FALSE /\ e.run = run /\ Taken(e).consumed = TRUE
BY DEF Entries, Admission, Taken

LEMMA Min_In ==
    ASSUME NEW S, S \subseteq Nat, S # {}
    PROVE  Min(S) \in S
<1>1. \E x \in S : \A y \in S : x <= y
  BY NodesFold!Least_Exists
<1> QED BY <1>1 DEF Min

\* A swap leaves one node more, of the block it is about.
LEMMA SwapNode_Node ==
    ASSUME NEW A, NEW run, NEW walk \in Walks(A, run), NEW b \in PlanBlocks
    PROVE  /\ SwapNode(run, walk, b) \in Walks(A, run)
           /\ \E n \in GoodNodes(A, run) : /\ n.block = b
                                           /\ SwapNode(run, walk, b).nodes = Append(walk.nodes, n)
<1> DEFINE E == Entries(A, run) \cup {Taken(e) : e \in Entries(A, run)}
           N == GoodNodes(A, run)
           Native_b == [block |-> b, by |-> Native]
           Goal == /\ SwapNode(run, walk, b) \in Walks(A, run)
                   /\ \E m \in N : m.block = b /\ SwapNode(run, walk, b).nodes = Append(walk.nodes, m)
<1>1. /\ walk.stash \in Seq(E) /\ walk.nodes \in Seq(N)
      /\ walk = [stash |-> walk.stash, nodes |-> walk.nodes]
  BY DEF Walks, Stashes
<1>2. Native_b \in N /\ Native_b.block = b
  BY DEF GoodNodes, Nodes, SwappedOwn
<1>3. ASSUME NEW s \in Seq(E), NEW n \in N, n.block = b,
             SwapNode(run, walk, b) = [stash |-> s, nodes |-> Append(walk.nodes, n)]
      PROVE  Goal
  <2>1. Append(walk.nodes, n) \in Seq(N)
    BY <1>1
  <2> QED BY <1>3, <2>1 DEF Walks, Stashes
<1>4. ASSUME b.limit # "none" PROVE Goal
  <2> DEFINE n == [block |-> b, by |-> IF TopKAdmissible(b) THEN TopKScan(b, run) ELSE Native]
  <2>1. n \in N /\ n.block = b
    BY DEF GoodNodes, Nodes, SwappedOwn
  <2>2. SwapNode(run, walk, b) = [stash |-> walk.stash, nodes |-> Append(walk.nodes, n)]
    BY <1>1, <1>4 DEF SwapNode, TrySwapTopK
  <2> HIDE DEF n, N, E, Goal
  <2> QED BY <1>1, <1>3, <2>1, <2>2
<1>5. ASSUME b.limit = "none" PROVE Goal
  <2> DEFINE fitting == {i \in DOMAIN walk.stash : Fits(walk.stash[i], b)}
             i == Min(fitting)
  <2>1. SwapNode(run, walk, b) = TrySwapAgg(walk, b)
    BY <1>5 DEF SwapNode
  <2>2. ASSUME fitting = {} PROVE Goal
    <3>1. SwapNode(run, walk, b) = [stash |-> walk.stash, nodes |-> Append(walk.nodes, Native_b)]
      BY <1>1, <2>1, <2>2 DEF TrySwapAgg
    <3> HIDE DEF Native_b, N, E, Goal
    <3> QED BY <1>1, <1>2, <1>3, <3>1
  <2>3. ASSUME fitting # {} PROVE Goal
    <3> DEFINE e == walk.stash[i]
               n == [block |-> b, by |-> IF OrderReproduced(b) THEN e ELSE Native]
               s == [walk.stash EXCEPT ![i].consumed = TRUE]
    <3>1. i \in fitting
      <4>1. fitting \subseteq Nat
        BY <1>1
      <4> HIDE DEF fitting
      <4> QED BY <2>3, <4>1, Min_In
    <3> HIDE DEF i
    <3>2. i \in DOMAIN walk.stash /\ Fits(e, b)
      BY <3>1
    <3> HIDE DEF fitting
    <3>3. e \in E
      <4> HIDE DEF E
      <4> QED BY <1>1, <3>2
    <3>4. e \in Entries(A, run)
      <4>1. ASSUME NEW x \in Entries(A, run) PROVE Taken(x).consumed = TRUE
        BY <4>1, Entry_Fields
      <4> HIDE DEF e
      <4>2. ~e.consumed
        BY <3>2 DEF Fits
      <4> QED BY <3>3, <4>1, <4>2
    <3>5. n \in N /\ n.block = b
      BY <3>2, <3>4 DEF GoodNodes, Nodes, SwappedOwn
    <3>6. s \in Seq(E)
      <4>1. Taken(e) \in E
        BY <3>4
      <4>2. s = [walk.stash EXCEPT ![i] = Taken(e)]
        BY DEF Taken
      <4> HIDE DEF E, e, i, s
      <4> QED BY <1>1, <3>2, <4>1, <4>2
    <3>7. SwapNode(run, walk, b) = [stash |-> s, nodes |-> Append(walk.nodes, n)]
      BY <2>1, <2>3 DEF TrySwapAgg, fitting, i
    <3> HIDE DEF n, s, N, E, Goal
    <3> QED BY <1>3, <3>5, <3>6, <3>7
  <2> QED BY <2>2, <2>3
<1> QED BY <1>4, <1>5

LEMMA Walk_Fold ==
    ASSUME NEW run, NEW admitted, NEW blocks
    PROVE  Walk(run, admitted, blocks)
             = NodesFold!Fold(run, [stash |-> admitted, nodes |-> <<>>], blocks)
BY DEF Walk, FoldLeft, MapThenFoldSet, Max, NodesFold!Fold, NodesFold!Greatest

\* The nodes of a walk are those of the blocks it met, in order.
LEMMA Walk_Nodes ==
    ASSUME NEW A, NEW run, NEW admitted \in Seq(Entries(A, run)), NEW blocks \in Seq(PlanBlocks)
    PROVE  LET walked == Walk(run, admitted, blocks).nodes IN
           /\ walked \in Seq(GoodNodes(A, run)) /\ Len(walked) = Len(blocks)
           /\ \A i \in 1 .. Len(blocks) : walked[i].block = blocks[i]
<1> DEFINE W == Walks(A, run)
           N == GoodNodes(A, run)
           base == [stash |-> admitted, nodes |-> <<>>]
           At(s) == Walk(run, admitted, s)
           InOrder(walked, s) == /\ walked \in Seq(N) /\ Len(walked) = Len(s)
                                /\ \A i \in 1 .. Len(s) : walked[i].block = s[i]
           P == {s \in Seq(PlanBlocks) : At(s) \in W /\ InOrder(At(s).nodes, s)}
<1>1. base \in W /\ \A a \in W, x \in PlanBlocks : SwapNode(run, a, x) \in W
  <2>1. admitted \in Stashes(A, run)
    BY DEF Stashes
  <2>2. base \in W
    BY <2>1 DEF Walks
  <2> QED BY <2>2, SwapNode_Node
<1>2. <<>> \in P
  <2>1. At(<<>>) = base
    BY Walk_Fold, NodesFold!Fold_Empty
  <2>2. InOrder(base.nodes, <<>>) /\ <<>> \in Seq(PlanBlocks)
    OBVIOUS
  <2> HIDE DEF W, InOrder, At, base
  <2> QED BY <1>1, <2>1, <2>2
<1>3. ASSUME NEW s \in Seq(PlanBlocks), NEW b \in PlanBlocks, s \in P PROVE Append(s, b) \in P
  <2>1. At(Append(s, b)) = SwapNode(run, At(s), b)
    <3> HIDE DEF W, base
    <3>1. NodesFold!Fold(run, base, Append(s, b)) = SwapNode(run, NodesFold!Fold(run, base, s), b)
      BY <1>1, NodesFold!Fold_Append
    <3> QED BY <3>1, Walk_Fold DEF base
  <2> HIDE DEF At
  <2> DEFINE walk == At(s)
  <2>6. walk \in Walks(A, run)
    BY <1>3
  <2> HIDE DEF walk
  <2>7. /\ SwapNode(run, walk, b) \in W
        /\ \E n \in N : n.block = b /\ SwapNode(run, walk, b).nodes = Append(walk.nodes, n)
    BY <2>6, SwapNode_Node
  <2>2. At(Append(s, b)) \in W
    BY <2>1, <2>7 DEF walk
  <2>3. PICK n \in N : n.block = b /\ At(Append(s, b)).nodes = Append(At(s).nodes, n)
    BY <2>1, <2>7 DEF walk
  <2>4. InOrder(Append(At(s).nodes, n), Append(s, b))
    <3> DEFINE walked == At(s).nodes
    <3>1. walked \in Seq(N) /\ Len(walked) = Len(s) /\ \A i \in 1 .. Len(s) : walked[i].block = s[i]
      BY <1>3
    <3> HIDE DEF walked, N
    <3>2. InOrder(Append(walked, n), Append(s, b))
      BY <2>3, <3>1
    <3> QED BY <3>2 DEF walked
  <2>5. Append(s, b) \in Seq(PlanBlocks)
    OBVIOUS
  <2> HIDE DEF W, InOrder
  <2> QED BY <2>2, <2>3, <2>4, <2>5
<1> HIDE DEF P
<1>4. blocks \in P
  BY <1>2, <1>3, NodesFold!SequenceInduction
<1> QED BY <1>4 DEF P

-----------------------------------------------------------------------------
(* The stash of every planner run that is under way.                       *)

\* What a run admitted so far.
AdmittedOf(run) == {b \in PlanBlocks : Admits(b) /\ \E i \in DOMAIN run.blocks : run.blocks[i].block = b}
OwnStash(s, run) == s \in Seq(Entries(AdmittedOf(run), run.run))
AnyStash == Seq(UNION {Entries(PlanBlocks, r) : r \in Nat})
Runs == [run : Nat, saved : AnyStash, blocks : Seq(PlacedBlocks)]

PlanTypeInv == planning \in Seq(Runs) /\ runCount \in Nat /\ stash \in AnyStash

\* The current run's admissions are in the stash, every enclosing run's in the run
\* that was started inside it.
StashesOwn ==
    /\ planning # <<>> => OwnStash(stash, planning[Len(planning)])
    /\ \A k \in 1 .. Len(planning) - 1 : OwnStash(planning[k + 1].saved, planning[k])

PlanInv == /\ PlanTypeInv /\ StashesOwn
           /\ SwapFromOwnRun /\ DistinctShapesSwapOwn

LEMMA Admission_In ==
    ASSUME NEW b \in PlanBlocks, NEW r \in Nat
    PROVE  Admission(b, r) \in UNION {Entries(PlanBlocks, q) : q \in Nat}
BY DEF Entries

LEMMA PlanInv_Init ==
    ASSUME PlanInit PROVE PlanInv
<1>1. PlanTypeInv
  BY DEF PlanInit, PlanTypeInv, AnyStash
<1>2. StashesOwn
  BY DEF PlanInit, StashesOwn
<1>3. SwappedNodes = {}
  BY DEF PlanInit, SwappedNodes, ToSet
<1> QED BY <1>1, <1>2, <1>3 DEF PlanInv, SwapFromOwnRun, DistinctShapesSwapOwn

\* A step that leaves the last finished plan alone.
LEMMA Planned_Kept ==
    ASSUME PlanInv, planned' = planned
    PROVE  SwapFromOwnRun' /\ DistinctShapesSwapOwn'
<1>1. SwappedNodes' = SwappedNodes
  BY DEF SwappedNodes
<1> QED BY <1>1 DEF PlanInv, SwapFromOwnRun, DistinctShapesSwapOwn

LEMMA PlanInv_Enter ==
    ASSUME PlanInv, PlannerEnter PROVE PlanInv'
<1> DEFINE n == Len(planning)
           r == [run |-> runCount + 1, saved |-> stash, blocks |-> <<>>]
<1>1. /\ planning \in Seq(Runs) /\ n \in Nat /\ runCount \in Nat /\ stash \in AnyStash
      /\ r \in Runs
  BY DEF PlanInv, PlanTypeInv, Runs
<1>2. planning' = Append(planning, r) /\ runCount' = runCount + 1 /\ stash' = <<>>
  BY DEF PlannerEnter
<1>3. PlanTypeInv'
  <2> HIDE DEF r
  <2>1. planning' \in Seq(Runs) /\ stash' \in AnyStash
    BY <1>1, <1>2 DEF AnyStash
  <2>2. runCount' \in Nat
    BY <1>1, <1>2
  <2> QED BY <2>1, <2>2 DEF PlanTypeInv
<1>4. /\ Len(planning') = n + 1 /\ planning'[n + 1] = r
      /\ \A k \in 1 .. n : planning'[k] = planning[k]
  BY <1>1, <1>2
<1>5. OwnStash(stash', planning'[n + 1])
  BY <1>2 DEF OwnStash
<1>6. ASSUME NEW k \in 1 .. n PROVE OwnStash(planning'[k + 1].saved, planning'[k])
  <2>1. CASE k = n
    <3>1. planning # <<>>
      BY <1>1, <2>1
    <3>2. OwnStash(stash, planning[n])
      BY <3>1 DEF PlanInv, StashesOwn
    <3>3. planning'[k + 1].saved = stash
      BY <1>4, <2>1
    <3> QED BY <1>4, <2>1, <3>2, <3>3
  <2>2. CASE k \in 1 .. n - 1
    <3>1. OwnStash(planning[k + 1].saved, planning[k])
      BY <2>2 DEF PlanInv, StashesOwn
    <3>2. planning'[k + 1] = planning[k + 1] /\ planning'[k] = planning[k]
      BY <1>1, <1>4, <2>2
    <3> QED BY <3>1, <3>2
  <2> QED BY <1>1, <2>1, <2>2
<1>7. StashesOwn'
  <2>1. (n + 1) - 1 = n
    BY <1>1
  <2> HIDE DEF n, r
  <2> QED BY <1>4, <1>5, <1>6, <2>1 DEF StashesOwn
<1> QED BY <1>3, <1>7, Planned_Kept DEF PlanInv, PlannerEnter

LEMMA PlanInv_Upper ==
    ASSUME PlanInv, NEW b \in PlanBlocks, NEW place \in {"main", "sub"}, UpperPaths(b, place)
    PROVE  PlanInv'
<1> DEFINE n == Len(planning)
           old == planning[n]
           p == [block |-> b, place |-> place]
           new == [old EXCEPT !.blocks = Append(@, p)]
<1>1. /\ planning \in Seq(Runs) /\ planning # <<>> /\ runCount \in Nat /\ stash \in AnyStash
      /\ n \in Nat /\ n \in 1 .. n
  BY DEF PlanInv, PlanTypeInv, UpperPaths
<1>2. /\ planning' = [planning EXCEPT ![n] = new] /\ runCount' = runCount
      /\ stash' = IF Admits(b) THEN Append(stash, Admission(b, old.run)) ELSE stash
  BY DEF UpperPaths, Last
<1>3. old \in Runs /\ old.run \in Nat /\ old.blocks \in Seq(PlacedBlocks) /\ p \in PlacedBlocks
  <2>1. old \in Runs
    BY <1>1
  <2>2. p \in PlacedBlocks
    BY DEF PlacedBlocks
  <2> HIDE DEF old, p
  <2> QED BY <2>1, <2>2 DEF Runs
<1>4. /\ new \in Runs /\ new.run = old.run /\ new.saved = old.saved
      /\ new.blocks = Append(old.blocks, p)
  <2> HIDE DEF old, p
  <2> QED BY <1>3 DEF Runs
<1> HIDE DEF new
<1>5. /\ planning' \in Seq(Runs) /\ Len(planning') = n /\ planning'[n] = new
      /\ \A k \in 1 .. n - 1 : planning'[k] = planning[k]
  <2> HIDE DEF old
  <2> QED BY <1>1, <1>2, <1>4
<1>6. \A i \in DOMAIN old.blocks : i \in DOMAIN new.blocks /\ new.blocks[i] = old.blocks[i]
  <2> HIDE DEF old, p
  <2> QED BY <1>3, <1>4
<1>7. \E i \in DOMAIN new.blocks : new.blocks[i].block = b
  <2>1. /\ Len(old.blocks) + 1 \in DOMAIN Append(old.blocks, p)
        /\ Append(old.blocks, p)[Len(old.blocks) + 1] = p
    <3> HIDE DEF old, p
    <3> QED BY <1>3
  <2> QED BY <1>4, <2>1
<1>8. AdmittedOf(old) \subseteq AdmittedOf(new) /\ (Admits(b) => b \in AdmittedOf(new))
  BY <1>6, <1>7 DEF AdmittedOf
<1>9. Entries(AdmittedOf(old), old.run) \subseteq Entries(AdmittedOf(new), new.run)
  BY <1>4, <1>8 DEF Entries
<1>10. OwnStash(stash, new)
  <2>1. stash \in Seq(Entries(AdmittedOf(old), old.run))
    BY <1>1 DEF PlanInv, StashesOwn, OwnStash
  <2> HIDE DEF old
  <2> QED BY <1>9, <2>1 DEF OwnStash
<1>11. OwnStash(stash', new)
  <2> DEFINE E == Entries(AdmittedOf(new), new.run)
             e == Admission(b, old.run)
  <2>1. Admits(b) => e \in E
    BY <1>4, <1>8 DEF Entries
  <2>2. stash \in Seq(E) /\ stash' = IF Admits(b) THEN Append(stash, e) ELSE stash
    BY <1>2, <1>10 DEF OwnStash
  <2> HIDE DEF E, e
  <2>3. stash' \in Seq(E)
    BY <2>1, <2>2
  <2> QED BY <2>3 DEF OwnStash, E
<1>12. stash' \in AnyStash
  <2>1. Admission(b, old.run) \in UNION {Entries(PlanBlocks, q) : q \in Nat}
    BY <1>3, Admission_In
  <2> HIDE DEF old
  <2> QED BY <1>1, <1>2, <2>1 DEF AnyStash
<1>13. ASSUME NEW k \in 1 .. n - 1 PROVE OwnStash(planning'[k + 1].saved, planning'[k])
  <2>1. OwnStash(planning[k + 1].saved, planning[k])
    BY DEF PlanInv, StashesOwn
  <2>2. planning'[k] = planning[k]
    BY <1>5
  <2>3. planning'[k + 1].saved = planning[k + 1].saved
    <3>1. CASE k + 1 = n
      BY <1>4, <1>5, <3>1
    <3>2. CASE k + 1 \in 1 .. n - 1
      BY <1>5, <3>2
    <3> QED BY <1>1, <3>1, <3>2
  <2> QED BY <2>1, <2>2, <2>3
<1>14. PlanTypeInv'
  <2>1. runCount' \in Nat /\ planning' \in Seq(Runs)
    <3> HIDE DEF n, old
    <3> QED BY <1>1, <1>2, <1>5
  <2> QED BY <1>12, <2>1 DEF PlanTypeInv
<1>15. StashesOwn'
  <2> HIDE DEF n
  <2> QED BY <1>5, <1>11, <1>13 DEF StashesOwn
<1> QED BY <1>14, <1>15, Planned_Kept DEF PlanInv, UpperPaths

LEMMA Front_Of ==
    ASSUME NEW T, NEW s \in Seq(T), s # <<>>
    PROVE  /\ Front(s) \in Seq(T) /\ Len(Front(s)) = Len(s) - 1
           /\ \A k \in 1 .. Len(s) - 1 : Front(s)[k] = s[k]
<1>1. Len(s) \in Nat /\ Len(s) >= 1 /\ \A k \in 1 .. Len(s) : s[k] \in T
  OBVIOUS
<1> DEFINE m == Len(s) - 1
<1>2. m \in Int /\ m >= 0 /\ \A k \in 1 .. m : s[k] \in T
  BY <1>1
<1> HIDE DEF m
<1>3. /\ SubSeq(s, 1, m) \in Seq(T)
      /\ Len(SubSeq(s, 1, m)) = IF 1 <= m THEN m - 1 + 1 ELSE 0
      /\ \A k \in 1 .. m - 1 + 1 : SubSeq(s, 1, m)[k] = s[1 + k - 1]
  BY <1>2, SubSeqProperties
<1>4. Front(s) = SubSeq(s, 1, m)
  BY DEF Front, m
<1>5. Len(Front(s)) = m /\ \A k \in 1 .. m : Front(s)[k] = s[k]
  BY <1>2, <1>3, <1>4
<1> QED BY <1>3, <1>4, <1>5 DEF m

\* When a run ends, the stash of the run around it is back.
LEMMA PlanInv_Leave ==
    ASSUME PlanInv, planning # <<>>, planning' = Front(planning),
           stash' = Last(planning).saved, runCount' = runCount
    PROVE  PlanTypeInv' /\ StashesOwn'
<1> DEFINE n == Len(planning)
<1>1. /\ planning \in Seq(Runs) /\ n \in Nat /\ n >= 1 /\ runCount \in Nat
      /\ planning' = SubSeq(planning, 1, n - 1) /\ stash' = planning[n].saved
  BY DEF PlanInv, PlanTypeInv, Front, Last
<1>2. /\ planning' \in Seq(Runs) /\ Len(planning') = n - 1
      /\ \A k \in 1 .. n - 1 : planning'[k] = planning[k]
  <2>1. planning' = Front(planning)
    OBVIOUS
  <2> QED BY <1>1, <2>1, Front_Of
<1>3. stash' \in AnyStash
  <2>1. planning[n] \in Runs
    BY <1>1
  <2> QED BY <1>1, <2>1 DEF Runs
<1>4. \A k \in 1 .. n - 1 : OwnStash(planning[k + 1].saved, planning[k])
  BY DEF PlanInv, StashesOwn
<1> HIDE DEF n
<1>5. planning' # <<>> => OwnStash(stash', planning'[Len(planning')])
  <2> SUFFICES ASSUME planning' # <<>> PROVE OwnStash(stash', planning'[Len(planning')])
    OBVIOUS
  <2>1. n - 1 \in 1 .. n - 1 /\ (n - 1) + 1 = n
    BY <1>1, <1>2
  <2> QED BY <1>1, <1>2, <1>4, <2>1
<1>6. ASSUME NEW k \in 1 .. Len(planning') - 1
      PROVE  OwnStash(planning'[k + 1].saved, planning'[k])
  <2>1. k \in 1 .. n - 1 /\ k + 1 \in 1 .. n - 1
    BY <1>1, <1>2
  <2> QED BY <1>2, <1>4, <2>1
<1>7. StashesOwn'
  BY <1>5, <1>6 DEF StashesOwn
<1> QED BY <1>1, <1>2, <1>3, <1>7 DEF PlanTypeInv

LEMMA PlanInv_Returns ==
    ASSUME PlanInputs, PlanInv, PlannerReturns PROVE PlanInv'
<1> DEFINE run == planning[Len(planning)]
           A == AdmittedOf(run)
           met == WalkOrder(run.blocks)
           walked == Walk(run.run, stash, met).nodes
<1>1. /\ planning # <<>> /\ planning' = Front(planning) /\ stash' = Last(planning).saved
      /\ runCount' = runCount /\ planned' = [run |-> run.run, nodes |-> walked]
  BY DEF PlannerReturns, Restored, SwapWalk, Last
<1>2. PlanTypeInv' /\ StashesOwn'
  BY <1>1, PlanInv_Leave
<1>3. run \in Runs /\ run.run \in Nat /\ run.blocks \in Seq(PlacedBlocks)
  <2>1. run \in Runs
    BY <1>1 DEF PlanInv, PlanTypeInv
  <2> HIDE DEF run
  <2> QED BY <2>1 DEF Runs
<1>4. stash \in Seq(Entries(A, run.run))
  BY <1>1 DEF PlanInv, StashesOwn, OwnStash
<1> HIDE DEF run
<1>5. /\ met \in Seq(PlanBlocks)
      /\ \A i \in DOMAIN run.blocks : \E j \in DOMAIN met : met[j] = run.blocks[i].block
  BY <1>3, Walk_Meets
<1> HIDE DEF met
<1>6. /\ walked \in Seq(GoodNodes(A, run.run)) /\ Len(walked) = Len(met)
      /\ \A i \in 1 .. Len(met) : walked[i].block = met[i]
  BY <1>4, <1>5, Walk_Nodes
<1> HIDE DEF walked, A
<1>7. /\ DOMAIN walked = 1 .. Len(walked) /\ DOMAIN met = 1 .. Len(met)
      /\ \A i \in DOMAIN walked : walked[i] \in GoodNodes(A, run.run)
  BY <1>5, <1>6, LenProperties, ElementOfSeq
<1>8. ASSUME NEW n \in SwappedNodes'
      PROVE  /\ n.by.run = run.run
             /\ \E i \in DOMAIN walked : walked[i] = n
             /\ \/ \E b \in A : n.by = Admission(b, run.run) /\ Fits(n.by, n.block)
                \/ AnswersOwn(n)
  <2>1. PICK i \in DOMAIN walked : walked[i] = n
    BY <1>1 DEF SwappedNodes, ToSet
  <2>2. n.by # Native
    BY DEF SwappedNodes
  <2>3. n \in Nodes(A, run.run) /\ SwappedOwn(n, A, run.run)
    BY <1>7, <2>1 DEF GoodNodes
  <2>4. CASE n.by \in Entries(A, run.run) /\ Fits(n.by, n.block)
    <3>1. n.by.run = run.run
      <4>1. ASSUME NEW e \in Entries(A, run.run) PROVE e.run = run.run
        BY DEF Entries, Admission
      <4> QED BY <2>4, <4>1
    <3>2. \E b \in A : n.by = Admission(b, run.run)
      BY <2>4 DEF Entries
    <3> QED BY <2>1, <2>4, <3>1, <3>2
  <2>5. CASE TopKAdmissible(n.block) /\ n.by = TopKScan(n.block, run.run)
    <3>1. n.block \in PlanBlocks
      BY <2>3 DEF Nodes
    <3>2. /\ PlanRowOf(n.by) = n.block.targets /\ n.by.where = n.block.where /\ n.by.run = run.run
      BY <2>5, <3>1, TopK_Own
    <3>3. AnswersOwn(n)
      BY <3>2 DEF AnswersOwn
    <3> QED BY <2>1, <3>2, <3>3
  <2> QED BY <2>2, <2>3, <2>4, <2>5 DEF SwappedOwn
<1>9. SwapFromOwnRun'
  BY <1>1, <1>8 DEF SwapFromOwnRun
<1>10. ASSUME \A i, j \in DOMAIN walked : i # j => Shape(walked[i].block) # Shape(walked[j].block),
              NEW n \in SwappedNodes'
       PROVE  AnswersOwn(n)
  <2>1. PICK i \in DOMAIN walked : walked[i] = n
    BY <1>8
  <2> SUFFICES ASSUME NEW b \in A, n.by = Admission(b, run.run), Fits(n.by, n.block)
               PROVE  AnswersOwn(n)
    BY <1>8
  <2>2. b \in PlanBlocks /\ Admits(b) /\ \E k \in DOMAIN run.blocks : run.blocks[k].block = b
    BY DEF A, AdmittedOf
  <2>3. PICK j \in DOMAIN walked : walked[j].block = b
    BY <1>5, <1>6, <1>7, <2>2
  <2>4. OwnShape(n.by, b)
    BY <2>2, Admission_Own
  <2>5. Shape(b) = Shape(n.block)
    BY <2>4 DEF OwnShape, Fits, Shape
  <2>6. n.block = b
    BY <1>10, <2>1, <2>3, <2>5
  <2> QED BY <2>4, <2>6 DEF OwnShape, AnswersOwn
<1>11. DistinctShapesSwapOwn'
  <2>1. planned'.nodes = walked
    BY <1>1
  <2> QED BY <1>10, <2>1 DEF DistinctShapesSwapOwn
<1> QED BY <1>2, <1>9, <1>11 DEF PlanInv

LEMMA PlanInv_Next ==
    ASSUME PlanInputs, PlanInv, [PlanNext]_planVars PROVE PlanInv'
<1>1. CASE PlannerEnter
  BY <1>1, PlanInv_Enter
<1>2. ASSUME NEW b \in PlanBlocks, NEW place \in {"main", "sub"}, UpperPaths(b, place)
      PROVE  PlanInv'
  BY <1>2, PlanInv_Upper
<1>3. CASE PlannerReturns
  BY <1>3, PlanInv_Returns
<1>4. CASE PlannerFails
  <2>1. PlanTypeInv' /\ StashesOwn'
    BY <1>4, PlanInv_Leave DEF PlannerFails, Restored
  <2> QED BY <1>4, <2>1, Planned_Kept DEF PlanInv, PlannerFails
<1>5. CASE UNCHANGED planVars
  <2>1. PlanTypeInv' /\ StashesOwn'
    BY <1>5 DEF PlanInv, PlanTypeInv, StashesOwn, planVars
  <2> QED BY <1>5, <2>1, Planned_Kept DEF PlanInv, planVars
<1> QED BY <1>1, <1>2, <1>3, <1>4, <1>5 DEF PlanNext

\* No node of a finished plan was replaced by what another planner run admitted: an
\* enclosing run's stash comes back when a nested one returns or fails.
THEOREM SwapsOfOwnRun ==
    ASSUME PlanInputs PROVE PlanSpec => []SwapFromOwnRun
<1>1. PlanInit => PlanInv
  BY PlanInv_Init
<1>2. PlanInv /\ [PlanNext]_planVars => PlanInv'
  BY PlanInv_Next
<1>3. PlanInv => SwapFromOwnRun
  BY DEF PlanInv
<1> QED BY <1>1, <1>2, <1>3, PTL DEF PlanSpec

\* A node is replaced by a scan that answers that node, its row in the order of its
\* targets, unless two blocks of the statement share table, keys and arity.
THEOREM SwapsAnswerTheirNode ==
    ASSUME PlanInputs PROVE PlanSpec => []DistinctShapesSwapOwn
<1>1. PlanInit => PlanInv
  BY PlanInv_Init
<1>2. PlanInv /\ [PlanNext]_planVars => PlanInv'
  BY PlanInv_Next
<1>3. PlanInv => DistinctShapesSwapOwn
  BY DEF PlanInv
<1> QED BY <1>1, <1>2, <1>3, PTL DEF PlanSpec
=============================================================================
