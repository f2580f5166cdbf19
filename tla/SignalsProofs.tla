--------------------------- MODULE SignalsProofs ---------------------------
(***************************************************************************)
(* Proofs about Signals, for any number of coroutines, signal names and    *)
(* signals: where every signal is, and what a call that returned has got.  *)
(***************************************************************************)
EXTENDS Signals, SequenceTheorems, FiniteSetTheorems, TLAPS

\* Where a coroutine is in its call tells what it holds and what it may
\* receive; it has no answer before it returned.
CallerOK(c) ==
    /\ open[c] \subseteq call[c].on
    /\ pc[c] = "polling" => call[c].op = "WaitForSignal" /\ call[c].on # {} /\ result[c] = 0
    /\ pc[c] \in {"select", "blocked", "holding", "handling"} => call[c].op # "WaitForSignal"
    /\ held[c] # 0 <=> pc[c] = "holding"
    /\ held[c] # 0 => sent[held[c]].name \in open[c]
    /\ pc[c] # "idle" => answer[c].err = "none"

\* The answer of one coroutine, as AnswerTellsSignal has it for all of them.
AnswerOK(c) ==
    pc[c] = "idle" /\ answer[c].err # "none" =>
        IF answer[c].err = "nil"
        THEN /\ result[c] # 0 /\ Decodable(result[c]) /\ sent[result[c]].name \in call[c].on
             /\ call[c].op = "WaitForAnySignal" => answer[c].name = sent[result[c]].name
        ELSE result[c] = 0

\* A coroutine is blocked once, and only while its call waits.
BlockedOK ==
    /\ IsInjective(blocked)
    /\ \A c \in ToSet(blocked) : pc[c] = "blocked"

\* A channel has signals of its name, each once.
ChannelOK(s) ==
    /\ IsInjective(buffer[s])
    /\ \A i \in ToSet(buffer[s]) : sent[i].name = s

Buffered(i) == \E s \in Signals : i \in ToSet(buffer[s])
IsHeld(i)   == \E c \in Callers : held[c] = i
IsGot(i)    == \E c \in Callers : i \in ToSet(got[c])

\* A signal is in exactly one place.
Once(i) ==
    /\ Buffered(i) \/ IsHeld(i) \/ IsGot(i) \/ i \in dropped
    /\ Buffered(i) => ~IsHeld(i) /\ ~IsGot(i) /\ i \notin dropped
    /\ IsHeld(i) => ~IsGot(i) /\ i \notin dropped
    /\ IsGot(i) => i \notin dropped
    /\ \A c, d \in Callers : held[c] = i /\ held[d] = i => c = d
    /\ \A c, d \in Callers : i \in ToSet(got[c]) /\ i \in ToSet(got[d]) => c = d

\* Every signal is where it should be, and there once.
PlacesOK ==
    /\ \A s \in Signals : ChannelOK(s)
    /\ \A i \in Ids : Once(i)
    /\ \A i \in dropped : ~Decodable(i)
    /\ \A c \in Callers : IsInjective(got[c])

IInv ==
    /\ TypeOK /\ BlockedOK /\ PlacesOK
    /\ \A c \in Callers : CallerOK(c) /\ AnswerOK(c)

-----------------------------------------------------------------------------
(* Queues without repetition                                               *)

\* The elements of a sequence are those at its places.
LEMMA ElementAt ==
    ASSUME NEW S, NEW q \in Seq(S)
    PROVE  /\ ToSet(q) = {q[k] : k \in 1 .. Len(q)} /\ ToSet(q) \subseteq S
           /\ IsInjective(q) <=> \A j, k \in 1 .. Len(q) : q[j] = q[k] => j = k
BY LenProperties DEF ToSet, IsInjective

\* Taking the first element takes it once and for all.
LEMMA TailSet ==
    ASSUME NEW S, NEW q \in Seq(S), q # <<>>, IsInjective(q)
    PROVE  /\ Head(q) \in ToSet(q) /\ Tail(q) \in Seq(S)
           /\ ToSet(Tail(q)) = ToSet(q) \ {Head(q)} /\ IsInjective(Tail(q))
<1>1. PICK r : r = Tail(q)
  OBVIOUS
<1>2. /\ r \in Seq(S) /\ Len(q) \in Nat /\ Len(q) >= 1 /\ Head(q) = q[1]
      /\ Len(r) = Len(q) - 1 /\ \A k \in 1 .. Len(q) - 1 : r[k] = q[k + 1]
  BY <1>1, HeadTailProperties, LenProperties, EmptySeq
<1>3. /\ ToSet(q) = {q[k] : k \in 1 .. Len(q)}
      /\ \A j, k \in 1 .. Len(q) : q[j] = q[k] => j = k
  BY ElementAt
<1>4. /\ ToSet(r) = {r[k] : k \in 1 .. Len(q) - 1}
      /\ IsInjective(r) <=> \A j, k \in 1 .. Len(q) - 1 : r[j] = r[k] => j = k
  BY <1>2, ElementAt
<1>5. \A k \in 1 .. Len(q) - 1 : k + 1 \in 1 .. Len(q) /\ k + 1 # 1 /\ 1 \in 1 .. Len(q)
  BY <1>2
<1>6. ToSet(r) \subseteq ToSet(q) \ {Head(q)}
  BY <1>2, <1>3, <1>4, <1>5
<1>7. ASSUME NEW x \in ToSet(q) \ {Head(q)} PROVE x \in ToSet(r)
  <2>1. PICK k \in 1 .. Len(q) : x = q[k]
    BY <1>3, <1>7
  <2>2. k # 1 /\ k - 1 \in 1 .. Len(q) - 1
    BY <1>2, <1>7, <2>1
  <2>3. r[k - 1] = q[k]
    BY <1>2, <2>2
  <2> QED BY <1>4, <2>1, <2>2, <2>3
<1>8. IsInjective(r)
  BY <1>2, <1>3, <1>4
<1>9. Head(q) \in ToSet(q)
  BY <1>2, <1>3
<1> QED BY <1>1, <1>2, <1>6, <1>7, <1>8, <1>9

\* Adding an element that is not there.
LEMMA AppendSet ==
    ASSUME NEW S, NEW q \in Seq(S), NEW x \in S
    PROVE  /\ Append(q, x) \in Seq(S) /\ ToSet(Append(q, x)) = ToSet(q) \cup {x}
           /\ IsInjective(q) /\ x \notin ToSet(q) => IsInjective(Append(q, x))
<1>1. /\ Append(q, x) \in Seq(S) /\ Len(q) \in Nat /\ Len(Append(q, x)) = Len(q) + 1
      /\ \A k \in 1 .. Len(q) : Append(q, x)[k] = q[k]
      /\ Append(q, x)[Len(q) + 1] = x
  BY AppendProperties, LenProperties
<1>2. /\ ToSet(q) = {q[k] : k \in 1 .. Len(q)}
      /\ IsInjective(q) <=> \A j, k \in 1 .. Len(q) : q[j] = q[k] => j = k
  BY ElementAt
<1>3. /\ ToSet(Append(q, x)) = {Append(q, x)[k] : k \in 1 .. Len(q) + 1}
      /\ IsInjective(Append(q, x)) <=>
            \A j, k \in 1 .. Len(q) + 1 : Append(q, x)[j] = Append(q, x)[k] => j = k
  BY <1>1, ElementAt
<1>4. \A k \in 1 .. Len(q) + 1 : k \in 1 .. Len(q) \/ k = Len(q) + 1
  BY <1>1
<1>5. ToSet(Append(q, x)) = ToSet(q) \cup {x}
  <2>1. \A k \in 1 .. Len(q) : k \in 1 .. Len(q) + 1
    BY <1>1
  <2>2. Len(q) + 1 \in 1 .. Len(q) + 1
    BY <1>1
  <2> QED BY <1>1, <1>2, <1>3, <1>4, <2>1, <2>2
<1>6. ASSUME IsInjective(q), x \notin ToSet(q) PROVE IsInjective(Append(q, x))
  BY <1>1, <1>2, <1>3, <1>4, <1>6
<1> QED BY <1>1, <1>5, <1>6

\* Dropping the first k elements.
LEMMA DropSet ==
    ASSUME NEW S, NEW q \in Seq(S), NEW k \in 1 .. Len(q), IsInjective(q)
    PROVE  LET r == SubSeq(q, k + 1, Len(q))
           IN  /\ r \in Seq(S) /\ IsInjective(r)
               /\ ToSet(r) = ToSet(q) \ {q[j] : j \in 1 .. k}
<1> DEFINE r == SubSeq(q, k + 1, Len(q))
<1>1. /\ Len(q) \in Nat /\ k \in Nat /\ k <= Len(q) /\ \A j \in k + 1 .. Len(q) : q[j] \in S
  BY LenProperties, ElementOfSeq
<1>2. /\ r \in Seq(S) /\ Len(r) = Len(q) - k
      /\ \A j \in 1 .. Len(q) - k : r[j] = q[k + j]
  <2>1. k + 1 \in Int /\ Len(q) \in Int
    BY <1>1
  <2>2. /\ r \in Seq(S) /\ Len(r) = IF k + 1 <= Len(q) THEN Len(q) - (k + 1) + 1 ELSE 0
        /\ \A j \in 1 .. Len(q) - (k + 1) + 1 : r[j] = q[k + 1 + j - 1]
    BY <1>1, <2>1, SubSeqProperties
  <2> HIDE DEF r
  <2> QED BY <1>1, <2>2
<1> HIDE DEF r
<1>3. /\ ToSet(q) = {q[j] : j \in 1 .. Len(q)}
      /\ \A i, j \in 1 .. Len(q) : q[i] = q[j] => i = j
  BY ElementAt
<1>4. /\ ToSet(r) = {r[j] : j \in 1 .. Len(q) - k}
      /\ IsInjective(r) <=> \A i, j \in 1 .. Len(q) - k : r[i] = r[j] => i = j
  BY <1>2, ElementAt
<1>5. IsInjective(r)
  BY <1>1, <1>2, <1>3, <1>4
<1>6. ToSet(r) \subseteq ToSet(q) \ {q[j] : j \in 1 .. k}
  BY <1>1, <1>2, <1>3, <1>4
<1>7. ASSUME NEW x \in ToSet(q) \ {q[j] : j \in 1 .. k} PROVE x \in ToSet(r)
  <2>1. PICK j \in 1 .. Len(q) : x = q[j]
    BY <1>3, <1>7
  <2>2. j \notin 1 .. k
    BY <1>7, <2>1
  <2>3. j - k \in 1 .. Len(q) - k /\ k + (j - k) = j
    BY <1>1, <2>2
  <2> QED BY <1>2, <1>4, <2>1, <2>3
<1>8. ToSet(r) = ToSet(q) \ {q[j] : j \in 1 .. k}
  BY <1>6, <1>7
<1> QED BY <1>2, <1>5, <1>8 DEF r

\* Taking an element from the middle.
LEMMA RemoveSet ==
    ASSUME NEW S, NEW q \in Seq(S), NEW k \in 1 .. Len(q), IsInjective(q)
    PROVE  /\ RemoveAt(q, k) \in Seq(S) /\ IsInjective(RemoveAt(q, k))
           /\ ToSet(RemoveAt(q, k)) \subseteq ToSet(q) \ {q[k]}
<1> DEFINE a == SubSeq(q, 1, k - 1)
           b == SubSeq(q, k + 1, Len(q))
           r == a \o b
<1>1. /\ Len(q) \in Nat /\ k \in Nat /\ k <= Len(q) /\ \A j \in 1 .. Len(q) : q[j] \in S
  BY LenProperties, ElementOfSeq
<1>2. a \in Seq(S) /\ Len(a) = k - 1 /\ \A j \in 1 .. k - 1 : a[j] = q[j]
  <2>1. 1 \in Int /\ k - 1 \in Int /\ \A j \in 1 .. k - 1 : q[j] \in S
    BY <1>1
  <2>2. /\ a \in Seq(S) /\ Len(a) = IF 1 <= k - 1 THEN (k - 1) - 1 + 1 ELSE 0
        /\ \A j \in 1 .. (k - 1) - 1 + 1 : a[j] = q[1 + j - 1]
    BY <2>1, SubSeqProperties
  <2> HIDE DEF a
  <2> QED BY <1>1, <2>2
<1>3. b \in Seq(S) /\ Len(b) = Len(q) - k /\ \A j \in 1 .. Len(q) - k : b[j] = q[k + j]
  <2>1. k + 1 \in Int /\ Len(q) \in Int /\ \A j \in k + 1 .. Len(q) : q[j] \in S
    BY <1>1
  <2>2. /\ b \in Seq(S) /\ Len(b) = IF k + 1 <= Len(q) THEN Len(q) - (k + 1) + 1 ELSE 0
        /\ \A j \in 1 .. Len(q) - (k + 1) + 1 : b[j] = q[k + 1 + j - 1]
    BY <2>1, SubSeqProperties
  <2> HIDE DEF b
  <2> QED BY <1>1, <2>2
<1> HIDE DEF a, b
<1>4. /\ r \in Seq(S) /\ Len(r) = Len(q) - 1
      /\ \A j \in 1 .. Len(q) - 1 : r[j] = IF j < k THEN q[j] ELSE q[j + 1]
  <2>1. /\ r \in Seq(S) /\ Len(r) = Len(a) + Len(b)
        /\ \A j \in 1 .. Len(a) + Len(b) : r[j] = IF j <= Len(a) THEN a[j] ELSE b[j - Len(a)]
    BY <1>2, <1>3, ConcatProperties
  <2> HIDE DEF r
  <2>2. Len(r) = Len(q) - 1
    BY <1>1, <1>2, <1>3, <2>1
  <2>3. ASSUME NEW j \in 1 .. Len(q) - 1 PROVE r[j] = IF j < k THEN q[j] ELSE q[j + 1]
    <3>1. CASE j < k
      BY <1>1, <1>2, <1>3, <2>1, <3>1
    <3>2. CASE ~(j < k)
      <4>1. j - (k - 1) \in 1 .. Len(q) - k /\ k + (j - (k - 1)) = j + 1 /\ ~(j <= k - 1)
        BY <1>1, <3>2
      <4>2. j \in 1 .. Len(a) + Len(b) /\ Len(a) = k - 1
        BY <1>1, <1>2, <1>3
      <4>3. r[j] = b[j - (k - 1)]
        BY <2>1, <4>1, <4>2
      <4>4. b[j - (k - 1)] = q[k + (j - (k - 1))]
        BY <1>3, <4>1
      <4> QED BY <3>2, <4>1, <4>3, <4>4
    <3> QED BY <3>1, <3>2
  <2> QED BY <2>1, <2>2, <2>3
<1>5. RemoveAt(q, k) = r
  BY DEF RemoveAt, a, b
<1> HIDE DEF r
<1>6. /\ ToSet(q) = {q[j] : j \in 1 .. Len(q)}
      /\ \A i, j \in 1 .. Len(q) : q[i] = q[j] => i = j
  BY ElementAt
<1>7. /\ ToSet(r) = {r[j] : j \in 1 .. Len(q) - 1}
      /\ IsInjective(r) <=> \A i, j \in 1 .. Len(q) - 1 : r[i] = r[j] => i = j
  BY <1>4, ElementAt
<1>8. IsInjective(r)
  BY <1>1, <1>4, <1>6, <1>7
<1>9. ToSet(r) \subseteq ToSet(q) \ {q[k]}
  BY <1>1, <1>4, <1>6, <1>7
<1> QED BY <1>4, <1>5, <1>8, <1>9

-----------------------------------------------------------------------------
(* Types                                                                   *)

\* The signals sent stay; more may come.
SentGrows ==
    /\ sent \in Seq([name : Signals, ok : BOOLEAN]) /\ sent' \in Seq([name : Signals, ok : BOOLEAN])
    /\ Ids \subseteq Ids' /\ \A i \in Ids : sent'[i] = sent[i]

\* A signal that was sent has a name.
LEMMA SentType ==
    ASSUME TypeOK, NEW i \in Ids
    PROVE  sent[i] \in [name : Signals, ok : BOOLEAN]
BY ElementOfSeq DEF TypeOK, Ids

\* A coroutine makes a call or a step.
Moves(c) == Step(c) \/ \E op \in Ops, S \in (SUBSET Signals) \ {{}} : Call(c, op, S)

\* Every step but one leaves sent alone.
LEMMA StepSent ==
    ASSUME TypeOK, NEW c \in Callers, Moves(c)
    PROVE  sent' = sent /\ Ids' = Ids /\ SentGrows
<1>1. sent' = sent
  BY DEF Moves, Step, Select, Park, Receive, ReceiveCorrupt, HandlerReturns, PollReceives, PollDrains,
         WaitTimesOut, WaitCanceled, WaitEnds, Call, channels
<1> QED BY <1>1 DEF Ids, SentGrows, TypeOK

LEMMA SignalSent ==
    ASSUME TypeOK, NEW s \in Signals, NEW ok \in BOOLEAN, SignalWorkflow(s, ok)
    PROVE  /\ SentGrows /\ Len(sent') = Len(sent) + 1 /\ Len(sent) \in Nat
           /\ Len(sent') <= MaxSignals /\ Ids' = Ids \cup {Len(sent) + 1}
           /\ Len(sent) + 1 \notin Ids /\ sent'[Len(sent) + 1] = [name |-> s, ok |-> ok]
<1>1. /\ sent \in Seq([name : Signals, ok : BOOLEAN]) /\ [name |-> s, ok |-> ok] \in [name : Signals, ok : BOOLEAN]
      /\ sent' = Append(sent, [name |-> s, ok |-> ok]) /\ Len(sent) < MaxSignals
  BY DEF TypeOK, SignalWorkflow
<1>2. /\ sent' \in Seq([name : Signals, ok : BOOLEAN]) /\ Len(sent') = Len(sent) + 1 /\ Len(sent) \in Nat
      /\ \A i \in 1 .. Len(sent) : sent'[i] = sent[i]
      /\ sent'[Len(sent) + 1] = [name |-> s, ok |-> ok]
  BY <1>1, AppendProperties, LenProperties
<1>3. Ids' = Ids \cup {Len(sent) + 1} /\ Len(sent) + 1 \notin Ids
  BY <1>2 DEF Ids
<1> QED BY <1>1, <1>2, <1>3, SignalBound DEF SentGrows, Ids

PCs == {"idle", "select", "blocked", "holding", "handling", "polling"}
Answers == [err : {"none", "nil", "timeout", "canceled"}, name : Signals \cup {NoSignal}]
Calls == [op : Ops, on : SUBSET Signals]

\* What a call receives, and from where.
LEMMA ReceiveReturns ==
    ASSUME TypeOK, NEW c \in Callers, CallerOK(c), Receive(c)
    PROVE  /\ held[c] \in Ids /\ sent[held[c]].name \in Signals
           /\ call[c].op = "ListenSignal" => Goto(c, "handling") /\ answer' = answer
           /\ call[c].op = "GetSignalResult" => Return(c, "nil", NoSignal)
           /\ call[c].op = "WaitForAnySignal" => Return(c, "nil", sent[held[c]].name)
           /\ call[c].op \in {"ListenSignal", "GetSignalResult", "WaitForAnySignal"}
<1>1. held[c] \in Ids
  BY DEF Receive, CallerOK, TypeOK
<1>2. call[c].op \in Ops
  BY DEF TypeOK
<1>3. call[c].op \in {"ListenSignal", "GetSignalResult", "WaitForAnySignal"}
  BY <1>2 DEF Receive, CallerOK, Ops
<1>4. call[c].op = "ListenSignal" => Goto(c, "handling") /\ answer' = answer
  BY DEF Receive
<1>5. call[c].op = "GetSignalResult" => Return(c, "nil", NoSignal)
  BY DEF Receive
<1>6. call[c].op = "WaitForAnySignal" => Return(c, "nil", sent[held[c]].name)
  BY DEF Receive, NameOf
<1> QED BY <1>1, <1>3, <1>4, <1>5, <1>6, SentType

\* The channel of a timed wait.
LEMMA AwaitedChannel ==
    ASSUME TypeOK, NEW c \in Callers, CallerOK(c), pc[c] = "polling"
    PROVE  Awaited(c) \in Signals /\ Awaited(c) \in call[c].on
<1>1. call[c].on # {} /\ call[c].on \subseteq Signals
  BY DEF CallerOK, TypeOK
<1>2. Awaited(c) \in call[c].on
  BY <1>1 DEF Awaited
<1> QED BY <1>1, <1>2

\* What the channels and the coroutines have, by its type, for the signals I.
TypeOf(I) ==
    /\ buffer \in [Signals -> Seq(I)] /\ blocked \in Seq(Callers) /\ dropped \subseteq I
    /\ pc \in [Callers -> PCs] /\ call \in [Callers -> Calls] /\ open \in [Callers -> SUBSET Signals]
    /\ held \in [Callers -> I \cup {0}] /\ result \in [Callers -> I \cup {0}]
    /\ answer \in [Callers -> Answers] /\ got \in [Callers -> Seq(I)] /\ cancelled \in BOOLEAN

\* A step of a coroutine keeps every type.
LEMMA StepType ==
    ASSUME TypeOK, NEW c \in Callers, CallerOK(c), \A s \in Signals : IsInjective(buffer[s]),
           Moves(c)
    PROVE  TypeOK'
<1>1. PICK I : I = Ids
  OBVIOUS
<1>2. sent' = sent /\ Ids' = I
  BY <1>1, StepSent
<1>3. TypeOf(I)
  BY <1>1 DEF TypeOK, TypeOf, PCs, Calls, Answers
<1>4. SUFFICES TypeOf(I)'
  BY <1>2 DEF TypeOK, TypeOf, PCs, Calls, Answers
<1>5. CASE \E op \in Ops, S \in (SUBSET Signals) \ {{}} : Call(c, op, S)
  BY <1>3, <1>5 DEF Call, Goto, TypeOf, PCs, Calls, Answers, channels
<1>6. ASSUME NEW s \in Signals, Select(c, s) PROVE TypeOf(I)'
  <2>1. buffer[s] \in Seq(I) /\ buffer[s] # <<>> /\ IsInjective(buffer[s])
    BY <1>3, <1>6 DEF Select, TypeOf
  <2>2. Head(buffer[s]) \in I /\ Tail(buffer[s]) \in Seq(I)
    BY <2>1, HeadTailProperties
  <2>3. buffer' \in [Signals -> Seq(I)]
    BY <1>3, <1>6, <2>2 DEF Select, Received, TypeOf
  <2> QED BY <1>3, <1>6, <2>2, <2>3 DEF Select, Goto, TypeOf, PCs, outcome
<1>7. CASE Park(c)
  <2>1. blocked' \in Seq(Callers)
    BY <1>3, <1>7, AppendProperties DEF Park, TypeOf
  <2> QED BY <1>3, <1>7, <2>1 DEF Park, Goto, TypeOf, PCs, outcome
<1>8. CASE Receive(c)
  <2>1. held[c] \in I /\ sent[held[c]].name \in Signals
    BY <1>1, <1>8, ReceiveReturns
  <2>2. pc' \in [Callers -> PCs] /\ answer' \in [Callers -> Answers]
    <3>1. /\ pc \in [Callers -> PCs] /\ answer \in [Callers -> Answers]
      BY <1>3 DEF TypeOf
    <3>2. \/ Goto(c, "handling") /\ answer' = answer
          \/ Return(c, "nil", NoSignal) \/ Return(c, "nil", sent[held[c]].name)
      BY <1>8, ReceiveReturns
    <3> QED BY <2>1, <3>1, <3>2 DEF Return, Goto, PCs, Answers
  <2>3. got' \in [Callers -> Seq(I)]
    <3>1. got[c] \in Seq(I) /\ got \in [Callers -> Seq(I)]
      BY <1>3 DEF TypeOf
    <3>2. Append(got[c], held[c]) \in Seq(I)
      BY <2>1, <3>1, AppendProperties
    <3> QED BY <1>8, <3>1, <3>2 DEF Receive
  <2> QED BY <1>3, <1>8, <2>1, <2>2, <2>3 DEF Receive, TypeOf, channels
<1>9. CASE ReceiveCorrupt(c)
  <2>1. held[c] \in I
    BY <1>1, <1>9 DEF ReceiveCorrupt, CallerOK, TypeOK
  <2> QED BY <1>3, <1>9, <2>1 DEF ReceiveCorrupt, Goto, TypeOf, PCs, outcome
<1>10. CASE HandlerReturns(c)
  BY <1>3, <1>10 DEF HandlerReturns, LoopsAgain, Goto, TypeOf, PCs, channels, outcome
<1>11. CASE PollReceives(c) \/ PollDrains(c)
  <2> DEFINE s == Awaited(c)
  <2>1. s \in Signals
    BY <1>11, AwaitedChannel DEF PollReceives, PollDrains
  <2>2. buffer[s] \in Seq(I) /\ IsInjective(buffer[s]) /\ ToSet(buffer[s]) \subseteq I
    BY <1>3, <2>1, ElementAt DEF TypeOf
  <2>3. CASE PollReceives(c)
    <3>1. PICK k \in 1 .. Len(buffer[s]) :
              /\ result' = [result EXCEPT ![c] = buffer[s][k]]
              /\ got' = [got EXCEPT ![c] = Append(@, buffer[s][k])]
              /\ buffer' = [buffer EXCEPT ![s] = SubSeq(@, k + 1, Len(@))]
              /\ dropped' = dropped \cup {buffer[s][j] : j \in 1 .. k - 1}
      BY <2>3 DEF PollReceives
    <3>2. SubSeq(buffer[s], k + 1, Len(buffer[s])) \in Seq(I)
      BY <2>2, DropSet
    <3>3. \A j \in 1 .. Len(buffer[s]) : buffer[s][j] \in I
      BY <2>2, ElementOfSeq
    <3>4. Len(buffer[s]) \in Nat
      BY <2>2, LenProperties
    <3>5. dropped' \subseteq I
      BY <1>3, <3>1, <3>3, <3>4 DEF TypeOf
    <3>6. Append(got[c], buffer[s][k]) \in Seq(I)
      BY <1>3, <3>3, AppendProperties DEF TypeOf
    <3>7. /\ result' \in [Callers -> I \cup {0}] /\ got' \in [Callers -> Seq(I)]
          /\ buffer' \in [Signals -> Seq(I)]
      BY <1>3, <2>1, <3>1, <3>2, <3>3, <3>6 DEF TypeOf
    <3> QED BY <1>3, <2>3, <3>5, <3>7 DEF PollReceives, Return, Goto, TypeOf, PCs, Answers
  <2>4. CASE PollDrains(c)
    <3>1. <<>> \in Seq(I)
      BY EmptySeq
    <3> QED BY <1>3, <2>1, <2>2, <2>4, <3>1 DEF PollDrains, TypeOf, outcome
  <2> QED BY <1>11, <2>3, <2>4
<1>12. CASE WaitTimesOut(c) \/ WaitCanceled(c)
  <2>1. PICK e \in {"timeout", "canceled"} : WaitEnds(c, e)
    BY <1>12 DEF WaitTimesOut, WaitCanceled
  <2>2. [err |-> e, name |-> NoSignal] \in Answers
    BY DEF Answers
  <2>3. pc' \in [Callers -> PCs] /\ answer' \in [Callers -> Answers]
    BY <1>3, <2>1, <2>2 DEF WaitEnds, Return, Goto, TypeOf, PCs
  <2> QED BY <1>3, <2>1, <2>3 DEF WaitEnds, TypeOf, channels
<1> QED
  BY <1>5, <1>6, <1>7, <1>8, <1>9, <1>10, <1>11, <1>12 DEF Moves, Step

\* So does a signal that comes in.
LEMMA SignalType ==
    ASSUME TypeOK, BlockedOK, NEW s \in Signals, NEW ok \in BOOLEAN, SignalWorkflow(s, ok)
    PROVE  TypeOK'
<1>1. PICK I : I = Ids \cup {Len(sent) + 1}
  OBVIOUS
<1>2. /\ Ids' = I /\ Ids \subseteq I /\ Len(sent) + 1 \in I
      /\ sent' \in Seq([name : Signals, ok : BOOLEAN]) /\ Len(sent') <= MaxSignals
  BY <1>1, SignalSent DEF SentGrows
<1>3. TypeOf(I)
  <2>1. \A q \in Seq(Ids) : q \in Seq(I)
    BY <1>2, SeqMonotonic
  <2>2. buffer \in [Signals -> Seq(I)] /\ got \in [Callers -> Seq(I)]
    BY <2>1 DEF TypeOK
  <2> QED BY <1>2, <2>2 DEF TypeOK, TypeOf, PCs, Calls, Answers
<1>4. SUFFICES TypeOf(I)'
  BY <1>2 DEF TypeOK, TypeOf, PCs, Calls, Answers
<1>5. UNCHANGED <<dropped, call, result, answer, got, cancelled>>
  BY DEF SignalWorkflow, outcome
<1>6. CASE /\ buffer' = [buffer EXCEPT ![s] = Append(@, Len(sent) + 1)]
           /\ UNCHANGED <<blocked, pc, open, held>>
  <2>1. Append(buffer[s], Len(sent) + 1) \in Seq(I)
    BY <1>2, <1>3, AppendProperties DEF TypeOf
  <2>2. buffer' \in [Signals -> Seq(I)]
    BY <1>3, <1>6, <2>1 DEF TypeOf
  <2> QED BY <1>3, <1>5, <1>6, <2>2 DEF TypeOf
<1>7. ASSUME NEW k \in Waiters(s), HandOver(Len(sent) + 1, s, k) PROVE TypeOf(I)'
  <2>1. blocked \in Seq(Callers) /\ IsInjective(blocked) /\ k \in 1 .. Len(blocked)
    BY <1>7, LenProperties DEF TypeOK, BlockedOK, Waiters
  <2>2. blocked[k] \in Callers /\ RemoveAt(blocked, k) \in Seq(Callers)
    BY <2>1, ElementOfSeq, RemoveSet
  <2>3. /\ held' = [held EXCEPT ![blocked[k]] = Len(sent) + 1] /\ open' = [open EXCEPT ![blocked[k]] = {s}]
        /\ blocked' = RemoveAt(blocked, k) /\ pc' = [pc EXCEPT ![blocked[k]] = "holding"] /\ buffer' = buffer
    BY <1>7 DEF HandOver, Goto
  <2> QED BY <1>2, <1>3, <1>5, <2>2, <2>3 DEF TypeOf, PCs
<1> QED BY <1>6, <1>7 DEF SignalWorkflow

-----------------------------------------------------------------------------
(* Where a coroutine is                                                    *)

\* A coroutine that stays where it is.
SameCaller(c) ==
    /\ pc'[c] = pc[c] /\ call'[c] = call[c] /\ open'[c] = open[c]
    /\ held'[c] = held[c] /\ result'[c] = result[c] /\ answer'[c] = answer[c]

\* It is not disturbed.
LEMMA CallerKept ==
    ASSUME TypeOK, SentGrows, NEW c \in Callers, CallerOK(c), AnswerOK(c), SameCaller(c)
    PROVE  CallerOK(c)' /\ AnswerOK(c)'
<1>1. held[c] \in Ids \cup {0} /\ result[c] \in Ids \cup {0}
  BY DEF TypeOK
<1>2. held[c] # 0 => sent'[held[c]] = sent[held[c]]
  BY <1>1 DEF SentGrows
<1>3. result[c] # 0 => sent'[result[c]] = sent[result[c]]
  BY <1>1 DEF SentGrows
<1>4. CallerOK(c)'
  BY <1>2 DEF CallerOK, SameCaller
<1>5. AnswerOK(c)'
  BY <1>3 DEF AnswerOK, Decodable, SameCaller
<1> QED BY <1>4, <1>5

\* Only one coroutine moves at a time.
LEMMA StepOthers ==
    ASSUME TypeOK, NEW c \in Callers, CallerOK(c), NEW d \in Callers \ {c},
           Moves(c)
    PROVE  SameCaller(d) /\ got'[d] = got[d]
<1> USE DEF Goto, Return, channels, outcome
<1>1. /\ pc \in [Callers -> PCs] /\ call \in [Callers -> Calls] /\ open \in [Callers -> SUBSET Signals]
      /\ held \in [Callers -> Ids \cup {0}] /\ result \in [Callers -> Ids \cup {0}]
      /\ answer \in [Callers -> Answers] /\ got \in [Callers -> Seq(Ids)]
  BY DEF TypeOK, PCs, Calls, Answers
<1>2. CASE \E op \in Ops, S \in (SUBSET Signals) \ {{}} : Call(c, op, S)
  BY <1>1, <1>2 DEF Call, SameCaller
<1>3. CASE (\E s \in Signals : Select(c, s)) \/ Park(c)
  BY <1>1, <1>3 DEF Select, Park, SameCaller
<1>4. CASE Receive(c)
  <2>1. /\ result' = [result EXCEPT ![c] = held[c]] /\ got' = [got EXCEPT ![c] = Append(@, held[c])]
        /\ held' = [held EXCEPT ![c] = 0] /\ UNCHANGED <<call, open>>
    BY <1>4 DEF Receive
  <2>2. pc'[d] = pc[d] /\ answer'[d] = answer[d]
    <3>1. \/ Goto(c, "handling") /\ answer' = answer
          \/ Return(c, "nil", NoSignal) \/ Return(c, "nil", sent[held[c]].name)
      BY <1>4, ReceiveReturns
    <3> QED BY <1>1, <3>1
  <2> QED BY <1>1, <2>1, <2>2 DEF SameCaller
<1>5. CASE ReceiveCorrupt(c) \/ HandlerReturns(c)
  BY <1>1, <1>5 DEF ReceiveCorrupt, HandlerReturns, SameCaller
<1>6. CASE PollReceives(c) \/ PollDrains(c)
  BY <1>1, <1>6 DEF PollReceives, PollDrains, SameCaller
<1>7. CASE WaitTimesOut(c) \/ WaitCanceled(c)
  BY <1>1, <1>7 DEF WaitTimesOut, WaitCanceled, WaitEnds, SameCaller
<1> QED BY <1>2, <1>3, <1>4, <1>5, <1>6, <1>7 DEF Moves, Step

\* What the moving coroutine does to itself.
LEMMA StepCaller ==
    ASSUME TypeOK, NEW c \in Callers, CallerOK(c), AnswerOK(c), \A s \in Signals : ChannelOK(s),
           Moves(c)
    PROVE  CallerOK(c)' /\ AnswerOK(c)'
<1> USE DEF Goto, Return, channels, outcome
<1>1. /\ pc \in [Callers -> PCs] /\ call \in [Callers -> Calls] /\ open \in [Callers -> SUBSET Signals]
      /\ held \in [Callers -> Ids \cup {0}] /\ result \in [Callers -> Ids \cup {0}]
      /\ answer \in [Callers -> Answers] /\ 0 \notin Ids /\ sent' = sent
  <2>1. sent' = sent
    BY StepSent
  <2>2. 0 \notin Ids
    BY DEF Ids
  <2> QED BY <2>1, <2>2 DEF TypeOK, PCs, Calls, Answers
<1>2. ASSUME NEW op \in Ops, NEW S \in (SUBSET Signals) \ {{}}, Call(c, op, S)
      PROVE  CallerOK(c)' /\ AnswerOK(c)'
  <2>a. call' = [call EXCEPT ![c] = [op |-> op, on |-> S]]
    BY <1>2 DEF Call
  <2>1. /\ pc[c] = "idle" /\ pc'[c] = IF op = "WaitForSignal" THEN "polling" ELSE "select"
        /\ call'[c].op = op /\ call'[c].on = S /\ open'[c] = S /\ result'[c] = 0
        /\ answer'[c].err = "none" /\ held' = held
    BY <1>1, <1>2, <2>a DEF Call
  <2>2. held[c] = 0 /\ S # {} /\ pc'[c] \in {"polling", "select"}
    BY <2>1 DEF CallerOK
  <2>3. CallerOK(c)'
    BY <2>1, <2>2 DEF CallerOK
  <2> QED BY <2>2, <2>3 DEF AnswerOK
<1>3. ASSUME NEW s \in Signals, Select(c, s) PROVE CallerOK(c)' /\ AnswerOK(c)'
  <2>1. buffer[s] \in Seq(Ids) /\ buffer[s] # <<>> /\ IsInjective(buffer[s]) /\ s \in open[c]
    BY <1>3 DEF Select, TypeOK, ChannelOK
  <2>2. Head(buffer[s]) \in ToSet(buffer[s]) /\ Head(buffer[s]) \in Ids
    BY <2>1, TailSet, HeadTailProperties
  <2>3. sent[Head(buffer[s])].name = s /\ Head(buffer[s]) # 0
    BY <1>1, <2>2 DEF ChannelOK
  <2>4. /\ pc[c] = "select" /\ pc'[c] = "holding" /\ open'[c] = {s} /\ held'[c] = Head(buffer[s])
        /\ UNCHANGED <<call, result, answer>>
    BY <1>1, <1>3 DEF Select
  <2> QED BY <1>1, <2>1, <2>3, <2>4 DEF CallerOK, AnswerOK
<1>4. CASE Park(c)
  BY <1>1, <1>4 DEF Park, CallerOK, AnswerOK
<1>5. CASE Receive(c)
  <2>1. /\ held[c] \in Ids /\ held[c] # 0 /\ Decodable(held[c])
        /\ sent[held[c]].name \in call[c].on
    BY <1>1, <1>5, ReceiveReturns DEF Receive, CallerOK
  <2>2. /\ result'[c] = held[c] /\ held'[c] = 0 /\ call' = call /\ open' = open
    BY <1>1, <1>5 DEF Receive
  <2>3. CASE call[c].op = "ListenSignal"
    <3>1. pc'[c] = "handling" /\ answer' = answer /\ pc[c] = "holding"
      BY <1>1, <1>5, <2>3, ReceiveReturns DEF Receive
    <3> QED BY <2>2, <2>3, <3>1 DEF CallerOK, AnswerOK
  <2>4. CASE call[c].op \in {"GetSignalResult", "WaitForAnySignal"}
    <3>1. /\ pc'[c] = "idle" /\ answer'[c].err = "nil"
          /\ call[c].op = "WaitForAnySignal" => answer'[c].name = sent[held[c]].name
      BY <1>1, <1>5, <2>4, ReceiveReturns
    <3>2. CallerOK(c)'
      BY <2>2, <3>1 DEF CallerOK
    <3>3. AnswerOK(c)'
      BY <1>1, <2>1, <2>2, <3>1 DEF AnswerOK, Decodable
    <3> QED BY <3>2, <3>3
  <2> QED BY <1>5, <2>3, <2>4, ReceiveReturns
<1>6. CASE ReceiveCorrupt(c)
  <2>1. /\ pc[c] = "holding" /\ pc'[c] = "select" /\ held'[c] = 0 /\ UNCHANGED <<call, open, result, answer>>
    BY <1>1, <1>6 DEF ReceiveCorrupt
  <2> QED BY <2>1 DEF CallerOK, AnswerOK
<1>7. CASE HandlerReturns(c)
  BY <1>1, <1>7 DEF HandlerReturns, LoopsAgain, CallerOK, AnswerOK
<1>8. CASE PollReceives(c)
  <2> DEFINE s == Awaited(c)
  <2>1. s \in Signals /\ s \in call[c].on /\ pc[c] = "polling"
    BY <1>8, AwaitedChannel DEF PollReceives
  <2>2. PICK k \in 1 .. Len(buffer[s]) : Decodable(buffer[s][k]) /\ result'[c] = buffer[s][k]
    BY <1>1, <1>8 DEF PollReceives, FirstDecodable
  <2>3. buffer[s] \in Seq(Ids)
    BY <2>1 DEF TypeOK
  <2>4. buffer[s][k] \in ToSet(buffer[s]) /\ buffer[s][k] \in Ids
    BY <2>3, ElementAt
  <2>5. sent[buffer[s][k]].name = s
    BY <2>1, <2>4 DEF ChannelOK
  <2>6. /\ pc'[c] = "idle" /\ answer'[c].err = "nil" /\ UNCHANGED <<call, open, held>>
    BY <1>1, <1>8 DEF PollReceives
  <2> HIDE DEF s
  <2>7. CallerOK(c)'
    BY <2>1, <2>6 DEF CallerOK
  <2>8. AnswerOK(c)'
    <3>1. call[c].op = "WaitForSignal"
      BY <2>1 DEF CallerOK
    <3> QED BY <1>1, <2>1, <2>2, <2>4, <2>5, <2>6, <3>1 DEF AnswerOK, Decodable
  <2> QED BY <2>7, <2>8
<1>9. CASE PollDrains(c)
  BY <1>1, <1>9 DEF PollDrains, CallerOK, AnswerOK
<1>10. CASE WaitTimesOut(c) \/ WaitCanceled(c)
  <2>1. /\ pc[c] = "polling" /\ pc'[c] = "idle" /\ answer'[c].err \in {"timeout", "canceled"}
        /\ UNCHANGED <<call, open, held, result>>
    BY <1>1, <1>10 DEF WaitTimesOut, WaitCanceled, WaitEnds
  <2> QED BY <2>1 DEF CallerOK, AnswerOK
<1> QED
  BY <1>2, <1>3, <1>4, <1>5, <1>6, <1>7, <1>8, <1>9, <1>10 DEF Moves, Step

\* A signal that comes in moves at most the coroutine it is for.
LEMMA SignalCallers ==
    ASSUME TypeOK, BlockedOK, \A c \in Callers : CallerOK(c) /\ AnswerOK(c),
           NEW s \in Signals, NEW ok \in BOOLEAN, SignalWorkflow(s, ok)
    PROVE  \A c \in Callers : CallerOK(c)' /\ AnswerOK(c)'
<1>1. SentGrows /\ sent'[Len(sent) + 1] = [name |-> s, ok |-> ok] /\ Len(sent) \in Nat
  BY SignalSent
<1>2. UNCHANGED <<call, result, answer>>
  BY DEF SignalWorkflow, outcome
<1>3. CASE UNCHANGED <<blocked, pc, open, held>>
  BY <1>1, <1>2, <1>3, CallerKept DEF SameCaller
<1>4. ASSUME NEW k \in Waiters(s), HandOver(Len(sent) + 1, s, k)
      PROVE  \A c \in Callers : CallerOK(c)' /\ AnswerOK(c)'
  <2>1. /\ pc \in [Callers -> PCs] /\ open \in [Callers -> SUBSET Signals]
        /\ held \in [Callers -> Ids \cup {0}] /\ blocked \in Seq(Callers)
    BY DEF TypeOK, PCs
  <2>2. k \in 1 .. Len(blocked) /\ s \in open[blocked[k]]
    BY <1>4, <2>1, LenProperties DEF Waiters
  <2>3. PICK d \in Callers : d = blocked[k]
    BY <2>1, <2>2, ElementOfSeq
  <2>4. pc[d] = "blocked" /\ CallerOK(d)
    BY <2>1, <2>2, <2>3, ElementAt DEF BlockedOK
  <2>5. /\ held' = [held EXCEPT ![d] = Len(sent) + 1] /\ open' = [open EXCEPT ![d] = {s}]
        /\ pc' = [pc EXCEPT ![d] = "holding"]
    BY <1>4, <2>3 DEF HandOver, Goto
  <2>6. CallerOK(d)'
    <3>1. /\ pc'[d] = "holding" /\ held'[d] = Len(sent) + 1 /\ open'[d] = {s} /\ Len(sent) + 1 # 0
      BY <1>1, <2>1, <2>5
    <3>2. sent'[Len(sent) + 1].name = s
      BY <1>1
    <3>3. s \in call[d].on
      BY <2>2, <2>3, <2>4 DEF CallerOK
    <3> QED BY <1>2, <2>4, <3>1, <3>2, <3>3 DEF CallerOK
  <2>7. AnswerOK(d)'
    BY <2>1, <2>5 DEF AnswerOK
  <2>8. ASSUME NEW c \in Callers \ {d} PROVE SameCaller(c)
    BY <1>2, <2>1, <2>5 DEF SameCaller
  <2> QED BY <1>1, <2>6, <2>7, <2>8, CallerKept
<1> QED BY <1>3, <1>4 DEF SignalWorkflow

-----------------------------------------------------------------------------
(* Who is blocked                                                          *)

LEMMA StepBlocked ==
    ASSUME TypeOK, BlockedOK, NEW c \in Callers, CallerOK(c), Moves(c)
    PROVE  BlockedOK'
<1>1. pc[c] # "blocked" /\ c \notin ToSet(blocked)
  <2>1. pc[c] # "blocked"
    BY DEF Moves, Step, Select, Park, Receive, ReceiveCorrupt, HandlerReturns, PollReceives, PollDrains,
           WaitTimesOut, WaitCanceled, WaitEnds, Call
  <2> QED BY <2>1 DEF BlockedOK
<1>2. blocked \in Seq(Callers) /\ ToSet(blocked) \subseteq Callers
  BY ElementAt DEF TypeOK
<1>3. \A d \in ToSet(blocked) : pc'[d] = "blocked"
  <2> SUFFICES ASSUME NEW d \in ToSet(blocked) PROVE pc'[d] = "blocked"
    OBVIOUS
  <2>1. d \in Callers \ {c} /\ pc[d] = "blocked"
    BY <1>1, <1>2 DEF BlockedOK
  <2> QED BY <2>1, StepOthers DEF SameCaller
<1>4. CASE Park(c)
  <2>1. blocked' = Append(blocked, c) /\ pc'[c] = "blocked"
    BY <1>4 DEF Park, Goto, TypeOK
  <2>2. ToSet(blocked') = ToSet(blocked) \cup {c} /\ IsInjective(blocked')
    BY <1>1, <1>2, <2>1, AppendSet DEF BlockedOK
  <2> QED BY <1>3, <2>1, <2>2 DEF BlockedOK
<1>5. CASE blocked' = blocked
  BY <1>3, <1>5 DEF BlockedOK
<1> QED
  BY <1>4, <1>5 DEF Moves, Step, Select, Receive, ReceiveCorrupt, HandlerReturns, PollReceives, PollDrains,
         WaitTimesOut, WaitCanceled, WaitEnds, Call, channels

\* The coroutine a signal is handed to leaves the queue, its other channels too.
LEMMA SignalBlocked ==
    ASSUME TypeOK, BlockedOK, NEW s \in Signals, NEW ok \in BOOLEAN, SignalWorkflow(s, ok)
    PROVE  BlockedOK'
<1>1. CASE UNCHANGED <<blocked, pc, open, held>>
  BY <1>1 DEF BlockedOK
<1>2. ASSUME NEW k \in Waiters(s), HandOver(Len(sent) + 1, s, k) PROVE BlockedOK'
  <2>1. blocked \in Seq(Callers) /\ k \in 1 .. Len(blocked) /\ pc \in [Callers -> PCs]
    BY <1>2, LenProperties DEF Waiters, TypeOK, PCs
  <2>2. blocked' = RemoveAt(blocked, k) /\ pc' = [pc EXCEPT ![blocked[k]] = "holding"]
    BY <1>2 DEF HandOver, Goto
  <2>3. IsInjective(blocked') /\ ToSet(blocked') \subseteq ToSet(blocked) \ {blocked[k]}
    BY <2>1, <2>2, RemoveSet DEF BlockedOK
  <2>4. ToSet(blocked) \subseteq Callers
    BY <2>1, ElementAt
  <2>5. \A c \in ToSet(blocked) \ {blocked[k]} : pc'[c] = "blocked"
    BY <2>1, <2>2, <2>4 DEF BlockedOK
  <2> QED BY <2>3, <2>5 DEF BlockedOK
<1> QED BY <1>1, <1>2 DEF SignalWorkflow
-----------------------------------------------------------------------------
(* Where a signal is                                                       *)

\* A signal that nobody touches stays where it is.
LEMMA Unmoved ==
    ASSUME NEW i, Once(i), Buffered(i)' <=> Buffered(i),
           \A c \in Callers : held'[c] = i <=> held[c] = i,
           \A c \in Callers : i \in ToSet(got'[c]) <=> i \in ToSet(got[c]),
           i \in dropped' <=> i \in dropped
    PROVE  Once(i)'
<1>1. (IsHeld(i)' <=> IsHeld(i)) /\ (IsGot(i)' <=> IsGot(i))
  BY DEF IsHeld, IsGot
<1> QED BY <1>1 DEF Once

\* A signal is in the channel of its name only.
LEMMA OneChannel ==
    ASSUME \A s \in Signals : ChannelOK(s), NEW s \in Signals, NEW i \in ToSet(buffer[s])
    PROVE  \A t \in Signals \ {s} : i \notin ToSet(buffer[t])
BY DEF ChannelOK

\* Nothing moves when no variable that holds signals changes.
LEMMA NothingMoves ==
    ASSUME PlacesOK, UNCHANGED <<sent, buffer, held, got, dropped>>
    PROVE  PlacesOK'
BY DEF PlacesOK, ChannelOK, Once, Buffered, IsHeld, IsGot, Ids, Decodable

\* The selector takes a signal out of the channel.
LEMMA SelectPlaces ==
    ASSUME IInv, NEW c \in Callers, NEW s \in Signals, Select(c, s)
    PROVE  PlacesOK'
<1>0. PICK x : x = Head(buffer[s])
  OBVIOUS
<1>1. /\ buffer \in [Signals -> Seq(Ids)] /\ held \in [Callers -> Ids \cup {0}] /\ 0 \notin Ids
      /\ held[c] = 0 /\ \A t \in Signals : ChannelOK(t)
  <2>1. 0 \notin Ids
    BY DEF Ids
  <2>2. held[c] = 0
    BY DEF IInv, CallerOK, Select
  <2> QED BY <2>1, <2>2 DEF IInv, TypeOK, PlacesOK
<1>2. /\ buffer[s] # <<>> /\ held' = [held EXCEPT ![c] = x]
      /\ buffer' = [t \in Signals |-> IF t \in {s} /\ buffer[t] # <<>> THEN Tail(buffer[t]) ELSE buffer[t]]
      /\ UNCHANGED <<sent, got, dropped>>
  BY <1>0 DEF Select, Received, outcome
<1>3. /\ buffer'[s] = Tail(buffer[s]) /\ \A t \in Signals \ {s} : buffer'[t] = buffer[t]
  BY <1>2
<1>4. /\ x \in ToSet(buffer[s]) /\ x \in Ids /\ ToSet(Tail(buffer[s])) = ToSet(buffer[s]) \ {x}
      /\ IsInjective(Tail(buffer[s]))
  BY <1>0, <1>1, <1>2, TailSet, HeadTailProperties DEF ChannelOK
<1>5. ASSUME NEW t \in Signals PROVE ChannelOK(t)'
  <2>1. ChannelOK(t) /\ ChannelOK(s)
    BY <1>1
  <2>2. CASE t = s
    BY <1>2, <1>3, <1>4, <2>1, <2>2 DEF ChannelOK
  <2>3. CASE t # s
    BY <1>2, <1>3, <2>1, <2>3 DEF ChannelOK
  <2> QED BY <2>2, <2>3
<1>6. \A i \in Ids \ {x} : Buffered(i)' <=> Buffered(i)
  BY <1>3, <1>4 DEF Buffered
<1>7. ~Buffered(x)' /\ Buffered(x)
  BY <1>1, <1>3, <1>4, OneChannel DEF Buffered
<1>8. \A d \in Callers : held'[d] = IF d = c THEN x ELSE held[d]
  BY <1>1, <1>2
<1>9. \A i \in Ids : Once(i)
  BY DEF IInv, PlacesOK
<1>10. ASSUME NEW i \in Ids PROVE Once(i)'
  <2>1. CASE i # x
    <3>1. \A d \in Callers : held'[d] = i <=> held[d] = i
      BY <1>1, <1>8, <2>1
    <3> QED BY <1>2, <1>6, <1>9, <2>1, <3>1, Unmoved
  <2>2. CASE i = x
    <3>1. ~IsHeld(x) /\ ~IsGot(x) /\ x \notin dropped
      BY <1>4, <1>7, <1>9 DEF Once
    <3>2. IsHeld(x)' /\ \A d \in Callers : held'[d] = x => d = c
      BY <1>8, <3>1 DEF IsHeld
    <3>3. ~IsGot(x)' /\ x \notin dropped'
      BY <1>2, <3>1 DEF IsGot
    <3>4. \A d \in Callers : x \notin ToSet(got'[d])
      BY <3>3 DEF IsGot
    <3> QED BY <1>7, <2>2, <3>2, <3>3, <3>4 DEF Once
  <2> QED BY <2>1, <2>2
<1>11. Ids' = Ids /\ (\A i \in dropped' : ~Decodable(i)') /\ \A d \in Callers : IsInjective(got'[d])
  BY <1>2 DEF Ids, Decodable, IInv, PlacesOK
<1> QED BY <1>5, <1>10, <1>11 DEF PlacesOK

\* Receive decodes the signal, or drops it.
LEMMA ReceivePlaces ==
    ASSUME IInv, NEW c \in Callers, Receive(c) \/ ReceiveCorrupt(c)
    PROVE  PlacesOK'
<1>0. PICK x : x = held[c]
  OBVIOUS
<1>1. /\ held \in [Callers -> Ids \cup {0}] /\ got \in [Callers -> Seq(Ids)] /\ 0 \notin Ids /\ x \in Ids
  <2>1. 0 \notin Ids
    BY DEF Ids
  <2>2. x # 0
    BY <1>0 DEF IInv, CallerOK, Receive, ReceiveCorrupt
  <2> QED BY <1>0, <2>1, <2>2 DEF IInv, TypeOK
<1>2. /\ held' = [held EXCEPT ![c] = 0] /\ UNCHANGED <<sent, buffer>>
      /\ \/ Decodable(x) /\ got' = [got EXCEPT ![c] = Append(@, x)] /\ dropped' = dropped
         \/ ~Decodable(x) /\ got' = got /\ dropped' = dropped \cup {x}
  BY <1>0 DEF Receive, ReceiveCorrupt, channels, outcome
<1>3. /\ ToSet(Append(got[c], x)) = ToSet(got[c]) \cup {x}
      /\ IsInjective(got[c]) /\ x \notin ToSet(got[c]) => IsInjective(Append(got[c], x))
  BY <1>1, AppendSet
<1>4. /\ IsHeld(x) /\ ~Buffered(x) /\ ~IsGot(x) /\ x \notin dropped
      /\ \A d \in Callers : held[d] = x => d = c
  <2>1. IsHeld(x)
    BY <1>0 DEF IsHeld
  <2>2. Once(x)
    BY <1>1 DEF IInv, PlacesOK
  <2> QED BY <1>0, <2>1, <2>2 DEF Once
<1>5. /\ \A i \in Ids : Once(i)
      /\ (\A i \in dropped : ~Decodable(i)) /\ \A d \in Callers : IsInjective(got[d])
  BY DEF IInv, PlacesOK
<1>6. /\ \A d \in Callers : held'[d] = IF d = c THEN 0 ELSE held[d]
      /\ x = held[c]
  BY <1>0, <1>1, <1>2
<1>7. \A i : Buffered(i)' <=> Buffered(i)
  BY <1>2 DEF Buffered
<1>8. ASSUME NEW i \in Ids \ {x} PROVE Once(i)'
  <2>1. \A d \in Callers : held'[d] = i <=> held[d] = i
    BY <1>1, <1>6
  <2>2. \A d \in Callers : i \in ToSet(got'[d]) <=> i \in ToSet(got[d])
    BY <1>1, <1>2, <1>3
  <2>3. i \in dropped' <=> i \in dropped
    BY <1>2
  <2> QED BY <1>5, <1>7, <2>1, <2>2, <2>3, Unmoved
<1>9. Once(x)'
  <2>1. ~Buffered(x)' /\ ~IsHeld(x)' /\ \A d \in Callers : held'[d] # x
    BY <1>1, <1>4, <1>6, <1>7 DEF IsHeld
  <2>2. CASE Decodable(x)
    <3>1. \A d \in Callers : x \in ToSet(got'[d]) <=> d = c
      BY <1>1, <1>2, <1>3, <1>4, <2>2 DEF IsGot
    <3>2. IsGot(x)' /\ x \notin dropped'
      BY <1>2, <1>4, <2>2, <3>1 DEF IsGot
    <3> QED BY <2>1, <3>1, <3>2 DEF Once
  <2>3. CASE ~Decodable(x)
    <3>1. \A d \in Callers : x \notin ToSet(got'[d])
      BY <1>2, <1>4, <2>3 DEF IsGot
    <3>2. ~IsGot(x)' /\ x \in dropped'
      BY <1>2, <2>3, <3>1 DEF IsGot
    <3> QED BY <2>1, <3>1, <3>2 DEF Once
  <2> QED BY <2>2, <2>3
<1>10. \A s \in Signals : ChannelOK(s)'
  BY <1>2 DEF ChannelOK, IInv, PlacesOK
<1>11. \A d \in Callers : IsInjective(got'[d])
  BY <1>1, <1>2, <1>3, <1>4, <1>5 DEF IsGot
<1>12. \A i \in dropped' : ~Decodable(i)'
  BY <1>2, <1>5 DEF Decodable
<1>13. Ids' = Ids
  BY <1>2 DEF Ids
<1> QED BY <1>8, <1>9, <1>10, <1>11, <1>12, <1>13 DEF PlacesOK
\* ReceiveAsync takes signals from one channel: it decodes G, at most one, and
\* drops D.
LEMMA TakeFromChannel ==
    ASSUME PlacesOK, NEW c \in Callers, NEW s \in Signals, NEW G, NEW D,
           G \subseteq ToSet(buffer[s]), D \subseteq ToSet(buffer[s]), G \cap D = {},
           ToSet(buffer[s]) \subseteq Ids, \A i \in D : ~Decodable(i),
           ToSet(buffer'[s]) = ToSet(buffer[s]) \ (G \cup D), IsInjective(buffer'[s]),
           \A t \in Signals \ {s} : buffer'[t] = buffer[t],
           ToSet(got'[c]) = ToSet(got[c]) \cup G, IsInjective(got'[c]),
           \A d \in Callers \ {c} : got'[d] = got[d],
           dropped' = dropped \cup D, UNCHANGED <<sent, held>>
    PROVE  PlacesOK'
<1>1. /\ \A t \in Signals : ChannelOK(t)
      /\ \A i \in Ids : Once(i)
      /\ (\A i \in dropped : ~Decodable(i)) /\ \A d \in Callers : IsInjective(got[d])
  BY DEF PlacesOK
<1>2. ASSUME NEW t \in Signals PROVE ChannelOK(t)'
  <2>1. ChannelOK(t) /\ ChannelOK(s)
    BY <1>1
  <2> QED BY <2>1 DEF ChannelOK
<1>3. \A i : i \notin G \cup D => (Buffered(i)' <=> Buffered(i))
  BY DEF Buffered
<1>4. \A i \in G \cup D : Buffered(i) /\ ~Buffered(i)'
  BY <1>1, OneChannel DEF Buffered
<1>5. ASSUME NEW i \in Ids PROVE Once(i)'
  <2>1. CASE i \notin G \cup D
    <3>1. \A d \in Callers : i \in ToSet(got'[d]) <=> i \in ToSet(got[d])
      BY <2>1
    <3> QED BY <1>1, <1>3, <2>1, <3>1, Unmoved
  <2>2. CASE i \in G \cup D
    <3>1. ~IsHeld(i) /\ ~IsGot(i) /\ i \notin dropped
      BY <1>1, <1>4, <2>2 DEF Once
    <3>2. ~Buffered(i)' /\ ~IsHeld(i)' /\ \A d \in Callers : held'[d] # i
      BY <1>4, <2>2, <3>1 DEF IsHeld
    <3>3. \A d \in Callers : i \in ToSet(got'[d]) <=> i \in G /\ d = c
      BY <3>1 DEF IsGot
    <3>4. (IsGot(i)' <=> i \in G) /\ (i \in dropped' <=> i \in D)
      BY <3>1, <3>3 DEF IsGot
    <3> QED BY <2>2, <3>2, <3>3, <3>4 DEF Once
  <2> QED BY <2>1, <2>2
<1>6. \A i \in dropped' : ~Decodable(i)'
  BY <1>1 DEF Decodable
<1>7. \A d \in Callers : IsInjective(got'[d])
  BY <1>1
<1>8. Ids' = Ids
  BY DEF Ids
<1> QED BY <1>2, <1>5, <1>6, <1>7, <1>8 DEF PlacesOK

LEMMA PollPlaces ==
    ASSUME IInv, NEW c \in Callers, PollReceives(c) \/ PollDrains(c)
    PROVE  PlacesOK'
<1>1. PICK s \in Signals : s = Awaited(c)
  <2>1. CallerOK(c) /\ pc[c] = "polling" /\ TypeOK
    BY DEF IInv, PollReceives, PollDrains
  <2> QED BY <2>1, AwaitedChannel
<1>2. PICK q : q = buffer[s]
  OBVIOUS
<1>3. /\ q \in Seq(Ids) /\ IsInjective(q) /\ buffer \in [Signals -> Seq(Ids)] /\ got \in [Callers -> Seq(Ids)]
      /\ PlacesOK /\ IsInjective(got[c])
  BY <1>2 DEF IInv, PlacesOK, TypeOK, ChannelOK
<1>4. /\ ToSet(q) = {q[j] : j \in 1 .. Len(q)} /\ ToSet(q) \subseteq Ids /\ Len(q) \in Nat
      /\ \A j, k \in 1 .. Len(q) : q[j] = q[k] => j = k
  <2>1. q \in Seq(Ids) /\ IsInjective(q)
    BY <1>3
  <2>2. Len(q) \in Nat
    BY <2>1, LenProperties
  <2> QED BY <2>1, <2>2, ElementAt
<1>5. CASE PollReceives(c)
  <2>1. PICK k \in 1 .. Len(q) :
            /\ FirstDecodable(q, k) /\ got' = [got EXCEPT ![c] = Append(@, q[k])]
            /\ buffer' = [buffer EXCEPT ![s] = SubSeq(@, k + 1, Len(@))]
            /\ dropped' = dropped \cup {q[j] : j \in 1 .. k - 1}
    <3>1. PICK k \in 1 .. Len(buffer[Awaited(c)]) :
            /\ FirstDecodable(buffer[Awaited(c)], k)
            /\ got' = [got EXCEPT ![c] = Append(@, buffer[Awaited(c)][k])]
            /\ buffer' = [buffer EXCEPT ![Awaited(c)] = SubSeq(@, k + 1, Len(@))]
            /\ dropped' = dropped \cup {buffer[Awaited(c)][j] : j \in 1 .. k - 1}
      BY <1>5, Zenon DEF PollReceives
    <3>2. k \in 1 .. Len(q) /\ FirstDecodable(q, k)
      BY <1>1, <1>2, <3>1
    <3>3. buffer' = [buffer EXCEPT ![s] = SubSeq(@, k + 1, Len(@))]
      BY <1>1, <3>1
    <3>4. got' = [got EXCEPT ![c] = Append(@, q[k])]
      BY <1>1, <1>2, <3>1
    <3>5. dropped' = dropped \cup {q[j] : j \in 1 .. k - 1}
      BY <1>1, <1>2, <3>1
    <3> QED BY <3>2, <3>3, <3>4, <3>5
  <2>2. PICK D : D = {q[j] : j \in 1 .. k - 1}
    OBVIOUS
  <2>3. D \subseteq ToSet(q) /\ {q[k]} \cap D = {} /\ {q[j] : j \in 1 .. k} = {q[k]} \cup D
    BY <1>4, <2>2
  <2>4. \A i \in D : ~Decodable(i)
    BY <2>1, <2>2 DEF FirstDecodable
  <2>5. /\ buffer'[s] = SubSeq(q, k + 1, Len(q)) /\ \A t \in Signals \ {s} : buffer'[t] = buffer[t]
    BY <1>2, <1>3, <2>1
  <2>6. ToSet(buffer'[s]) = ToSet(q) \ ({q[k]} \cup D) /\ IsInjective(buffer'[s])
    <3>1. ToSet(buffer'[s]) = ToSet(q) \ {q[j] : j \in 1 .. k} /\ IsInjective(buffer'[s])
      <4>1. q \in Seq(Ids) /\ IsInjective(q) /\ k \in 1 .. Len(q)
        BY <1>3
      <4>2. /\ ToSet(SubSeq(q, k + 1, Len(q))) = ToSet(q) \ {q[j] : j \in 1 .. k}
            /\ IsInjective(SubSeq(q, k + 1, Len(q)))
        BY <4>1, DropSet
      <4> QED BY <2>5, <4>2
    <3> QED BY <2>3, <3>1
  <2>7. q[k] \in ToSet(q) /\ q[k] \in Ids
    BY <1>4
  <2>8. q[k] \notin ToSet(got[c])
    <3>1. Buffered(q[k]) /\ Once(q[k])
      BY <1>2, <1>3, <2>7 DEF Buffered, PlacesOK
    <3> QED BY <3>1 DEF Once, IsGot
  <2>9. /\ got'[c] = Append(got[c], q[k]) /\ \A d \in Callers \ {c} : got'[d] = got[d]
    BY <1>3, <2>1
  <2>10. ToSet(got'[c]) = ToSet(got[c]) \cup {q[k]} /\ IsInjective(got'[c])
    BY <1>3, <2>7, <2>8, <2>9, AppendSet
  <2>11. UNCHANGED <<sent, held>> /\ dropped' = dropped \cup D
    BY <1>5, <2>1, <2>2 DEF PollReceives
  <2>12. PICK G : G = {q[k]}
    OBVIOUS
  <2>13. G \subseteq ToSet(buffer[s]) /\ D \subseteq ToSet(buffer[s]) /\ G \cap D = {} /\ ToSet(buffer[s]) \subseteq Ids
    BY <1>2, <1>4, <2>3, <2>7, <2>12
  <2>14. ToSet(buffer'[s]) = ToSet(buffer[s]) \ (G \cup D) /\ ToSet(got'[c]) = ToSet(got[c]) \cup G
    BY <1>2, <2>6, <2>10, <2>12
  <2> QED BY <1>3, <2>4, <2>5, <2>6, <2>9, <2>10, <2>11, <2>13, <2>14, TakeFromChannel
<1>6. CASE PollDrains(c)
  <2>1. /\ dropped' = dropped \cup ToSet(q) /\ buffer' = [buffer EXCEPT ![s] = <<>>]
        /\ \A k \in 1 .. Len(q) : ~Decodable(q[k])
        /\ UNCHANGED <<sent, held, got>>
    BY <1>1, <1>2, <1>6 DEF PollDrains, outcome
  <2>2. buffer'[s] = <<>> /\ \A t \in Signals \ {s} : buffer'[t] = buffer[t]
    BY <1>3, <2>1
  <2>3. ToSet(<<>>) = {} /\ IsInjective(<<>>)
    BY DEF ToSet, IsInjective
  <2>4. \A i \in ToSet(q) : ~Decodable(i)
    BY <1>4, <2>1
  <2>5. PICK G, D : G = {} /\ D = ToSet(q)
    OBVIOUS
  <2>6. G \subseteq ToSet(buffer[s]) /\ D \subseteq ToSet(buffer[s]) /\ G \cap D = {} /\ ToSet(buffer[s]) \subseteq Ids
    BY <1>2, <1>4, <2>5
  <2>7. ToSet(buffer'[s]) = ToSet(buffer[s]) \ (G \cup D) /\ ToSet(got'[c]) = ToSet(got[c]) \cup G
    BY <1>2, <2>1, <2>2, <2>3, <2>5
  <2>8. /\ IsInjective(buffer'[s]) /\ IsInjective(got'[c]) /\ dropped' = dropped \cup D
        /\ (\A i \in D : ~Decodable(i)) /\ \A d \in Callers \ {c} : got'[d] = got[d]
    BY <1>3, <2>1, <2>2, <2>3, <2>4, <2>5
  <2> QED BY <1>3, <2>1, <2>2, <2>6, <2>7, <2>8, TakeFromChannel
<1> QED BY <1>5, <1>6

\* Whatever a coroutine does.
LEMMA StepPlaces ==
    ASSUME IInv, NEW c \in Callers, Moves(c)
    PROVE  PlacesOK'
<1>1. CASE (\E op \in Ops, S \in (SUBSET Signals) \ {{}} : Call(c, op, S)) \/ Park(c) \/ HandlerReturns(c)
           \/ WaitTimesOut(c) \/ WaitCanceled(c)
  <2>1. UNCHANGED <<sent, buffer, held, got, dropped>>
    BY <1>1 DEF Call, Park, HandlerReturns, WaitTimesOut, WaitCanceled, WaitEnds, channels, outcome
  <2> QED BY <2>1, NothingMoves DEF IInv
<1>2. CASE \E s \in Signals : Select(c, s)
  BY <1>2, SelectPlaces
<1>3. CASE Receive(c) \/ ReceiveCorrupt(c)
  BY <1>3, ReceivePlaces
<1>4. CASE PollReceives(c) \/ PollDrains(c)
  BY <1>4, PollPlaces
<1> QED BY <1>1, <1>2, <1>3, <1>4 DEF Moves, Step

\* A signal that comes in is new: it was nowhere, and it goes to one place.
LEMMA SignalPlaces ==
    ASSUME IInv, NEW s \in Signals, NEW ok \in BOOLEAN, SignalWorkflow(s, ok)
    PROVE  PlacesOK'
<1>1. PICK x : x = Len(sent) + 1
  OBVIOUS
<1>2. /\ SentGrows /\ Ids' = Ids \cup {x} /\ x \notin Ids /\ sent'[x] = [name |-> s, ok |-> ok] /\ x # 0
  <2>1. /\ SentGrows /\ Ids' = Ids \cup {Len(sent) + 1} /\ Len(sent) + 1 \notin Ids /\ Len(sent) \in Nat
        /\ sent'[Len(sent) + 1] = [name |-> s, ok |-> ok]
    BY SignalSent DEF IInv
  <2> QED BY <1>1, <2>1
<1>3. /\ buffer \in [Signals -> Seq(Ids)] /\ held \in [Callers -> Ids \cup {0}] /\ got \in [Callers -> Seq(Ids)]
      /\ dropped \subseteq Ids /\ blocked \in Seq(Callers) /\ BlockedOK
  BY DEF IInv, TypeOK
<1>4. /\ \A t \in Signals : ToSet(buffer[t]) \subseteq Ids
      /\ \A d \in Callers : ToSet(got[d]) \subseteq Ids
  BY <1>3, ElementAt
<1>5. ~Buffered(x) /\ ~IsHeld(x) /\ ~IsGot(x) /\ x \notin dropped
  BY <1>2, <1>3, <1>4 DEF Buffered, IsHeld, IsGot
<1>6. UNCHANGED <<dropped, got>>
  BY DEF SignalWorkflow, outcome
<1>7. /\ \A t \in Signals : ChannelOK(t)
      /\ \A i \in Ids : Once(i)
      /\ (\A i \in dropped : ~Decodable(i)) /\ \A d \in Callers : IsInjective(got[d])
  BY DEF IInv, PlacesOK
<1>8. /\ \A i \in dropped' : ~Decodable(i)'
      /\ \A d \in Callers : IsInjective(got'[d])
  BY <1>2, <1>3, <1>6, <1>7 DEF Decodable, SentGrows
<1>9. ~IsGot(x)' /\ x \notin dropped' /\ \A d \in Callers : x \notin ToSet(got'[d])
  BY <1>5, <1>6 DEF IsGot
<1>10. SUFFICES (\A t \in Signals : ChannelOK(t)') /\ (\A i \in Ids : Once(i)') /\ Once(x)'
  BY <1>2, <1>8 DEF PlacesOK
<1>11. CASE /\ buffer' = [buffer EXCEPT ![s] = Append(@, Len(sent) + 1)]
            /\ UNCHANGED <<blocked, pc, open, held>>
  <2>1. /\ buffer'[s] = Append(buffer[s], x) /\ \A t \in Signals \ {s} : buffer'[t] = buffer[t]
    BY <1>1, <1>3, <1>11
  <2>2. PICK I : I = Ids \cup {x}
    OBVIOUS
  <2>3. buffer[s] \in Seq(I) /\ x \in I
    BY <1>3, <2>2, SeqMonotonic
  <2>4. ToSet(buffer'[s]) = ToSet(buffer[s]) \cup {x} /\ IsInjective(buffer'[s])
    BY <1>5, <1>7, <2>1, <2>3, AppendSet DEF ChannelOK, Buffered
  <2>5. ASSUME NEW t \in Signals PROVE ChannelOK(t)'
    <3>1. ChannelOK(t) /\ \A i \in ToSet(buffer[t]) : sent'[i] = sent[i]
      BY <1>2, <1>4, <1>7 DEF SentGrows
    <3>2. CASE t # s
      BY <2>1, <3>1, <3>2 DEF ChannelOK
    <3>3. CASE t = s
      <4>1. sent'[x].name = s
        BY <1>2
      <4> QED BY <2>4, <3>1, <3>3, <4>1 DEF ChannelOK
    <3> QED BY <3>2, <3>3
  <2>6. ASSUME NEW i \in Ids PROVE Once(i)'
    <3>1. Buffered(i)' <=> Buffered(i)
      BY <1>2, <2>1, <2>4 DEF Buffered
    <3> QED BY <1>6, <1>7, <1>11, <3>1, Unmoved
  <2>7. Once(x)'
    <3>1. Buffered(x)' /\ ~IsHeld(x)' /\ \A d \in Callers : held'[d] # x
      BY <1>5, <1>11, <2>4 DEF Buffered, IsHeld
    <3> QED BY <1>9, <3>1 DEF Once
  <2> QED BY <2>5, <2>6, <2>7
<1>12. ASSUME NEW k \in Waiters(s), HandOver(Len(sent) + 1, s, k)
       PROVE  (\A t \in Signals : ChannelOK(t)') /\ (\A i \in Ids : Once(i)') /\ Once(x)'
  <2>1. k \in 1 .. Len(blocked)
    BY <1>3, <1>12, LenProperties DEF Waiters
  <2>2. PICK c \in Callers : c = blocked[k]
    BY <1>3, <2>1, ElementOfSeq
  <2>3. held[c] = 0
    <3>1. pc[c] = "blocked"
      BY <1>3, <2>1, <2>2, ElementAt DEF BlockedOK
    <3> QED BY <3>1 DEF IInv, CallerOK
  <2>4. buffer' = buffer /\ held' = [held EXCEPT ![c] = x]
    BY <1>1, <1>12, <2>2 DEF HandOver
  <2>5. \A d \in Callers : held'[d] = IF d = c THEN x ELSE held[d]
    BY <1>3, <2>4
  <2>6. ASSUME NEW t \in Signals PROVE ChannelOK(t)'
    <3>1. ChannelOK(t) /\ \A i \in ToSet(buffer[t]) : sent'[i] = sent[i]
      BY <1>2, <1>4, <1>7 DEF SentGrows
    <3> QED BY <2>4, <3>1 DEF ChannelOK
  <2>7. \A i : Buffered(i)' <=> Buffered(i)
    BY <2>4 DEF Buffered
  <2>8. ASSUME NEW i \in Ids PROVE Once(i)'
    <3>1. i # 0
      BY DEF Ids
    <3>2. \A d \in Callers : held'[d] = i <=> held[d] = i
      BY <1>2, <2>3, <2>5, <3>1
    <3> QED BY <1>6, <1>7, <2>7, <3>2, Unmoved
  <2>9. Once(x)'
    <3>1. ~Buffered(x)' /\ IsHeld(x)' /\ \A d \in Callers : held'[d] = x => d = c
      BY <1>5, <2>5, <2>7 DEF IsHeld
    <3> QED BY <1>9, <3>1 DEF Once
  <2> QED BY <2>6, <2>8, <2>9
<1> QED BY <1>11, <1>12 DEF SignalWorkflow
-----------------------------------------------------------------------------
(* The invariant and what it shows                                         *)

LEMMA InitInvariant == Init => IInv
<1> SUFFICES ASSUME Init PROVE IInv
  OBVIOUS
<1>1. /\ Len(<<>>) = 0 /\ ToSet(<<>>) = {} /\ IsInjective(<<>>)
  BY DEF ToSet, IsInjective
<1>2. \A S : <<>> \in Seq(S)
  BY EmptySeq
<1>3. Ids = {}
  BY <1>1 DEF Init, Ids
<1>4. TypeOK
  <2>1. sent = <<>> /\ sent \in Seq([name : Signals, ok : BOOLEAN]) /\ Len(sent) <= MaxSignals
    BY <1>1, <1>2, SignalBound DEF Init
  <2>2. buffer \in [Signals -> Seq(Ids)] /\ got \in [Callers -> Seq(Ids)] /\ blocked \in Seq(Callers)
    BY <1>2 DEF Init
  <2>3. call \in [Callers -> Calls] /\ answer \in [Callers -> Answers]
    <3>1. [op |-> "WaitForSignal", on |-> {}] \in Calls
      BY DEF Calls, Ops
    <3>2. [err |-> "none", name |-> NoSignal] \in Answers
      BY DEF Answers
    <3> QED BY <3>1, <3>2 DEF Init
  <2>4. /\ pc \in [Callers -> PCs] /\ open \in [Callers -> SUBSET Signals]
        /\ held \in [Callers -> Ids \cup {0}] /\ result \in [Callers -> Ids \cup {0}]
        /\ dropped \subseteq Ids /\ cancelled \in BOOLEAN
    BY DEF Init, PCs
  <2> QED BY <2>1, <2>2, <2>3, <2>4 DEF TypeOK, Calls, Answers, PCs
<1>5. BlockedOK /\ PlacesOK
  BY <1>1, <1>3 DEF Init, BlockedOK, PlacesOK, ChannelOK
<1>6. \A c \in Callers : CallerOK(c) /\ AnswerOK(c)
  BY DEF Init, CallerOK, AnswerOK
<1> QED BY <1>4, <1>5, <1>6 DEF IInv

LEMMA NextInvariant == IInv /\ [Next]_vars => IInv'
<1> SUFFICES ASSUME IInv, [Next]_vars PROVE IInv'
  OBVIOUS
<1>1. /\ TypeOK /\ BlockedOK /\ \A s \in Signals : ChannelOK(s)
      /\ \A c \in Callers : CallerOK(c) /\ AnswerOK(c)
  BY DEF IInv, PlacesOK
<1>2. ASSUME NEW c \in Callers, Moves(c) PROVE IInv'
  <2>1. TypeOK' /\ BlockedOK' /\ PlacesOK'
    BY <1>1, <1>2, StepType, StepBlocked, StepPlaces DEF ChannelOK
  <2>2. ASSUME NEW d \in Callers PROVE CallerOK(d)' /\ AnswerOK(d)'
    <3>1. CASE d = c
      BY <1>1, <1>2, <3>1, StepCaller
    <3>2. CASE d # c
      <4>1. SameCaller(d) /\ SentGrows
        BY <1>1, <1>2, <3>2, StepOthers, StepSent
      <4> QED BY <1>1, <4>1, CallerKept
    <3> QED BY <3>1, <3>2
  <2> QED BY <2>1, <2>2 DEF IInv
<1>3. ASSUME NEW s \in Signals, NEW ok \in BOOLEAN, SignalWorkflow(s, ok) PROVE IInv'
  BY <1>1, <1>3, SignalType, SignalBlocked, SignalPlaces, SignalCallers DEF IInv
<1>4. CASE CancelWorkflow \/ UNCHANGED vars
  <2>1. /\ UNCHANGED <<sent, buffer, blocked, dropped, pc, call, open, held, result, answer, got>>
        /\ cancelled' \in BOOLEAN
    BY <1>1, <1>4 DEF CancelWorkflow, vars, channels, outcome, TypeOK
  <2>2. TypeOK'
    BY <1>1, <2>1 DEF TypeOK, Ids
  <2>3. BlockedOK' /\ PlacesOK'
    BY <1>1, <2>1, NothingMoves DEF IInv, BlockedOK
  <2>4. \A c \in Callers : CallerOK(c)' /\ AnswerOK(c)'
    <3>1. SentGrows
      BY <1>1, <2>1 DEF SentGrows, TypeOK, Ids
    <3> QED BY <1>1, <2>1, <3>1, CallerKept DEF SameCaller
  <2> QED BY <2>2, <2>3, <2>4 DEF IInv
<1> QED BY <1>2, <1>3, <1>4 DEF Next, Moves

LEMMA Invariant == Spec => []IInv
BY InitInvariant, NextInvariant, PTL DEF Spec

\* Every variable of the run keeps its type; what its coroutines receive are
\* signals that were sent to it (temporal/workflow.go, temporal/signals.go).
THEOREM TypeCorrect == Spec => []TypeOK
<1>1. IInv => TypeOK
  BY DEF IInv
<1> QED BY <1>1, Invariant, PTL

\* A signal that is once in the channels, hands and results is in one place.
LEMMA OnePlace ==
    ASSUME \A s \in Signals : ChannelOK(s), NEW i \in Ids, Once(i)
    PROVE  Cardinality(Places(i)) = 1
<1>1. ASSUME NEW p, Places(i) = {p} PROVE Cardinality(Places(i)) = 1
  BY <1>1, FS_Singleton
<1> DEFINE B == {t \in Signals : i \in ToSet(buffer[t])}
           H == {d \in Callers : held[d] = i}
           G == {d \in Callers : i \in ToSet(got[d])}
           D == dropped \cap {i}
<1>2. Places(i) = {<<"buffer", s>> : s \in B} \cup {<<"held", c>> : c \in H}
                    \cup {<<"got", c>> : c \in G} \cup {<<"dropped", x>> : x \in D}
  BY DEF Places
<1>3. CASE Buffered(i)
  <2>1. H = {} /\ G = {} /\ D = {}
    BY <1>3 DEF Once, IsHeld, IsGot
  <2>2. PICK s \in Signals : i \in ToSet(buffer[s])
    BY <1>3 DEF Buffered
  <2>3. B = {s}
    BY <2>2, OneChannel
  <2> HIDE DEF B, H, G, D
  <2>4. Places(i) = {<<"buffer", s>>}
    BY <1>2, <2>1, <2>3
  <2> QED BY <1>1, <2>4
<1>4. CASE IsHeld(i)
  <2>1. B = {} /\ G = {} /\ D = {}
    BY <1>4 DEF Once, Buffered, IsGot
  <2>2. PICK c \in Callers : held[c] = i
    BY <1>4 DEF IsHeld
  <2>3. H = {c}
    BY <2>2 DEF Once
  <2> HIDE DEF B, H, G, D
  <2>4. Places(i) = {<<"held", c>>}
    BY <1>2, <2>1, <2>3
  <2> QED BY <1>1, <2>4
<1>5. CASE IsGot(i)
  <2>1. B = {} /\ H = {} /\ D = {}
    BY <1>5 DEF Once, Buffered, IsHeld
  <2>2. PICK c \in Callers : i \in ToSet(got[c])
    BY <1>5 DEF IsGot
  <2>3. G = {c}
    BY <2>2 DEF Once
  <2> HIDE DEF B, H, G, D
  <2>4. Places(i) = {<<"got", c>>}
    BY <1>2, <2>1, <2>3
  <2> QED BY <1>1, <2>4
<1>6. CASE i \in dropped
  <2>1. B = {} /\ H = {} /\ G = {}
    BY <1>6 DEF Once, Buffered, IsHeld, IsGot
  <2>2. D = {i}
    BY <1>6
  <2> HIDE DEF B, H, G, D
  <2>3. Places(i) = {<<"dropped", i>>}
    BY <1>2, <2>1, <2>2
  <2> QED BY <1>1, <2>3
<1> QED BY <1>3, <1>4, <1>5, <1>6 DEF Once

-----------------------------------------------------------------------------
(* The order in which signals are received                                 *)

Ascending(q) == \A j, k \in 1 .. Len(q) : j < k => q[j] < q[k]

\* What is behind a signal in the order of its name is behind it in the channel.
NoneSkipped(s) ==
    \A i \in ToSet(buffer[s]), j \in Ids : sent[j].name = s /\ i < j => j \in ToSet(buffer[s])

\* The channels of a blocked coroutine are empty: no signal passes another.
Starved(c) == \A s \in open[c] : buffer[s] = <<>>

GotBefore(c, x) == \A i \in ToSet(got[c]) : sent[i].name = sent[x].name => i < x

OrderInv ==
    /\ \A s \in Signals : Ascending(buffer[s]) /\ NoneSkipped(s)
    /\ \A c \in ToSet(blocked) : Starved(c)
    /\ \A c \in Callers : InOrder(got[c]) /\ (held[c] # 0 => GotBefore(c, held[c]))

\* Taking from the front leaves what was sent last.
LEMMA FrontTaken ==
    ASSUME NEW n \in Nat, NEW q \in Seq(1 .. n), Ascending(q), NEW r \in Seq(1 .. n),
           NEW k \in 0 .. Len(q), Len(r) = Len(q) - k, \A j \in 1 .. Len(r) : r[j] = q[j + k]
    PROVE  /\ Ascending(r) /\ ToSet(r) \subseteq ToSet(q)
           /\ \A i \in ToSet(r), j \in ToSet(q) : i < j => j \in ToSet(r)
<1>1. /\ Len(q) \in Nat /\ Len(r) \in Nat
      /\ ToSet(q) = {q[l] : l \in 1 .. Len(q)} /\ ToSet(r) = {r[l] : l \in 1 .. Len(r)}
  BY LenProperties, ElementAt
<1>2. \A l \in 1 .. Len(r) : l + k \in 1 .. Len(q)
  BY <1>1
<1>3. Ascending(r)
  <2> SUFFICES ASSUME NEW a \in 1 .. Len(r), NEW b \in 1 .. Len(r), a < b PROVE r[a] < r[b]
    BY DEF Ascending
  <2>1. a + k \in 1 .. Len(q) /\ b + k \in 1 .. Len(q) /\ a + k < b + k
    BY <1>1, <1>2
  <2> QED BY <2>1 DEF Ascending
<1>4. ToSet(r) \subseteq ToSet(q)
  BY <1>1, <1>2
<1>5. ASSUME NEW i \in ToSet(r), NEW j \in ToSet(q), i < j PROVE j \in ToSet(r)
  <2>1. PICK a \in 1 .. Len(r) : i = r[a]
    BY <1>1
  <2>2. PICK b \in 1 .. Len(q) : j = q[b]
    BY <1>1
  <2>3. a + k < b
    <3>1. q[a + k] < q[b] /\ a + k \in 1 .. Len(q)
      BY <1>2, <1>5, <2>1, <2>2
    <3>2. q[a + k] \in 1 .. n /\ q[b] \in 1 .. n
      BY <3>1, ElementOfSeq
    <3>3. b < a + k => q[b] < q[a + k]
      BY <3>1 DEF Ascending
    <3>4. ~(q[b] < q[a + k]) /\ q[a + k] # q[b]
      BY <3>1, <3>2
    <3>5. ~(b < a + k) /\ b # a + k
      BY <3>3, <3>4
    <3> QED BY <1>1, <3>1, <3>5
  <2>4. b - k \in 1 .. Len(r) /\ (b - k) + k = b
    BY <1>1, <2>3
  <2>5. r[b - k] = q[b]
    BY <2>4
  <2> QED BY <1>1, <2>2, <2>4, <2>5
<1> QED BY <1>3, <1>4, <1>5

\* What has left a channel was sent before what is in it.
LEMMA LeftBefore ==
    ASSUME IInv, OrderInv, NEW s \in Signals, NEW x \in ToSet(buffer[s]), NEW c \in Callers
    PROVE  GotBefore(c, x) /\ x \in Ids /\ sent[x].name = s
<1>1. /\ x \in Ids /\ sent[x].name = s /\ ToSet(got[c]) \subseteq Ids
  <2>1. ToSet(buffer[s]) \subseteq Ids /\ ToSet(got[c]) \subseteq Ids
    BY ElementAt DEF IInv, TypeOK
  <2>2. ChannelOK(s)
    BY DEF IInv, PlacesOK
  <2> QED BY <2>1, <2>2 DEF ChannelOK
<1>2. ASSUME NEW i \in ToSet(got[c]), sent[i].name = s PROVE i < x
  <2>1. i \in Ids /\ Once(i) /\ IsGot(i)
    BY <1>1 DEF IInv, PlacesOK, IsGot
  <2>2. i \notin ToSet(buffer[s])
    BY <2>1 DEF Once, Buffered
  <2>3. ~(x < i) /\ x # i
    BY <1>2, <2>1, <2>2 DEF OrderInv, NoneSkipped
  <2> QED BY <1>1, <2>1, <2>3 DEF Ids, IInv, TypeOK
<1> QED BY <1>1, <1>2 DEF GotBefore

\* A coroutine decodes a signal that comes after those it has.
LEMMA AppendOrdered ==
    ASSUME IInv, NEW c \in Callers, NEW x \in Ids, InOrder(got[c]), GotBefore(c, x)
    PROVE  InOrder(Append(got[c], x))
<1>1. PICK q : q = got[c]
  OBVIOUS
<1>2. q \in Seq(Ids)
  BY <1>1 DEF IInv, TypeOK
<1>3. /\ Append(q, x) \in Seq(Ids) /\ Len(q) \in Nat /\ Len(Append(q, x)) = Len(q) + 1
      /\ \A k \in 1 .. Len(q) : Append(q, x)[k] = q[k]
      /\ Append(q, x)[Len(q) + 1] = x
  BY <1>2, AppendProperties, LenProperties
<1>4. DOMAIN q = 1 .. Len(q) /\ DOMAIN Append(q, x) = 1 .. Len(q) + 1
  BY <1>2, <1>3, LenProperties
<1>5. \A k \in 1 .. Len(q) : q[k] \in ToSet(q)
  BY <1>2, ElementAt
<1>6. /\ \A k \in 1 .. Len(q) : sent[q[k]].name = sent[x].name => q[k] < x
      /\ \A j, k \in 1 .. Len(q) : j < k /\ sent[q[j]].name = sent[q[k]].name => q[j] < q[k]
  BY <1>1, <1>4, <1>5 DEF GotBefore, InOrder
<1>7. ASSUME NEW j \in 1 .. Len(q) + 1, NEW k \in 1 .. Len(q) + 1, j < k,
             sent[Append(q, x)[j]].name = sent[Append(q, x)[k]].name
      PROVE  Append(q, x)[j] < Append(q, x)[k]
  <2>1. j \in 1 .. Len(q) /\ Append(q, x)[j] = q[j]
    BY <1>3, <1>7
  <2>2. CASE k \in 1 .. Len(q)
    BY <1>3, <1>6, <1>7, <2>1, <2>2
  <2>3. CASE k = Len(q) + 1
    BY <1>3, <1>6, <1>7, <2>1, <2>3
  <2> QED BY <1>3, <2>2, <2>3
<1> QED BY <1>1, <1>4, <1>7 DEF InOrder

\* A channel from which signals are taken, oldest first.
LEMMA ChannelTaken ==
    ASSUME IInv, OrderInv, NEW s \in Signals, NEW k \in 0 .. Len(buffer[s]), sent' = sent,
           buffer'[s] \in Seq(Ids), Len(buffer'[s]) = Len(buffer[s]) - k,
           \A j \in 1 .. Len(buffer'[s]) : buffer'[s][j] = buffer[s][j + k],
           \A t \in Signals \ {s} : buffer'[t] = buffer[t]
    PROVE  /\ \A t \in Signals : (Ascending(buffer[t]) /\ NoneSkipped(t))'
           /\ \A t \in Signals : buffer[t] = <<>> => buffer'[t] = <<>>
<1>1. /\ Len(sent) \in Nat /\ Ids = 1 .. Len(sent) /\ Ids' = Ids /\ buffer[s] \in Seq(Ids)
  BY LenProperties DEF IInv, TypeOK, Ids
<1>2. Ascending(buffer[s]) /\ NoneSkipped(s)
  BY DEF OrderInv
<1>3. /\ Ascending(buffer'[s]) /\ ToSet(buffer'[s]) \subseteq ToSet(buffer[s])
      /\ \A i \in ToSet(buffer'[s]), j \in ToSet(buffer[s]) : i < j => j \in ToSet(buffer'[s])
  BY <1>1, <1>2, FrontTaken
<1>4. (Ascending(buffer[s]) /\ NoneSkipped(s))'
  BY <1>1, <1>2, <1>3 DEF NoneSkipped, Ascending
<1>5. ASSUME NEW t \in Signals \ {s} PROVE (Ascending(buffer[t]) /\ NoneSkipped(t))'
  <2>1. Ascending(buffer[t]) /\ NoneSkipped(t)
    BY DEF OrderInv
  <2> QED BY <1>1, <2>1 DEF NoneSkipped, Ascending
<1>6. buffer[s] = <<>> => buffer'[s] = <<>>
  BY <1>1, EmptySeq, LenProperties
<1> QED BY <1>4, <1>5, <1>6

\* Whoever was blocked and still is has empty channels, when none fills.
LEMMA StarvedKept ==
    ASSUME IInv, OrderInv, NEW c \in Callers, Moves(c),
           \A t \in Signals : buffer[t] = <<>> => buffer'[t] = <<>>
    PROVE  \A d \in ToSet(blocked) : Starved(d)'
<1> SUFFICES ASSUME NEW d \in ToSet(blocked) PROVE Starved(d)'
  OBVIOUS
<1>1. d \in Callers /\ pc[d] = "blocked"
  BY ElementAt DEF IInv, TypeOK, BlockedOK
<1>2. pc[c] # "blocked"
  BY DEF Moves, Step, Select, Park, Receive, ReceiveCorrupt, HandlerReturns, PollReceives, PollDrains,
         WaitTimesOut, WaitCanceled, WaitEnds, Call
<1>3. open'[d] = open[d] /\ open[d] \subseteq Signals
  BY <1>1, <1>2, StepOthers DEF SameCaller, IInv, TypeOK
<1>4. Starved(d)
  BY DEF OrderInv
<1> QED BY <1>3, <1>4 DEF Starved

\* A coroutine that takes nothing.
LEMMA OrderKept ==
    ASSUME IInv, OrderInv, NEW c \in Callers, Moves(c), UNCHANGED <<sent, buffer, held, got>>
    PROVE  OrderInv'
<1>1. \A d \in ToSet(blocked) : Starved(d)'
  BY StarvedKept
<1>2. \A d \in ToSet(blocked') : Starved(d)'
  <2>1. CASE Park(c)
    <3>1. /\ blocked \in Seq(Callers) /\ blocked' = Append(blocked, c) /\ open' = open
          /\ \A s \in open[c] : buffer[s] = <<>>
      BY <2>1 DEF Park, IInv, TypeOK
    <3>2. ToSet(blocked') = ToSet(blocked) \cup {c}
      BY <3>1, AppendSet
    <3> QED BY <1>1, <3>1, <3>2 DEF Starved
  <2>2. CASE blocked' = blocked
    BY <1>1, <2>2
  <2> QED
    BY <2>1, <2>2 DEF Moves, Step, Select, Receive, ReceiveCorrupt, HandlerReturns, PollReceives,
                      PollDrains, WaitTimesOut, WaitCanceled, WaitEnds, Call, channels
<1>3. \A s \in Signals : (Ascending(buffer[s]) /\ NoneSkipped(s))'
  BY DEF OrderInv, Ascending, NoneSkipped, Ids
<1>4. \A d \in Callers : (InOrder(got[d]) /\ (held[d] # 0 => GotBefore(d, held[d])))'
  BY DEF OrderInv, InOrder, GotBefore
<1> QED BY <1>2, <1>3, <1>4 DEF OrderInv

\* The selector gives the oldest signal of the channel it chose.
LEMMA SelectOrder ==
    ASSUME IInv, OrderInv, NEW c \in Callers, NEW s \in Signals, Select(c, s)
    PROVE  OrderInv'
<1>0. PICK x : x = Head(buffer[s])
  OBVIOUS
<1>1. /\ buffer \in [Signals -> Seq(Ids)] /\ held \in [Callers -> Ids \cup {0}] /\ Moves(c)
      /\ IsInjective(buffer[s])
  BY DEF IInv, TypeOK, Moves, Step, PlacesOK, ChannelOK
<1>2. /\ buffer[s] # <<>> /\ held' = [held EXCEPT ![c] = x]
      /\ buffer' = [t \in Signals |-> IF t \in {s} /\ buffer[t] # <<>> THEN Tail(buffer[t]) ELSE buffer[t]]
      /\ UNCHANGED <<sent, got, blocked>>
  BY <1>0 DEF Select, Received, outcome
<1>3. /\ buffer'[s] = Tail(buffer[s]) /\ \A t \in Signals \ {s} : buffer'[t] = buffer[t]
  BY <1>2
<1>4. /\ Tail(buffer[s]) \in Seq(Ids) /\ Len(buffer[s]) \in Nat /\ Len(buffer[s]) >= 1
      /\ Len(Tail(buffer[s])) = Len(buffer[s]) - 1
      /\ \A k \in 1 .. Len(buffer[s]) - 1 : Tail(buffer[s])[k] = buffer[s][k + 1]
  BY <1>1, <1>2, HeadTailProperties, LenProperties, EmptySeq
<1>5. /\ \A t \in Signals : (Ascending(buffer[t]) /\ NoneSkipped(t))'
      /\ \A t \in Signals : buffer[t] = <<>> => buffer'[t] = <<>>
  <2>1. 1 \in 0 .. Len(buffer[s]) /\ sent' = sent
    BY <1>2, <1>4
  <2> QED BY <1>3, <1>4, <2>1, ChannelTaken
<1>6. \A d \in ToSet(blocked') : Starved(d)'
  BY <1>1, <1>2, <1>5, StarvedKept
<1>7. GotBefore(c, x)
  <2>1. x \in ToSet(buffer[s])
    BY <1>0, <1>1, <1>2, TailSet
  <2> QED BY <2>1, LeftBefore
<1>8. ASSUME NEW d \in Callers PROVE (InOrder(got[d]) /\ (held[d] # 0 => GotBefore(d, held[d])))'
  <2>1. held'[d] = IF d = c THEN x ELSE held[d]
    BY <1>1, <1>2
  <2> QED BY <1>2, <1>7, <2>1 DEF OrderInv, InOrder, GotBefore
<1> QED BY <1>5, <1>6, <1>8 DEF OrderInv

\* Receive decodes, or drops, the signal the coroutine holds.
LEMMA ReceiveOrder ==
    ASSUME IInv, OrderInv, NEW c \in Callers, Receive(c) \/ ReceiveCorrupt(c)
    PROVE  OrderInv'
<1>0. PICK x : x = held[c]
  OBVIOUS
<1>1. /\ held \in [Callers -> Ids \cup {0}] /\ got \in [Callers -> Seq(Ids)] /\ x # 0 /\ x \in Ids /\ Moves(c)
  <2>1. x # 0 /\ held \in [Callers -> Ids \cup {0}] /\ got \in [Callers -> Seq(Ids)]
    BY <1>0 DEF IInv, TypeOK, CallerOK, Receive, ReceiveCorrupt
  <2>2. Moves(c)
    BY DEF Moves, Step
  <2> QED BY <1>0, <2>1, <2>2
<1>2. /\ held' = [held EXCEPT ![c] = 0] /\ UNCHANGED <<sent, buffer, blocked>>
      /\ got' = [got EXCEPT ![c] = Append(@, x)] \/ got' = got
  BY <1>0 DEF Receive, ReceiveCorrupt, channels, outcome
<1>3. InOrder(Append(got[c], x))
  BY <1>0, <1>1, AppendOrdered DEF OrderInv
<1>4. \A d \in ToSet(blocked') : Starved(d)'
  BY <1>1, <1>2, StarvedKept
<1>5. \A s \in Signals : (Ascending(buffer[s]) /\ NoneSkipped(s))'
  BY <1>2 DEF OrderInv, Ascending, NoneSkipped, Ids
<1>6. ASSUME NEW d \in Callers PROVE (InOrder(got[d]) /\ (held[d] # 0 => GotBefore(d, held[d])))'
  <2>1. InOrder(got[d]) /\ (held[d] # 0 => GotBefore(d, held[d]))
    BY DEF OrderInv
  <2>2. CASE d = c
    <3>1. held'[d] = 0 /\ (got'[d] = Append(got[c], x) \/ got'[d] = got[d])
      BY <1>1, <1>2, <2>2
    <3> QED BY <1>2, <1>3, <2>1, <3>1 DEF InOrder
  <2>3. CASE d # c
    <3>1. held'[d] = held[d] /\ got'[d] = got[d]
      BY <1>1, <1>2, <2>3
    <3> QED BY <1>2, <2>1, <3>1 DEF InOrder, GotBefore
  <2> QED BY <2>2, <2>3
<1> QED BY <1>4, <1>5, <1>6 DEF OrderInv

\* ReceiveAsync decodes the oldest signal that it can, or empties the channel.
LEMMA PollOrder ==
    ASSUME IInv, OrderInv, NEW c \in Callers, PollReceives(c) \/ PollDrains(c)
    PROVE  OrderInv'
<1>1. PICK s \in Signals : s = Awaited(c)
  BY AwaitedChannel DEF IInv, PollReceives, PollDrains
<1>2. PICK q : q = buffer[s]
  OBVIOUS
<1>3. /\ buffer \in [Signals -> Seq(Ids)] /\ got \in [Callers -> Seq(Ids)] /\ q \in Seq(Ids)
      /\ Len(q) \in Nat /\ Moves(c) /\ UNCHANGED <<sent, held, blocked>>
  BY <1>2, LenProperties DEF IInv, TypeOK, Moves, Step, PollReceives, PollDrains
<1>4. PICK k \in 0 .. Len(q) :
        /\ buffer' = [buffer EXCEPT ![s] = SubSeq(q, k + 1, Len(q))]
        /\ got' = got \/ (k # 0 /\ got' = [got EXCEPT ![c] = Append(@, q[k])])
  <2>1. CASE PollReceives(c)
    <3>1. PICK k \in 1 .. Len(buffer[Awaited(c)]) :
            /\ got' = [got EXCEPT ![c] = Append(@, buffer[Awaited(c)][k])]
            /\ buffer' = [buffer EXCEPT ![Awaited(c)] = SubSeq(@, k + 1, Len(@))]
      BY <2>1, Zenon DEF PollReceives
    <3>2. k \in 0 .. Len(q) /\ k # 0 /\ got' = [got EXCEPT ![c] = Append(@, q[k])]
      BY <1>1, <1>2, <1>3, <3>1
    <3>3. buffer' = [buffer EXCEPT ![s] = SubSeq(q, k + 1, Len(q))]
      BY <1>1, <1>2, <3>1
    <3> QED BY <3>2, <3>3
  <2>2. CASE PollDrains(c)
    <3>1. buffer' = [buffer EXCEPT ![s] = <<>>] /\ got' = got
      BY <1>1, <2>2 DEF PollDrains, outcome
    <3>2. SubSeq(q, Len(q) + 1, Len(q)) = <<>>
      <4>1. Len(q) + 1 \in Int /\ Len(q) \in Int /\ Len(q) < Len(q) + 1
        BY <1>3
      <4> QED BY <4>1, SubSeqEmpty
    <3>3. Len(q) \in 0 .. Len(q)
      BY <1>3
    <3> QED BY <3>1, <3>2, <3>3
  <2> QED BY <2>1, <2>2
<1>5. /\ buffer'[s] = SubSeq(q, k + 1, Len(q)) /\ \A t \in Signals \ {s} : buffer'[t] = buffer[t]
  BY <1>3, <1>4
<1>6. /\ SubSeq(q, k + 1, Len(q)) \in Seq(Ids) /\ Len(SubSeq(q, k + 1, Len(q))) = Len(q) - k
      /\ \A j \in 1 .. Len(q) - k : SubSeq(q, k + 1, Len(q))[j] = q[j + k]
  <2>1. k + 1 \in Int /\ Len(q) \in Int /\ \A i \in k + 1 .. Len(q) : q[i] \in Ids
    BY <1>3, ElementOfSeq
  <2>2. /\ SubSeq(q, k + 1, Len(q)) \in Seq(Ids)
        /\ Len(SubSeq(q, k + 1, Len(q))) = IF k + 1 <= Len(q) THEN Len(q) - (k + 1) + 1 ELSE 0
        /\ \A j \in 1 .. Len(q) - (k + 1) + 1 : SubSeq(q, k + 1, Len(q))[j] = q[(k + 1) + j - 1]
    BY <2>1, SubSeqProperties
  <2>3. /\ Len(q) - (k + 1) + 1 = Len(q) - k /\ k + 1 > Len(q) => Len(q) - k = 0
        /\ \A j \in 1 .. Len(q) - k : (k + 1) + j - 1 = j + k
    BY <1>3
  <2> QED BY <1>3, <2>2, <2>3
<1>7. /\ \A t \in Signals : (Ascending(buffer[t]) /\ NoneSkipped(t))'
      /\ \A t \in Signals : buffer[t] = <<>> => buffer'[t] = <<>>
  <2>1. k \in 0 .. Len(buffer[s]) /\ sent' = sent /\ buffer'[s] \in Seq(Ids)
    BY <1>2, <1>3, <1>5, <1>6
  <2>2. /\ Len(buffer'[s]) = Len(buffer[s]) - k
        /\ \A j \in 1 .. Len(buffer'[s]) : buffer'[s][j] = buffer[s][j + k]
    BY <1>2, <1>5, <1>6
  <2> QED BY <1>5, <2>1, <2>2, ChannelTaken
<1>8. \A d \in ToSet(blocked') : Starved(d)'
  BY <1>3, <1>7, StarvedKept
<1>9. k # 0 => InOrder(Append(got[c], q[k]))
  <2> SUFFICES ASSUME k # 0 PROVE InOrder(Append(got[c], q[k]))
    OBVIOUS
  <2>1. q[k] \in ToSet(buffer[s])
    BY <1>2, <1>3, ElementAt
  <2>2. GotBefore(c, q[k]) /\ q[k] \in Ids
    BY <2>1, LeftBefore
  <2> QED BY <2>2, AppendOrdered DEF OrderInv
<1>10. ASSUME NEW d \in Callers PROVE (InOrder(got[d]) /\ (held[d] # 0 => GotBefore(d, held[d])))'
  <2>1. InOrder(got[d]) /\ (held[d] # 0 => GotBefore(d, held[d]))
    BY DEF OrderInv
  <2>2. CASE d = c
    <3>1. pc[c] = "polling" /\ CallerOK(c)
      BY DEF PollReceives, PollDrains, IInv
    <3>2. held'[d] = 0
      BY <1>3, <2>2, <3>1 DEF CallerOK
    <3>3. got'[d] = got[d] \/ (k # 0 /\ got'[d] = Append(got[c], q[k]))
      BY <1>3, <1>4, <2>2
    <3> QED BY <1>3, <1>9, <2>1, <3>2, <3>3 DEF InOrder
  <2>3. CASE d # c
    <3>1. held'[d] = held[d] /\ got'[d] = got[d]
      BY <1>3, <1>4, <2>3
    <3> QED BY <1>3, <2>1, <3>1 DEF InOrder, GotBefore
  <2> QED BY <2>2, <2>3
<1> QED BY <1>7, <1>8, <1>10 DEF OrderInv

\* A signal that comes in is the last of its name: it queues up, or there is
\* nothing before it.
LEMMA SignalOrder ==
    ASSUME IInv, OrderInv, NEW s \in Signals, NEW ok \in BOOLEAN, SignalWorkflow(s, ok)
    PROVE  OrderInv'
<1>1. PICK x : x = Len(sent) + 1
  OBVIOUS
<1>2. /\ SentGrows /\ Ids' = Ids \cup {x} /\ x \notin Ids /\ sent'[x].name = s /\ x # 0 /\ x \in Nat
      /\ Ids \subseteq Nat /\ \A i \in Ids : i < x
  <2>1. /\ SentGrows /\ Ids' = Ids \cup {Len(sent) + 1} /\ Len(sent) + 1 \notin Ids /\ Len(sent) \in Nat
        /\ sent'[Len(sent) + 1] = [name |-> s, ok |-> ok]
    BY SignalSent DEF IInv
  <2> QED BY <1>1, <2>1 DEF Ids
<1>3. /\ buffer \in [Signals -> Seq(Ids)] /\ held \in [Callers -> Ids \cup {0}] /\ got \in [Callers -> Seq(Ids)]
      /\ blocked \in Seq(Callers) /\ open \in [Callers -> SUBSET Signals] /\ got' = got
  BY DEF IInv, TypeOK, SignalWorkflow, outcome
<1>4. /\ \A t \in Signals : ToSet(buffer[t]) \subseteq Ids
      /\ \A d \in Callers : ToSet(got[d]) \subseteq Ids /\ DOMAIN got[d] = 1 .. Len(got[d])
      /\ \A d \in Callers : \A k \in DOMAIN got[d] : got[d][k] \in Ids
      /\ ToSet(blocked) \subseteq Callers
  BY <1>3, ElementAt, LenProperties, ElementOfSeq
<1>5. \A i \in Ids : sent'[i] = sent[i]
  BY <1>2 DEF SentGrows
<1>6. \A d \in Callers : InOrder(got[d])'
  <2> SUFFICES ASSUME NEW d \in Callers PROVE InOrder(got[d])'
    OBVIOUS
  <2>1. InOrder(got[d])
    BY DEF OrderInv
  <2>2. \A k \in DOMAIN got[d] : got[d][k] \in Ids /\ sent'[got[d][k]] = sent[got[d][k]]
    BY <1>4, <1>5
  <2>3. InOrder(got[d])' <=>
          \A j, k \in DOMAIN got[d] :
              j < k /\ sent'[got[d][j]].name = sent'[got[d][k]].name => got[d][j] < got[d][k]
    BY <1>3 DEF InOrder
  <2> QED BY <2>1, <2>2, <2>3 DEF InOrder
<1>7. ASSUME NEW d \in Callers, NEW y \in Ids, GotBefore(d, y) PROVE GotBefore(d, y)'
  BY <1>3, <1>4, <1>5, <1>7 DEF GotBefore
<1>8. ASSUME NEW d \in Callers PROVE GotBefore(d, x)'
  BY <1>2, <1>3, <1>4 DEF GotBefore
<1>9. ASSUME NEW t \in Signals, buffer'[t] = buffer[t], t # s \/ buffer[t] = <<>>
      PROVE  (Ascending(buffer[t]) /\ NoneSkipped(t))'
  <2>1. Ascending(buffer[t]) /\ NoneSkipped(t)
    BY DEF OrderInv
  <2>2. Ascending(buffer'[t])
    BY <1>9, <2>1
  <2>3. CASE t # s
    <3>1. \A i \in ToSet(buffer[t]), j \in Ids' : sent'[j].name = t /\ i < j => j \in ToSet(buffer[t])
      BY <1>2, <1>4, <1>5, <2>1, <2>3 DEF NoneSkipped
    <3> QED BY <1>9, <2>2, <3>1 DEF NoneSkipped, Ascending
  <2>4. CASE buffer[t] = <<>>
    <3>1. ToSet(buffer'[t]) = {}
      BY <1>9, <2>4 DEF ToSet
    <3> QED BY <2>2, <3>1 DEF NoneSkipped, Ascending
  <2> QED BY <1>9, <2>3, <2>4
<1>10. CASE /\ Waiters(s) = {} /\ buffer' = [buffer EXCEPT ![s] = Append(@, Len(sent) + 1)]
            /\ UNCHANGED <<blocked, pc, open, held>>
  <2>1. PICK q : q = buffer[s]
    OBVIOUS
  <2>2. q \in Seq(Ids) /\ Ascending(q) /\ NoneSkipped(s)
    BY <1>3, <2>1 DEF OrderInv
  <2>3. /\ buffer'[s] = Append(q, x) /\ \A t \in Signals \ {s} : buffer'[t] = buffer[t]
    BY <1>1, <1>3, <1>10, <2>1
  <2>4. /\ Len(q) \in Nat /\ Len(Append(q, x)) = Len(q) + 1
        /\ \A k \in 1 .. Len(q) : Append(q, x)[k] = q[k] /\ q[k] < x
        /\ Append(q, x)[Len(q) + 1] = x
    BY <1>2, <2>2, AppendProperties, LenProperties, ElementOfSeq
  <2>5. Ascending(buffer[s])'
    <3> SUFFICES ASSUME NEW a \in 1 .. Len(q) + 1, NEW b \in 1 .. Len(q) + 1, a < b
                 PROVE  Append(q, x)[a] < Append(q, x)[b]
      BY <2>3, <2>4 DEF Ascending
    <3>1. a \in 1 .. Len(q) /\ (b \in 1 .. Len(q) \/ b = Len(q) + 1)
      BY <2>4
    <3>2. CASE b \in 1 .. Len(q)
      BY <2>2, <2>4, <3>1, <3>2 DEF Ascending
    <3>3. CASE b = Len(q) + 1
      BY <2>4, <3>1, <3>3
    <3> QED BY <3>1, <3>2, <3>3
  <2>6. NoneSkipped(s)'
    <3>1. ToSet(buffer'[s]) = ToSet(buffer[s]) \cup {x}
      <4>1. PICK I : I = Ids \cup {x}
        OBVIOUS
      <4>2. q \in Seq(I) /\ x \in I
        BY <2>2, <4>1, SeqMonotonic
      <4> QED BY <2>1, <2>3, <4>2, AppendSet
    <3>2. \A i \in Ids : ~(x < i)
      BY <1>2
    <3> QED BY <1>2, <1>4, <1>5, <2>2, <3>1, <3>2 DEF NoneSkipped
  <2>7. \A d \in ToSet(blocked') : Starved(d)'
    <3> SUFFICES ASSUME NEW d \in ToSet(blocked) PROVE Starved(d)'
      BY <1>10
    <3>1. PICK k \in 1 .. Len(blocked) : d = blocked[k]
      BY <1>3, ElementAt
    <3>2. k \in DOMAIN blocked
      BY <1>3, LenProperties
    <3>3. s \notin open[d] /\ open[d] \subseteq Signals /\ Starved(d)
      BY <1>3, <1>4, <1>10, <3>1, <3>2 DEF Waiters, OrderInv
    <3> QED BY <1>10, <2>3, <3>3 DEF Starved
  <2>8. \A d \in Callers : (held[d] # 0 => GotBefore(d, held[d]))'
    BY <1>3, <1>7, <1>10 DEF OrderInv
  <2>9. \A t \in Signals : (Ascending(buffer[t]) /\ NoneSkipped(t))'
    BY <1>9, <2>3, <2>5, <2>6
  <2> QED BY <1>6, <2>7, <2>8, <2>9 DEF OrderInv
<1>11. ASSUME NEW k \in Waiters(s), HandOver(Len(sent) + 1, s, k) PROVE OrderInv'
  <2>1. k \in 1 .. Len(blocked) /\ s \in open[blocked[k]]
    BY <1>3, <1>11, LenProperties DEF Waiters
  <2>2. PICK c \in Callers : c = blocked[k]
    BY <1>3, <2>1, ElementOfSeq
  <2>3. /\ buffer' = buffer /\ held' = [held EXCEPT ![c] = x] /\ open' = [open EXCEPT ![c] = {s}]
        /\ blocked' = RemoveAt(blocked, k)
    BY <1>1, <1>11, <2>2 DEF HandOver
  <2>4. buffer[s] = <<>>
    <3>1. c \in ToSet(blocked)
      BY <1>3, <2>1, <2>2, ElementAt
    <3> QED BY <2>1, <2>2, <3>1 DEF OrderInv, Starved
  <2>5. \A t \in Signals : (Ascending(buffer[t]) /\ NoneSkipped(t))'
    BY <1>9, <2>3, <2>4
  <2>6. \A d \in ToSet(blocked') : Starved(d)'
    <3>1. ToSet(blocked') \subseteq ToSet(blocked) \ {c}
      BY <1>3, <2>1, <2>2, <2>3, RemoveSet DEF IInv, BlockedOK
    <3>2. \A d \in Callers \ {c} : open'[d] = open[d]
      BY <1>3, <2>3
    <3> QED BY <1>4, <2>3, <3>1, <3>2 DEF OrderInv, Starved
  <2>7. ASSUME NEW d \in Callers PROVE (held[d] # 0 => GotBefore(d, held[d]))'
    <3>1. held'[d] = IF d = c THEN x ELSE held[d]
      BY <1>3, <2>3
    <3>2. CASE d = c
      <4>1. GotBefore(d, x)' /\ held'[d] = x
        BY <1>8, <3>1, <3>2
      <4> QED BY <4>1 DEF GotBefore
    <3>3. CASE d # c
      <4>1. held'[d] = held[d] /\ held[d] \in Ids \cup {0}
        BY <1>3, <3>1, <3>3
      <4>2. held[d] # 0 => GotBefore(d, held[d])
        BY DEF OrderInv
      <4> QED BY <1>3, <1>4, <1>5, <4>1, <4>2 DEF GotBefore
    <3> QED BY <3>2, <3>3
  <2> QED BY <1>6, <2>5, <2>6, <2>7 DEF OrderInv
<1> QED BY <1>10, <1>11 DEF SignalWorkflow

LEMMA NextOrder == IInv /\ OrderInv /\ [Next]_vars => OrderInv'
<1> SUFFICES ASSUME IInv, OrderInv, [Next]_vars PROVE OrderInv'
  OBVIOUS
<1>1. ASSUME NEW c \in Callers, Moves(c) PROVE OrderInv'
  <2>1. CASE (\E op \in Ops, S \in (SUBSET Signals) \ {{}} : Call(c, op, S)) \/ Park(c) \/ HandlerReturns(c)
             \/ WaitTimesOut(c) \/ WaitCanceled(c)
    <3>1. UNCHANGED <<sent, buffer, held, got>>
      BY <2>1 DEF Call, Park, HandlerReturns, WaitTimesOut, WaitCanceled, WaitEnds, channels, outcome
    <3> QED BY <1>1, <3>1, OrderKept
  <2> QED BY <1>1, <2>1, SelectOrder, ReceiveOrder, PollOrder DEF Moves, Step
<1>2. CASE CancelWorkflow \/ UNCHANGED vars
  <2>1. UNCHANGED <<sent, buffer, blocked, open, held, got>>
    BY <1>2 DEF CancelWorkflow, vars, channels, outcome
  <2> QED BY <2>1 DEF OrderInv, Ascending, NoneSkipped, Starved, InOrder, GotBefore, Ids
<1> QED BY <1>1, <1>2, SignalOrder DEF Next, Moves

\* No signal is lost, none is received twice and none overtakes another of its
\* name, however many coroutines wait on how many names: SignalConsumer's loop,
\* ListenSignal, GetSignalResult, WaitForSignal with its timeout and
\* WaitForAnySignal with its selector.
THEOREM SignalsReceivedOnce == Spec => []EverySignalOnce
<1>1. Init => OrderInv
  BY DEF Init, OrderInv, Ascending, NoneSkipped, Starved, InOrder, ToSet
<1>2. IInv /\ OrderInv => EverySignalOnce
  BY OnePlace DEF IInv, PlacesOK, OrderInv, EverySignalOnce
<1> QED BY <1>1, <1>2, NextOrder, Invariant, PTL DEF Spec

\* A nil error stands for one decodable signal of a name the caller asked for,
\* the one WaitForAnySignal names; a timeout or a cancellation for none.
THEOREM AnswersNameSignals == Spec => []AnswerTellsSignal
<1>1. IInv => AnswerTellsSignal
  BY DEF IInv, AnswerOK, AnswerTellsSignal
<1> QED BY <1>1, Invariant, PTL
=============================================================================
