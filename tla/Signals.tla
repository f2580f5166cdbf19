------------------------------ MODULE Signals -------------------------------
(***************************************************************************)
(* The signal helpers of package temporal_client (temporal/workflow.go,    *)
(* temporal/signals.go) on the coroutines of one workflow run: the two     *)
(* selector waits, the timed wait, and the two listener loops, competing   *)
(* for the channels of the run.                                            *)
(*                                                                         *)
(* The SDK's channels are external.  What the code relies on: one buffered *)
(* first-in first-out channel per signal name, shared by all coroutines; a *)
(* signal goes to the coroutine that blocked on the channel first, if      *)
(* there is one; Receive drops a payload it cannot decode and receives     *)
(* again; ReceiveAsync drops them up to the first it can decode; only the  *)
(* timed wait looks at the cancellation of the context.                    *)
(***************************************************************************)
EXTENDS Integers, Sequences, FiniteSets, SequencesExt

CONSTANTS
    Callers,     \* coroutines of the run
    Signals,     \* signal names
    NoSignal,    \* the empty name ""
    MaxSignals   \* bound: signals sent to the run

ASSUME SignalNames == NoSignal \notin Signals
ASSUME SignalBound == MaxSignals \in Nat

\* runAsync, the loop of an On handler, takes the same steps as ListenSignal.
Ops == {"ListenSignal", "GetSignalResult", "WaitForAnySignal", "WaitForSignal"}

VARIABLES
    sent,      \* the signals accepted for the run; a signal is its position here
    buffer,    \* of each channel, oldest first
    blocked,   \* the coroutines blocked on their channels, in their order
    pc,        \* where each coroutine is in its call
    call,      \* the call: the helper and the names it was given
    open,      \* the channels the coroutine receives from
    held,      \* the signal a channel gave it, not yet decoded (0: none)
    result,    \* the signal decoded into result by this call (0: none)
    answer,    \* what the last call returned, and the name it returned
    got,       \* history: the signals decoded by each coroutine
    dropped,   \* history: the signals dropped as corrupt
    cancelled  \* the context is cancelled

channels == <<sent, buffer, blocked, dropped>>
outcome  == <<result, answer, got>>
vars == <<channels, pc, call, open, held, outcome, cancelled>>

Ids == 1 .. Len(sent)
Decodable(i) == sent[i].ok

Init ==
    /\ sent = <<>>
    /\ buffer = [s \in Signals |-> <<>>]
    /\ blocked = <<>>
    /\ pc = [c \in Callers |-> "idle"]
    /\ call = [c \in Callers |-> [op |-> "WaitForSignal", on |-> {}]]
    /\ open = [c \in Callers |-> {}]
    /\ held = [c \in Callers |-> 0]
    /\ result = [c \in Callers |-> 0]
    /\ answer = [c \in Callers |-> [err |-> "none", name |-> NoSignal]]
    /\ got = [c \in Callers |-> <<>>]
    /\ dropped = {}
    /\ cancelled = FALSE

\* Coroutines take turns at the points where they block; signals and
\* cancellation come with a workflow task, before its coroutines run.
Quiet == \A c \in Callers : pc[c] # "select"

Goto(c, p) == pc' = [pc EXCEPT ![c] = p]

Return(c, e, s) == /\ Goto(c, "idle")
                   /\ answer' = [answer EXCEPT ![c] = [err |-> e, name |-> s]]

-----------------------------------------------------------------------------
(* The calls                                                               *)

\* A helper is called with names S (WaitForAnySignal takes several); each of
\* the listeners is the coroutine it starts.
Call(c, op, S) ==
    /\ Quiet /\ pc[c] = "idle"
    /\ op = "WaitForAnySignal" <=> Cardinality(S) > 1
    /\ Goto(c, IF op = "WaitForSignal" THEN "polling" ELSE "select")
    /\ call' = [call EXCEPT ![c] = [op |-> op, on |-> S]]
    /\ open' = [open EXCEPT ![c] = S]
    /\ result' = [result EXCEPT ![c] = 0]
    /\ answer' = [answer EXCEPT ![c] = [err |-> "none", name |-> NoSignal]]
    /\ UNCHANGED <<channels, held, got, cancelled>>

-----------------------------------------------------------------------------
(* Selector and Receive                                                    *)

\* Variant: every ready channel is received from.
AllReady(c, s) == open[c]
Received(c, s) == {s}

\* A channel with a buffered signal is chosen; WaitForAnySignal adds its
\* channels in the order of a map, so any of them may be the first.
Select(c, s) ==
    /\ pc[c] = "select" /\ s \in open[c] /\ buffer[s] # <<>>
    /\ held' = [held EXCEPT ![c] = Head(buffer[s])]
    /\ buffer' = [t \in Signals |-> IF t \in Received(c, s) /\ buffer[t] # <<>>
                                   THEN Tail(buffer[t]) ELSE buffer[t]]
    /\ open' = [open EXCEPT ![c] = {s}]
    /\ Goto(c, "holding")
    /\ UNCHANGED <<sent, blocked, dropped, call, outcome, cancelled>>

Park(c) ==
    /\ pc[c] = "select" /\ \A s \in open[c] : buffer[s] = <<>>
    /\ blocked' = Append(blocked, c)
    /\ Goto(c, "blocked")
    /\ UNCHANGED <<sent, buffer, dropped, call, open, held, outcome, cancelled>>

\* Variant: the name is read from a variable that the cases share.
NameShared(c, s) == CHOOSE t \in call[c].on : TRUE
NameOf(c, s)     == s

\* c.Receive(ctx, result) with a payload that decodes: the waits return, the
\* loops call their handler.
Receive(c) ==
    /\ pc[c] = "holding" /\ Decodable(held[c])
    /\ result' = [result EXCEPT ![c] = held[c]]
    /\ got' = [got EXCEPT ![c] = Append(@, held[c])]
    /\ held' = [held EXCEPT ![c] = 0]
    /\ CASE call[c].op = "ListenSignal" ->
                Goto(c, "handling") /\ answer' = answer
         [] call[c].op = "GetSignalResult" ->
                Return(c, "nil", NoSignal)
         [] call[c].op = "WaitForAnySignal" ->
                Return(c, "nil", NameOf(c, sent[held[c]].name))
    /\ UNCHANGED <<channels, call, open, cancelled>>

\* The payload does not decode: it is dropped and Receive starts over, on the
\* channel it has chosen.
ReceiveCorrupt(c) ==
    /\ pc[c] = "holding" /\ ~Decodable(held[c])
    /\ dropped' = dropped \cup {held[c]}
    /\ held' = [held EXCEPT ![c] = 0]
    /\ Goto(c, "select")
    /\ UNCHANGED <<sent, buffer, blocked, call, open, outcome, cancelled>>

\* Variant: one signal is handled, without the loop.
LoopEnds   == "idle"
LoopsAgain == "select"

\* The handler runs to its end, then the loop receives again.
HandlerReturns(c) ==
    /\ pc[c] = "handling"
    /\ Goto(c, LoopsAgain)
    /\ UNCHANGED <<channels, call, open, held, outcome, cancelled>>

-----------------------------------------------------------------------------
(* WaitForSignal: AwaitWithTimeout around ReceiveAsync                     *)

Awaited(c) == CHOOSE s \in call[c].on : TRUE

FirstDecodable(q, k) == Decodable(q[k]) /\ \A j \in 1 .. k - 1 : ~Decodable(q[j])

PollReceives(c) ==
    LET s == Awaited(c) IN
    /\ pc[c] = "polling"
    /\ \E k \in 1 .. Len(buffer[s]) :
          /\ FirstDecodable(buffer[s], k)
          /\ result' = [result EXCEPT ![c] = buffer[s][k]]
          /\ got' = [got EXCEPT ![c] = Append(@, buffer[s][k])]
          /\ buffer' = [buffer EXCEPT ![s] = SubSeq(@, k + 1, Len(@))]
          /\ dropped' = dropped \cup {buffer[s][j] : j \in 1 .. k - 1}
    /\ Return(c, "nil", NoSignal)
    /\ UNCHANGED <<sent, blocked, call, open, held, cancelled>>

\* Nothing decodes: ReceiveAsync has emptied the channel and says false.
PollDrains(c) ==
    LET s == Awaited(c) IN
    /\ pc[c] = "polling" /\ buffer[s] # <<>>
    /\ \A k \in 1 .. Len(buffer[s]) : ~Decodable(buffer[s][k])
    /\ dropped' = dropped \cup ToSet(buffer[s])
    /\ buffer' = [buffer EXCEPT ![s] = <<>>]
    /\ UNCHANGED <<sent, blocked, pc, call, open, held, outcome, cancelled>>

\* The condition is tried first, then the context, then the timer.
WaitEnds(c, e) ==
    /\ pc[c] = "polling" /\ buffer[Awaited(c)] = <<>>
    /\ Return(c, e, NoSignal)
    /\ UNCHANGED <<channels, call, open, held, result, got, cancelled>>

WaitTimesOut(c) == WaitEnds(c, "timeout") /\ ~cancelled
WaitCanceled(c) == WaitEnds(c, "canceled") /\ cancelled

-----------------------------------------------------------------------------
(* The environment                                                         *)

\* The places in blocked of the coroutines that wait on s.
Waiters(s) == {k \in DOMAIN blocked : s \in open[blocked[k]]}

\* Signal i goes to the k-th blocked coroutine, which leaves its channels.
HandOver(i, s, k) ==
    LET c == blocked[k] IN
    /\ held' = [held EXCEPT ![c] = i]
    /\ open' = [open EXCEPT ![c] = {s}]
    /\ blocked' = RemoveAt(blocked, k)
    /\ Goto(c, "holding")
    /\ buffer' = buffer

\* A signal goes to the first coroutine blocked on its channel, or to the
\* buffer.
SignalWorkflow(s, ok) ==
    LET i == Len(sent) + 1 IN
    /\ Quiet /\ Len(sent) < MaxSignals
    /\ sent' = Append(sent, [name |-> s, ok |-> ok])
    /\ \/ /\ Waiters(s) = {}
          /\ buffer' = [buffer EXCEPT ![s] = Append(@, i)]
          /\ UNCHANGED <<blocked, pc, open, held>>
       \/ \E k \in Waiters(s) : (\A j \in Waiters(s) : k <= j) /\ HandOver(i, s, k)
    /\ UNCHANGED <<dropped, call, outcome, cancelled>>

CancelWorkflow ==
    /\ Quiet /\ ~cancelled /\ cancelled' = TRUE
    /\ UNCHANGED <<channels, pc, call, open, held, outcome>>

-----------------------------------------------------------------------------
\* What a coroutine does by itself once it is scheduled, or its timer fires.
Step(c) == \/ \E s \in Signals : Select(c, s)
           \/ Park(c) \/ Receive(c) \/ ReceiveCorrupt(c) \/ HandlerReturns(c)
           \/ PollReceives(c) \/ PollDrains(c) \/ WaitTimesOut(c) \/ WaitCanceled(c)

Next == \/ \E c \in Callers : \/ Step(c)
                              \/ \E op \in Ops, S \in (SUBSET Signals) \ {{}} : Call(c, op, S)
        \/ \E s \in Signals, ok \in BOOLEAN : SignalWorkflow(s, ok)
        \/ CancelWorkflow

Spec == Init /\ [][Next]_vars

\* A scheduled coroutine runs, a timer fires, and handlers are assumed to
\* return.  Nobody is obliged to call, to signal or to cancel.
FairSpec == Spec /\ \A c \in Callers : WF_vars(Step(c))

-----------------------------------------------------------------------------
(* Properties                                                              *)

\* Every variable stays in its type; what coroutines receive are signals that
\* were sent.
TypeOK ==
    /\ sent \in Seq([name : Signals, ok : BOOLEAN]) /\ Len(sent) <= MaxSignals
    /\ buffer \in [Signals -> Seq(Ids)]
    /\ blocked \in Seq(Callers)
    /\ pc \in [Callers -> {"idle", "select", "blocked", "holding", "handling", "polling"}]
    /\ call \in [Callers -> [op : Ops, on : SUBSET Signals]]
    /\ open \in [Callers -> SUBSET Signals]
    /\ held \in [Callers -> Ids \cup {0}] /\ result \in [Callers -> Ids \cup {0}]
    /\ answer \in [Callers -> [err : {"none", "nil", "timeout", "canceled"},
                               name : Signals \cup {NoSignal}]]
    /\ got \in [Callers -> Seq(Ids)]
    /\ dropped \subseteq Ids /\ cancelled \in BOOLEAN

Places(i) == {<<"buffer", s>> : s \in {t \in Signals : i \in ToSet(buffer[t])}}
        \cup {<<"held", c>> : c \in {d \in Callers : held[d] = i}}
        \cup {<<"got", c>> : c \in {d \in Callers : i \in ToSet(got[d])}}
        \cup {<<"dropped", x>> : x \in dropped \cap {i}}

\* The signals of one name are in the order they were sent in.
InOrder(q) ==
    \A j, k \in DOMAIN q : j < k /\ sent[q[j]].name = sent[q[k]].name => q[j] < q[k]

\* No signal is lost and none is received twice: each is in one place, in its
\* channel, on its way to one coroutine, or decoded by one; only payloads that
\* cannot be decoded are dropped; and over all its calls a coroutine decodes
\* the signals of a name in the order they were sent.  Through waits that time
\* out between two signals, selectors with several ready channels, and
\* coroutines that share a name (GetSignalResult, WaitForSignal, ListenSignal,
\* WaitForAnySignal).
EverySignalOnce ==
    /\ \A i \in Ids : Cardinality(Places(i)) = 1
    /\ \A i \in dropped : ~Decodable(i)
    /\ \A c \in Callers : IsInjective(got[c]) /\ InOrder(got[c])

\* A call that returns nil has decoded one signal it asked for, and
\* WaitForAnySignal names that one; a wait that fails has taken none.
AnswerTellsSignal ==
    \A c \in Callers : pc[c] = "idle" /\ answer[c].err # "none" =>
        IF answer[c].err = "nil"
        THEN /\ result[c] # 0 /\ Decodable(result[c]) /\ sent[result[c]].name \in call[c].on
             /\ call[c].op = "WaitForAnySignal" => answer[c].name = sent[result[c]].name
        ELSE result[c] = 0

Listened(s) == \E c \in Callers : call[c].op = "ListenSignal" /\ call[c].on = {s}

\* A signal for which a listener runs does not stay in its channel.
ListenersConsume ==
    \A s \in Signals : Listened(s) ~> buffer[s] = <<>>

\* temporal/interface.go:94: WaitForAnySignal "parks until the first of the
\* given Signals arrives".  It does not stay parked when one it was given is
\* there.  The code does not keep this: once it received a corrupt payload it
\* waits on that channel alone.
AnySignalEndsWait ==
    \A c \in Callers :
        call[c].op = "WaitForAnySignal" /\ pc[c] = "blocked" =>
            \A s \in call[c].on : \A i \in ToSet(buffer[s]) : ~Decodable(i)
=============================================================================
