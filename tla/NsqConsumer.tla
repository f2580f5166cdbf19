----------------------------- MODULE NsqConsumer -----------------------------
(***************************************************************************)
(* Publishing to and consuming from one NSQ topic and channel (nsq/nsq.go, *)
(* nsq/publisher.go).  nsqd is external: it keeps a stored message until   *)
(* it is finished, has up to MaxInFlight messages in flight to a           *)
(* connection, delivers one again when it times out or the connection is   *)
(* lost, and accepts a FIN from the connection that has the message in     *)
(* flight, whichever of its handlers sends it.  The client library keeps   *)
(* deliveries in the order they came until one of its handler goroutines   *)
(* is free, so a message may time out, and come again, before its handler  *)
(* starts.  It finishes a message when its handler returns nil, and one    *)
(* that comes for more than the MaxAttempts-th time without a handler      *)
(* (NewNsqClient leaves go-nsq's default).                                 *)
(***************************************************************************)
EXTENDS Naturals, Sequences, FiniteSets

CONSTANTS
    Messages,     \* messages the application publishes, each once
    Workers,      \* the goroutines of AddConcurrentHandlers
    NoMessage,    \* an idle worker
    MaxInFlight,  \* NSQConfig.MaxInFlight
    MaxAttempts,  \* the last delivery the client library gives to a handler
    MaxFaults     \* bound: timeouts, crashes and refused connections

ASSUME MessagesAssumption == NoMessage \notin Messages
ASSUME BoundsAssumption   == /\ MaxInFlight \in Nat \ {0} /\ MaxAttempts \in Nat \ {0}
                             /\ MaxFaults \in Nat

VARIABLES
    unsent,      \* not yet published
    accepted,    \* Publish returned nil
    channel,     \* stored at nsqd, waiting for delivery
    inFlight,    \* delivered and not finished
    buffered,    \* deliveries that wait for a free worker, oldest first
    finished,    \* finished at nsqd, gone
    consumer,    \* "none", "connected"
    handling,    \* the message each worker's handler is at
    attempts,    \* deliveries of each message
    returned,    \* history: messages some handler returned from
    succeeded,   \* history: messages some handler really processed
    faults

nsqVars == <<unsent, accepted, channel, inFlight, buffered, finished, consumer,
             handling, attempts, returned, succeeded, faults>>

NsqInit ==
    /\ unsent = Messages /\ accepted = {} /\ channel = {} /\ inFlight = {}
    /\ buffered = <<>> /\ finished = {} /\ consumer = "none"
    /\ handling = [w \in Workers |-> NoMessage]
    /\ attempts = [m \in Messages |-> 0]
    /\ returned = {} /\ succeeded = {} /\ faults = 0

Fault == faults < MaxFaults /\ faults' = faults + 1

-----------------------------------------------------------------------------
\* Variant: the producer's error is not passed on.
PublishSwallows(m, stored, e) == accepted' = accepted \cup {m}

\* What Publish tells its caller: the producer's own error.
PublishReturns(m, stored, e) == accepted' = IF e = "nil" THEN accepted \cup {m} ELSE accepted

\* PUB fails before or after nsqd stored the message, or is acknowledged.
Publish(m) ==
    /\ m \in unsent
    /\ unsent' = unsent \ {m}
    /\ \E o \in {<<TRUE, "nil">>, <<TRUE, "lost">>, <<FALSE, "refused">>} :
          /\ channel' = IF o[1] THEN channel \cup {m} ELSE channel
          /\ PublishReturns(m, o[1], o[2])
    /\ UNCHANGED <<inFlight, buffered, finished, consumer, handling, attempts,
                   returned, succeeded, faults>>

\* Variant: the handlers are added but nsqd is never dialled.
RegisterUnconnected == consumer' = "registered"

\* Handlers are added first, then nsqd is dialled.
Connect == consumer' = "connected"

RegisterConsumer ==
    /\ consumer = "none"
    /\ Connect
    /\ UNCHANGED <<unsent, accepted, channel, inFlight, buffered, finished,
                   handling, attempts, returned, succeeded, faults>>

\* ConnectToNSQD fails: the caller gets the error and may register again.
RegisterFails ==
    /\ consumer = "none" /\ Fault
    /\ UNCHANGED <<unsent, accepted, channel, inFlight, buffered, finished,
                   consumer, handling, attempts, returned, succeeded>>

-----------------------------------------------------------------------------
\* nsqd sends a stored message, with the number of this delivery on it.
Deliver(m) ==
    /\ consumer = "connected"
    /\ m \in channel /\ Cardinality(inFlight) < MaxInFlight
    /\ attempts' = [attempts EXCEPT ![m] = @ + 1]
    /\ channel' = channel \ {m}
    /\ inFlight' = inFlight \cup {m}
    /\ buffered' = Append(buffered, [message |-> m, attempt |-> attempts[m] + 1])
    /\ UNCHANGED <<unsent, accepted, finished, consumer, handling, returned,
                   succeeded, faults>>

\* FIN counts only for a message that is in flight.
Finish(m) ==
    IF m \in inFlight
    THEN inFlight' = inFlight \ {m} /\ finished' = finished \cup {m}
    ELSE UNCHANGED <<inFlight, finished>>

\* A free worker takes the oldest delivery ...
Take(w) ==
    /\ handling[w] = NoMessage /\ buffered # <<>>
    /\ buffered' = Tail(buffered)
    /\ UNCHANGED <<unsent, accepted, channel, consumer, attempts, returned,
                   succeeded, faults>>

\* ... and enters the handler with it, also when nsqd timed it out meanwhile,
StartHandler(w) ==
    /\ Take(w)
    /\ Head(buffered).attempt <= MaxAttempts
    /\ handling' = [handling EXCEPT ![w] = Head(buffered).message]
    /\ UNCHANGED <<inFlight, finished>>

\* or the library gives up on the message and finishes it unseen.
GiveUp(w) ==
    /\ Take(w)
    /\ Head(buffered).attempt > MaxAttempts
    /\ Finish(Head(buffered).message)
    /\ UNCHANGED handling

\* Variant: the handler returns and leaves the answer to somebody else.
HandlerForgets(w, ok) ==
    /\ handling[w] # NoMessage
    /\ returned' = returned \cup {handling[w]}
    /\ succeeded' = IF ok THEN succeeded \cup {handling[w]} ELSE succeeded
    /\ handling' = [handling EXCEPT ![w] = NoMessage]
    /\ UNCHANGED <<unsent, accepted, channel, inFlight, buffered, finished,
                   consumer, attempts, faults>>

\* handlerFunc has no result: whether it processed the message or gave up,
\* the wrapper's err is nil, the Requeue branch is dead and nil is returned.
HandlerReturns(w, ok) ==
    /\ handling[w] # NoMessage
    /\ returned' = returned \cup {handling[w]}
    /\ succeeded' = IF ok THEN succeeded \cup {handling[w]} ELSE succeeded
    /\ Finish(handling[w])
    /\ handling' = [handling EXCEPT ![w] = NoMessage]
    /\ UNCHANGED <<unsent, accepted, channel, buffered, consumer, attempts, faults>>

\* nsqd's message timeout passes while the handler is still busy, or before
\* any handler was free.
MessageTimeout(m) ==
    /\ m \in inFlight /\ Fault
    /\ inFlight' = inFlight \ {m}
    /\ channel' = channel \cup {m}
    /\ UNCHANGED <<unsent, accepted, buffered, finished, consumer, handling,
                   attempts, returned, succeeded>>

\* The consuming process dies, also by a panic of the handler.
Crash ==
    /\ consumer = "connected" /\ Fault
    /\ consumer' = "none"
    /\ channel' = channel \cup inFlight
    /\ inFlight' = {} /\ buffered' = <<>>
    /\ handling' = [w \in Workers |-> NoMessage]
    /\ UNCHANGED <<unsent, accepted, finished, attempts, returned, succeeded>>

NsqNext == \/ \E m \in Messages : Publish(m) \/ Deliver(m) \/ MessageTimeout(m)
           \/ RegisterConsumer \/ RegisterFails \/ Crash
           \/ \E w \in Workers : \/ StartHandler(w) \/ GiveUp(w)
                                 \/ \E ok \in BOOLEAN : HandlerReturns(w, ok)

\* The application registers until it succeeds, nsqd delivers every stored
\* message in turn, workers take what is delivered, and handlers return.
Fairness == /\ WF_nsqVars(RegisterConsumer)
            /\ \A m \in Messages : SF_nsqVars(Deliver(m))
            /\ \A w \in Workers : /\ WF_nsqVars(StartHandler(w) \/ GiveUp(w))
                                  /\ WF_nsqVars(\E ok \in BOOLEAN : HandlerReturns(w, ok))

NsqSpec == NsqInit /\ [][NsqNext]_nsqVars /\ Fairness

-----------------------------------------------------------------------------
\* Every variable stays in its type, and a message is in one place at nsqd.
NsqTypeOK ==
    /\ unsent \subseteq Messages /\ accepted \subseteq Messages
    /\ channel \subseteq Messages /\ inFlight \subseteq Messages
    /\ finished \subseteq Messages
    /\ buffered \in Seq([message : Messages, attempt : Nat \ {0}])
    /\ channel \cap inFlight = {} /\ (channel \cup inFlight) \cap finished = {}
    /\ consumer \in {"none", "connected"}
    /\ handling \in [Workers -> Messages \cup {NoMessage}]
    /\ attempts \in [Messages -> Nat]
    /\ returned \subseteq Messages /\ succeeded \subseteq returned
    /\ faults \in 0 .. MaxFaults

Exhausted(m) == attempts[m] > MaxAttempts

\* At least once: a message whose Publish returned nil leaves nsqd only after
\* a handler returned from it, through timeouts, crashes and late FINs, or
\* after more than MaxAttempts deliveries, whether a handler saw them or not.
AtLeastOnce ==
    \A m \in accepted : m \in channel \cup inFlight \/ m \in returned \/ Exhausted(m)

\* No delivery is forgotten: what nsqd has in flight is in the client's hands,
\* waiting for a worker or at a handler, and will be answered; no MaxInFlight
\* slot is blocked until the message timeout, however often the message was
\* timed out, delivered twice or finished late before.
InFlightIsHere ==
    \A m \in inFlight : \/ \E i \in DOMAIN buffered : buffered[i].message = m
                        \/ \E w \in Workers : handling[w] = m

\* A published message is eventually handled, or delivered more often than the
\* client library puts up with.
EventuallyHandled == \A m \in Messages : m \in accepted ~> (m \in returned \/ Exhausted(m))

\* nsq/nsq.go:75: "Failed messages are automatically requeued", so a message
\* is finished only once a handler really processed it.  The code does not
\* keep this: its handler wrapper never returns an error.
FailedAreRequeued == finished \subseteq succeeded
=============================================================================
