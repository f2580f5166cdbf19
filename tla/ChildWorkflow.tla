---------------------------- MODULE ChildWorkflow ----------------------------
(***************************************************************************)
(* StartChildWorkflow and SignalExternalWorkflow of temporal/workflow.go.  *)
(* A call starts a child under a workflow ID, waits until it runs, signals *)
(* it with the request, and waits for its result.  Several callers use the *)
(* same ID; a child runs on its own and may close at any time.             *)
(*                                                                         *)
(* The server is external.  What the code relies on: one open run per ID,  *)
(* and a new one once it is closed; a signal to a run is accepted while    *)
(* the run is open; a signal without a run ID goes to the open run of the  *)
(* ID.  Cancelling the caller's context withdraws a start the server has   *)
(* not made yet, asks a started child to cancel, and ends the wait for its *)
(* result at once; it does not end the wait for the signal's acceptance.   *)
(***************************************************************************)
EXTENDS Integers, Sequences, FiniteSets

CONSTANTS
    Callers,       \* coroutines that call StartChildWorkflow, one call at a time
    WorkflowIDs,
    External,      \* the sender of SignalExternalWorkflow
    MaxRuns        \* bound: child runs ever started

ASSUME CallersAssumption == External \notin Callers
ASSUME RunsAssumption    == MaxRuns \in Nat

VARIABLES
    runs,       \* the child runs, in the order of their start
    pc,         \* where each caller is in StartChildWorkflow
    id,         \* the workflowID of its call
    child,      \* workflowExecution: the run the call started (0: none yet)
    cancelled,  \* its context is cancelled
    err,        \* what the call returned
    result      \* the run whose result was decoded (0: none)

calls == <<pc, id, child, err, result>>
vars  == <<runs, calls, cancelled>>

Run == [ id     : WorkflowIDs,
         owner  : Callers,
         state  : {"open", "completed", "failed"},
         inbox  : Seq(Callers \cup {External}) ]   \* signals accepted, by sender

Open(k) == runs[k].state = "open"
OpenRuns(i) == {k \in DOMAIN runs : runs[k].id = i /\ Open(k)}

Init ==
    /\ runs = <<>>
    /\ pc = [c \in Callers |-> "idle"]
    /\ id \in [Callers -> WorkflowIDs]
    /\ child = [c \in Callers |-> 0]
    /\ cancelled = [c \in Callers |-> FALSE]
    /\ err = [c \in Callers |-> "none"]
    /\ result = [c \in Callers |-> 0]

Goto(c, p)   == pc' = [pc EXCEPT ![c] = p]
Return(c, e) == Goto(c, "idle") /\ err' = [err EXCEPT ![c] = e]

-----------------------------------------------------------------------------
(* StartChildWorkflow                                                      *)

StartChildWorkflow(c, i) ==
    /\ pc[c] = "idle" /\ ~cancelled[c] /\ Len(runs) < MaxRuns
    /\ Goto(c, "starting")
    /\ id' = [id EXCEPT ![c] = i]
    /\ child' = [child EXCEPT ![c] = 0]
    /\ err' = [err EXCEPT ![c] = "none"]
    /\ result' = [result EXCEPT ![c] = 0]
    /\ UNCHANGED <<runs, cancelled>>

\* GetChildWorkflowExecution returns the ID and the run ID.
ChildStarts(c) ==
    /\ pc[c] = "starting" /\ OpenRuns(id[c]) = {} /\ Len(runs) < MaxRuns
    /\ runs' = Append(runs, [id |-> id[c], owner |-> c, state |-> "open",
                             inbox |-> <<>>])
    /\ child' = [child EXCEPT ![c] = Len(runs) + 1]
    /\ Goto(c, "signalling")
    /\ UNCHANGED <<id, err, result, cancelled>>

\* The ID is in use, the context was cancelled before the start, or the server
\* refuses for another reason.
StartFails(c) ==
    /\ pc[c] = "starting"
    /\ Return(c, "start")
    /\ UNCHANGED <<runs, id, child, result, cancelled>>

\* Variant: the signal names no run and goes to the open run of the ID.
CurrentRun(c) == OpenRuns(id[c])
StartedRun(c) == {child[c]}

Deliver(k, from) == runs' = [runs EXCEPT ![k].inbox = Append(@, from)]

SignalAccepted(c) ==
    /\ pc[c] = "signalling"
    /\ \E k \in StartedRun(c) : Open(k) /\ Deliver(k, c)
    /\ Goto(c, "waiting")
    /\ UNCHANGED <<id, child, err, result, cancelled>>

\* Variant: a signal that failed is sent again and again.
SignalRetried(c) == pc[c] = "signalling" /\ UNCHANGED vars

\* The child has closed, the request does not encode, or the server refuses the
\* signal.  In the last two the child stays open, and nobody waits for it.
SignalFails(c) ==
    /\ pc[c] = "signalling"
    /\ Return(c, "signal")
    /\ UNCHANGED <<runs, id, child, result, cancelled>>

\* Variant: any result of the ID ends the wait.
AnyOfID(c) == {k \in DOMAIN runs : runs[k].id = id[c]}
OwnRun(c)  == {child[c]}

ChildCompleted(c) ==
    /\ pc[c] = "waiting" /\ ~cancelled[c]
    /\ \E k \in OwnRun(c) : /\ runs[k].state = "completed"
                            /\ result' = [result EXCEPT ![c] = k]
    /\ Return(c, "nil")
    /\ UNCHANGED <<runs, id, child, cancelled>>

\* Variant: the result is not waited for.
NotAwaited(c)   == TRUE
\* The child failed, its result does not decode into the caller's value, or the
\* context is cancelled.
ResultFailed(c) == ~Open(child[c]) \/ cancelled[c]

ChildFailed(c) ==
    /\ pc[c] = "waiting" /\ ResultFailed(c)
    /\ Return(c, "result")
    /\ UNCHANGED <<runs, id, child, result, cancelled>>

CancelWorkflow(c) ==
    /\ ~cancelled[c] /\ cancelled' = [cancelled EXCEPT ![c] = TRUE]
    /\ UNCHANGED <<runs, calls>>

-----------------------------------------------------------------------------
(* The children, and signals from elsewhere                                *)

ChildCloses(k, s) ==
    /\ Open(k)
    /\ runs' = [runs EXCEPT ![k].state = s]
    /\ UNCHANGED <<calls, cancelled>>

\* SignalExternalWorkflow with an empty run ID, at most one per run here; it
\* fails when no run of the ID is open, and nothing changes.
SignalExternalWorkflow(i) ==
    /\ \E k \in OpenRuns(i) : /\ \A n \in DOMAIN runs[k].inbox : runs[k].inbox[n] # External
                              /\ Deliver(k, External)
    /\ UNCHANGED <<calls, cancelled>>

-----------------------------------------------------------------------------
Step(c) == \/ ChildStarts(c) \/ StartFails(c)
           \/ SignalAccepted(c) \/ SignalFails(c)
           \/ ChildCompleted(c) \/ ChildFailed(c)

Outcomes == {"completed", "failed"}

\* A child that has the request finishes; before that it need not: it waits
\* for a signal of its name, with any of the signal helpers.
ChildFinishes(k) ==
    /\ k \in DOMAIN runs
    /\ \E n \in DOMAIN runs[k].inbox : runs[k].inbox[n] = runs[k].owner
    /\ \E s \in Outcomes : ChildCloses(k, s)

Next == \/ \E c \in Callers : \/ Step(c) \/ CancelWorkflow(c)
                              \/ \E i \in WorkflowIDs : StartChildWorkflow(c, i)
        \/ \E k \in DOMAIN runs, s \in Outcomes : ChildCloses(k, s)
        \/ \E i \in WorkflowIDs : SignalExternalWorkflow(i)

Spec == Init /\ [][Next]_vars

\* The server answers every command and workers run the children.
FairSpec == /\ Spec
            /\ \A c \in Callers : WF_vars(Step(c))
            /\ \A k \in 1 .. MaxRuns : WF_vars(ChildFinishes(k))

-----------------------------------------------------------------------------
(* Properties                                                              *)

\* Every variable stays in its type; what children receive are requests.
TypeOK ==
    /\ runs \in Seq(Run) /\ Len(runs) <= MaxRuns
    /\ pc \in [Callers -> {"idle", "starting", "signalling", "waiting"}]
    /\ id \in [Callers -> WorkflowIDs]
    /\ child \in [Callers -> 0 .. Len(runs)] /\ result \in [Callers -> 0 .. Len(runs)]
    /\ cancelled \in [Callers -> BOOLEAN]
    /\ err \in [Callers -> {"none", "nil", "start", "signal", "result"}]

Requests(k) == {n \in DOMAIN runs[k].inbox : runs[k].inbox[n] # External}

\* A request reaches the run its call started and no other, once: not the
\* next run under the same ID, started by another caller while this one
\* was about to signal (workflowExecution.RunID).
RequestToOwnChild ==
    \A k \in DOMAIN runs :
        /\ Cardinality(Requests(k)) <= 1
        /\ \A n \in Requests(k) : runs[k].inbox[n] = runs[k].owner

\* A call that returns nil has the result of the child it started, and that
\* child was given the request while it ran.
NilMeansServed ==
    \A c \in Callers : err[c] = "nil" =>
        /\ result[c] = child[c] /\ runs[child[c]].owner = c
        /\ runs[child[c]].state = "completed"
        /\ Requests(child[c]) # {}

\* A child that has its request has a caller waiting for it, or is closed: the
\* call does not return while the child works on the request.  A child left
\* open is one whose signal failed, and it stays without its request, also
\* when its caller has gone on to other calls; a start or a result that failed
\* leaves none.  Only a cancelled caller leaves a working child.
RequestIsAwaited ==
    /\ \A k \in DOMAIN runs : Open(k) /\ Requests(k) # {} =>
           LET c == runs[k].owner
           IN  cancelled[c] \/ (pc[c] = "waiting" /\ child[c] = k)
    /\ \A c \in Callers : pc[c] = "idle" /\ ~cancelled[c] /\ child[c] # 0 /\ err[c] # "signal"
           => ~Open(child[c])

\* The call returns: neither side waits for the other for ever.
CallReturns == \A c \in Callers : pc[c] # "idle" ~> pc[c] = "idle"
=============================================================================
