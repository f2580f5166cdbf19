------------------------------ MODULE Pipeline ------------------------------
(***************************************************************************)
(* The activity pipeline of package temporal_client (temporal/workflow.go, *)
(* temporal/resumable.go).  One WorkflowExecution value w holds the graph  *)
(* of steps and one Status field; every workflow execution of the worker   *)
(* (a "run") calls w.Execute on its own goroutine, so the graph and Status *)
(* are shared by all runs.  Each run interleaves with its activities, its  *)
(* timers, and the operators who signal or cancel it.                      *)
(*                                                                         *)
(* The Temporal server and SDK are external.  What the code relies on:     *)
(* signals are buffered first-in first-out per run and name and are        *)
(* refused once the run is closed; a wait looks at its queue first, then   *)
(* at cancellation, then at its timer; an activity of a cancelled context  *)
(* fails at once, and so does one scheduled with no timeout; one without a *)
(* function panics, and the worker tries the workflow task again and again *)
(* (the SDK's default panic policy).                                       *)
(***************************************************************************)
EXTENDS Integers, Sequences, FiniteSets, FiniteSetsExt

CONSTANTS
    Runs,          \* workflow executions that share w
    Names,         \* activity names
    NoName,        \* the empty activity name ""
    NoData,        \* a nil ExecutionData
    Signals,       \* signal names
    NoSignal,      \* the empty signal name ""
    DefaultCorrectionSignal,
    DefaultMaxCorrectionAttempts,
    Payloads,      \* signal payloads, by how the two kinds of wait read them
    Transitions,   \* the AddTransitionActivityWithOptions calls of the setup
    Tunings,       \* values the setup assigns to a step's ResumableOptions
    MaxSignals,    \* bound: signals sent to one run
    MaxSteps       \* bound: steps one run enters (the graph may be cyclic)

\* An ActivityOptions argument: nil, a timeout without a RetryPolicy (the
\* server then retries for ever), or a timeout with a bounded RetryPolicy.
ActivityOptions == {"nil", "timeout", "policy"}

ResumableOptions ==
    [ CorrectionSignal      : Signals \cup {NoSignal},
      ApprovalSignal        : Signals \cup {NoSignal},
      MaxCorrectionAttempts : Nat,
      StatusSearchAttribute : BOOLEAN,
      WaitTimeout           : BOOLEAN ]

Transition ==
    [ activityName   : Names,
      signalEvent    : Signals \cup {NoSignal},
      options        : ActivityOptions,
      nextActivities : SUBSET Names ]

ASSUME NamesAssumption   == NoName \notin Names /\ NoData \notin Names \cup {NoName}
ASSUME SignalsAssumption == /\ NoSignal \notin Signals
                            /\ DefaultCorrectionSignal \in Signals
ASSUME DefaultsAssumption == DefaultMaxCorrectionAttempts \in Nat \ {0}
ASSUME PayloadsAssumption == Payloads \subseteq {"null", "true", "false", "object"}
ASSUME SetupAssumption   == Transitions \subseteq Transition /\ Tunings \subseteq ResumableOptions
ASSUME BoundsAssumption  == MaxSignals \in Nat /\ MaxSteps \in Nat

VARIABLES
    activity,       \* w.activity, a map from names to ActivityExecutionInfo
    firstActivity,  \* w.firstActivity
    status,         \* w.Status, the one field every run writes
    pc,             \* where each run is in Execute
    currActivity,   \* the step each run is at (NoName: a nil pointer)
    data,           \* executionData.GetActivity() of each run, or NoData
    correctionCount,\* runResumableActivity's counter
    sent,           \* signals accepted for each run and name, oldest first
    taken,          \* how many of them the run has received
    cancelled,      \* cancellation requested
    attribute,      \* the run's status search attribute on the server
    err,            \* what the run returned: "nil" or the kind of error
    path,           \* history: the steps the run entered
    spent,          \* history: gated executions and approvals per signal
    executed        \* history: gated executions at each entry of the path

shared  == <<activity, firstActivity, status>>
control == <<pc, currActivity, data, correctionCount, err, path>>
queues  == <<sent, taken, spent, executed>>
vars    == <<shared, control, queues, cancelled, attribute>>

-----------------------------------------------------------------------------
(* Statuses, program points, and the data a step carries                   *)

StatusPending            == "PENDING"
StatusExecuting          == "EXECUTING"
StatusAwaitingCorrection == "AWAITING_CORRECTION"
StatusAwaitingApproval   == "AWAITING_APPROVAL"
StatusFailed             == "FAILED"
StatusCompleted          == "COMPLETED"
StatusRejected           == "REJECTED"

Statuses == {StatusPending, StatusExecuting, StatusAwaitingCorrection,
             StatusAwaitingApproval, StatusFailed, StatusCompleted,
             StatusRejected}

\* "idle": not started; "started": accepted by the server, Execute not yet
\* called; "next": at the head of Execute's loop; "parked": waiting for the
\* step's SignalEvent; "ready": signal received; "running": in future.Get;
\* "approving": waiting for the ApprovalSignal; "advance": the step is done;
\* "failing" and "finishing": about to leave Execute; "done": returned;
\* "panicked": in a workflow task that panics whenever it is tried.
PCs == {"idle", "started", "next", "parked", "ready", "running", "approving",
        "advance", "failing", "finishing", "done", "panicked"}

Errors == {"nil", "activity", "exhausted", "timeout", "correction", "rejected",
           "canceled", "upsert"}

ActivityExecutionInfo ==
    [ registered     : BOOLEAN,
      SignalEvent    : Signals \cup {NoSignal},
      options        : ActivityOptions,
      NextActivities : SUBSET Names,
      Resumable      : ResumableOptions ]

\* ResumableOptions{}; also what a nil Resumable pointer amounts to.
ZeroResumable ==
    [ CorrectionSignal |-> NoSignal, ApprovalSignal |-> NoSignal,
      MaxCorrectionAttempts |-> 0, StatusSearchAttribute |-> FALSE,
      WaitTimeout |-> FALSE ]

\* &ActivityExecutionInfo{}: the entry made for a next activity that is not
\* registered (yet); it has no function.
Placeholder ==
    [ registered |-> FALSE, SignalEvent |-> NoSignal, options |-> "nil",
      NextActivities |-> {}, Resumable |-> ZeroResumable ]

WithDefaults(o) ==
    [o EXCEPT !.CorrectionSignal = IF @ = NoSignal THEN DefaultCorrectionSignal ELSE @,
              !.MaxCorrectionAttempts = IF @ = 0 THEN DefaultMaxCorrectionAttempts ELSE @]

\* The options a gated step works with: the correction signal falls back to
\* the gate itself, then the defaults apply.
GateOptions(n) ==
    WithDefaults([activity[n].Resumable EXCEPT
                    !.CorrectionSignal = IF @ = NoSignal THEN activity[n].SignalEvent ELSE @])

Info(r)        == activity[currActivity[r]]
Opts(r)        == Info(r).Resumable
Gated(n)       == activity[n].SignalEvent # NoSignal
StatusSearchAttribute == \E n \in DOMAIN activity : activity[n].Resumable.StatusSearchAttribute

\* The SDK schedules an activity only with a timeout; a gated step gets the
\* default one (resumableActivityContext).
Runnable(n) == Gated(n) \/ activity[n].options # "nil"

\* The activity's outcome is certain to come: the server gives up retrying.
BoundedRetries(n) == Gated(n) \/ activity[n].options # "timeout"

Destinations(d) == IF d = NoData THEN {NoData} ELSE Names \cup {NoName}

\* The signal the run's current wait listens on.
GateSignal(r)     == Info(r).SignalEvent
ApprovalSignal(r) == Opts(r).ApprovalSignal
Pending(r, s)     == taken[r][s] < Len(sent[r][s])
Oldest(r, s)      == sent[r][s][taken[r][s] + 1]
\* Variant: the wait looks at the oldest signal and leaves it in the queue.
ReceivePeeks(r, s) == taken' = taken
Receive(r, s)      == taken' = [taken EXCEPT ![r][s] = @ + 1]

\* Variant: the attribute is upserted before the field is assigned.
SetExecutionStatusSwapped(r, s, indexed) ==
    /\ status' = s
    /\ attribute' = IF indexed THEN [attribute EXCEPT ![r] = status] ELSE attribute

SetExecutionStatus(r, s, indexed) ==
    /\ status' = s
    /\ attribute' = IF indexed THEN [attribute EXCEPT ![r] = s] ELSE attribute

Goto(r, p)      == pc' = [pc EXCEPT ![r] = p]
Return(r, e)    == Goto(r, "failing") /\ err' = [err EXCEPT ![r] = e]

-----------------------------------------------------------------------------
(* Setup: registration of the steps, before the worker starts              *)

Init ==
    /\ activity = [n \in {} |-> Placeholder]
    /\ firstActivity = NoName
    /\ status = ""
    /\ pc = [r \in Runs |-> "idle"]
    /\ currActivity = [r \in Runs |-> NoName]
    /\ data = [r \in Runs |-> NoData]
    /\ correctionCount = [r \in Runs |-> 0]
    /\ sent = [r \in Runs |-> [s \in Signals |-> <<>>]]
    /\ taken = [r \in Runs |-> [s \in Signals |-> 0]]
    /\ cancelled = [r \in Runs |-> FALSE]
    /\ attribute = [r \in Runs |-> ""]
    /\ err = [r \in Runs |-> "nil"]
    /\ path = [r \in Runs |-> <<>>]
    /\ spent = [r \in Runs |-> [s \in Signals |-> 0]]
    /\ executed = [r \in Runs |-> [i \in 1 .. MaxSteps |-> 0]]

Setup == \A r \in Runs : pc[r] = "idle"

NewInfo(t) ==
    [ registered |-> TRUE, SignalEvent |-> t.signalEvent, options |-> t.options,
      NextActivities |-> t.nextActivities,
      Resumable |-> IF t.signalEvent = NoSignal THEN ZeroResumable
                    ELSE WithDefaults([ZeroResumable EXCEPT !.CorrectionSignal = t.signalEvent]) ]

\* The worker panics on a second registration of a name.
AddTransitionActivityWithOptions(t) ==
    LET n == t.activityName IN
    /\ Setup
    /\ n \in DOMAIN activity => ~activity[n].registered
    /\ firstActivity' = IF DOMAIN activity = {} THEN n ELSE firstActivity
    /\ activity' = [m \in DOMAIN activity \cup {n} \cup t.nextActivities |->
                      IF m = n THEN NewInfo(t)
                      ELSE IF m \in DOMAIN activity THEN activity[m] ELSE Placeholder]
    /\ UNCHANGED <<status, control, queues, cancelled, attribute>>

\* activity[name].Resumable is assigned to after the registration.
Tune(n, o) ==
    /\ Setup
    /\ n \in DOMAIN activity /\ Gated(n)
    /\ activity' = [activity EXCEPT ![n].Resumable = o]
    /\ UNCHANGED <<firstActivity, status, control, queues, cancelled, attribute>>

-----------------------------------------------------------------------------
(* The operators: start, signal, cancel                                    *)

StartWorkflow(r, d) ==
    /\ pc[r] = "idle"
    /\ Goto(r, "started")
    /\ data' = [data EXCEPT ![r] = d]
    /\ UNCHANGED <<shared, currActivity, correctionCount, err, path, queues,
                   cancelled, attribute>>

Open(r) == pc[r] \notin {"idle", "done"}

SentSignals(r) == MapThenSumSet(LAMBDA s : Len(sent[r][s]), Signals)

SignalWorkflow(r, s, p) ==
    /\ Open(r)
    /\ SentSignals(r) < MaxSignals
    /\ sent' = [sent EXCEPT ![r][s] = Append(@, p)]
    /\ UNCHANGED <<shared, control, taken, spent, executed, cancelled, attribute>>

CancelWorkflow(r) ==
    /\ Open(r) /\ ~cancelled[r]
    /\ cancelled' = [cancelled EXCEPT ![r] = TRUE]
    /\ UNCHANGED <<shared, control, queues, attribute>>

-----------------------------------------------------------------------------
(* Execute: the start, and the head of the loop                            *)

\* Everything up to the loop: StatusPending is set and the query registered.
Execute(r) ==
    /\ pc[r] = "started"
    /\ SetExecutionStatus(r, StatusPending, StatusSearchAttribute)
    /\ currActivity' = [currActivity EXCEPT ![r] = firstActivity]
    /\ Goto(r, "next")
    /\ UNCHANGED <<activity, firstActivity, data, correctionCount, err, path,
                   queues, cancelled>>

\* The upsert of the search attribute is refused; Execute returns at once.
ExecuteRefused(r) ==
    /\ pc[r] = "started" /\ StatusSearchAttribute
    /\ status' = StatusPending
    /\ Goto(r, "done")
    /\ err' = [err EXCEPT ![r] = "upsert"]
    /\ UNCHANGED <<activity, firstActivity, currActivity, data, correctionCount,
                   path, queues, cancelled, attribute>>

Enter(r) ==
    /\ pc[r] = "next" /\ currActivity[r] # NoName
    /\ Len(path[r]) < MaxSteps
    /\ path' = [path EXCEPT ![r] = Append(@, currActivity[r])]
    /\ UNCHANGED <<firstActivity, currActivity, data, err, queues, cancelled>>

\* runActivity of a step without a SignalEvent: schedule it, wait for it.
EnterFailFast(r) ==
    /\ Enter(r)
    /\ ~Gated(currActivity[r]) /\ Info(r).registered
    /\ Goto(r, "running")
    /\ UNCHANGED <<activity, status, attribute, correctionCount>>

\* ExecuteActivity panics on the nil function of a step nobody registered.
\* Every later attempt at the task comes back to this point: signals and a
\* cancellation that arrive meanwhile are looked at after it.  The upserts of
\* a task that panics do not reach the server; the attribute of such a run
\* is the one the worker would have written.
EnterPlaceholder(r) ==
    /\ Enter(r)
    /\ ~Gated(currActivity[r]) /\ ~Info(r).registered
    /\ Goto(r, "panicked")
    /\ UNCHANGED <<activity, status, attribute, correctionCount>>

\* runResumableActivity: the options get their defaults, the run parks.
EnterResumable(r) ==
    /\ Enter(r)
    /\ Gated(currActivity[r])
    /\ activity' = [activity EXCEPT ![currActivity[r]].Resumable = GateOptions(currActivity[r])]
    /\ correctionCount' = [correctionCount EXCEPT ![r] = 0]
    /\ SetExecutionStatus(r, StatusAwaitingCorrection, Opts(r).StatusSearchAttribute)
    /\ Goto(r, "parked")

\* The loop ends on a nil currActivity.
LeaveLoop(r) ==
    /\ pc[r] = "next" /\ currActivity[r] = NoName
    /\ Goto(r, "finishing")
    /\ UNCHANGED <<shared, currActivity, data, correctionCount, err, path, queues,
                   cancelled, attribute>>

-----------------------------------------------------------------------------
(* A gated step: wait for the signal, apply its payload, execute           *)

\* waitForSignalPayload returns; a payload other than null goes through
\* ExecutionData.Unmarshal, which may change the Activity field.
ReceiveSignal(r) ==
    /\ pc[r] = "parked" /\ Pending(r, GateSignal(r))
    /\ Receive(r, GateSignal(r))
    /\ IF Oldest(r, GateSignal(r)) = "null"
       THEN data' = data
       ELSE /\ data[r] # NoData
            /\ \E d \in Destinations(data[r]) : data' = [data EXCEPT ![r] = d]
    /\ Goto(r, "ready")
    /\ UNCHANGED <<shared, currActivity, correctionCount, err, path, sent, spent,
                   executed, cancelled, attribute>>

\* applyCorrection fails: no execution data, or Unmarshal refuses.
CorrectionRefused(r) ==
    /\ pc[r] = "parked" /\ Pending(r, GateSignal(r))
    /\ Receive(r, GateSignal(r))
    /\ Oldest(r, GateSignal(r)) # "null"
    /\ Return(r, "correction")
    /\ UNCHANGED <<shared, currActivity, data, correctionCount, path, sent, spent,
                   executed, cancelled, attribute>>

\* The wait ends without a signal: its timer fired or the run is cancelled.
WaitFails(r, e) ==
    /\ pc[r] = "parked" /\ ~Pending(r, GateSignal(r))
    /\ SetExecutionStatus(r, StatusFailed, Opts(r).StatusSearchAttribute)
    /\ Return(r, e)
    /\ UNCHANGED <<activity, firstActivity, currActivity, data, correctionCount,
                   path, queues, cancelled>>

\* Variants: Await without the timer, and without the context.
WaitWithoutTimer(r)   == FALSE /\ WaitFails(r, "timeout")
WaitWithoutContext(r) == FALSE /\ WaitFails(r, "canceled")

WaitTimeout(r)  == WaitFails(r, "timeout") /\ Opts(r).WaitTimeout /\ ~cancelled[r]
WaitCanceled(r) == WaitFails(r, "canceled") /\ cancelled[r]

StartResumable(r) ==
    /\ pc[r] = "ready"
    /\ SetExecutionStatus(r, StatusExecuting, Opts(r).StatusSearchAttribute)
    /\ spent' = [spent EXCEPT ![r][GateSignal(r)] = @ + 1]
    /\ executed' = [executed EXCEPT ![r][Len(path[r])] = @ + 1]
    /\ Goto(r, "running")
    /\ UNCHANGED <<activity, firstActivity, currActivity, data, correctionCount,
                   err, path, sent, taken, cancelled>>

-----------------------------------------------------------------------------
(* The activity's outcome                                                  *)

\* future.Get decodes the result into executionData; applyBranch changes
\* nothing.  A gated step with an ApprovalSignal goes on to waitForApproval.
ActivitySucceeds(r) ==
    LET n == currActivity[r] IN
    /\ pc[r] = "running" /\ Runnable(n) /\ ~cancelled[r]
    /\ \E d \in Destinations(data[r]) : data' = [data EXCEPT ![r] = d]
    /\ IF Gated(n) /\ ApprovalSignal(r) # NoSignal
       THEN /\ SetExecutionStatus(r, StatusAwaitingApproval, Opts(r).StatusSearchAttribute)
            /\ Goto(r, "approving")
       ELSE /\ Goto(r, "advance")
            /\ UNCHANGED <<status, attribute>>
    /\ UNCHANGED <<activity, firstActivity, currActivity, correctionCount, err,
                   path, queues, cancelled>>

FailFastFails(r) ==
    /\ pc[r] = "running" /\ ~Gated(currActivity[r])
    /\ Return(r, "activity")
    /\ UNCHANGED <<shared, currActivity, data, correctionCount, path, queues,
                   cancelled, attribute>>

\* Variant: the comparison before the increment.
ExhaustedLate(r) == correctionCount[r] > Opts(r).MaxCorrectionAttempts

\* correctionCount > opts.MaxCorrectionAttempts, after the increment.
Exhausted(r) == correctionCount[r] + 1 > Opts(r).MaxCorrectionAttempts

ResumableFails(r) ==
    /\ pc[r] = "running" /\ Gated(currActivity[r])
    /\ correctionCount' = [correctionCount EXCEPT ![r] = @ + 1]
    /\ IF Exhausted(r)
       THEN /\ SetExecutionStatus(r, StatusFailed, Opts(r).StatusSearchAttribute)
            /\ Return(r, "exhausted")
       ELSE /\ SetExecutionStatus(r, StatusAwaitingCorrection, Opts(r).StatusSearchAttribute)
            /\ Goto(r, "parked")
            /\ err' = err
    /\ UNCHANGED <<activity, firstActivity, currActivity, data, path, queues, cancelled>>

-----------------------------------------------------------------------------
(* waitForApproval                                                         *)

\* A payload that is not a Boolean is dropped by the channel; null decodes to
\* false.
Corrupt(p) == p = "object"
\* Variant: approved unless the answer is false.
ApprovesByDefault(p) == p # "false"
Approves(p) == p = "true"

CorruptApproval(r) ==
    /\ pc[r] = "approving" /\ Pending(r, ApprovalSignal(r))
    /\ Corrupt(Oldest(r, ApprovalSignal(r)))
    /\ Receive(r, ApprovalSignal(r))
    /\ UNCHANGED <<shared, control, sent, spent, executed, cancelled, attribute>>

Approve(r) ==
    /\ pc[r] = "approving" /\ Pending(r, ApprovalSignal(r))
    /\ ~Corrupt(Oldest(r, ApprovalSignal(r))) /\ Approves(Oldest(r, ApprovalSignal(r)))
    /\ Receive(r, ApprovalSignal(r))
    /\ spent' = [spent EXCEPT ![r][ApprovalSignal(r)] = @ + 1]
    /\ Goto(r, "advance")
    /\ UNCHANGED <<shared, currActivity, data, correctionCount, err, path, sent,
                   executed, cancelled, attribute>>

Reject(r) ==
    /\ pc[r] = "approving" /\ Pending(r, ApprovalSignal(r))
    /\ ~Corrupt(Oldest(r, ApprovalSignal(r))) /\ ~Approves(Oldest(r, ApprovalSignal(r)))
    /\ Receive(r, ApprovalSignal(r))
    /\ SetExecutionStatus(r, StatusRejected, Opts(r).StatusSearchAttribute)
    /\ Return(r, "rejected")
    /\ UNCHANGED <<activity, firstActivity, currActivity, data, correctionCount,
                   path, sent, spent, executed, cancelled>>

ApprovalTimeout(r) ==
    /\ pc[r] = "approving" /\ ~Pending(r, ApprovalSignal(r))
    /\ Opts(r).WaitTimeout /\ ~cancelled[r]
    /\ SetExecutionStatus(r, StatusFailed, Opts(r).StatusSearchAttribute)
    /\ Return(r, "timeout")
    /\ UNCHANGED <<activity, firstActivity, currActivity, data, correctionCount,
                   path, queues, cancelled>>

\* The cancellation is returned without a change of status.
ApprovalCanceled(r) ==
    /\ pc[r] = "approving" /\ ~Pending(r, ApprovalSignal(r)) /\ cancelled[r]
    /\ Return(r, "canceled")
    /\ UNCHANGED <<shared, currActivity, data, correctionCount, path, queues,
                   cancelled, attribute>>

-----------------------------------------------------------------------------
(* The end of the loop body, and the two ways out of Execute               *)

\* Variant: the target is looked up without the list of the current step.
GetAnyActivity(n, next)  == next
GetNextActivity(n, next) == IF next \in activity[n].NextActivities THEN next ELSE NoName

\* NextActivities is nil exactly when no next activity was registered.
Ends(r) == Info(r).NextActivities = {} \/ data[r] \in {NoData, NoName}

Advance(r) ==
    /\ pc[r] = "advance"
    /\ IF Ends(r)
       THEN Goto(r, "finishing") /\ UNCHANGED currActivity
       ELSE /\ Goto(r, "next")
            /\ currActivity' = [currActivity EXCEPT ![r] = GetNextActivity(@, data[r])]
    /\ UNCHANGED <<shared, data, correctionCount, err, path, queues, cancelled, attribute>>

\* Variants: the exits know only of failures, or overwrite whatever is there.
SettledFailed == status = StatusFailed
SettledNever  == FALSE
Settled == status \in {StatusFailed, StatusRejected}

\* The status an exit of Execute leaves: a failure or rejection stays.
Exit(r, s) ==
    /\ IF Settled THEN UNCHANGED <<status, attribute>>
                  ELSE SetExecutionStatus(r, s, StatusSearchAttribute)
    /\ Goto(r, "done")
    /\ UNCHANGED <<activity, firstActivity, currActivity, data, correctionCount,
                   err, path, queues, cancelled>>

FailExit(r)     == pc[r] = "failing" /\ Exit(r, StatusFailed)
CompleteExit(r) == pc[r] = "finishing" /\ Exit(r, StatusCompleted)

-----------------------------------------------------------------------------
Configure == \/ \E t \in Transitions : AddTransitionActivityWithOptions(t)
             \/ \E n \in Names, o \in Tunings : Tune(n, o)

Operate(r) == \/ \E d \in Names \cup {NoName, NoData} : StartWorkflow(r, d)
              \/ \E s \in Signals, p \in Payloads : SignalWorkflow(r, s, p)
              \/ CancelWorkflow(r)

\* What the run's own goroutine, its timers and a received signal do.
Step(r) == \/ Execute(r) \/ ExecuteRefused(r)
           \/ EnterFailFast(r) \/ EnterPlaceholder(r) \/ EnterResumable(r) \/ LeaveLoop(r)
           \/ ReceiveSignal(r) \/ CorrectionRefused(r)
           \/ WaitTimeout(r) \/ WaitCanceled(r) \/ StartResumable(r)
           \/ CorruptApproval(r) \/ Approve(r) \/ Reject(r)
           \/ ApprovalTimeout(r) \/ ApprovalCanceled(r)
           \/ Advance(r) \/ FailExit(r) \/ CompleteExit(r)

Outcome(r) == ActivitySucceeds(r) \/ FailFastFails(r) \/ ResumableFails(r)

Next == Configure \/ \E r \in Runs : Operate(r) \/ Step(r) \/ Outcome(r)

Spec == Init /\ [][Next]_vars

\* The worker polls and the server fires timers, so a step of the code that
\* stays possible is taken; an activity reports when its retries are bounded
\* or its context is cancelled.  Nobody is obliged to signal or to cancel.
CertainOutcome(r) ==
    /\ Outcome(r)
    /\ BoundedRetries(currActivity[r]) \/ cancelled[r]

Fairness == \A r \in Runs : WF_vars(Step(r)) /\ WF_vars(CertainOutcome(r))

FairSpec == Spec /\ Fairness

-----------------------------------------------------------------------------
(* Invariants                                                              *)

\* Every variable stays in its type; in particular no run is ever at, or has
\* been at, a step that is not in w.activity.
TypeOK ==
    /\ DOMAIN activity \subseteq Names
    /\ activity \in [DOMAIN activity -> ActivityExecutionInfo]
    /\ firstActivity \in DOMAIN activity \cup {NoName}
    /\ status \in Statuses \cup {""}
    /\ pc \in [Runs -> PCs]
    /\ currActivity \in [Runs -> DOMAIN activity \cup {NoName}]
    /\ data \in [Runs -> Names \cup {NoName, NoData}]
    /\ correctionCount \in [Runs -> Nat]
    /\ sent \in [Runs -> [Signals -> Seq(Payloads)]]
    /\ taken \in [Runs -> [Signals -> Nat]]
    /\ cancelled \in [Runs -> BOOLEAN]
    /\ attribute \in [Runs -> Statuses \cup {""}]
    /\ err \in [Runs -> Errors]
    /\ path \in [Runs -> Seq(DOMAIN activity)]
    /\ spent \in [Runs -> [Signals -> Nat]]
    /\ executed \in [Runs -> [1 .. MaxSteps -> Nat]]

\* A run enters the first registered step first and then only steps that the
\* step before lists in its nextActivities, whatever name activities,
\* corrections and the caller put in the Activity field (getNextActivity).
PathFollowsTransitions ==
    \A r \in Runs :
        /\ path[r] # <<>> => path[r][1] = firstActivity
        /\ \A i \in 1 .. Len(path[r]) - 1 :
               path[r][i + 1] \in activity[path[r][i]].NextActivities

ApprovalSignals == {activity[n].Resumable.ApprovalSignal : n \in DOMAIN activity}

Unspent(r, s) ==
    IF /\ pc[r] = "ready" \/ err[r] = "correction"
       /\ GateSignal(r) = s
    THEN 1 ELSE 0

\* A signal buys one thing: gated executions and granted approvals never
\* outnumber the signals received, and a signal received by a gate leads to
\* exactly one execution, unless it is the one whose payload ended the run.
\* Holds through retries, early and surplus signals, and steps sharing a name.
EverySignalBuysOneRun ==
    \A r \in Runs, s \in Signals :
        /\ spent[r][s] <= taken[r][s] /\ taken[r][s] <= Len(sent[r][s])
        /\ s \notin ApprovalSignals => taken[r][s] = spent[r][s] + Unspent(r, s)

\* The correction budget is exact.  Whatever the failures, each visit to a
\* gated step, also a second one on a cycle, is executed at most
\* MaxCorrectionAttempts + 1 times; a run parks only when it has an execution
\* left, and gives up only after the last one: the counter starts anew for
\* every visit and never during one (runResumableActivity).
ExecutionBudget ==
    \A r \in Runs :
        LET executions == executed[r][Len(path[r])]
            attempts   == Opts(r).MaxCorrectionAttempts
        IN  /\ \A i \in DOMAIN path[r] :
                  executed[r][i] <= activity[path[r][i]].Resumable.MaxCorrectionAttempts + 1
            /\ pc[r] \in {"parked", "ready"} => executions <= attempts
            /\ err[r] = "exhausted" => executions = attempts + 1

\* Steps of r's path that are over and asked for an approval on signal s.
Approved(r, s) ==
    {i \in DOMAIN path[r] :
        /\ activity[path[r][i]].Resumable.ApprovalSignal = s
        /\ i < Len(path[r]) \/ pc[r] = "advance"
                            \/ (pc[r] \in {"next", "finishing", "done"} /\ err[r] = "nil")}

\* No step that asks for an approval is left behind without a "true" of its
\* own: a repeated, corrupt, null or false answer passes no step, and one
\* answer does not pass two.
ApprovalsGranted ==
    \A r \in Runs, s \in Signals :
        Cardinality(Approved(r, s)) <=
            Cardinality({i \in 1 .. taken[r][s] : sent[r][s][i] = "true"})

\* What a status s says of run r is true: what the run waits for while it
\* waits, and how it ended.
TrueOf(r, s) ==
    /\ pc[r] = "parked" => s = StatusAwaitingCorrection
    /\ pc[r] = "running" /\ Gated(currActivity[r]) => s = StatusExecuting
    /\ pc[r] = "approving" => s = StatusAwaitingApproval
    /\ pc[r] = "done" => s = CASE err[r] = "nil"      -> StatusCompleted
                               [] err[r] = "rejected" -> StatusRejected
                               [] err[r] = "upsert"   -> StatusPending
                               [] OTHER               -> StatusFailed

\* With one run on the worker, GetWorkflowStatus and the outcome tell the same
\* story, at every wait and after every way out of Execute.
StatusReport == \A r \in Runs : TrueOf(r, status)

\* Every gated step asks for the search attribute.
UniformIndex == \A n \in DOMAIN activity : Gated(n) => activity[n].Resumable.StatusSearchAttribute

-----------------------------------------------------------------------------
(* Liveness properties                                                     *)

\* Where a run may stay without end: waiting for an operator or for an
\* activity whose RetryPolicy has no limit, or at a step nobody registered.
Resting(r) ==
    \/ pc[r] \in {"idle", "done", "panicked"}
    \/ /\ pc[r] = "parked" /\ ~Pending(r, GateSignal(r))
       /\ ~Opts(r).WaitTimeout /\ ~cancelled[r]
    \/ /\ pc[r] = "approving" /\ ~Pending(r, ApprovalSignal(r))
       /\ ~Opts(r).WaitTimeout /\ ~cancelled[r]
    \/ /\ pc[r] = "running" /\ ~cancelled[r]
       /\ ~BoundedRetries(currActivity[r])

\* On an acyclic graph a run ends or comes to rest at one of these places: no
\* signal stays unread at a gate, no timed wait lasts, no exit is skipped.
Settles == \A r \in Runs : <>[]Resting(r)

\* A cancelled run returns, however many signals are still buffered for it,
\* unless it went to a step nobody registered: that run no cancellation ends.
CancelReturns == \A r \in Runs : cancelled[r] ~> pc[r] \in {"done", "panicked"}

-----------------------------------------------------------------------------
(* The pipeline implements the status machine                              *)

Lifecycle == INSTANCE ExecutionStatus WITH closed <- \A r \in Runs : pc[r] = "done"

\* With one run on the worker, every step of registration, the pipeline, its
\* activities and its operators is a step of the status machine or leaves the
\* status alone.
ImplementsExecutionStatus == Lifecycle!Spec
=============================================================================
