---------------------------- MODULE WorkflowData ----------------------------
(***************************************************************************)
(* The execution data of a workflow and its readers (temporal/public.go).  *)
(* Workflow code calls WorkflowInit and then ExecuteWorkflow with the data *)
(* it returned; other processes read that data with QueryWorkflowData.     *)
(* All runs of a worker share one WorkflowExecution, so they share its     *)
(* WorkflowID and ExecutionData fields.                                    *)
(*                                                                         *)
(* A run's data object is named after the run that created it and is       *)
(* abstracted to a version, the number of activities that changed it.      *)
(***************************************************************************)
EXTENDS Naturals

CONSTANTS
    Runs,       \* workflow executions, named by their workflow ID
    NoRun,      \* an empty WorkflowID, a nil ExecutionData
    Clients,    \* callers of QueryWorkflowData
    ReadyAt,    \* the version from which the ready callback accepts the data
    MaxVersion  \* bound: activities of one run

ASSUME NoRunAssumption   == NoRun \notin Runs
ASSUME VersionAssumption == MaxVersion \in Nat /\ ReadyAt \in 0 .. MaxVersion

VARIABLES
    WorkflowID,     \* w.WorkflowID
    ExecutionData,  \* w.ExecutionData, as the run whose object it points to
    version,        \* the version of each run's object
    at,             \* each run: idle, stored, registered, executing, closed
    own,            \* the object each run was handed by WorkflowInit
    seen,           \* the workflow ID each run was told by GetWorkflowData
    later,          \* history: the runs that stored their data after each run
    client,         \* each caller: idle, loop, waiting, returned
    call,           \* its arguments: target run, deadline or not, dest or nil
    ctxDone,        \* its context is done
    ret             \* what it returned

workflow == <<WorkflowID, ExecutionData, version, at, own, seen, later>>
reader   == <<client, call, ctxDone, ret>>
dataVars == <<workflow, reader>>

\* A caller's result: the data, or the error that ended the call.
Results == [kind : {"none", "data", "context", "query", "decode"},
            run : Runs \cup {NoRun}, version : 0 .. MaxVersion]
Error(k) == [kind |-> k, run |-> NoRun, version |-> 0]

Call == [run : Runs, bounded : BOOLEAN, dest : BOOLEAN]

DataInit ==
    /\ WorkflowID = NoRun /\ ExecutionData = NoRun
    /\ version = [r \in Runs |-> 0]
    /\ at = [r \in Runs |-> "idle"]
    /\ own = [r \in Runs |-> NoRun]
    /\ seen = [r \in Runs |-> NoRun]
    /\ later = [r \in Runs |-> {}]
    /\ client = [c \in Clients |-> "idle"]
    /\ call \in [Clients -> Call]
    /\ ctxDone = [c \in Clients |-> FALSE]
    /\ ret = [c \in Clients |-> Error("none")]

-----------------------------------------------------------------------------
(* The workflow's side                                                     *)

\* Variant: the data is stored like the ID, when there is none yet.
StoredOnce(r) == IF ExecutionData = NoRun THEN r ELSE ExecutionData

\* What SetExecutionData leaves in the field.
Stored(r) == r

\* WorkflowInit up to SetExecutionData and SetWorkflowID.
StoreData(r) ==
    /\ at[r] = "idle"
    /\ ExecutionData' = Stored(r)
    /\ WorkflowID' = IF WorkflowID = NoRun THEN r ELSE WorkflowID
    /\ at' = [at EXCEPT ![r] = "stored"]
    /\ later' = [q \in Runs |-> IF at[q] = "idle" THEN later[q] ELSE later[q] \cup {r}]
    /\ UNCHANGED <<version, own, seen, reader>>

\* Its query handler is registered.
RegisterQuery(r) ==
    /\ at[r] = "stored"
    /\ at' = [at EXCEPT ![r] = "registered"]
    /\ UNCHANGED <<WorkflowID, ExecutionData, version, own, seen, later, reader>>

\* It returns wf.GetExecutionData(), read from the shared field.
ReturnData(r) ==
    /\ at[r] = "registered"
    /\ own' = [own EXCEPT ![r] = ExecutionData]
    /\ at' = [at EXCEPT ![r] = "executing"]
    /\ UNCHANGED <<WorkflowID, ExecutionData, version, seen, later, reader>>

\* An activity of ExecuteWorkflow changes the data.
RunActivity(r) ==
    /\ at[r] = "executing" /\ version[own[r]] < MaxVersion
    /\ version' = [version EXCEPT ![own[r]] = @ + 1]
    /\ UNCHANGED <<WorkflowID, ExecutionData, at, own, seen, later, reader>>

\* GetWorkflowData fills an empty ID and returns a copy of the shared value.
GetWorkflowData(r) ==
    /\ at[r] # "closed"
    /\ WorkflowID' = IF WorkflowID = NoRun THEN r ELSE WorkflowID
    /\ seen' = [seen EXCEPT ![r] = WorkflowID']
    /\ UNCHANGED <<ExecutionData, version, at, own, later, reader>>

\* ExecuteWorkflow returns and the run closes; it still answers queries.
CloseRun(r) ==
    /\ at[r] = "executing"
    /\ at' = [at EXCEPT ![r] = "closed"]
    /\ UNCHANGED <<WorkflowID, ExecutionData, version, own, seen, later, reader>>

-----------------------------------------------------------------------------
(* QueryWorkflowData                                                       *)

Target(c) == call[c].run

QueryWorkflowData(c) ==
    /\ client[c] = "idle"
    /\ client' = [client EXCEPT ![c] = "loop"]
    /\ UNCHANGED <<workflow, call, ctxDone, ret>>

Answer(c, x) ==
    /\ client' = [client EXCEPT ![c] = "returned"]
    /\ ret' = [ret EXCEPT ![c] = x]

\* The caller cancels, or its deadline passes.
ContextDone(c) ==
    /\ client[c] \in {"loop", "waiting"} /\ ~ctxDone[c]
    /\ ctxDone' = [ctxDone EXCEPT ![c] = TRUE]
    /\ UNCHANGED <<workflow, client, call, ret>>

\* ctx.Err() at the head of the loop.
LoopContext(c) ==
    /\ client[c] = "loop" /\ ctxDone[c]
    /\ Answer(c, Error("context"))
    /\ UNCHANGED <<workflow, call, ctxDone>>

\* The handler of the target run answers, from the shared field.
HandlerAnswers(r) == /\ at[r] \in {"registered", "executing", "closed"}
                     /\ ExecutionData # NoRun
                     /\ version[ExecutionData] >= ReadyAt

QuerySucceeds(c) ==
    /\ client[c] = "loop" /\ ~ctxDone[c]
    /\ HandlerAnswers(Target(c))
    /\ \/ /\ call[c].dest
          /\ Answer(c, [kind |-> "data", run |-> ExecutionData, version |-> version[ExecutionData]])
       \/ Answer(c, Error("decode"))     \* no dest, or Unmarshal refuses
    /\ UNCHANGED <<workflow, call, ctxDone>>

\* Variant: the error is returned without a look at the deadline.
AfterErrorAtOnce(c) == Answer(c, Error("query"))

\* Variant: a caller without a deadline retries too.
AfterErrorAlways(c) == client' = [client EXCEPT ![c] = "waiting"] /\ ret' = ret

\* With no deadline the first error is final; else sleep a second.
AfterError(c) ==
    IF call[c].bounded
    THEN client' = [client EXCEPT ![c] = "waiting"] /\ ret' = ret
    ELSE Answer(c, Error("query"))

\* No handler yet, ready refuses the data, or the call itself fails.
QueryFails(c) ==
    /\ client[c] = "loop" /\ ~ctxDone[c]
    /\ AfterError(c)
    /\ UNCHANGED <<workflow, call, ctxDone>>

\* The select of the two channels; when both are ready either may win.
TimerFires(c) ==
    /\ client[c] = "waiting"
    /\ client' = [client EXCEPT ![c] = "loop"]
    /\ UNCHANGED <<workflow, call, ctxDone, ret>>

WaitContext(c) ==
    /\ client[c] = "waiting" /\ ctxDone[c]
    /\ Answer(c, Error("context"))
    /\ UNCHANGED <<workflow, call, ctxDone>>

-----------------------------------------------------------------------------
Workflow(r) == \/ StoreData(r) \/ RegisterQuery(r) \/ ReturnData(r)
               \/ GetWorkflowData(r) \/ RunActivity(r) \/ CloseRun(r)

Read(c) == \/ LoopContext(c) \/ QuerySucceeds(c) \/ QueryFails(c)
           \/ TimerFires(c) \/ WaitContext(c)

DataNext == \/ \E r \in Runs : Workflow(r)
            \/ \E c \in Clients : QueryWorkflowData(c) \/ ContextDone(c) \/ Read(c)

DataSpec == DataInit /\ [][DataNext]_dataVars

\* A started call goes on, and a deadline passes.
DataFairness == \A c \in Clients : /\ WF_dataVars(Read(c))
                                   /\ WF_dataVars(call[c].bounded /\ ContextDone(c))

FairDataSpec == DataSpec /\ DataFairness

-----------------------------------------------------------------------------
\* Every variable stays in its type.
DataTypeOK ==
    /\ WorkflowID \in Runs \cup {NoRun} /\ ExecutionData \in Runs \cup {NoRun}
    /\ version \in [Runs -> 0 .. MaxVersion]
    /\ at \in [Runs -> {"idle", "stored", "registered", "executing", "closed"}]
    /\ own \in [Runs -> Runs \cup {NoRun}] /\ seen \in [Runs -> Runs \cup {NoRun}]
    /\ \A r \in Runs : at[r] = "executing" => own[r] # NoRun
    /\ later \in [Runs -> SUBSET Runs]
    /\ client \in [Clients -> {"idle", "loop", "waiting", "returned"}]
    /\ call \in [Clients -> Call]
    /\ ctxDone \in [Clients -> BOOLEAN]
    /\ ret \in [Clients -> Results]

\* WorkflowInit "records the workflow ID" and hands back the data it was
\* given: a run executes on its own data and learns its own ID.  With several
\* runs on one worker the code does not keep this.
OwnIdentity ==
    \A r \in Runs : own[r] \in {NoRun, r} /\ seen[r] \in {NoRun, r}

\* How far the sharing goes: WorkflowInit hands a run, and its query hands a
\* caller, the run's own data or that of a run that called WorkflowInit after
\* it; never data an earlier run left in the shared field.  So what a run and
\* its readers see is its own as long as no other run starts on the worker.
NoEarlierData ==
    /\ \A r \in Runs : own[r] # NoRun => own[r] \in {r} \cup later[r]
    /\ \A c \in Clients : ret[c].kind = "data" =>
           ret[c].run \in {Target(c)} \cup later[Target(c)]

\* With a deadline a caller outlasts every failing query: it gives up only
\* because its context is done or the payload it did get cannot be decoded.
RetriesUntilDeadline ==
    \A c \in Clients : client[c] = "returned" /\ call[c].bounded =>
        /\ ret[c].kind \in {"data", "context", "decode"}
        /\ ret[c].kind = "context" => ctxDone[c]

\* Every call returns, also when the handler is never registered or never
\* ready: without a deadline after one query, with one when it has passed.
QueryReturns == \A c \in Clients : client[c] = "loop" ~> client[c] = "returned"
=============================================================================
