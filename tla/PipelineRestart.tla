-------------------------- MODULE PipelineRestart --------------------------
(***************************************************************************)
(* The pipeline on a worker that may be restarted.  A worker process loses *)
(* its WorkflowExecution, with the Status field, and the goroutines of its *)
(* runs; the server keeps the histories, the buffered signals and the      *)
(* search attributes.  The next task or query of a run makes the worker    *)
(* execute the run again from its history, and Execute writes Status anew  *)
(* on its way to where the run was (temporal/workflow.go, Execute).  A run *)
(* also leaves the memory of the worker when it closes or is evicted.      *)
(*                                                                         *)
(* A restart in the middle of a workflow task undoes the task, which the   *)
(* server then hands out again: the worker is lost here only between       *)
(* tasks.  The setup of the new process registers the same steps; what     *)
(* Execute adds to them (the defaults of a gate) it adds again on replay.  *)
(*                                                                         *)
(* The properties are those of a single run: with several, what a replay   *)
(* writes is shared by all of them, as Status is without restarts.         *)
(***************************************************************************)
EXTENDS Pipeline

CONSTANT MaxLosses   \* bound: restarts and evictions

ASSUME LossesAssumption == MaxLosses \in Nat

VARIABLES
    cached,     \* the runs whose goroutine is in the worker's memory
    written,    \* the status each run's Execute wrote last
    losses      \* restarts and evictions so far

restartVars == <<vars, cached, written, losses>>

RestartInit ==
    /\ Init
    /\ cached = {} /\ losses = 0
    /\ written = [r \in Runs |-> ""]

\* No workflow task of r is under way.
BetweenTasks(r) == pc[r] \in {"idle", "started", "parked", "running", "approving", "done"}

\* The worker runs r up to a blocking point: the first task brings r into its
\* memory, its return or panic takes it out.
Progress(r) ==
    /\ pc[r] = "started" \/ r \in cached
    /\ Step(r) \/ Outcome(r)
    /\ cached' = IF pc'[r] \in {"done", "panicked"} THEN cached \ {r} ELSE cached \cup {r}
    /\ written' = [written EXCEPT ![r] = IF status' # status THEN status' ELSE @]
    /\ losses' = losses

Around == Configure \/ \E r \in Runs : Operate(r)

\* A new process: NewWorkflowExecution, the same setup, Start.
Restart ==
    /\ losses < MaxLosses /\ \A r \in cached : BetweenTasks(r)
    /\ cached' = {} /\ status' = "" /\ losses' = losses + 1
    /\ UNCHANGED <<activity, firstActivity, control, queues, cancelled, attribute, written>>

Evict(r) ==
    /\ losses < MaxLosses /\ r \in cached /\ BetweenTasks(r)
    /\ cached' = cached \ {r} /\ losses' = losses + 1
    /\ UNCHANGED <<vars, written>>

\* Variant: the field is left alone while the SDK replays.
ReplayQuietly(r) == status' = status
ReplayStatus(r)  == status' = written[r]

\* Variant: Execute upserts by a client call, which a replay repeats.
ReplayUpserts(r) ==
    /\ r \notin cached /\ pc[r] \notin {"idle", "started"}
    /\ ReplayStatus(r)
    /\ attribute' = [attribute EXCEPT ![r] = IF StatusSearchAttribute THEN StatusPending ELSE @]
    /\ cached' = cached \cup {r}
    /\ UNCHANGED <<activity, firstActivity, control, queues, cancelled, written, losses>>

\* A task, an activity's outcome or a query brings r back; the next attempt at
\* a task that panics does not.  The commands of a replay are matched with the
\* history, so the server sees no new upsert.
Replay(r) ==
    /\ r \notin cached /\ pc[r] \notin {"idle", "started"}
    /\ ReplayStatus(r)
    /\ cached' = IF pc[r] = "panicked" THEN cached ELSE cached \cup {r}
    /\ UNCHANGED <<activity, firstActivity, control, queues, cancelled, attribute, written, losses>>

RestartNext ==
    \/ Around /\ UNCHANGED <<cached, written, losses>>
    \/ Restart
    \/ \E r \in Runs : Progress(r) \/ Evict(r) \/ Replay(r)

\* The fairness of Pipeline, and replays: losses are finitely many.
CertainProgress(r) ==
    /\ Progress(r)
    /\ pc[r] = "running" => BoundedRetries(currActivity[r]) \/ cancelled[r]

RestartSpec ==
    /\ RestartInit /\ [][RestartNext]_restartVars
    /\ \A r \in Runs : WF_restartVars(CertainProgress(r)) /\ WF_restartVars(Replay(r))

-----------------------------------------------------------------------------
\* With one run, whoever asks for its status is told the truth, restarts and
\* evictions included: a query finds the run in memory or replays it first.
StatusOutlivesWorker == \A r \in cached : BetweenTasks(r) => TrueOf(r, status)

\* Between tasks the status search attribute is true of the run, whether a
\* worker has it in memory or not.
AttributeOutlivesWorker ==
    UniformIndex /\ StatusSearchAttribute =>
        \A r \in Runs :
            BetweenTasks(r) /\ pc[r] \notin {"idle", "started"} /\ err[r] # "upsert" =>
                TrueOf(r, attribute[r]) /\ attribute[r] = written[r]

-----------------------------------------------------------------------------
(* A worker that restarts implements one that does not                     *)

\* The status of the run, whoever has it in memory.
TheRun == CHOOSE r \in Runs : TRUE
Undisturbed == INSTANCE Pipeline WITH status <- written[TheRun]

\* With one run, restarts, evictions and replays are invisible: what the run
\* wrote, its path, signals, attribute and result are those of a pipeline on a
\* worker that is never lost.
ImplementsPipeline == Undisturbed!Spec
=============================================================================
