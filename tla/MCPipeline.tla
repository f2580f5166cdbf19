----------------------------- MODULE MCPipeline -----------------------------
(***************************************************************************)
(* Small instances of Pipeline: pipelines of at most three steps.          *)
(***************************************************************************)
EXTENDS Pipeline

CONSTANTS a, b, c, submit, approve

Step3(n, s, o, next) == [activityName |-> n, signalEvent |-> s, options |-> o,
                         nextActivities |-> next]
Tuning(ap, max, index, wait) ==
    [CorrectionSignal |-> NoSignal, ApprovalSignal |-> ap, MaxCorrectionAttempts |-> max,
     StatusSearchAttribute |-> index, WaitTimeout |-> wait]

\* Gated and fail-fast steps, a cycle between a and b, a gate shared by two
\* steps, and c, which is named as a target and may never be registered.
MCTransitions == {Step3(a, submit, "nil", {b}),
                  Step3(a, NoSignal, "policy", {a, b, c}),
                  Step3(b, submit, "policy", {a, c}),
                  Step3(c, NoSignal, "nil", {})}

MCTunings == {Tuning(approve, 0, TRUE, TRUE), Tuning(NoSignal, 2, FALSE, FALSE)}

\* Two runs on one worker share this pipeline.
TwoStepTransitions == {Step3(a, submit, "nil", {b}), Step3(b, NoSignal, "policy", {a})}
OneTuning == {Tuning(approve, 0, TRUE, TRUE)}

\* temporal/interface.go:109: GetWorkflowStatus "returns the status of a
\* running workflow".  Asked about a run that is parked at its gate, the query
\* handler of that run (registerStatusQuery) says so.
StatusOfTheWorkflow ==
    \A r \in Runs : pc[r] = "parked" => status = StatusAwaitingCorrection
=============================================================================
