------------------------------ MODULE MCRestart ------------------------------
(***************************************************************************)
(* Small instances of PipelineRestart: the steps of MCPipeline.            *)
(***************************************************************************)
EXTENDS MCPipeline, PipelineRestart

\* Two steps, gated or not; b may share the gate of a or wait on the signal
\* that approves a, or be a placeholder.
TwoStepAcyclic == {Step3(a, submit, "nil", {b}), Step3(a, NoSignal, "policy", {b}),
                   Step3(b, submit, "timeout", {}), Step3(b, approve, "nil", {}),
                   Step3(b, NoSignal, "timeout", {})}

\* Both kinds of wait, with a timer; a longer budget without one.
RestartTunings == {Tuning(approve, 0, TRUE, TRUE), Tuning(NoSignal, 2, TRUE, FALSE)}
=============================================================================
