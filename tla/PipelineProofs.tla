--------------------------- MODULE PipelineProofs ---------------------------
(***************************************************************************)
(* Theorems about Pipeline for every set of runs, names and signals, every *)
(* graph of steps and every bound: its types, which steps a run enters,    *)
(* how often a gated step is executed, what a signal buys, and that no     *)
(* step is passed without the approval it asks for; all but the first also *)
(* on a worker that is restarted.                                          *)
(*                                                                         *)
(* The theorems on the status say Runs = {only}: with a single run on the  *)
(* worker the status reports what the run waits for and how it ended,      *)
(* moves as the status machine of ExecutionStatus, and survives restarts   *)
(* and evictions, which nothing else of the run shows either.  With two    *)
(* runs it does not: they share the Status field.                          *)
(***************************************************************************)
EXTENDS PipelineRestart, SequenceTheorems, FiniteSetTheorems, TLAPS

InStep == {"parked", "ready", "running", "approving", "advance"}

\* Where a run is tells what its current step is.
Control(r) ==
    /\ pc[r] = "idle" => /\ currActivity[r] = NoName
                         /\ \A s \in Signals : taken[r][s] = 0 /\ spent[r][s] = 0
    /\ pc[r] \in {"idle", "started"} => path[r] = <<>> /\ err[r] = "nil"
    /\ pc[r] \in InStep => currActivity[r] \in DOMAIN activity
    /\ pc[r] \in {"parked", "ready", "approving"} => Gated(currActivity[r])
    /\ pc[r] = "approving" => ApprovalSignal(r) \in Signals

ControlOK == \A r \in Runs : Control(r)

\* Every next activity has an entry, if only a placeholder.
GraphClosed == \A n \in DOMAIN activity : activity[n].NextActivities \subseteq DOMAIN activity

TypeInv == TypeOK /\ ControlOK /\ GraphClosed

\* A step of run r leaves the other runs where they are ...
OthersStay(r) ==
    \A q \in Runs \ {r} :
        /\ pc'[q] = pc[q] /\ currActivity'[q] = currActivity[q]
        /\ taken'[q] = taken[q] /\ spent'[q] = spent[q]
        /\ path'[q] = path[q] /\ err'[q] = err[q]

\* ... and every step's entry, gate and approval signal.
GatesStay ==
    /\ DOMAIN activity' = DOMAIN activity
    /\ \A n \in DOMAIN activity :
          /\ activity'[n].SignalEvent = activity[n].SignalEvent
          /\ activity'[n].Resumable.ApprovalSignal = activity[n].Resumable.ApprovalSignal

\* Defaulting keeps options well-typed and leaves the approval signal alone.
LEMMA WithDefaultsType ==
    ASSUME NEW o \in ResumableOptions
    PROVE  /\ WithDefaults(o) \in ResumableOptions
           /\ WithDefaults(o).ApprovalSignal = o.ApprovalSignal
           /\ WithDefaults(o).StatusSearchAttribute = o.StatusSearchAttribute
           /\ WithDefaults(o).MaxCorrectionAttempts # 0
           /\ o.MaxCorrectionAttempts # 0 =>
                WithDefaults(o).MaxCorrectionAttempts = o.MaxCorrectionAttempts
BY SignalsAssumption, DefaultsAssumption DEF WithDefaults, ResumableOptions

\* So does the fallback of the correction signal to the gate.
LEMMA GateOptionsType ==
    ASSUME TypeOK, NEW n \in DOMAIN activity
    PROVE  /\ GateOptions(n) \in ResumableOptions
           /\ GateOptions(n).ApprovalSignal = activity[n].Resumable.ApprovalSignal
           /\ GateOptions(n).MaxCorrectionAttempts # 0
           /\ activity[n].Resumable.MaxCorrectionAttempts # 0 =>
                GateOptions(n).MaxCorrectionAttempts = activity[n].Resumable.MaxCorrectionAttempts
<1> DEFINE o == activity[n].Resumable
           p == [o EXCEPT !.CorrectionSignal = IF @ = NoSignal THEN activity[n].SignalEvent ELSE @]
<1>1. o \in ResumableOptions /\ activity[n].SignalEvent \in Signals \cup {NoSignal}
  BY DEF TypeOK, ActivityExecutionInfo
<1>2. /\ p \in ResumableOptions
      /\ p.ApprovalSignal = o.ApprovalSignal /\ p.MaxCorrectionAttempts = o.MaxCorrectionAttempts
  BY <1>1 DEF ResumableOptions
<1>3. GateOptions(n) = WithDefaults(p)
  BY DEF GateOptions
<1> HIDE DEF p
<1> QED
  BY <1>2, <1>3, WithDefaultsType

\* The zero options and the placeholder entry are well-typed.
LEMMA ZeroType == ZeroResumable \in ResumableOptions /\ Placeholder \in ActivityExecutionInfo
BY DEF ZeroResumable, Placeholder, ResumableOptions, ActivityExecutionInfo, ActivityOptions

\* The entry a registration makes is well-typed.
LEMMA NewInfoType ==
    ASSUME NEW t \in Transition
    PROVE  NewInfo(t) \in ActivityExecutionInfo
<1>1. [ZeroResumable EXCEPT !.CorrectionSignal = t.signalEvent] \in ResumableOptions
  BY ZeroType DEF ZeroResumable, ResumableOptions, Transition
<1>2. WithDefaults([ZeroResumable EXCEPT !.CorrectionSignal = t.signalEvent]) \in ResumableOptions
  BY <1>1, WithDefaultsType
<1> QED
  BY <1>2, ZeroType DEF NewInfo, ActivityExecutionInfo, Transition

\* Counting one more signal of one run changes that count alone.
LEMMA CountOne ==
    ASSUME NEW f \in [Runs -> [Signals -> Nat]], NEW r \in Runs, NEW s \in Signals
    PROVE  LET g == [f EXCEPT ![r][s] = @ + 1] IN
           /\ g \in [Runs -> [Signals -> Nat]]
           /\ \A q \in Runs, u \in Signals :
                 g[q][u] = IF q = r /\ u = s THEN f[q][u] + 1 ELSE f[q][u]
<1>1. f[r] \in [Signals -> Nat] /\ f[r][s] + 1 \in Nat
  OBVIOUS
<1>2. [f[r] EXCEPT ![s] = f[r][s] + 1] \in [Signals -> Nat]
  BY <1>1
<1> QED
  BY <1>1, <1>2

\* Counting one more execution changes the count of one visit alone.
LEMMA CountVisit ==
    ASSUME NEW f \in [Runs -> [1 .. MaxSteps -> Nat]], NEW r \in Runs, NEW k
    PROVE  LET g == [f EXCEPT ![r][k] = @ + 1] IN
           /\ g \in [Runs -> [1 .. MaxSteps -> Nat]]
           /\ \A q \in Runs, i \in 1 .. MaxSteps :
                 g[q][i] = IF q = r /\ i = k THEN f[q][i] + 1 ELSE f[q][i]
<1> DEFINE D == 1 .. MaxSteps
<1> HIDE DEF D
<1>1. f \in [Runs -> [D -> Nat]] /\ f[r] \in [D -> Nat]
  BY DEF D
<1>2. PICK h : h = [f[r] EXCEPT ![k] = f[r][k] + 1]
  OBVIOUS
<1>3. h \in [D -> Nat] /\ \A i \in D : h[i] = IF i = k THEN f[r][i] + 1 ELSE f[r][i]
  <2>1. CASE k \in D
    BY <1>1, <1>2, <2>1
  <2>2. CASE k \notin D
    <3>1. PICK v : h = [f[r] EXCEPT ![k] = v]
      BY <1>2
    <3>2. h = f[r]
      BY <1>1, <2>2, <3>1
    <3> QED BY <1>1, <2>2, <3>2
  <2> QED BY <2>1, <2>2
<1>4. [f EXCEPT ![r] = h] \in [Runs -> [D -> Nat]]
  BY <1>1, <1>3
<1>5. PICK g : g = [f EXCEPT ![r] = h]
  OBVIOUS
<1>6. \A q \in Runs : g[q] = IF q = r THEN h ELSE f[q]
  BY <1>1, <1>5
<1>7. ASSUME NEW q \in Runs, NEW i \in D
      PROVE  g[q][i] = IF q = r /\ i = k THEN f[q][i] + 1 ELSE f[q][i]
  <2>1. CASE q = r
    BY <1>3, <1>6, <2>1
  <2>2. CASE q # r
    BY <1>6, <2>2
  <2> QED BY <2>1, <2>2
<1>8. [f EXCEPT ![r][k] = @ + 1] = [f EXCEPT ![r] = h]
  BY <1>2
<1> QED
  BY <1>4, <1>5, <1>8, <1>7 DEF D

\* An entry of a table by run and signal has the type of its entries.
LEMMA Entry ==
    ASSUME NEW T, NEW f \in [Runs -> [Signals -> T]], NEW r \in Runs, NEW s \in Signals
    PROVE  f[r][s] \in T
OBVIOUS

\* The invariant holds before the first registration.
LEMMA InitType == Init => TypeInv
<1> SUFFICES ASSUME Init PROVE TypeInv
  OBVIOUS
<1>1. DOMAIN activity = {} /\ activity \in [{} -> ActivityExecutionInfo]
  BY DEF Init
<1>2. path \in [Runs -> Seq(DOMAIN activity)]
  BY EmptySeq DEF Init
<1>3. sent \in [Runs -> [Signals -> Seq(Payloads)]]
  BY EmptySeq DEF Init
<1>4. /\ taken \in [Runs -> [Signals -> Nat]] /\ spent \in [Runs -> [Signals -> Nat]]
      /\ correctionCount \in [Runs -> Nat] /\ executed \in [Runs -> [1 .. MaxSteps -> Nat]]
  BY DEF Init
<1>5. /\ pc \in [Runs -> PCs] /\ err \in [Runs -> Errors] /\ status \in Statuses \cup {""}
      /\ attribute \in [Runs -> Statuses \cup {""}] /\ cancelled \in [Runs -> BOOLEAN]
      /\ data \in [Runs -> Names \cup {NoName, NoData}]
      /\ currActivity \in [Runs -> DOMAIN activity \cup {NoName}]
      /\ firstActivity \in DOMAIN activity \cup {NoName}
  BY DEF Init, PCs, Errors
<1>6. TypeOK
  BY <1>1, <1>2, <1>3, <1>4, <1>5 DEF TypeOK
<1>7. ControlOK
  BY DEF Init, ControlOK, Control, InStep
<1>8. GraphClosed
  BY <1>1 DEF GraphClosed
<1> QED
  BY <1>6, <1>7, <1>8 DEF TypeInv

\* Registering a step keeps it: placeholders close the graph.
LEMMA AddTransitionType ==
    ASSUME TypeInv, NEW t \in Transitions, AddTransitionActivityWithOptions(t)
    PROVE  TypeInv'
<1> USE DEF TypeInv
<1>0. t \in Transition /\ t.activityName \in Names /\ t.nextActivities \subseteq Names
  BY SetupAssumption DEF Transition
<1>1. NewInfo(t) \in ActivityExecutionInfo /\ Placeholder \in ActivityExecutionInfo
  BY <1>0, NewInfoType, ZeroType
<1> DEFINE D == DOMAIN activity \cup {t.activityName} \cup t.nextActivities
<1>2. /\ DOMAIN activity' = D /\ D \subseteq Names /\ DOMAIN activity \subseteq D
      /\ activity' \in [D -> ActivityExecutionInfo]
  BY <1>0, <1>1 DEF AddTransitionActivityWithOptions, TypeOK
<1>3. firstActivity' \in D \cup {NoName}
  BY DEF AddTransitionActivityWithOptions, TypeOK
<1>4. \A r \in Runs : pc[r] = "idle" /\ path[r] = <<>> /\ currActivity[r] = NoName
  BY DEF AddTransitionActivityWithOptions, Setup, ControlOK, Control
<1>5. path \in [Runs -> Seq(D)] /\ currActivity \in [Runs -> D \cup {NoName}]
  <2>1. <<>> \in Seq(D)
    BY EmptySeq
  <2> HIDE DEF D
  <2> QED
    BY <1>4, <2>1 DEF TypeOK
<1>6. TypeOK'
  BY <1>2, <1>3, <1>5 DEF AddTransitionActivityWithOptions, TypeOK, control, queues
<1>7. ControlOK'
  BY <1>4 DEF AddTransitionActivityWithOptions, ControlOK, Control, InStep, control, queues
<1>8. GraphClosed'
  <2>1. t.nextActivities \subseteq D /\ DOMAIN activity \subseteq D
    OBVIOUS
  <2>2. \A m \in D : activity'[m].NextActivities \subseteq D
    BY <2>1 DEF AddTransitionActivityWithOptions, NewInfo, Placeholder, GraphClosed
  <2> QED
    BY <1>2, <2>2 DEF GraphClosed
<1> QED
  BY <1>6, <1>7, <1>8

\* So does assigning to the options of a gated step.
LEMMA TuneType ==
    ASSUME TypeInv, NEW n \in Names, NEW o \in Tunings, Tune(n, o)
    PROVE  TypeInv'
<1> USE DEF TypeInv
<1>1. o \in ResumableOptions
  BY SetupAssumption
<1>2. /\ DOMAIN activity' = DOMAIN activity
      /\ activity' \in [DOMAIN activity -> ActivityExecutionInfo]
      /\ \A m \in DOMAIN activity : activity'[m].NextActivities = activity[m].NextActivities
  <2>1. activity' = [activity EXCEPT ![n] = [activity[n] EXCEPT !.Resumable = o]]
        /\ n \in DOMAIN activity
    BY DEF Tune
  <2>2. activity[n] \in ActivityExecutionInfo
    BY <2>1 DEF TypeOK
  <2>3. /\ [activity[n] EXCEPT !.Resumable = o] \in ActivityExecutionInfo
        /\ [activity[n] EXCEPT !.Resumable = o].NextActivities = activity[n].NextActivities
    BY <1>1, <2>2 DEF ActivityExecutionInfo
  <2> QED
    BY <2>1, <2>3 DEF TypeOK
<1>3. \A r \in Runs : pc[r] = "idle"
  BY DEF Tune, Setup
<1>4. TypeOK'
  BY <1>2 DEF Tune, TypeOK, control, queues
<1>5. ControlOK'
  BY <1>3 DEF Tune, ControlOK, Control, InStep, control, queues
<1>6. GraphClosed'
  BY <1>2 DEF GraphClosed
<1> QED
  BY <1>4, <1>5, <1>6

\* Where a run is stays right when only that run moves.
LEMMA ControlStep ==
    ASSUME TypeInv, NEW r \in Runs, OthersStay(r), GatesStay, Control(r)'
    PROVE  ControlOK'
<1> SUFFICES ASSUME NEW q \in Runs, q # r PROVE Control(q)'
  BY DEF ControlOK
<1>1. Control(q)
  BY DEF TypeInv, ControlOK
<1>2. /\ pc'[q] = pc[q] /\ currActivity'[q] = currActivity[q]
      /\ taken'[q] = taken[q] /\ spent'[q] = spent[q]
      /\ path'[q] = path[q] /\ err'[q] = err[q]
  BY DEF OthersStay
<1>3. pc[q] \in InStep => currActivity'[q] \in DOMAIN activity'
  BY <1>1, <1>2 DEF Control, GatesStay
<1>4. pc[q] \in {"parked", "ready", "approving"} => Gated(currActivity[q])'
  BY <1>1, <1>2 DEF Control, GatesStay, Gated, InStep
<1>5. pc[q] = "approving" => ApprovalSignal(q)' \in Signals
  BY <1>1, <1>2 DEF Control, GatesStay, ApprovalSignal, Opts, Info, InStep
<1> QED
  BY <1>1, <1>2, <1>3, <1>4, <1>5 DEF Control

\* So does what operators do: start, signal, cancel.
LEMMA OperateType ==
    ASSUME TypeInv, NEW r \in Runs, Operate(r)
    PROVE  TypeInv'
<1> USE DEF TypeInv
<1>0. GraphClosed'
  BY DEF Operate, StartWorkflow, SignalWorkflow, CancelWorkflow, shared, GraphClosed
<1>1. ASSUME NEW d \in Names \cup {NoName, NoData}, StartWorkflow(r, d) PROVE TypeInv'
  <2>1. TypeOK'
    BY <1>1 DEF StartWorkflow, Goto, TypeOK, PCs, shared, queues
  <2>2. ControlOK'
    <3>1. OthersStay(r) /\ GatesStay
      BY <1>1 DEF StartWorkflow, Goto, shared, queues, OthersStay, GatesStay, TypeOK
    <3>2. Control(r)'
      BY <1>1 DEF StartWorkflow, Goto, shared, queues, TypeOK, ControlOK, Control,
         InStep, Gated, ApprovalSignal, Opts, Info
    <3> QED BY <3>1, <3>2, ControlStep
  <2> QED BY <1>0, <2>1, <2>2
<1>2. ASSUME NEW s \in Signals, NEW p \in Payloads, SignalWorkflow(r, s, p) PROVE TypeInv'
  <2>1. sent' \in [Runs -> [Signals -> Seq(Payloads)]]
    <3>0. sent[r][s] \in Seq(Payloads)
      BY Entry DEF TypeOK
    <3>1. Append(sent[r][s], p) \in Seq(Payloads)
      BY <3>0, AppendProperties
    <3> QED
      BY <1>2, <3>1 DEF SignalWorkflow, TypeOK
  <2>3. TypeOK'
    BY <1>2, <2>1 DEF SignalWorkflow, TypeOK, shared, control
  <2>2. ControlOK'
    <3>1. OthersStay(r) /\ GatesStay
      BY <1>2 DEF SignalWorkflow, shared, control, OthersStay, GatesStay, TypeOK
    <3>2. Control(r)'
      BY <1>2 DEF SignalWorkflow, shared, control, TypeOK, ControlOK, Control, InStep,
         Gated, ApprovalSignal, Opts, Info
    <3> QED BY <3>1, <3>2, ControlStep
  <2> QED BY <1>0, <2>2, <2>3
<1>3. ASSUME CancelWorkflow(r) PROVE TypeInv'
  <2>1. TypeOK'
    BY <1>3 DEF CancelWorkflow, TypeOK, shared, control, queues
  <2>2. ControlOK'
    <3>1. OthersStay(r) /\ GatesStay
      BY <1>3 DEF CancelWorkflow, shared, control, queues, OthersStay, GatesStay,
         TypeOK
    <3>2. Control(r)'
      BY <1>3 DEF CancelWorkflow, shared, control, queues, TypeOK, ControlOK, Control,
         InStep, Gated, ApprovalSignal, Opts, Info
    <3> QED BY <3>1, <3>2, ControlStep
  <2> QED BY <1>0, <2>1, <2>2
<1> QED
  BY <1>1, <1>2, <1>3 DEF Operate

\* So does every step of a run, its waits and its activities.
LEMMA StepType ==
    ASSUME TypeInv, NEW r \in Runs, Step(r) \/ Outcome(r)
    PROVE  TypeInv'
<1> USE DEF TypeInv
<1> USE DEF shared, control, queues, PCs, Errors, Statuses, StatusPending, StatusExecuting,
            StatusAwaitingCorrection, StatusAwaitingApproval, StatusFailed,
            StatusCompleted, StatusRejected
<1>g. ASSUME activity' = activity PROVE GraphClosed'
  BY <1>g DEF GraphClosed
<1>a. /\ pc[r] \in {"parked", "ready"} => GateSignal(r) \in Signals
      /\ pc[r] = "approving" => ApprovalSignal(r) \in Signals
      /\ pc[r] \in InStep => ApprovalSignal(r) \in Signals \cup {NoSignal}
  <2>1. Control(r)
    BY DEF ControlOK
  <2>2. ASSUME pc[r] \in InStep
        PROVE  GateSignal(r) \in Signals \cup {NoSignal} /\ ApprovalSignal(r) \in Signals \cup {NoSignal}
    <3>1. Info(r) \in ActivityExecutionInfo
      BY <2>1, <2>2 DEF Control, TypeOK, Info
    <3> QED
      BY <3>1 DEF GateSignal, ApprovalSignal, Opts, ActivityExecutionInfo, ResumableOptions
  <2>3. pc[r] \in {"parked", "ready"} => GateSignal(r) # NoSignal /\ pc[r] \in InStep
    BY <2>1 DEF Control, Gated, GateSignal, Info, InStep
  <2> QED
    BY <2>1, <2>2, <2>3 DEF Control
<1>1. CASE Execute(r)
  <2>2. TypeOK'
    BY <1>1, <1>a DEF Execute, SetExecutionStatus, Goto, TypeOK
  <2>3. ControlOK'
    <3>1. OthersStay(r) /\ GatesStay
      BY <1>1 DEF Execute, SetExecutionStatus, Goto, OthersStay, GatesStay, TypeOK
    <3>2. Control(r)'
      BY <1>1, <1>a DEF Execute, SetExecutionStatus, Goto, TypeOK, ControlOK, Control,
         InStep, Gated, ApprovalSignal, Opts, Info
    <3> QED BY <3>1, <3>2, ControlStep
  <2>g. GraphClosed'
    BY <1>1, <1>g DEF Execute
  <2> QED BY <2>2, <2>3, <2>g
<1>2. CASE ExecuteRefused(r)
  <2>2. TypeOK'
    BY <1>2, <1>a DEF ExecuteRefused, Goto, TypeOK
  <2>3. ControlOK'
    <3>1. OthersStay(r) /\ GatesStay
      BY <1>2 DEF ExecuteRefused, Goto, OthersStay, GatesStay, TypeOK
    <3>2. Control(r)'
      BY <1>2, <1>a DEF ExecuteRefused, Goto, TypeOK, ControlOK, Control, InStep,
         Gated, ApprovalSignal, Opts, Info
    <3> QED BY <3>1, <3>2, ControlStep
  <2>g. GraphClosed'
    BY <1>2, <1>g DEF ExecuteRefused
  <2> QED BY <2>2, <2>3, <2>g
<1>3. CASE EnterFailFast(r) \/ EnterPlaceholder(r)
  <2>e. /\ Enter(r)
        /\ pc' = [pc EXCEPT ![r] = "running"] \/ pc' = [pc EXCEPT ![r] = "panicked"]
        /\ UNCHANGED <<activity, status, attribute, correctionCount>>
        /\ ~Gated(currActivity[r])
    BY <1>3 DEF EnterFailFast, EnterPlaceholder, Goto
  <2>0. currActivity[r] \in DOMAIN activity
    BY <2>e DEF Enter, TypeOK
  <2>1. path' \in [Runs -> Seq(DOMAIN activity)]
    BY <2>e, <2>0, AppendProperties DEF Enter, TypeOK
  <2>2. TypeOK'
    BY <2>e, <2>1 DEF Enter, TypeOK
  <2>3. ControlOK'
    <3>1. OthersStay(r) /\ GatesStay
      BY <2>e DEF Enter, OthersStay, GatesStay, TypeOK
    <3>2. Control(r)'
      BY <2>e, <2>0, <1>a DEF Enter, TypeOK, ControlOK, Control, InStep, Gated, ApprovalSignal,
         Opts, Info
    <3> QED BY <3>1, <3>2, ControlStep
  <2>g. GraphClosed'
    BY <2>e, <1>g
  <2> QED BY <2>2, <2>3, <2>g
<1>4. CASE EnterResumable(r)
  <2>1. Opts(r) \in ResumableOptions /\ currActivity[r] \in DOMAIN activity
    BY <1>4 DEF EnterResumable, Enter, TypeOK, Opts, Info, ActivityExecutionInfo
  <2>2. /\ GateOptions(currActivity[r]) \in ResumableOptions
        /\ GateOptions(currActivity[r]).ApprovalSignal = Opts(r).ApprovalSignal
    BY <2>1, GateOptionsType DEF Opts, Info
  <2>3. /\ DOMAIN activity' = DOMAIN activity
        /\ activity' \in [DOMAIN activity -> ActivityExecutionInfo]
        /\ \A n \in DOMAIN activity :
              /\ activity'[n].SignalEvent = activity[n].SignalEvent
              /\ activity'[n].NextActivities = activity[n].NextActivities
              /\ activity'[n].Resumable.ApprovalSignal = activity[n].Resumable.ApprovalSignal
    <3> DEFINE c == currActivity[r]
               i == [activity[c] EXCEPT !.Resumable = GateOptions(c)]
    <3>1. activity' = [activity EXCEPT ![c] = i]
      BY <1>4 DEF EnterResumable
    <3>2. activity[c] \in ActivityExecutionInfo
      BY <2>1 DEF TypeOK
    <3>3. /\ i \in ActivityExecutionInfo
          /\ i.SignalEvent = activity[c].SignalEvent
          /\ i.NextActivities = activity[c].NextActivities
          /\ i.Resumable = GateOptions(c)
      BY <2>2, <3>2 DEF ActivityExecutionInfo
    <3> HIDE DEF i
    <3> QED
      BY <2>1, <2>2, <3>1, <3>3 DEF TypeOK, Opts, Info
  <2>4. path' \in [Runs -> Seq(DOMAIN activity)]
    BY <1>4, <2>1, AppendProperties DEF EnterResumable, Enter, TypeOK
  <2>5. TypeOK'
    BY <1>4, <2>3, <2>4 DEF EnterResumable, Enter, SetExecutionStatus, Goto, TypeOK
  <2>6. ControlOK'
    <3>1. OthersStay(r) /\ GatesStay
      BY <1>4, <2>1, <2>3 DEF EnterResumable, Enter, Goto, OthersStay, GatesStay,
         TypeOK
    <3>2. Control(r)'
      BY <1>4, <2>1, <2>3 DEF EnterResumable, Enter, Goto, TypeOK, ControlOK, Control,
         InStep, Gated, ApprovalSignal, Opts, Info
    <3> QED BY <3>1, <3>2, ControlStep
  <2>7. GraphClosed'
    BY <2>3 DEF GraphClosed
  <2> QED BY <2>5, <2>6, <2>7
<1>5. CASE LeaveLoop(r)
  <2>2. TypeOK'
    BY <1>5, <1>a DEF LeaveLoop, Goto, TypeOK
  <2>3. ControlOK'
    <3>1. OthersStay(r) /\ GatesStay
      BY <1>5 DEF LeaveLoop, Goto, OthersStay, GatesStay, TypeOK
    <3>2. Control(r)'
      BY <1>5, <1>a DEF LeaveLoop, Goto, TypeOK, ControlOK, Control, InStep, Gated,
         ApprovalSignal, Opts, Info
    <3> QED BY <3>1, <3>2, ControlStep
  <2>g. GraphClosed'
    BY <1>5, <1>g DEF LeaveLoop
  <2> QED BY <2>2, <2>3, <2>g
<1>6. CASE ReceiveSignal(r)
  <2>0. GateSignal(r) \in Signals
    BY <1>6, <1>a DEF ReceiveSignal
  <2>1. taken' \in [Runs -> [Signals -> Nat]]
    BY <1>6, <2>0, CountOne DEF ReceiveSignal, Receive, TypeOK
  <2>4. data' \in [Runs -> Names \cup {NoName, NoData}]
    <3>1. CASE data' = data
      BY <3>1 DEF TypeOK
    <3>2. ASSUME NEW d \in Destinations(data[r]), data' = [data EXCEPT ![r] = d]
          PROVE  data' \in [Runs -> Names \cup {NoName, NoData}]
      BY <3>2 DEF TypeOK, Destinations
    <3> QED
      BY <1>6, <3>1, <3>2 DEF ReceiveSignal
  <2>2. TypeOK'
    BY <1>6, <2>1, <2>4 DEF ReceiveSignal, Goto, TypeOK
  <2>3. ControlOK'
    <3>1. OthersStay(r) /\ GatesStay
      BY <1>6 DEF ReceiveSignal, Receive, Destinations, Goto, OthersStay, GatesStay,
         TypeOK
    <3>2. Control(r)'
      BY <1>6, <1>a DEF ReceiveSignal, Receive, Destinations, Goto, TypeOK, ControlOK,
         Control, InStep, Gated, ApprovalSignal, Opts, Info
    <3> QED BY <3>1, <3>2, ControlStep
  <2>g. GraphClosed'
    BY <1>6, <1>g DEF ReceiveSignal
  <2> QED BY <2>2, <2>3, <2>g
<1>7. CASE CorrectionRefused(r)
  <2>0. GateSignal(r) \in Signals
    BY <1>7, <1>a DEF CorrectionRefused
  <2>1. taken' \in [Runs -> [Signals -> Nat]]
    BY <1>7, <2>0, CountOne DEF CorrectionRefused, Receive, TypeOK
  <2>2. TypeOK'
    BY <1>7, <2>1 DEF CorrectionRefused, Return, Goto, TypeOK
  <2>3. ControlOK'
    <3>1. OthersStay(r) /\ GatesStay
      BY <1>7 DEF CorrectionRefused, Receive, Return, Goto, OthersStay, GatesStay,
         TypeOK
    <3>2. Control(r)'
      BY <1>7, <1>a DEF CorrectionRefused, Receive, Return, Goto, TypeOK, ControlOK,
         Control, InStep, Gated, ApprovalSignal, Opts, Info
    <3> QED BY <3>1, <3>2, ControlStep
  <2>g. GraphClosed'
    BY <1>7, <1>g DEF CorrectionRefused
  <2> QED BY <2>2, <2>3, <2>g
<1>8. CASE WaitTimeout(r)
  <2>2. TypeOK'
    BY <1>8, <1>a DEF WaitTimeout, WaitFails, SetExecutionStatus, Return, Goto, TypeOK
  <2>3. ControlOK'
    <3>1. OthersStay(r) /\ GatesStay
      BY <1>8 DEF WaitTimeout, WaitFails, SetExecutionStatus, Return, Goto,
         OthersStay, GatesStay, TypeOK
    <3>2. Control(r)'
      BY <1>8, <1>a DEF WaitTimeout, WaitFails, SetExecutionStatus, Return, Goto,
         TypeOK, ControlOK, Control, InStep, Gated, ApprovalSignal, Opts, Info
    <3> QED BY <3>1, <3>2, ControlStep
  <2>g. GraphClosed'
    BY <1>8, <1>g DEF WaitTimeout, WaitFails
  <2> QED BY <2>2, <2>3, <2>g
<1>9. CASE WaitCanceled(r)
  <2>2. TypeOK'
    BY <1>9, <1>a DEF WaitCanceled, WaitFails, SetExecutionStatus, Return, Goto, TypeOK
  <2>3. ControlOK'
    <3>1. OthersStay(r) /\ GatesStay
      BY <1>9 DEF WaitCanceled, WaitFails, SetExecutionStatus, Return, Goto,
         OthersStay, GatesStay, TypeOK
    <3>2. Control(r)'
      BY <1>9, <1>a DEF WaitCanceled, WaitFails, SetExecutionStatus, Return, Goto,
         TypeOK, ControlOK, Control, InStep, Gated, ApprovalSignal, Opts, Info
    <3> QED BY <3>1, <3>2, ControlStep
  <2>g. GraphClosed'
    BY <1>9, <1>g DEF WaitCanceled, WaitFails
  <2> QED BY <2>2, <2>3, <2>g
<1>10. CASE StartResumable(r)
  <2>0. GateSignal(r) \in Signals
    BY <1>10, <1>a DEF StartResumable
  <2>1. spent' \in [Runs -> [Signals -> Nat]]
    BY <1>10, <2>0, CountOne DEF StartResumable, TypeOK
  <2>4. executed' \in [Runs -> [1 .. MaxSteps -> Nat]]
    BY <1>10, CountVisit DEF StartResumable, TypeOK
  <2>2. TypeOK'
    BY <1>10, <2>1, <2>4 DEF StartResumable, SetExecutionStatus, Goto, TypeOK
  <2>3. ControlOK'
    <3>1. OthersStay(r) /\ GatesStay
      BY <1>10 DEF StartResumable, SetExecutionStatus, Goto, OthersStay, GatesStay,
         TypeOK
    <3>2. Control(r)'
      BY <1>10, <1>a DEF StartResumable, SetExecutionStatus, Goto, TypeOK, ControlOK,
         Control, InStep, Gated, ApprovalSignal, Opts, Info
    <3> QED BY <3>1, <3>2, ControlStep
  <2>g. GraphClosed'
    BY <1>10, <1>g DEF StartResumable
  <2> QED BY <2>2, <2>3, <2>g
<1>11. CASE CorruptApproval(r)
  <2>0. ApprovalSignal(r) \in Signals
    BY <1>11, <1>a DEF CorruptApproval
  <2>1. taken' \in [Runs -> [Signals -> Nat]]
    BY <1>11, <2>0, CountOne DEF CorruptApproval, Receive, TypeOK
  <2>2. TypeOK'
    BY <1>11, <2>1 DEF CorruptApproval, TypeOK
  <2>3. ControlOK'
    <3>1. OthersStay(r) /\ GatesStay
      BY <1>11 DEF CorruptApproval, Receive, OthersStay, GatesStay, TypeOK
    <3>2. Control(r)'
      BY <1>11, <1>a DEF CorruptApproval, Receive, TypeOK, ControlOK, Control, InStep,
         Gated, ApprovalSignal, Opts, Info
    <3> QED BY <3>1, <3>2, ControlStep
  <2>g. GraphClosed'
    BY <1>11, <1>g DEF CorruptApproval
  <2> QED BY <2>2, <2>3, <2>g
<1>12. CASE Approve(r)
  <2>0. ApprovalSignal(r) \in Signals
    BY <1>12, <1>a DEF Approve
  <2>1. /\ taken' \in [Runs -> [Signals -> Nat]]
        /\ spent' \in [Runs -> [Signals -> Nat]]
    BY <1>12, <2>0, CountOne DEF Approve, Receive, TypeOK
  <2>2. TypeOK'
    BY <1>12, <2>1 DEF Approve, Goto, TypeOK
  <2>3. ControlOK'
    <3>1. OthersStay(r) /\ GatesStay
      BY <1>12 DEF Approve, Receive, Goto, OthersStay, GatesStay, TypeOK
    <3>2. Control(r)'
      BY <1>12, <1>a DEF Approve, Receive, Goto, TypeOK, ControlOK, Control, InStep,
         Gated, ApprovalSignal, Opts, Info
    <3> QED BY <3>1, <3>2, ControlStep
  <2>g. GraphClosed'
    BY <1>12, <1>g DEF Approve
  <2> QED BY <2>2, <2>3, <2>g
<1>13. CASE Reject(r)
  <2>0. ApprovalSignal(r) \in Signals
    BY <1>13, <1>a DEF Reject
  <2>1. taken' \in [Runs -> [Signals -> Nat]]
    BY <1>13, <2>0, CountOne DEF Reject, Receive, TypeOK
  <2>2. TypeOK'
    BY <1>13, <2>1 DEF Reject, SetExecutionStatus, Return, Goto, TypeOK
  <2>3. ControlOK'
    <3>1. OthersStay(r) /\ GatesStay
      BY <1>13 DEF Reject, Receive, SetExecutionStatus, Return, Goto, OthersStay,
         GatesStay, TypeOK
    <3>2. Control(r)'
      BY <1>13, <1>a DEF Reject, Receive, SetExecutionStatus, Return, Goto, TypeOK,
         ControlOK, Control, InStep, Gated, ApprovalSignal, Opts, Info
    <3> QED BY <3>1, <3>2, ControlStep
  <2>g. GraphClosed'
    BY <1>13, <1>g DEF Reject
  <2> QED BY <2>2, <2>3, <2>g
<1>14. CASE ApprovalTimeout(r)
  <2>2. TypeOK'
    BY <1>14, <1>a DEF ApprovalTimeout, SetExecutionStatus, Return, Goto, TypeOK
  <2>3. ControlOK'
    <3>1. OthersStay(r) /\ GatesStay
      BY <1>14 DEF ApprovalTimeout, SetExecutionStatus, Return, Goto, OthersStay,
         GatesStay, TypeOK
    <3>2. Control(r)'
      BY <1>14, <1>a DEF ApprovalTimeout, SetExecutionStatus, Return, Goto, TypeOK,
         ControlOK, Control, InStep, Gated, ApprovalSignal, Opts, Info
    <3> QED BY <3>1, <3>2, ControlStep
  <2>g. GraphClosed'
    BY <1>14, <1>g DEF ApprovalTimeout
  <2> QED BY <2>2, <2>3, <2>g
<1>15. CASE ApprovalCanceled(r)
  <2>2. TypeOK'
    BY <1>15, <1>a DEF ApprovalCanceled, Return, Goto, TypeOK
  <2>3. ControlOK'
    <3>1. OthersStay(r) /\ GatesStay
      BY <1>15 DEF ApprovalCanceled, Return, Goto, OthersStay, GatesStay, TypeOK
    <3>2. Control(r)'
      BY <1>15, <1>a DEF ApprovalCanceled, Return, Goto, TypeOK, ControlOK, Control,
         InStep, Gated, ApprovalSignal, Opts, Info
    <3> QED BY <3>1, <3>2, ControlStep
  <2>g. GraphClosed'
    BY <1>15, <1>g DEF ApprovalCanceled
  <2> QED BY <2>2, <2>3, <2>g
<1>16. CASE Advance(r)
  <2>0. currActivity[r] \in DOMAIN activity
    BY <1>16 DEF Advance, ControlOK, Control, InStep
  <2>1. currActivity' \in [Runs -> DOMAIN activity \cup {NoName}]
    BY <1>16, <2>0 DEF Advance, GetNextActivity, TypeOK, GraphClosed
  <2>2. TypeOK'
    BY <1>16, <2>1 DEF Advance, Goto, TypeOK
  <2>3. ControlOK'
    <3>1. OthersStay(r) /\ GatesStay
      BY <1>16 DEF Advance, GetNextActivity, Goto, OthersStay, GatesStay, TypeOK
    <3>2. Control(r)'
      BY <1>16, <1>a DEF Advance, GetNextActivity, Goto, TypeOK, ControlOK, Control,
         InStep, Gated, ApprovalSignal, Opts, Info
    <3> QED BY <3>1, <3>2, ControlStep
  <2>g. GraphClosed'
    BY <1>16, <1>g DEF Advance
  <2> QED BY <2>2, <2>3, <2>g
<1>17. CASE FailExit(r)
  <2>2. TypeOK'
    BY <1>17, <1>a DEF FailExit, Exit, SetExecutionStatus, Goto, TypeOK
  <2>3. ControlOK'
    <3>1. OthersStay(r) /\ GatesStay
      BY <1>17 DEF FailExit, Exit, SetExecutionStatus, Goto, OthersStay, GatesStay,
         TypeOK
    <3>2. Control(r)'
      BY <1>17, <1>a DEF FailExit, Exit, SetExecutionStatus, Goto, TypeOK, ControlOK,
         Control, InStep, Gated, ApprovalSignal, Opts, Info
    <3> QED BY <3>1, <3>2, ControlStep
  <2>g. GraphClosed'
    BY <1>17, <1>g DEF FailExit, Exit
  <2> QED BY <2>2, <2>3, <2>g
<1>18. CASE CompleteExit(r)
  <2>2. TypeOK'
    BY <1>18, <1>a DEF CompleteExit, Exit, SetExecutionStatus, Goto, TypeOK
  <2>3. ControlOK'
    <3>1. OthersStay(r) /\ GatesStay
      BY <1>18 DEF CompleteExit, Exit, SetExecutionStatus, Goto, OthersStay,
         GatesStay, TypeOK
    <3>2. Control(r)'
      BY <1>18, <1>a DEF CompleteExit, Exit, SetExecutionStatus, Goto, TypeOK,
         ControlOK, Control, InStep, Gated, ApprovalSignal, Opts, Info
    <3> QED BY <3>1, <3>2, ControlStep
  <2>g. GraphClosed'
    BY <1>18, <1>g DEF CompleteExit, Exit
  <2> QED BY <2>2, <2>3, <2>g
<1>19. CASE ActivitySucceeds(r)
  <2>0. data' \in [Runs -> Names \cup {NoName, NoData}]
    <3>1. PICK d \in Destinations(data[r]) : data' = [data EXCEPT ![r] = d]
      BY <1>19 DEF ActivitySucceeds
    <3>2. d \in Names \cup {NoName, NoData}
      BY <3>1 DEF Destinations
    <3> QED
      BY <3>1, <3>2 DEF TypeOK
  <2>1. /\ status' \in Statuses \cup {""} /\ attribute' \in [Runs -> Statuses \cup {""}]
        /\ pc' \in [Runs -> PCs]
    BY <1>19 DEF ActivitySucceeds, SetExecutionStatus, Goto, TypeOK
  <2>2. TypeOK'
    BY <1>19, <2>0, <2>1 DEF ActivitySucceeds, TypeOK
  <2>3. ControlOK'
    <3>1. OthersStay(r) /\ GatesStay
      BY <1>19 DEF ActivitySucceeds, SetExecutionStatus, Destinations, Goto,
         OthersStay, GatesStay, TypeOK
    <3>2. Control(r)'
      <4>1. /\ pc[r] = "running" /\ pc'[r] \in {"approving", "advance"}
            /\ pc'[r] = "approving" => Gated(currActivity[r]) /\ ApprovalSignal(r) # NoSignal
            /\ activity' = activity /\ currActivity' = currActivity
        BY <1>19 DEF ActivitySucceeds, Goto, TypeOK
      <4>2. currActivity[r] \in DOMAIN activity /\ ApprovalSignal(r) \in Signals \cup {NoSignal}
        BY <1>a, <4>1 DEF ControlOK, Control, InStep
      <4> QED
        BY <4>1, <4>2 DEF Control, InStep, Gated, ApprovalSignal, Opts, Info
    <3> QED BY <3>1, <3>2, ControlStep
  <2>g. GraphClosed'
    BY <1>19, <1>g DEF ActivitySucceeds
  <2> QED BY <2>2, <2>3, <2>g
<1>20. CASE FailFastFails(r)
  <2>2. TypeOK'
    BY <1>20, <1>a DEF FailFastFails, Return, Goto, TypeOK
  <2>3. ControlOK'
    <3>1. OthersStay(r) /\ GatesStay
      BY <1>20 DEF FailFastFails, Return, Goto, OthersStay, GatesStay, TypeOK
    <3>2. pc' = [pc EXCEPT ![r] = "failing"] /\ pc \in [Runs -> PCs]
      BY <1>20 DEF FailFastFails, Return, Goto, TypeOK
    <3>3. pc'[r] = "failing"
      BY <3>2
    <3>4. Control(r)'
      BY <3>3 DEF Control, InStep
    <3> QED BY <3>1, <3>4, ControlStep
  <2>g. GraphClosed'
    BY <1>20, <1>g DEF FailFastFails
  <2> QED BY <2>2, <2>3, <2>g
<1>21. CASE ResumableFails(r)
  <2>a. /\ attribute \in [Runs -> Statuses \cup {""}]
        /\ pc \in [Runs -> PCs] /\ err \in [Runs -> Errors]
    BY DEF TypeOK
  <2>b. \/ /\ SetExecutionStatus(r, StatusFailed, Opts(r).StatusSearchAttribute)
           /\ Return(r, "exhausted")
        \/ /\ SetExecutionStatus(r, StatusAwaitingCorrection, Opts(r).StatusSearchAttribute)
           /\ Goto(r, "parked") /\ err' = err
    BY <1>21 DEF ResumableFails
  <2>1. /\ status' \in Statuses \cup {""} /\ attribute' \in [Runs -> Statuses \cup {""}]
        /\ pc' \in [Runs -> PCs] /\ err' \in [Runs -> Errors]
        /\ pc'[r] \in {"failing", "parked"}
        /\ \A q \in Runs \ {r} : pc'[q] = pc[q] /\ err'[q] = err[q]
    BY <2>a, <2>b DEF SetExecutionStatus, Return, Goto
  <2>4. correctionCount' \in [Runs -> Nat]
    <3>1. correctionCount \in [Runs -> Nat]
      BY DEF TypeOK
    <3>2. correctionCount' = [correctionCount EXCEPT ![r] = correctionCount[r] + 1]
      BY <1>21 DEF ResumableFails
    <3> QED
      BY <3>1, <3>2
  <2>2. TypeOK'
    BY <1>21, <2>1, <2>4 DEF ResumableFails, TypeOK
  <2>3. ControlOK'
    <3>1. OthersStay(r) /\ GatesStay
      BY <1>21, <2>1 DEF ResumableFails, OthersStay, GatesStay
    <3>2. Control(r) /\ pc[r] = "running" /\ Gated(currActivity[r])
      BY <1>21 DEF ResumableFails, ControlOK
    <3>3. Control(r)'
      BY <1>21, <2>1, <3>2 DEF ResumableFails, Control, InStep, Gated
    <3> QED BY <3>1, <3>3, ControlStep
  <2>g. GraphClosed'
    BY <1>21, <1>g DEF ResumableFails
  <2> QED BY <2>2, <2>3, <2>g
<1> QED
  BY <1>1, <1>2, <1>3, <1>4, <1>5, <1>6, <1>7, <1>8, <1>9, <1>10, <1>11, <1>12, <1>13, <1>14, <1>15, <1>16, <1>17, <1>18, <1>19, <1>20, <1>21 DEF Step, Outcome

\* The invariant is inductive.
LEMMA NextType == TypeInv /\ [Next]_vars => TypeInv'
<1> SUFFICES ASSUME TypeInv, [Next]_vars PROVE TypeInv'
  OBVIOUS
<1>1. CASE UNCHANGED vars
  BY <1>1 DEF TypeInv, TypeOK, ControlOK, Control, GraphClosed, Gated, ApprovalSignal, Opts, Info,
              vars, shared, control, queues
<1>2. CASE Configure
  BY <1>2, AddTransitionType, TuneType DEF Configure
<1>3. ASSUME NEW r \in Runs, Operate(r) \/ Step(r) \/ Outcome(r) PROVE TypeInv'
  BY <1>3, OperateType, StepType
<1> QED
  BY <1>1, <1>2, <1>3 DEF Next

\* The invariant holds in every state.
LEMMA TypeInvariant == Spec => []TypeInv
BY InitType, NextType, PTL DEF Spec

\* Type correctness of the pipeline, with the facts about control it needs:
\* a run in a step is at an existing entry of the graph, a parked run at a
\* gated one, and the graph has an entry for every next activity.
THEOREM TypeCorrect == Spec => []TypeOK
<1>1. TypeInv => TypeOK
  BY DEF TypeInv
<1> QED
  BY <1>1, TypeInvariant, PTL

-----------------------------------------------------------------------------
(* What a step leaves alone                                                *)

\* What a run keeps to itself.
Local(q) == <<pc[q], currActivity[q], correctionCount[q], err[q], path[q],
              sent[q], taken[q], spent[q], executed[q]>>

\* Once runs exist the graph is fixed; only defaults are filled in.
GraphKept ==
    /\ firstActivity' = firstActivity /\ DOMAIN activity' = DOMAIN activity
    /\ \A n \in DOMAIN activity :
          /\ activity'[n].SignalEvent = activity[n].SignalEvent
          /\ activity'[n].NextActivities = activity[n].NextActivities
          /\ activity'[n].Resumable.ApprovalSignal = activity[n].Resumable.ApprovalSignal
          /\ activity[n].Resumable.MaxCorrectionAttempts # 0 =>
                activity'[n].Resumable.MaxCorrectionAttempts
                    = activity[n].Resumable.MaxCorrectionAttempts

\* No step of a run changes the graph other than by filling in defaults.
LEMMA StepKeepsGraph ==
    ASSUME TypeInv, NEW r \in Runs, Operate(r) \/ Step(r) \/ Outcome(r)
    PROVE  GraphKept
<1> USE DEF shared
<1>1. CASE EnterResumable(r)
  <2>1. currActivity[r] \in DOMAIN activity /\ TypeOK
    BY <1>1 DEF EnterResumable, Enter, TypeInv, TypeOK
  <2>2. firstActivity' = firstActivity
    BY <1>1 DEF EnterResumable, Enter
  <2>3. activity' = [activity EXCEPT ![currActivity[r]].Resumable = GateOptions(currActivity[r])]
    BY <1>1 DEF EnterResumable
  <2>4. \A n \in DOMAIN activity : activity[n] \in ActivityExecutionInfo
    BY <2>1 DEF TypeOK
  <2> QED
    BY <2>1, <2>2, <2>3, <2>4, GateOptionsType DEF GraphKept, ActivityExecutionInfo
<1>2. CASE UNCHANGED <<activity, firstActivity>>
  BY <1>2 DEF GraphKept
<1>3. Operate(r) => UNCHANGED <<activity, firstActivity>>
  BY DEF Operate, StartWorkflow, SignalWorkflow, CancelWorkflow
<1>4. Outcome(r) => UNCHANGED <<activity, firstActivity>>
  BY DEF Outcome, ActivitySucceeds, FailFastFails, ResumableFails
<1>5. Step(r) => EnterResumable(r) \/ UNCHANGED <<activity, firstActivity>>
  BY DEF Step, Execute, ExecuteRefused, EnterFailFast, EnterPlaceholder, Enter, LeaveLoop, ReceiveSignal,
         CorrectionRefused, WaitTimeout, WaitCanceled, WaitFails, StartResumable,
         CorruptApproval, Approve, Reject, ApprovalTimeout, ApprovalCanceled, Advance,
         FailExit, CompleteExit, Exit
<1> QED
  BY <1>1, <1>2, <1>3, <1>4, <1>5

\* A step of one run leaves the others where they are.
LEMMA OthersKept ==
    ASSUME TypeInv, NEW r \in Runs, Operate(r) \/ Step(r) \/ Outcome(r),
           NEW q \in Runs \ {r}
    PROVE  Local(q)' = Local(q)
<1> USE DEF shared, control, queues, Local
<1>0. /\ pc \in [Runs -> PCs] /\ currActivity \in [Runs -> DOMAIN activity \cup {NoName}]
      /\ correctionCount \in [Runs -> Nat] /\ err \in [Runs -> Errors]
      /\ path \in [Runs -> Seq(DOMAIN activity)]
      /\ sent \in [Runs -> [Signals -> Seq(Payloads)]]
      /\ taken \in [Runs -> [Signals -> Nat]] /\ spent \in [Runs -> [Signals -> Nat]]
      /\ executed \in [Runs -> [1 .. MaxSteps -> Nat]]
  BY DEF TypeInv, TypeOK
<1>1. Operate(r) => Local(q)' = Local(q)
  BY <1>0 DEF Operate, StartWorkflow, SignalWorkflow, CancelWorkflow, Goto
<1>2. Outcome(r) => Local(q)' = Local(q)
  BY <1>0 DEF Outcome, ActivitySucceeds, FailFastFails, ResumableFails, Return, Goto
<1>3. CASE Execute(r) \/ ExecuteRefused(r) \/ EnterFailFast(r) \/ EnterPlaceholder(r) \/ EnterResumable(r) \/ LeaveLoop(r)
  BY <1>0, <1>3 DEF Execute, ExecuteRefused, EnterFailFast, EnterPlaceholder, EnterResumable, Enter, LeaveLoop, Goto
<1>4. CASE ReceiveSignal(r) \/ CorrectionRefused(r) \/ WaitTimeout(r) \/ WaitCanceled(r) \/ StartResumable(r)
  BY <1>0, <1>4 DEF ReceiveSignal, CorrectionRefused, WaitTimeout, WaitCanceled, WaitFails,
         StartResumable, Receive, Return, Goto
<1>5. CASE CorruptApproval(r) \/ Approve(r) \/ Reject(r) \/ ApprovalTimeout(r) \/ ApprovalCanceled(r)
  BY <1>0, <1>5 DEF CorruptApproval, Approve, Reject, ApprovalTimeout, ApprovalCanceled,
         Receive, Return, Goto
<1>6. CASE Advance(r) \/ FailExit(r) \/ CompleteExit(r)
  BY <1>0, <1>6 DEF Advance, FailExit, CompleteExit, Exit, Goto
<1> QED
  BY <1>1, <1>2, <1>3, <1>4, <1>5, <1>6 DEF Step

-----------------------------------------------------------------------------
(* Which steps a run enters                                                *)

LastStep(r) == path[r][Len(path[r])]

\* The run's place in the path: in a step, at its last entry; between two
\* steps, at one the last entry lists, or at the very first.
PlaceOK(r) ==
    /\ pc[r] \in InStep => path[r] # <<>> /\ LastStep(r) = currActivity[r]
    /\ pc[r] = "next" /\ currActivity[r] # NoName =>
          IF path[r] = <<>> THEN currActivity[r] = firstActivity
          ELSE currActivity[r] \in activity[LastStep(r)].NextActivities

PathOK(r) ==
    /\ path[r] # <<>> => path[r][1] = firstActivity
    /\ \A i \in 1 .. Len(path[r]) - 1 :
           path[r][i + 1] \in activity[path[r][i]].NextActivities

PathInv == \A r \in Runs : PathOK(r) /\ PlaceOK(r)

\* A run that keeps its path, in an unchanged graph, keeps a good path.
LEMMA PathKept ==
    ASSUME TypeInv, GraphKept, NEW q \in Runs, PathOK(q), path'[q] = path[q]
    PROVE  PathOK(q)'
<1>1. path[q] \in Seq(DOMAIN activity)
  BY DEF TypeInv, TypeOK
<1>2. \A i \in 1 .. Len(path[q]) : path[q][i] \in DOMAIN activity
  BY <1>1
<1>3. \A n \in DOMAIN activity : activity'[n].NextActivities = activity[n].NextActivities
  BY DEF GraphKept
<1>4. Len(path[q]) \in Nat /\ \A i \in 1 .. Len(path[q]) - 1 : i \in 1 .. Len(path[q])
  BY <1>1, LenProperties
<1>5. firstActivity' = firstActivity
  BY DEF GraphKept
<1> QED
  BY <1>2, <1>3, <1>4, <1>5 DEF PathOK

\* The last entry of a path that is kept lists what it listed before.
LEMMA LastKept ==
    ASSUME TypeInv, GraphKept, NEW q \in Runs, path'[q] = path[q], path[q] # <<>>
    PROVE  /\ LastStep(q)' = LastStep(q) /\ LastStep(q) \in DOMAIN activity
           /\ activity'[LastStep(q)].NextActivities = activity[LastStep(q)].NextActivities
<1>1. path[q] \in Seq(DOMAIN activity)
  BY DEF TypeInv, TypeOK
<1>2. LastStep(q) \in DOMAIN activity
  BY <1>1 DEF LastStep
<1> QED
  BY <1>2 DEF LastStep, GraphKept

\* Entering a step extends the path by a step the last one lists.
LEMMA EnterPath ==
    ASSUME TypeInv, GraphKept, NEW r \in Runs, PathOK(r), PlaceOK(r), Enter(r)
    PROVE  /\ PathOK(r)' /\ path'[r] # <<>> /\ LastStep(r)' = currActivity[r]
<1> DEFINE n == currActivity[r]
           p == path[r]
<1>1. p \in Seq(DOMAIN activity) /\ n \in DOMAIN activity /\ n # NoName /\ pc[r] = "next"
  BY DEF TypeInv, TypeOK, Enter
<1>2. path'[r] = Append(p, n)
  BY DEF Enter, TypeInv, TypeOK
<1>3. /\ Len(path'[r]) = Len(p) + 1 /\ path'[r][Len(p) + 1] = n
      /\ \A i \in 1 .. Len(p) : path'[r][i] = p[i] /\ p[i] \in DOMAIN activity
      /\ Len(p) \in Nat /\ (p = <<>> <=> Len(p) = 0)
  BY <1>1, <1>2
<1>4. path'[r] # <<>> /\ LastStep(r)' = n
  BY <1>1, <1>2, <1>3 DEF LastStep
<1>5. IF p = <<>> THEN n = firstActivity ELSE n \in activity[p[Len(p)]].NextActivities
  BY <1>1 DEF PlaceOK, LastStep
<1>6. path'[r][1] = firstActivity'
  <2>1. CASE p = <<>>
    BY <2>1, <1>3, <1>5 DEF GraphKept
  <2>2. CASE p # <<>>
    BY <2>2, <1>3 DEF GraphKept, PathOK
  <2> QED BY <2>1, <2>2
<1>7. ASSUME NEW i \in 1 .. Len(p) PROVE path'[r][i + 1] \in activity'[path'[r][i]].NextActivities
  <2>1. CASE i = Len(p)
    BY <2>1, <1>3, <1>5, <1>7 DEF GraphKept
  <2>2. CASE i \in 1 .. Len(p) - 1
    BY <2>2, <1>3, <1>7 DEF GraphKept, PathOK
  <2> QED BY <2>1, <2>2, <1>3
<1>8. Len(path'[r]) - 1 = Len(p)
  BY <1>3
<1> QED
  BY <1>4, <1>6, <1>7, <1>8 DEF PathOK

\* Every step of a run keeps every run on a path of the graph.
LEMMA StepPath ==
    ASSUME TypeInv, PathInv, NEW r \in Runs, Operate(r) \/ Step(r) \/ Outcome(r)
    PROVE  PathInv'
<1> USE DEF shared, control, queues
<1>1. GraphKept
  BY StepKeepsGraph
<1>2. ASSUME NEW q \in Runs \ {r} PROVE PathOK(q)' /\ PlaceOK(q)'
  <2>1. /\ pc'[q] = pc[q] /\ path'[q] = path[q] /\ currActivity'[q] = currActivity[q]
    BY OthersKept DEF Local
  <2>2. PathOK(q)'
    BY <1>1, <2>1, PathKept DEF PathInv
  <2>3. PlaceOK(q)'
    BY <1>1, <2>1, LastKept DEF PathInv, PlaceOK, GraphKept
  <2> QED BY <2>2, <2>3
<1> SUFFICES PathOK(r)' /\ PlaceOK(r)'
  BY <1>2 DEF PathInv
<1>3. PathOK(r) /\ PlaceOK(r)
  BY DEF PathInv
<1>4. /\ pc \in [Runs -> PCs] /\ currActivity \in [Runs -> DOMAIN activity \cup {NoName}]
  BY DEF TypeInv, TypeOK
<1>5. CASE EnterFailFast(r) \/ EnterPlaceholder(r) \/ EnterResumable(r)
  <2>1. Enter(r) /\ pc'[r] \in {"running", "panicked", "parked"} /\ currActivity'[r] = currActivity[r]
    BY <1>4, <1>5 DEF EnterFailFast, EnterPlaceholder, EnterResumable, Enter, Goto
  <2> QED
    BY <1>1, <1>3, <2>1, EnterPath DEF PlaceOK
<1>6. CASE Execute(r)
  <2>1. /\ path[r] = <<>> /\ path'[r] = path[r] /\ pc'[r] = "next"
        /\ currActivity'[r] = firstActivity
    BY <1>4, <1>6 DEF Execute, Goto, TypeInv, ControlOK, Control
  <2>2. PathOK(r)'
    BY <1>1, <1>3, <2>1, PathKept
  <2> QED
    BY <1>1, <2>1, <2>2 DEF PlaceOK, InStep, GraphKept
<1>7. CASE Advance(r)
  <2>1. /\ path'[r] = path[r] /\ path[r] # <<>> /\ LastStep(r) = currActivity[r]
        /\ pc'[r] \in {"next", "finishing"}
        /\ pc'[r] = "next" => currActivity'[r] = GetNextActivity(currActivity[r], data[r])
    BY <1>3, <1>4, <1>7 DEF Advance, Goto, PlaceOK, InStep
  <2>2. PathOK(r)'
    BY <1>1, <1>3, <2>1, PathKept
  <2>3. PlaceOK(r)'
    BY <1>1, <2>1, LastKept DEF PlaceOK, InStep, GetNextActivity
  <2> QED BY <2>2, <2>3
<1>8. CASE /\ path'[r] = path[r] /\ currActivity'[r] = currActivity[r]
           /\ pc'[r] # "next" /\ (pc'[r] \in InStep => pc[r] \in InStep)
  <2>2. PathOK(r)'
    BY <1>1, <1>3, <1>8, PathKept
  <2>3. PlaceOK(r)'
    BY <1>1, <1>3, <1>8, LastKept DEF PlaceOK
  <2> QED BY <2>2, <2>3
<1>9. CASE Operate(r)
  <2>1. /\ path'[r] = path[r] /\ currActivity'[r] = currActivity[r]
        /\ pc'[r] = pc[r] \/ pc'[r] = "started"
    BY <1>4, <1>9 DEF Operate, StartWorkflow, SignalWorkflow, CancelWorkflow, Goto
  <2>2. PathOK(r)'
    BY <1>1, <1>3, <2>1, PathKept
  <2>3. PlaceOK(r)'
    BY <1>1, <1>3, <2>1, LastKept DEF PlaceOK, InStep, GraphKept
  <2> QED BY <2>2, <2>3
<1>10. CASE Outcome(r)
  BY <1>4, <1>8, <1>10 DEF Outcome, ActivitySucceeds, FailFastFails, ResumableFails, Return, Goto, InStep
<1>11. CASE LeaveLoop(r) \/ ExecuteRefused(r) \/ FailExit(r) \/ CompleteExit(r)
  BY <1>4, <1>8, <1>11 DEF LeaveLoop, ExecuteRefused, FailExit, CompleteExit, Exit, Goto, InStep
<1>12. CASE ReceiveSignal(r) \/ CorrectionRefused(r) \/ WaitTimeout(r) \/ WaitCanceled(r) \/ StartResumable(r)
  BY <1>4, <1>8, <1>12 DEF ReceiveSignal, CorrectionRefused, WaitTimeout, WaitCanceled, WaitFails,
         StartResumable, Return, Goto, InStep
<1>13. CASE CorruptApproval(r) \/ Approve(r) \/ Reject(r) \/ ApprovalTimeout(r) \/ ApprovalCanceled(r)
  BY <1>4, <1>8, <1>13 DEF CorruptApproval, Approve, Reject, ApprovalTimeout, ApprovalCanceled,
         Return, Goto, InStep
<1> QED
  BY <1>5, <1>6, <1>7, <1>9, <1>10, <1>11, <1>12, <1>13 DEF Step

\* The graph is configured while no run has started.
LEMMA ConfigureIdle ==
    ASSUME TypeInv, Configure
    PROVE  \A r \in Runs : /\ Local(r)' = Local(r) /\ pc[r] = "idle" /\ path[r] = <<>>
                           /\ currActivity[r] = NoName /\ err[r] = "nil"
                           /\ \A s \in Signals : taken[r][s] = 0 /\ spent[r][s] = 0
<1>1. /\ UNCHANGED <<pc, currActivity, correctionCount, err, path, sent, taken, spent,
                     executed>>
      /\ \A r \in Runs : pc[r] = "idle"
  BY DEF Configure, AddTransitionActivityWithOptions, Tune, Setup, control, queues
<1> QED
  BY <1>1 DEF Local, TypeInv, ControlOK, Control

\* PathInv, with the type invariant, is inductive.
LEMMA NextPath == TypeInv /\ PathInv /\ [Next]_vars => PathInv'
<1> SUFFICES ASSUME TypeInv, PathInv, [Next]_vars PROVE PathInv'
  OBVIOUS
<1>1. CASE UNCHANGED vars
  BY <1>1 DEF PathInv, PathOK, PlaceOK, LastStep, vars, shared, control
<1>2. CASE Configure
  <2>1. \A r \in Runs : path'[r] = <<>> /\ pc'[r] = "idle"
    BY <1>2, ConfigureIdle DEF Local
  <2>2. \A r \in Runs : PlaceOK(r)'
    BY <2>1 DEF PlaceOK, InStep
  <2>3. \A r \in Runs : PathOK(r)'
    BY <2>1 DEF PathOK
  <2> QED BY <2>2, <2>3 DEF PathInv
<1>3. ASSUME NEW r \in Runs, Operate(r) \/ Step(r) \/ Outcome(r) PROVE PathInv'
  BY <1>3, StepPath
<1> QED
  BY <1>1, <1>2, <1>3 DEF Next

\* No run has entered a step before it is started.
LEMMA InitPath == Init => PathInv
<1> SUFFICES ASSUME Init PROVE PathInv
  OBVIOUS
<1>1. \A r \in Runs : path[r] = <<>> /\ pc[r] = "idle"
  BY DEF Init
<1>2. \A r \in Runs : PlaceOK(r)
  BY <1>1 DEF PlaceOK, InStep
<1>3. \A r \in Runs : PathOK(r)
  BY <1>1 DEF PathOK
<1> QED BY <1>2, <1>3 DEF PathInv

\* The path that led a run here is one of registered transitions (Execute).
LEMMA PathInvariant == Spec => []PathInv
BY InitPath, NextPath, TypeInvariant, PTL DEF Spec

\* A run only ever walks along registered transitions, starting at the first
\* step, for any graph, any number of runs and whatever activities and
\* corrections write to the Activity field (Execute, getNextActivity).
THEOREM PathTheorem == Spec => []PathFollowsTransitions
<1>1. PathInv => PathFollowsTransitions
  BY DEF PathInv, PathOK, PathFollowsTransitions
<1> QED
  BY <1>1, PathInvariant, PTL

-----------------------------------------------------------------------------
(* The correction budget                                                   *)

AtGate(q) == pc[q] \in {"parked", "ready", "running", "approving"} /\ Gated(currActivity[q])

\* A gated step has its defaults, so no later visit changes its budget; an
\* error is on its way out.
BudgetOK(q) ==
    /\ AtGate(q) => Opts(q).MaxCorrectionAttempts # 0
    /\ AtGate(q) /\ pc[q] # "approving" => correctionCount[q] <= Opts(q).MaxCorrectionAttempts
    /\ err[q] # "nil" => pc[q] \in {"failing", "done"}
    /\ err[q] = "exhausted" =>
          /\ currActivity[q] \in DOMAIN activity
          /\ Opts(q).MaxCorrectionAttempts # 0
          /\ correctionCount[q] = Opts(q).MaxCorrectionAttempts + 1

BudgetInv == \A q \in Runs : BudgetOK(q)

\* A run that does not move keeps its budget, whoever fills in defaults.
LEMMA BudgetKept ==
    ASSUME TypeInv, GraphKept, NEW q \in Runs, BudgetOK(q),
           currActivity'[q] = currActivity[q], correctionCount'[q] = correctionCount[q],
           err'[q] = err[q], 
           pc'[q] = pc[q] \/ (err[q] = "nil" /\ pc'[q] \notin {"parked", "ready", "running", "approving"})
    PROVE  BudgetOK(q)'
<1>1. AtGate(q) => currActivity[q] \in DOMAIN activity
  BY DEF AtGate, TypeInv, ControlOK, Control, InStep
<1>2. ASSUME currActivity[q] \in DOMAIN activity
      PROVE  /\ Gated(currActivity[q])' <=> Gated(currActivity[q])
             /\ Opts(q).MaxCorrectionAttempts # 0 =>
                   Opts(q)'.MaxCorrectionAttempts = Opts(q).MaxCorrectionAttempts
  BY <1>2 DEF GraphKept, Gated, Opts, Info
<1>3. AtGate(q)' => AtGate(q) /\ currActivity[q] \in DOMAIN activity
  <2>1. pc[q] \in InStep => currActivity[q] \in DOMAIN activity
    BY DEF TypeInv, ControlOK, Control
  <2> QED BY <1>2, <2>1 DEF AtGate, InStep
<1>4. currActivity[q] \in DOMAIN activity => currActivity'[q] \in DOMAIN activity'
  BY DEF GraphKept
<1> QED
  BY <1>2, <1>3, <1>4 DEF BudgetOK, AtGate

\* Every step of a run keeps the budgets exact.
LEMMA StepBudget ==
    ASSUME TypeInv, BudgetInv, NEW r \in Runs, Operate(r) \/ Step(r) \/ Outcome(r)
    PROVE  BudgetInv'
<1> USE DEF shared, control, queues
<1>1. GraphKept
  BY StepKeepsGraph
<1>2. ASSUME NEW q \in Runs \ {r} PROVE BudgetOK(q)'
  <2>1. /\ pc'[q] = pc[q] /\ correctionCount'[q] = correctionCount[q]
        /\ currActivity'[q] = currActivity[q] /\ err'[q] = err[q]
    BY OthersKept DEF Local
  <2> QED
    BY <1>1, <2>1, BudgetKept DEF BudgetInv
<1> SUFFICES BudgetOK(r)'
  BY <1>2 DEF BudgetInv
<1>3. BudgetOK(r)
  BY DEF BudgetInv
<1>4. /\ pc \in [Runs -> PCs] /\ currActivity \in [Runs -> DOMAIN activity \cup {NoName}]
      /\ correctionCount \in [Runs -> Nat] /\ err \in [Runs -> Errors]
  BY DEF TypeInv, TypeOK
<1>5. \A n \in DOMAIN activity : activity[n].Resumable.MaxCorrectionAttempts \in Nat
  BY DEF TypeInv, TypeOK, ActivityExecutionInfo, ResumableOptions
<1>6. CASE /\ currActivity'[r] = currActivity[r] /\ correctionCount'[r] = correctionCount[r]
           /\ err'[r] = err[r]
           /\ \/ pc'[r] = pc[r]
              \/ /\ pc[r] \notin {"failing", "done"}
                 /\ pc'[r] \notin {"parked", "ready", "running", "approving"}
  BY <1>1, <1>3, <1>6, BudgetKept DEF BudgetOK
<1>7. CASE /\ pc[r] \notin {"failing", "done"} /\ pc'[r] \notin {"parked", "ready", "running", "approving"}
           /\ err'[r] = "nil" \/ (err'[r] # "exhausted" /\ pc'[r] \in {"failing", "done"})
  BY <1>7 DEF BudgetOK, AtGate
<1>8. CASE /\ pc[r] \in {"parked", "ready", "running"}
           /\ pc'[r] \in {"ready", "running", "approving"}
           /\ currActivity'[r] = currActivity[r] /\ correctionCount'[r] = correctionCount[r]
           /\ err'[r] = err[r]
  <2>1. currActivity[r] \in DOMAIN activity
    BY <1>8 DEF TypeInv, ControlOK, Control, InStep
  <2> QED
    BY <1>1, <1>3, <1>8, <2>1 DEF BudgetOK, AtGate, GraphKept, Gated, Opts, Info
<1>9. CASE EnterFailFast(r) \/ EnterPlaceholder(r)
  <2>1. /\ pc[r] = "next" /\ pc'[r] \in {"running", "panicked"} /\ currActivity'[r] = currActivity[r]
        /\ err'[r] = err[r] /\ ~Gated(currActivity[r]) /\ currActivity[r] \in DOMAIN activity
    BY <1>4, <1>9 DEF EnterFailFast, EnterPlaceholder, Enter, Goto
  <2>2. ~Gated(currActivity[r])'
    BY <1>1, <2>1 DEF GraphKept, Gated
  <2> QED
    BY <1>3, <2>1, <2>2 DEF BudgetOK, AtGate
<1>10. CASE EnterResumable(r)
  <2>1. /\ pc[r] = "next" /\ currActivity'[r] = currActivity[r] /\ err'[r] = err[r]
        /\ correctionCount'[r] = 0 /\ pc'[r] = "parked" /\ currActivity[r] \in DOMAIN activity
    BY <1>4, <1>10 DEF EnterResumable, Enter, Goto
  <2>2. Opts(r)' = GateOptions(currActivity[r])
    <3>1. activity[currActivity[r]] \in ActivityExecutionInfo
      BY <2>1 DEF TypeInv, TypeOK
    <3> QED
      BY <1>10, <2>1, <3>1 DEF EnterResumable, Opts, Info, ActivityExecutionInfo
  <2>3. GateOptions(currActivity[r]).MaxCorrectionAttempts \in Nat \ {0}
    BY <2>1, GateOptionsType DEF TypeInv, ResumableOptions
  <2> QED
    BY <1>3, <2>1, <2>2, <2>3 DEF BudgetOK
<1>11. CASE ResumableFails(r)
  <2>1. /\ pc[r] = "running" /\ Gated(currActivity[r]) /\ currActivity[r] \in DOMAIN activity
        /\ currActivity'[r] = currActivity[r] /\ correctionCount'[r] = correctionCount[r] + 1
        /\ activity' = activity
    BY <1>4, <1>11 DEF ResumableFails, TypeInv, ControlOK, Control, InStep
  <2>2. /\ Opts(r)' = Opts(r) /\ Opts(r).MaxCorrectionAttempts \in Nat \ {0}
        /\ correctionCount[r] <= Opts(r).MaxCorrectionAttempts /\ err[r] = "nil"
    BY <1>3, <1>5, <2>1 DEF BudgetOK, AtGate, Opts, Info
  <2>3. CASE Exhausted(r)
    <3>1. pc'[r] = "failing" /\ err'[r] = "exhausted"
      BY <1>4, <1>11, <2>3 DEF ResumableFails, Return, Goto
    <3>2. correctionCount'[r] = Opts(r).MaxCorrectionAttempts + 1
      BY <1>4, <2>1, <2>2, <2>3 DEF Exhausted
    <3> QED
      BY <2>1, <2>2, <3>1, <3>2 DEF BudgetOK, AtGate
  <2>4. CASE ~Exhausted(r)
    <3>1. pc'[r] = "parked" /\ err'[r] = "nil"
      BY <1>4, <1>11, <2>2, <2>4 DEF ResumableFails, Goto
    <3>2. correctionCount'[r] <= Opts(r).MaxCorrectionAttempts
      BY <1>4, <2>1, <2>2, <2>4 DEF Exhausted
    <3> QED
      BY <2>2, <3>1, <3>2 DEF BudgetOK
  <2> QED BY <2>3, <2>4
<1>12. CASE Operate(r)
  <2>1. /\ currActivity'[r] = currActivity[r] /\ correctionCount'[r] = correctionCount[r]
        /\ err'[r] = err[r]
        /\ pc'[r] = pc[r] \/ (pc[r] = "idle" /\ pc'[r] = "started")
    BY <1>4, <1>12 DEF Operate, StartWorkflow, SignalWorkflow, CancelWorkflow, Goto
  <2> QED BY <1>6, <2>1
<1>13. CASE Execute(r) \/ ExecuteRefused(r) \/ LeaveLoop(r) \/ Advance(r)
  <2>1. err[r] = "nil" \/ pc[r] \in {"failing", "done"}
    BY <1>3 DEF BudgetOK
  <2> QED
    BY <1>4, <1>7, <1>13, <2>1 DEF Execute, ExecuteRefused, LeaveLoop, Advance, Goto
<1>14. CASE CorrectionRefused(r) \/ WaitTimeout(r) \/ WaitCanceled(r) \/ Reject(r)
            \/ ApprovalTimeout(r) \/ ApprovalCanceled(r) \/ FailFastFails(r)
  BY <1>4, <1>7, <1>14 DEF CorrectionRefused, WaitTimeout, WaitCanceled, WaitFails, Reject,
         ApprovalTimeout, ApprovalCanceled, FailFastFails, Return, Goto
<1>15. CASE ReceiveSignal(r) \/ StartResumable(r)
  BY <1>4, <1>8, <1>15 DEF ReceiveSignal, StartResumable, Goto
<1>16. CASE CorruptApproval(r) \/ Approve(r)
  BY <1>4, <1>6, <1>16 DEF CorruptApproval, Approve, Goto
<1>17. CASE ActivitySucceeds(r)
  BY <1>4, <1>6, <1>8, <1>17 DEF ActivitySucceeds, Goto
<1>18. CASE FailExit(r) \/ CompleteExit(r)
  <2>1. /\ currActivity'[r] = currActivity[r] /\ correctionCount'[r] = correctionCount[r]
        /\ err'[r] = err[r] /\ pc'[r] = "done" /\ activity' = activity
    BY <1>4, <1>18 DEF FailExit, CompleteExit, Exit, Goto
  <2> QED
    BY <1>3, <2>1 DEF BudgetOK, AtGate, Opts, Info
<1> QED
  BY <1>9, <1>10, <1>11, <1>12, <1>13, <1>14, <1>15, <1>16, <1>17, <1>18 DEF Step, Outcome

\* BudgetInv, with the type invariant, is inductive.
LEMMA NextBudget == TypeInv /\ BudgetInv /\ [Next]_vars => BudgetInv'
<1> SUFFICES ASSUME TypeInv, BudgetInv, [Next]_vars PROVE BudgetInv'
  OBVIOUS
<1>1. CASE UNCHANGED vars
  BY <1>1 DEF BudgetInv, BudgetOK, AtGate, Gated, Opts, Info, vars, shared, control
<1>2. CASE Configure
  <2>1. \A r \in Runs : pc'[r] = "idle" /\ err'[r] = "nil"
    BY <1>2, ConfigureIdle DEF Local
  <2> QED
    BY <2>1 DEF BudgetInv, BudgetOK, AtGate
<1>3. ASSUME NEW r \in Runs, Operate(r) \/ Step(r) \/ Outcome(r) PROVE BudgetInv'
  BY <1>3, StepBudget
<1> QED
  BY <1>1, <1>2, <1>3 DEF Next

\* No run is at a gate before it is started.
LEMMA InitBudget == Init => BudgetInv
BY DEF Init, BudgetInv, BudgetOK, AtGate

\* The budget invariant holds at every step (runResumableActivity).
LEMMA BudgetInvariant == Spec => []BudgetInv
BY InitBudget, NextBudget, TypeInvariant, PTL DEF Spec

-----------------------------------------------------------------------------
(* The executions of each visit                                            *)

MaxAt(q, i) == activity[path[q][i]].Resumable.MaxCorrectionAttempts

\* Executions of the visit a run is at.
Here(q) == executed[q][Len(path[q])]

\* Every visit is within its budget, one to come had no execution, and at the
\* current one correctionCount is the number of executions that failed.
VisitOK(q) ==
    /\ Len(path[q]) <= MaxSteps
    /\ \A i \in 1 .. MaxSteps : i > Len(path[q]) => executed[q][i] = 0
    /\ \A i \in 1 .. Len(path[q]) : executed[q][i] <= MaxAt(q, i) + 1
    /\ pc[q] \in {"parked", "ready"} => Here(q) = correctionCount[q]
    /\ pc[q] = "running" /\ Gated(currActivity[q]) => Here(q) = correctionCount[q] + 1
    /\ err[q] = "exhausted" => Here(q) = correctionCount[q]

VisitInv == \A q \in Runs : VisitOK(q)

\* The types of what VisitOK is about.
LEMMA VisitTypes ==
    ASSUME TypeInv, NEW q \in Runs
    PROVE  /\ path[q] \in Seq(DOMAIN activity) /\ Len(path[q]) \in Nat
           /\ executed[q] \in [1 .. MaxSteps -> Nat] /\ correctionCount[q] \in Nat
           /\ \A i \in 1 .. Len(path[q]) : path[q][i] \in DOMAIN activity /\ MaxAt(q, i) \in Nat
<1>1. path[q] \in Seq(DOMAIN activity) /\ executed[q] \in [1 .. MaxSteps -> Nat]
      /\ correctionCount[q] \in Nat
  BY DEF TypeInv, TypeOK
<1>2. Len(path[q]) \in Nat /\ \A i \in 1 .. Len(path[q]) : path[q][i] \in DOMAIN activity
  BY <1>1, LenProperties, ElementOfSeq
<1>3. \A n \in DOMAIN activity : activity[n].Resumable.MaxCorrectionAttempts \in Nat
  BY DEF TypeInv, TypeOK, ActivityExecutionInfo, ResumableOptions
<1> QED BY <1>1, <1>2, <1>3 DEF MaxAt

\* Defaults never take away from the budget of a visit.
LEMMA BudgetGrows ==
    ASSUME TypeInv, TypeInv', GraphKept, NEW n \in DOMAIN activity
    PROVE  /\ activity[n].Resumable.MaxCorrectionAttempts \in Nat
           /\ activity'[n].Resumable.MaxCorrectionAttempts \in Nat
           /\ activity[n].Resumable.MaxCorrectionAttempts <= activity'[n].Resumable.MaxCorrectionAttempts
<1>1. activity[n].Resumable.MaxCorrectionAttempts \in Nat
  BY DEF TypeInv, TypeOK, ActivityExecutionInfo, ResumableOptions
<1>2. n \in DOMAIN activity'
  BY DEF GraphKept
<1>3. activity'[n].Resumable.MaxCorrectionAttempts \in Nat
  BY <1>2 DEF TypeInv, TypeOK, ActivityExecutionInfo, ResumableOptions
<1> QED BY <1>1, <1>3 DEF GraphKept

\* A run that keeps its path and its executions keeps every visit in budget;
\* what is left to show is what the counter says.
LEMMA VisitsKept ==
    ASSUME TypeInv, TypeInv', GraphKept, NEW q \in Runs, VisitOK(q),
           path'[q] = path[q], executed'[q] = executed[q],
           pc'[q] \in {"parked", "ready"} => Here(q) = correctionCount'[q],
           pc'[q] = "running" /\ Gated(currActivity[q])' => Here(q) = correctionCount'[q] + 1,
           err'[q] = "exhausted" => Here(q) = correctionCount'[q]
    PROVE  VisitOK(q)'
<1>1. ASSUME NEW i \in 1 .. Len(path[q]) PROVE executed[q][i] <= MaxAt(q, i)' + 1
  <2>1. /\ path[q][i] \in DOMAIN activity /\ Len(path[q]) <= MaxSteps /\ Len(path[q]) \in Nat
        /\ executed[q] \in [1 .. MaxSteps -> Nat] /\ executed[q][i] <= MaxAt(q, i) + 1
    BY VisitTypes DEF VisitOK
  <2>2. MaxAt(q, i) \in Nat /\ MaxAt(q, i)' \in Nat /\ MaxAt(q, i) <= MaxAt(q, i)'
    BY <2>1, BudgetGrows DEF MaxAt
  <2>3. executed[q][i] \in Nat
    BY <2>1, BoundsAssumption
  <2> QED BY <2>1, <2>2, <2>3
<1>2. Here(q)' = Here(q)
  BY DEF Here
<1> QED BY <1>1, <1>2 DEF VisitOK

\* A new visit starts without an execution.
LEMMA EnterVisit ==
    ASSUME TypeInv, TypeInv', GraphKept, NEW r \in Runs, VisitOK(r), Enter(r),
           pc'[r] \in {"parked", "running", "panicked"}, pc'[r] = "parked" => correctionCount'[r] = 0,
           pc'[r] = "running" => ~Gated(currActivity[r])', err[r] # "exhausted"
    PROVE  VisitOK(r)'
<1>1. PICK n : n = Len(path[r])
  OBVIOUS
<1>2. /\ path[r] \in Seq(DOMAIN activity) /\ n \in Nat /\ n < MaxSteps /\ currActivity[r] \in DOMAIN activity
      /\ path'[r] = Append(path[r], currActivity[r]) /\ err'[r] = err[r] /\ executed' = executed
  BY <1>1, VisitTypes DEF Enter, queues, TypeInv, TypeOK
<1>3. /\ Len(path'[r]) = n + 1 /\ path'[r][n + 1] = currActivity[r]
      /\ \A i \in 1 .. n : path'[r][i] = path[r][i] /\ path[r][i] \in DOMAIN activity
  BY <1>1, <1>2, AppendProperties, VisitTypes
<1>4. executed[r] \in [1 .. MaxSteps -> Nat] /\ \A i \in 1 .. MaxSteps : i > n => executed[r][i] = 0
  BY <1>1, VisitTypes DEF VisitOK
<1>5. Here(r)' = 0
  BY <1>2, <1>3, <1>4, BoundsAssumption DEF Here
<1>6. ASSUME NEW i \in 1 .. n + 1 PROVE executed[r][i] <= MaxAt(r, i)' + 1
  <2>1. CASE i = n + 1
    <3>1. executed[r][i] = 0
      BY <1>2, <1>4, <2>1, BoundsAssumption
    <3>2. MaxAt(r, i)' \in Nat
      BY <1>2, <1>3, <2>1, BudgetGrows DEF MaxAt
    <3> QED BY <3>1, <3>2
  <2>2. CASE i \in 1 .. n
    <3>1. executed[r][i] <= MaxAt(r, i) + 1
      BY <1>1, <2>2 DEF VisitOK
    <3>2. MaxAt(r, i) \in Nat /\ MaxAt(r, i)' \in Nat /\ MaxAt(r, i) <= MaxAt(r, i)'
      BY <1>3, <2>2, BudgetGrows DEF MaxAt
    <3>3. executed[r][i] \in Nat
      BY <1>2, <1>4, <2>2, BoundsAssumption
    <3> QED BY <3>1, <3>2, <3>3
  <2> QED BY <1>2, <2>1, <2>2
<1>7. \A i \in 1 .. MaxSteps : i > n + 1 => executed[r][i] = 0
  BY <1>2, <1>4
<1>8. n + 1 <= MaxSteps
  BY <1>2, BoundsAssumption
<1> QED BY <1>2, <1>3, <1>5, <1>6, <1>7, <1>8 DEF VisitOK

\* An execution starts only while the counter leaves room for one.
LEMMA StartVisit ==
    ASSUME TypeInv, NEW r \in Runs, PlaceOK(r), BudgetOK(r), VisitOK(r), StartResumable(r)
    PROVE  VisitOK(r)'
<1>1. PICK n : n = Len(path[r])
  OBVIOUS
<1>2. /\ pc[r] = "ready" /\ pc'[r] = "running" /\ err'[r] = err[r] /\ path' = path
      /\ correctionCount' = correctionCount /\ activity' = activity
      /\ executed' = [executed EXCEPT ![r][n] = @ + 1]
  BY <1>1 DEF StartResumable, Goto, TypeInv, TypeOK
<1>3. /\ path[r] # <<>> /\ LastStep(r) = currActivity[r] /\ Gated(currActivity[r])
  BY <1>2 DEF PlaceOK, InStep, TypeInv, ControlOK, Control
<1>4. /\ n \in 1 .. MaxSteps /\ n \in Nat /\ executed[r] \in [1 .. MaxSteps -> Nat]
      /\ correctionCount[r] \in Nat
  <2>1. path[r] \in Seq(DOMAIN activity) /\ n \in Nat /\ n <= MaxSteps
    BY <1>1, VisitTypes DEF VisitOK
  <2>2. n # 0
    BY <1>1, <1>3, <2>1, EmptySeq
  <2> QED BY <2>1, <2>2, VisitTypes, BoundsAssumption
<1>5. \A i \in 1 .. MaxSteps : executed'[r][i] = IF i = n THEN executed[r][i] + 1 ELSE executed[r][i]
  <2>1. executed \in [Runs -> [1 .. MaxSteps -> Nat]]
    BY DEF TypeInv, TypeOK
  <2> QED BY <1>2, <2>1, CountVisit
<1>6. executed[r][n] = correctionCount[r] /\ err[r] # "exhausted"
  BY <1>1, <1>2 DEF VisitOK, Here, BudgetOK
<1>7. /\ MaxAt(r, n) \in Nat /\ correctionCount[r] <= MaxAt(r, n)
  <2>1. MaxAt(r, n) = Opts(r).MaxCorrectionAttempts
    BY <1>1, <1>3 DEF MaxAt, LastStep, Opts, Info
  <2>2. correctionCount[r] <= Opts(r).MaxCorrectionAttempts
    BY <1>2, <1>3 DEF BudgetOK, AtGate
  <2>3. n \in 1 .. Len(path[r])
    BY <1>1, <1>4
  <2> QED BY <2>1, <2>2, <2>3, VisitTypes
<1>8. ASSUME NEW i \in 1 .. n PROVE executed'[r][i] <= MaxAt(r, i) + 1
  <2>1. i \in 1 .. MaxSteps /\ executed[r][i] <= MaxAt(r, i) + 1
    BY <1>1, <1>4, BoundsAssumption DEF VisitOK
  <2> QED BY <1>4, <1>5, <1>6, <1>7, <2>1
<1>9. ASSUME NEW i \in 1 .. MaxSteps, i > n PROVE executed'[r][i] = 0
  BY <1>1, <1>4, <1>5, <1>9 DEF VisitOK
<1>10. Here(r)' = correctionCount[r] + 1
  BY <1>1, <1>2, <1>4, <1>5, <1>6 DEF Here
<1>11. \A i \in 1 .. n : MaxAt(r, i)' = MaxAt(r, i)
  BY <1>2 DEF MaxAt
<1> QED
  BY <1>1, <1>2, <1>6, <1>8, <1>9, <1>10, <1>11 DEF VisitOK

\* Every step of a run keeps every visit of every run in budget.
LEMMA StepVisit ==
    ASSUME TypeInv, TypeInv', PathInv, BudgetInv, VisitInv,
           NEW r \in Runs, Operate(r) \/ Step(r) \/ Outcome(r)
    PROVE  VisitInv'
<1> USE DEF shared, control, queues
<1>1. GraphKept
  BY StepKeepsGraph
<1>2. ASSUME NEW q \in Runs \ {r} PROVE VisitOK(q)'
  <2>1. /\ pc'[q] = pc[q] /\ currActivity'[q] = currActivity[q] /\ path'[q] = path[q]
        /\ correctionCount'[q] = correctionCount[q] /\ err'[q] = err[q] /\ executed'[q] = executed[q]
    BY OthersKept DEF Local
  <2>2. VisitOK(q)
    BY DEF VisitInv
  <2>3. pc[q] = "running" /\ Gated(currActivity[q])' => Gated(currActivity[q])
    BY <1>1, <2>1 DEF GraphKept, Gated, TypeInv, ControlOK, Control, InStep
  <2> QED BY <1>1, <2>1, <2>2, <2>3, VisitsKept DEF VisitOK
<1> SUFFICES VisitOK(r)'
  BY <1>2 DEF VisitInv
<1>3. VisitOK(r) /\ BudgetOK(r) /\ PlaceOK(r)
  BY DEF VisitInv, BudgetInv, PathInv
<1>4. /\ pc \in [Runs -> PCs] /\ err \in [Runs -> Errors] /\ correctionCount \in [Runs -> Nat]
  BY DEF TypeInv, TypeOK
<1>5. CASE EnterFailFast(r) \/ EnterPlaceholder(r) \/ EnterResumable(r)
  <2>1. Enter(r) /\ pc[r] = "next" /\ err[r] # "exhausted"
    BY <1>3, <1>5 DEF EnterFailFast, EnterPlaceholder, EnterResumable, Enter, BudgetOK
  <2>2. CASE EnterResumable(r)
    <3>1. pc'[r] = "parked" /\ correctionCount'[r] = 0
      BY <1>4, <2>2 DEF EnterResumable, Goto
    <3> QED BY <1>1, <1>3, <2>1, <3>1, EnterVisit
  <2>3. CASE EnterFailFast(r) \/ EnterPlaceholder(r)
    <3>1. pc'[r] \in {"running", "panicked"} /\ ~Gated(currActivity[r])'
      BY <1>4, <2>3 DEF EnterFailFast, EnterPlaceholder, Enter, Goto, Gated
    <3> QED BY <1>1, <1>3, <2>1, <3>1, EnterVisit
  <2> QED BY <1>5, <2>2, <2>3
<1>6. CASE StartResumable(r)
  BY <1>3, <1>6, StartVisit
<1>7. CASE ResumableFails(r)
  <2>1. /\ path'[r] = path[r] /\ executed'[r] = executed[r] /\ Here(r) = correctionCount[r] + 1
        /\ correctionCount'[r] = correctionCount[r] + 1 /\ pc'[r] # "running"
    BY <1>3, <1>4, <1>7 DEF ResumableFails, Return, Goto, VisitOK
  <2> QED BY <1>1, <1>3, <2>1, VisitsKept
<1>8. ASSUME path'[r] = path[r], executed'[r] = executed[r],
             pc'[r] \in {"parked", "ready"} => pc[r] \in {"parked", "ready"},
             pc'[r] = "running" => pc[r] = "running" /\ currActivity'[r] = currActivity[r],
             correctionCount'[r] = correctionCount[r], err'[r] \in {err[r]} \cup (Errors \ {"exhausted"})
      PROVE  VisitOK(r)'
  <2>1. pc[r] = "running" /\ pc'[r] = "running" /\ Gated(currActivity[r])' => Gated(currActivity[r])
    BY <1>1, <1>8 DEF GraphKept, Gated, TypeInv, ControlOK, Control, InStep
  <2> QED BY <1>1, <1>3, <1>8, <2>1, VisitsKept DEF VisitOK, Errors
<1>9. CASE Operate(r)
  BY <1>4, <1>8, <1>9 DEF Operate, StartWorkflow, SignalWorkflow, CancelWorkflow, Goto
<1>10. CASE Execute(r) \/ ExecuteRefused(r) \/ LeaveLoop(r) \/ Advance(r) \/ FailExit(r) \/ CompleteExit(r)
  BY <1>4, <1>8, <1>10 DEF Execute, ExecuteRefused, LeaveLoop, Advance, FailExit, CompleteExit, Exit,
         Goto, Errors
<1>11. CASE ReceiveSignal(r) \/ CorrectionRefused(r) \/ WaitTimeout(r) \/ WaitCanceled(r)
            \/ FailFastFails(r) \/ ActivitySucceeds(r)
  BY <1>4, <1>8, <1>11 DEF ReceiveSignal, CorrectionRefused, WaitTimeout, WaitCanceled, WaitFails,
         FailFastFails, ActivitySucceeds, Return, Goto, Errors
<1>12. CASE CorruptApproval(r) \/ Approve(r) \/ Reject(r) \/ ApprovalTimeout(r) \/ ApprovalCanceled(r)
  BY <1>4, <1>8, <1>12 DEF CorruptApproval, Approve, Reject, ApprovalTimeout, ApprovalCanceled,
         Return, Goto, Errors
<1> QED
  BY <1>5, <1>6, <1>7, <1>9, <1>10, <1>11, <1>12 DEF Step, Outcome

\* VisitInv, with the path and the budget, is inductive.
LEMMA NextVisit ==
    TypeInv /\ TypeInv' /\ PathInv /\ BudgetInv /\ VisitInv /\ [Next]_vars => VisitInv'
<1> SUFFICES ASSUME TypeInv, TypeInv', PathInv, BudgetInv, VisitInv, [Next]_vars PROVE VisitInv'
  OBVIOUS
<1>1. CASE UNCHANGED vars
  BY <1>1 DEF VisitInv, VisitOK, Here, MaxAt, Gated, vars, shared, control, queues
<1>2. CASE Configure
  <2> SUFFICES ASSUME NEW q \in Runs PROVE VisitOK(q)'
    BY DEF VisitInv
  <2>1. /\ pc'[q] = "idle" /\ err'[q] = "nil" /\ path'[q] = <<>> /\ path[q] = <<>>
        /\ executed'[q] = executed[q]
    BY <1>2, ConfigureIdle DEF Local
  <2>2. Len(<<>>) = 0 /\ \A i \in 1 .. MaxSteps : i > Len(path[q]) => executed[q][i] = 0
    BY DEF VisitInv, VisitOK
  <2> QED BY <2>1, <2>2, BoundsAssumption DEF VisitOK
<1>3. ASSUME NEW r \in Runs, Operate(r) \/ Step(r) \/ Outcome(r) PROVE VisitInv'
  BY <1>3, StepVisit
<1> QED BY <1>1, <1>2, <1>3 DEF Next

\* No visit has been executed before a run is started.
LEMMA InitVisit == Init => VisitInv
<1> SUFFICES ASSUME Init, NEW q \in Runs PROVE VisitOK(q)
  BY DEF VisitInv
<1>1. /\ pc[q] = "idle" /\ err[q] = "nil" /\ Len(path[q]) = 0
      /\ \A i \in 1 .. MaxSteps : executed[q][i] = 0
  BY DEF Init
<1> QED BY <1>1, BoundsAssumption DEF VisitOK

\* What the counters of a visit say of its executions.
LEMMA VisitBudget ==
    ASSUME TypeInv, BudgetInv, VisitInv
    PROVE  ExecutionBudget
<1> SUFFICES ASSUME NEW q \in Runs
             PROVE  /\ \A i \in DOMAIN path[q] : executed[q][i] <= MaxAt(q, i) + 1
                    /\ pc[q] \in {"parked", "ready"} => Here(q) <= Opts(q).MaxCorrectionAttempts
                    /\ err[q] = "exhausted" => Here(q) = Opts(q).MaxCorrectionAttempts + 1
  BY DEF ExecutionBudget, MaxAt, Here
<1>1. DOMAIN path[q] = 1 .. Len(path[q])
  BY VisitTypes, LenProperties
<1>2. pc[q] \in {"parked", "ready"} => AtGate(q)
  BY DEF AtGate, TypeInv, ControlOK, Control
<1> QED BY <1>1, <1>2 DEF VisitInv, VisitOK, BudgetInv, BudgetOK

\* No visit to a gated step, of any run, in any graph, is executed more often
\* than its MaxCorrectionAttempts allow, and none is given up before; visits
\* of other runs and defaults filled in meanwhile change nothing about it.
THEOREM BudgetTheorem == Spec => []ExecutionBudget
<1>1. TypeInv /\ BudgetInv /\ VisitInv => ExecutionBudget
  BY VisitBudget
<1> QED
  BY <1>1, InitVisit, NextVisit, TypeInvariant, PathInvariant, BudgetInvariant, PTL DEF Spec

-----------------------------------------------------------------------------
(* What a signal buys                                                      *)

\* The run has a signal in hand, or returned because of one.
Holding(q) == pc[q] = "ready" \/ err[q] = "correction"

AccountOK(q, s) ==
    /\ taken[q][s] <= Len(sent[q][s])
    /\ spent[q][s] + Unspent(q, s) <= taken[q][s]
    /\ s \notin ApprovalSignals => taken[q][s] = spent[q][s] + Unspent(q, s)

SignalInv ==
    \A q \in Runs : /\ Holding(q) => currActivity[q] \in DOMAIN activity
                    /\ \A s \in Signals : AccountOK(q, s)

\* Filling in defaults changes no approval signal.
LEMMA ApprovalSignalsKept == GraphKept => ApprovalSignals' = ApprovalSignals
<1> SUFFICES ASSUME GraphKept PROVE ApprovalSignals' = ApprovalSignals
  OBVIOUS
<1>1. ASSUME NEW x \in ApprovalSignals PROVE x \in ApprovalSignals'
  <2>1. PICK n \in DOMAIN activity : x = activity[n].Resumable.ApprovalSignal
    BY <1>1 DEF ApprovalSignals
  <2> QED BY <2>1 DEF GraphKept, ApprovalSignals
<1>2. ASSUME NEW x \in ApprovalSignals' PROVE x \in ApprovalSignals
  <2>1. PICK n \in DOMAIN activity' : x = activity'[n].Resumable.ApprovalSignal
    BY <1>2 DEF ApprovalSignals
  <2> QED BY <2>1 DEF GraphKept, ApprovalSignals
<1> QED
  BY <1>1, <1>2

\* The counters are numbers and the queues are sequences.
LEMMA Counters ==
    ASSUME TypeInv, NEW q \in Runs, NEW s \in Signals
    PROVE  /\ taken[q][s] \in Nat /\ spent[q][s] \in Nat
           /\ sent[q][s] \in Seq(Payloads) /\ Len(sent[q][s]) \in Nat
           /\ Unspent(q, s) \in {0, 1}
           /\ ~Holding(q) => Unspent(q, s) = 0
           /\ Holding(q) => Unspent(q, s) = IF GateSignal(q) = s THEN 1 ELSE 0
<1>1. taken[q][s] \in Nat /\ spent[q][s] \in Nat
  BY Entry DEF TypeInv, TypeOK
<1>2. sent[q][s] \in Seq(Payloads)
  BY Entry DEF TypeInv, TypeOK
<1>3. Len(sent[q][s]) \in Nat
  BY <1>2
<1> QED
  BY <1>1, <1>2, <1>3 DEF Unspent, Holding

\* A run that does not move keeps its accounts; a signal may arrive.
LEMMA AccountKept ==
    ASSUME TypeInv, GraphKept, NEW q \in Runs, NEW s \in Signals, AccountOK(q, s),
           Holding(q) => currActivity[q] \in DOMAIN activity,
           taken'[q] = taken[q], spent'[q] = spent[q],
           Len(sent'[q][s]) \in Nat, Len(sent[q][s]) <= Len(sent'[q][s]),
           Holding(q)' <=> Holding(q),
           Holding(q) => currActivity'[q] = currActivity[q]
    PROVE  AccountOK(q, s)'
<1>1. Holding(q) => GateSignal(q)' = GateSignal(q)
  BY DEF GateSignal, Info, GraphKept
<1>2. Unspent(q, s)' = Unspent(q, s)
  BY <1>1 DEF Unspent, Holding
<1>3. /\ taken[q][s] \in Nat /\ spent[q][s] \in Nat /\ Len(sent[q][s]) \in Nat
      /\ Unspent(q, s) \in {0, 1}
  BY Counters
<1>4. ApprovalSignals' = ApprovalSignals
  BY ApprovalSignalsKept
<1> QED
  BY <1>2, <1>3, <1>4 DEF AccountOK

\* The signals a run waits for.
LEMMA WaitSignals ==
    ASSUME TypeInv, NEW r \in Runs
    PROVE  /\ pc[r] \in {"parked", "ready"} => GateSignal(r) \in Signals
           /\ pc[r] = "approving" => ApprovalSignal(r) \in Signals \cap ApprovalSignals
           /\ pc[r] \in InStep => currActivity[r] \in DOMAIN activity
<1>1. /\ pc[r] \in {"parked", "ready"} => GateSignal(r) \in Signals
      /\ pc[r] = "approving" => ApprovalSignal(r) \in Signals
      /\ pc[r] \in InStep => currActivity[r] \in DOMAIN activity
  BY DEF TypeInv, TypeOK, ControlOK, Control, InStep, GateSignal, ApprovalSignal, Gated, Opts, Info,
         ActivityExecutionInfo, ResumableOptions
<1> QED
  BY <1>1 DEF ApprovalSignals, ApprovalSignal, Opts, Info, InStep

\* Every step of a run keeps the accounts of signals.
LEMMA StepSignal ==
    ASSUME TypeInv, TypeInv', BudgetInv, SignalInv, NEW r \in Runs,
           Operate(r) \/ Step(r) \/ Outcome(r)
    PROVE  SignalInv'
<1> USE DEF shared, control, queues
<1>1. GraphKept
  BY StepKeepsGraph
<1>2. ASSUME NEW q \in Runs \ {r}
      PROVE  /\ Holding(q)' => currActivity'[q] \in DOMAIN activity'
             /\ \A s \in Signals : AccountOK(q, s)'
  <2>1. /\ pc'[q] = pc[q] /\ err'[q] = err[q] /\ currActivity'[q] = currActivity[q]
        /\ sent'[q] = sent[q] /\ taken'[q] = taken[q] /\ spent'[q] = spent[q]
    BY OthersKept DEF Local
  <2>2. Holding(q)' <=> Holding(q)
    BY <2>1 DEF Holding
  <2>3. \A s \in Signals : Len(sent[q][s]) \in Nat
    BY Counters
  <2>4. Holding(q) => currActivity[q] \in DOMAIN activity
    BY DEF SignalInv
  <2>5. \A s \in Signals : AccountOK(q, s)
    BY DEF SignalInv
  <2>6. ASSUME NEW s \in Signals PROVE AccountOK(q, s)'
    BY <1>1, <2>1, <2>2, <2>3, <2>4, <2>5, AccountKept
  <2> QED
    BY <1>1, <2>1, <2>2, <2>4, <2>6 DEF GraphKept
<1> SUFFICES /\ Holding(r)' => currActivity'[r] \in DOMAIN activity'
             /\ \A s \in Signals : AccountOK(r, s)'
  BY <1>2 DEF SignalInv
<1>3. /\ Holding(r) => currActivity[r] \in DOMAIN activity
      /\ \A s \in Signals : AccountOK(r, s)
  BY DEF SignalInv
<1>4. /\ pc \in [Runs -> PCs] /\ currActivity \in [Runs -> DOMAIN activity \cup {NoName}]
      /\ err \in [Runs -> Errors]
      /\ taken \in [Runs -> [Signals -> Nat]] /\ spent \in [Runs -> [Signals -> Nat]]
  BY DEF TypeInv, TypeOK
<1>5. \A s \in Signals :
        /\ taken[r][s] \in Nat /\ spent[r][s] \in Nat /\ Len(sent[r][s]) \in Nat
        /\ ~Holding(r) => Unspent(r, s) = 0
        /\ Holding(r) => Unspent(r, s) = IF GateSignal(r) = s THEN 1 ELSE 0
  BY Counters
<1>6. \A s \in Signals :
        /\ ~Holding(r)' => Unspent(r, s)' = 0
        /\ Holding(r)' => Unspent(r, s)' = IF GateSignal(r)' = s THEN 1 ELSE 0
  BY DEF Unspent, Holding
<1>7. ApprovalSignals' = ApprovalSignals
  BY <1>1, ApprovalSignalsKept
<1>8. err[r] # "nil" => pc[r] \in {"failing", "done"}
  BY DEF BudgetInv, BudgetOK
<1>9. CASE /\ taken'[r] = taken[r] /\ spent'[r] = spent[r] /\ sent'[r] = sent[r]
           /\ ~Holding(r) /\ ~Holding(r)'
  BY <1>1, <1>3, <1>5, <1>9, AccountKept
<1>10. CASE \/ Execute(r) \/ ExecuteRefused(r) \/ EnterFailFast(r) \/ EnterPlaceholder(r) \/ EnterResumable(r)
            \/ LeaveLoop(r) \/ Advance(r) \/ CompleteExit(r)
  BY <1>4, <1>8, <1>9, <1>10 DEF Execute, ExecuteRefused, EnterFailFast, EnterPlaceholder, EnterResumable, Enter,
         LeaveLoop, Advance, CompleteExit, Exit, Goto, Holding
<1>11. CASE WaitTimeout(r) \/ WaitCanceled(r) \/ ApprovalTimeout(r) \/ ApprovalCanceled(r)
  BY <1>4, <1>8, <1>9, <1>11 DEF WaitTimeout, WaitCanceled, WaitFails, ApprovalTimeout,
         ApprovalCanceled, Return, Goto, Holding
<1>12. CASE Outcome(r)
  BY <1>4, <1>8, <1>9, <1>12 DEF Outcome, ActivitySucceeds, FailFastFails, ResumableFails,
         Return, Goto, Holding
<1>13. CASE FailExit(r)
  <2>1. /\ taken'[r] = taken[r] /\ spent'[r] = spent[r] /\ sent'[r] = sent[r]
        /\ currActivity'[r] = currActivity[r] /\ err'[r] = err[r]
        /\ pc[r] = "failing" /\ pc'[r] = "done"
    BY <1>4, <1>13 DEF FailExit, Exit, Goto
  <2>2. Holding(r)' <=> Holding(r)
    BY <2>1 DEF Holding
  <2>3. \A s \in Signals : AccountOK(r, s)'
    BY <1>1, <1>3, <1>5, <2>1, <2>2, AccountKept
  <2> QED BY <1>1, <1>3, <2>1, <2>2, <2>3 DEF GraphKept
<1>14. CASE Operate(r)
  <2>1. /\ taken'[r] = taken[r] /\ spent'[r] = spent[r] /\ currActivity'[r] = currActivity[r]
        /\ err'[r] = err[r] /\ (pc'[r] = pc[r] \/ (pc[r] = "idle" /\ pc'[r] = "started"))
    BY <1>4, <1>14 DEF Operate, StartWorkflow, SignalWorkflow, CancelWorkflow, Goto
  <2>2. Holding(r)' <=> Holding(r)
    BY <2>1 DEF Holding
  <2>3. \A s \in Signals : Len(sent'[r][s]) \in Nat /\ Len(sent[r][s]) <= Len(sent'[r][s])
    <3>1. CASE sent' = sent
      BY <1>5, <3>1
    <3>2. ASSUME NEW u \in Signals, NEW p \in Payloads, SignalWorkflow(r, u, p),
                 NEW s \in Signals
          PROVE  Len(sent'[r][s]) \in Nat /\ Len(sent[r][s]) <= Len(sent'[r][s])
      <4>1. sent \in [Runs -> [Signals -> Seq(Payloads)]]
        BY DEF TypeInv, TypeOK
      <4>2. sent'[r][s] = IF s = u THEN Append(sent[r][u], p) ELSE sent[r][s]
        BY <3>2, <4>1 DEF SignalWorkflow
      <4>3. sent[r][u] \in Seq(Payloads)
        BY <4>1, Entry
      <4>4. Len(Append(sent[r][u], p)) = Len(sent[r][u]) + 1
        BY <4>3
      <4> QED BY <1>5, <4>2, <4>4
    <3> QED
      BY <1>14, <3>1, <3>2 DEF Operate, StartWorkflow, CancelWorkflow
  <2>4. \A s \in Signals : AccountOK(r, s)'
    BY <1>1, <1>3, <2>1, <2>2, <2>3, AccountKept
  <2> QED BY <1>1, <1>3, <2>1, <2>2, <2>4 DEF GraphKept
<1>15. CASE ReceiveSignal(r) \/ CorrectionRefused(r)
  <2>1. /\ pc[r] = "parked" /\ taken[r][GateSignal(r)] < Len(sent[r][GateSignal(r)])
        /\ taken' = [taken EXCEPT ![r][GateSignal(r)] = @ + 1]
        /\ spent' = spent /\ sent' = sent /\ currActivity' = currActivity /\ activity' = activity
    BY <1>15 DEF ReceiveSignal, CorrectionRefused, Receive, Pending
  <2>2. Holding(r)' /\ ~Holding(r)
    BY <1>4, <1>8, <1>15, <2>1 DEF ReceiveSignal, CorrectionRefused, Return, Goto, Holding
  <2>3. GateSignal(r) \in Signals /\ currActivity[r] \in DOMAIN activity /\ GateSignal(r)' = GateSignal(r)
    BY <2>1, WaitSignals DEF InStep, GateSignal, Info
  <2>4. \A s \in Signals : taken'[r][s] = IF s = GateSignal(r) THEN taken[r][s] + 1 ELSE taken[r][s]
    BY <1>4, <2>1, <2>3, CountOne
  <2>5. ASSUME NEW s \in Signals PROVE AccountOK(r, s)'
    <3>1. Unspent(r, s) = 0 /\ Unspent(r, s)' = IF GateSignal(r) = s THEN 1 ELSE 0
      BY <1>5, <1>6, <2>2, <2>3
    <3> QED
      BY <1>3, <1>5, <1>7, <2>1, <2>4, <3>1 DEF AccountOK
  <2> QED BY <2>1, <2>3, <2>5
<1>16. CASE StartResumable(r)
  <2>1. /\ pc[r] = "ready" /\ taken' = taken /\ sent' = sent
        /\ spent' = [spent EXCEPT ![r][GateSignal(r)] = @ + 1]
    BY <1>16 DEF StartResumable
  <2>2. ~Holding(r)' /\ Holding(r)
    BY <1>4, <1>8, <1>16, <2>1 DEF StartResumable, Goto, Holding
  <2>3. GateSignal(r) \in Signals
    BY <2>1, WaitSignals
  <2>4. \A s \in Signals : spent'[r][s] = IF s = GateSignal(r) THEN spent[r][s] + 1 ELSE spent[r][s]
    BY <1>4, <2>1, <2>3, CountOne
  <2>5. ASSUME NEW s \in Signals PROVE AccountOK(r, s)'
    <3>1. Unspent(r, s)' = 0 /\ Unspent(r, s) = IF GateSignal(r) = s THEN 1 ELSE 0
      BY <1>5, <1>6, <2>2
    <3> QED
      BY <1>3, <1>5, <1>7, <2>1, <2>4, <3>1 DEF AccountOK
  <2> QED BY <2>2, <2>5
<1>17. CASE CorruptApproval(r) \/ Approve(r) \/ Reject(r)
  <2>1. /\ pc[r] = "approving" /\ taken[r][ApprovalSignal(r)] < Len(sent[r][ApprovalSignal(r)])
        /\ taken' = [taken EXCEPT ![r][ApprovalSignal(r)] = @ + 1] /\ sent' = sent
        /\ spent' = spent \/ spent' = [spent EXCEPT ![r][ApprovalSignal(r)] = @ + 1]
    BY <1>17 DEF CorruptApproval, Approve, Reject, Receive, Pending
  <2>2. ~Holding(r)' /\ ~Holding(r)
    BY <1>4, <1>8, <1>17, <2>1 DEF CorruptApproval, Approve, Reject, Return, Goto, Holding
  <2>3. ApprovalSignal(r) \in Signals /\ ApprovalSignal(r) \in ApprovalSignals
    BY <2>1, WaitSignals
  <2>4. \A s \in Signals :
          /\ taken'[r][s] = IF s = ApprovalSignal(r) THEN taken[r][s] + 1 ELSE taken[r][s]
          /\ \/ spent'[r][s] = spent[r][s]
             \/ s = ApprovalSignal(r) /\ spent'[r][s] = spent[r][s] + 1
    BY <1>4, <2>1, <2>3, CountOne
  <2>5. ASSUME NEW s \in Signals PROVE AccountOK(r, s)'
    <3>1. Unspent(r, s)' = 0 /\ Unspent(r, s) = 0
      BY <1>5, <1>6, <2>2
    <3> QED
      BY <1>3, <1>5, <1>7, <2>1, <2>3, <2>4, <3>1 DEF AccountOK
  <2> QED BY <2>2, <2>5
<1> QED
  BY <1>10, <1>11, <1>12, <1>13, <1>14, <1>15, <1>16, <1>17 DEF Step

\* SignalInv, with the invariants before it, is inductive.
LEMMA NextSignal == TypeInv /\ TypeInv' /\ BudgetInv /\ SignalInv /\ [Next]_vars => SignalInv'
<1> SUFFICES ASSUME TypeInv, TypeInv', BudgetInv, SignalInv, [Next]_vars PROVE SignalInv'
  OBVIOUS
<1>1. CASE UNCHANGED vars
  BY <1>1 DEF SignalInv, Holding, AccountOK, Unspent, ApprovalSignals, GateSignal, Info,
              vars, shared, control, queues
<1>2. CASE Configure
  <2>1. ASSUME NEW q \in Runs, NEW s \in Signals
        PROVE  /\ ~Holding(q)' /\ Unspent(q, s)' = 0 /\ taken'[q][s] = 0 /\ spent'[q][s] = 0
               /\ Len(sent'[q][s]) \in Nat
    <3>1. /\ pc'[q] = "idle" /\ err'[q] = "nil" /\ sent'[q] = sent[q]
          /\ taken'[q][s] = 0 /\ spent'[q][s] = 0
      BY <1>2, ConfigureIdle DEF Local
    <3>2. Len(sent[q][s]) \in Nat
      BY Counters
    <3> QED BY <3>1, <3>2 DEF Holding, Unspent
  <2>2. \A q \in Runs : ~Holding(q)'
    BY <1>2, ConfigureIdle DEF Local, Holding
  <2>3. \A q \in Runs, s \in Signals : AccountOK(q, s)'
    BY <2>1 DEF AccountOK
  <2> QED
    BY <2>2, <2>3 DEF SignalInv
<1>3. ASSUME NEW r \in Runs, Operate(r) \/ Step(r) \/ Outcome(r) PROVE SignalInv'
  BY <1>3, StepSignal
<1> QED
  BY <1>1, <1>2, <1>3 DEF Next

\* Nothing is received or spent before a run is started.
LEMMA InitSignal == Init => SignalInv
<1> SUFFICES ASSUME Init PROVE SignalInv
  OBVIOUS
<1>1. ASSUME NEW q \in Runs, NEW s \in Signals PROVE AccountOK(q, s)
  <2>1. /\ taken[q][s] = 0 /\ spent[q][s] = 0 /\ sent[q][s] = <<>>
        /\ pc[q] = "idle" /\ err[q] = "nil"
    BY DEF Init
  <2>2. Len(sent[q][s]) = 0
    BY <2>1
  <2> QED BY <2>1, <2>2 DEF AccountOK, Unspent
<1> QED BY <1>1 DEF SignalInv, Holding, Init

\* The account of the signals balances at every step (runResumableActivity).
LEMMA SignalInvariant == Spec => []SignalInv
BY InitSignal, NextSignal, TypeInvariant, BudgetInvariant, PTL DEF Spec

\* What the account says of the signals of a run.
LEMMA SignalAccount ==
    ASSUME TypeInv, SignalInv
    PROVE  EverySignalBuysOneRun
<1>1. ASSUME NEW q \in Runs, NEW s \in Signals
      PROVE  /\ spent[q][s] <= taken[q][s] /\ taken[q][s] <= Len(sent[q][s])
             /\ s \notin ApprovalSignals => taken[q][s] = spent[q][s] + Unspent(q, s)
  <2>1. AccountOK(q, s)
    BY DEF SignalInv
  <2>2. taken[q][s] \in Nat /\ spent[q][s] \in Nat /\ Unspent(q, s) \in {0, 1}
    BY Counters
  <2> QED BY <2>1, <2>2 DEF AccountOK
<1> QED BY <1>1 DEF EverySignalBuysOneRun

\* A signal buys at most one gated execution or approval, and a gate never
\* swallows one: for any number of signals, early, repeated or surplus, and
\* any steps and runs that share names (runResumableActivity).
THEOREM SignalTheorem == Spec => []EverySignalBuysOneRun
<1>1. TypeInv /\ SignalInv => EverySignalBuysOneRun
  BY SignalAccount
<1> QED
  BY <1>1, SignalInvariant, TypeInvariant, PTL

-----------------------------------------------------------------------------
(* Every step that is passed has its approval                              *)

\* The last entry of the run's path is behind it.
Past(q) == \/ pc[q] = "advance"
           \/ pc[q] \in {"next", "finishing", "done"} /\ err[q] = "nil"

\* The "true" answers received on s.
Trues(q, s) == {i \in 1 .. taken[q][s] : sent[q][s][i] = "true"}

GrantOK(q, s) == Cardinality(Approved(q, s)) <= Cardinality(Trues(q, s))

\* Only a gated step asks for an approval, and a run that fails has an error.
GrantInv ==
    /\ \A n \in DOMAIN activity : ~Gated(n) => activity[n].Resumable.ApprovalSignal = NoSignal
    /\ \A q \in Runs : pc[q] = "failing" => err[q] # "nil"
    /\ \A q \in Runs, s \in Signals : GrantOK(q, s)

SetsFinite ==
    \A q \in Runs, s \in Signals :
        /\ IsFiniteSet(Approved(q, s)) /\ Cardinality(Approved(q, s)) \in Nat
        /\ IsFiniteSet(Trues(q, s)) /\ Cardinality(Trues(q, s)) \in Nat

\* The two sets that are compared are finite.
LEMMA GrantSets == TypeInv => SetsFinite
<1> SUFFICES ASSUME TypeInv, NEW q \in Runs, NEW s \in Signals
             PROVE  /\ IsFiniteSet(Approved(q, s)) /\ Cardinality(Approved(q, s)) \in Nat
                    /\ IsFiniteSet(Trues(q, s)) /\ Cardinality(Trues(q, s)) \in Nat
  BY DEF SetsFinite
<1>1. path[q] \in Seq(DOMAIN activity)
  BY DEF TypeInv, TypeOK
<1>2. Len(path[q]) \in Nat /\ DOMAIN path[q] = 1 .. Len(path[q]) /\ taken[q][s] \in Nat
  BY <1>1, LenProperties, Counters
<1>3. \A n \in Nat : IsFiniteSet(1 .. n)
  <2> SUFFICES ASSUME NEW n \in Nat PROVE IsFiniteSet(1 .. n)
    OBVIOUS
  <2>1. 1 \in Int /\ n \in Int
    OBVIOUS
  <2> QED BY <2>1, FS_Interval
<1>4. Approved(q, s) \subseteq 1 .. Len(path[q]) /\ Trues(q, s) \subseteq 1 .. taken[q][s]
  BY <1>2 DEF Approved, Trues
<1>5. IsFiniteSet(Approved(q, s)) /\ IsFiniteSet(Trues(q, s))
  BY <1>2, <1>3, <1>4, FS_Subset
<1> QED BY <1>5, FS_CardinalityType

\* What is passed does not grow and what is granted does not shrink.
LEMMA GrantKept ==
    ASSUME TypeInv, TypeInv', NEW q \in Runs, NEW s \in Signals, GrantOK(q, s),
           Approved(q, s)' \subseteq Approved(q, s), Trues(q, s) \subseteq Trues(q, s)'
    PROVE  GrantOK(q, s)'
<1>1. /\ IsFiniteSet(Approved(q, s)) /\ Cardinality(Approved(q, s)) \in Nat
      /\ Cardinality(Trues(q, s)) \in Nat
  BY GrantSets DEF SetsFinite
<1>2. /\ IsFiniteSet(Trues(q, s)') /\ Cardinality(Trues(q, s)') \in Nat
      /\ Cardinality(Approved(q, s)') \in Nat
  <2>1. SetsFinite'
    BY GrantSets, PTL
  <2> QED BY <2>1 DEF SetsFinite
<1>3. Cardinality(Approved(q, s)') <= Cardinality(Approved(q, s))
  BY <1>1, FS_Subset
<1>4. Cardinality(Trues(q, s)) <= Cardinality(Trues(q, s)')
  BY <1>2, FS_Subset
<1> QED BY <1>1, <1>2, <1>3, <1>4 DEF GrantOK

\* A run that keeps its path, and has no more of it behind it.
LEMMA ApprovedKept ==
    ASSUME TypeInv, GraphKept, NEW q \in Runs, NEW s \in Signals, path'[q] = path[q],
           Past(q)' => \/ Past(q) \/ path[q] = <<>>
                       \/ activity[LastStep(q)].Resumable.ApprovalSignal # s
    PROVE  Approved(q, s)' \subseteq Approved(q, s)
<1> SUFFICES ASSUME NEW i \in Approved(q, s)' PROVE i \in Approved(q, s)
  OBVIOUS
<1>1. path[q] \in Seq(DOMAIN activity)
  BY DEF TypeInv, TypeOK
<1>2. /\ i \in DOMAIN path[q] /\ activity'[path[q][i]].Resumable.ApprovalSignal = s
      /\ i < Len(path[q]) \/ Past(q)'
  BY DEF Approved, Past
<1>3. i \in 1 .. Len(path[q]) /\ path[q][i] \in DOMAIN activity /\ Len(path[q]) \in Nat
  BY <1>1, <1>2, LenProperties, ElementOfSeq
<1>4. activity[path[q][i]].Resumable.ApprovalSignal = s
  BY <1>2, <1>3 DEF GraphKept
<1>5. i < Len(path[q]) \/ Past(q)
  <2>1. CASE i = Len(path[q])
    <3>1. path[q] # <<>>
      BY <1>2
    <3>2. activity[LastStep(q)].Resumable.ApprovalSignal = s
      BY <1>4, <2>1 DEF LastStep
    <3> QED BY <1>2, <1>3, <2>1, <3>1, <3>2
  <2> QED BY <1>3, <2>1
<1> QED BY <1>2, <1>4, <1>5 DEF Approved, Past

\* Received answers stay received.
LEMMA TruesKept ==
    ASSUME TypeInv, NEW q \in Runs, NEW s \in Signals,
           taken'[q][s] \in {taken[q][s], taken[q][s] + 1},
           \A i \in 1 .. taken[q][s] : sent'[q][s][i] = sent[q][s][i]
    PROVE  Trues(q, s) \subseteq Trues(q, s)'
<1>1. taken[q][s] \in Nat
  BY Counters
<1>2. 1 .. taken[q][s] \subseteq 1 .. taken'[q][s]
  BY <1>1
<1> QED BY <1>2 DEF Trues

\* The graph: only gated steps ask for approvals, also after a step.
LEMMA UngatedKept ==
    ASSUME GrantInv, GraphKept
    PROVE  (\A n \in DOMAIN activity : ~Gated(n) => activity[n].Resumable.ApprovalSignal = NoSignal)'
BY DEF GrantInv, GraphKept, Gated

\* Passing an approval is paid for by the answer received with it.
LEMMA ApproveGrant ==
    ASSUME TypeInv, TypeInv', GraphKept, NEW r \in Runs, PlaceOK(r), NEW s \in Signals,
           GrantOK(r, s), Approve(r)
    PROVE  GrantOK(r, s)'
<1> DEFINE sig == ApprovalSignal(r)
           n   == Len(path[r])
           k   == taken[r][s] + 1
<1>1. /\ pc[r] = "approving" /\ sig \in Signals
      /\ path[r] # <<>> /\ LastStep(r) = currActivity[r]
  BY WaitSignals DEF Approve, PlaceOK, InStep
<1>2. /\ path' = path /\ sent' = sent /\ taken' = [taken EXCEPT ![r][sig] = @ + 1]
      /\ sent[r][sig][taken[r][sig] + 1] = "true"
  BY DEF Approve, Receive, Approves, Oldest
<1>3. activity[LastStep(r)].Resumable.ApprovalSignal = sig
  BY <1>1 DEF ApprovalSignal, Opts, Info
<1> HIDE DEF sig
<1>4. taken \in [Runs -> [Signals -> Nat]] /\ taken[r][s] \in Nat
  BY Counters DEF TypeInv, TypeOK
<1>5. taken'[r][s] = IF s = sig THEN taken[r][s] + 1 ELSE taken[r][s]
  BY <1>1, <1>2, <1>4, CountOne
<1>6. Trues(r, s) \subseteq Trues(r, s)'
  BY <1>2, <1>5, TruesKept
<1>7. CASE s # sig
  <2>1. Approved(r, s)' \subseteq Approved(r, s)
    BY <1>2, <1>3, <1>7, ApprovedKept
  <2> QED BY <1>6, <2>1, GrantKept
<1>8. CASE s = sig
  <2>1. /\ IsFiniteSet(Approved(r, s)) /\ Cardinality(Approved(r, s)) \in Nat
        /\ IsFiniteSet(Trues(r, s)) /\ Cardinality(Trues(r, s)) \in Nat
    BY GrantSets DEF SetsFinite
  <2>2. path[r] \in Seq(DOMAIN activity)
    BY DEF TypeInv, TypeOK
  <2>3. Approved(r, s)' \subseteq Approved(r, s) \cup {n}
    <3> SUFFICES ASSUME NEW i \in Approved(r, s)', i # n PROVE i \in Approved(r, s)
      OBVIOUS
    <3>1. i \in DOMAIN path[r] /\ activity'[path[r][i]].Resumable.ApprovalSignal = s
      BY <1>2 DEF Approved
    <3>2. i \in 1 .. n /\ n \in Nat /\ path[r][i] \in DOMAIN activity
      BY <2>2, <3>1, LenProperties, ElementOfSeq
    <3>3. i < n
      BY <3>2
    <3>4. activity[path[r][i]].Resumable.ApprovalSignal = s
      BY <3>1, <3>2 DEF GraphKept
    <3> QED BY <3>1, <3>3, <3>4 DEF Approved
  <2> HIDE DEF n
  <2>4. Cardinality(Approved(r, s)') <= Cardinality(Approved(r, s)) + 1
    <3>1. /\ IsFiniteSet(Approved(r, s) \cup {n})
          /\ Cardinality(Approved(r, s) \cup {n}) \in {Cardinality(Approved(r, s)), Cardinality(Approved(r, s)) + 1}
      BY <2>1, FS_AddElement
    <3>2. /\ IsFiniteSet(Approved(r, s)')
          /\ Cardinality(Approved(r, s)') <= Cardinality(Approved(r, s) \cup {n})
      BY <2>3, <3>1, FS_Subset
    <3>3. Cardinality(Approved(r, s)') \in Nat
      BY <3>2, FS_CardinalityType
    <3> QED BY <2>1, <3>1, <3>2, <3>3
  <2>5. k \notin Trues(r, s) /\ Trues(r, s)' = Trues(r, s) \cup {k}
    <3>1. sent[r][s][k] = "true"
      BY <1>2, <1>8
    <3>2. k \notin 1 .. taken[r][s] /\ 1 .. taken'[r][s] = (1 .. taken[r][s]) \cup {k}
      BY <1>4, <1>5, <1>8
    <3> HIDE DEF k
    <3> QED BY <1>2, <3>1, <3>2 DEF Trues
  <2> HIDE DEF k
  <2>6. Cardinality(Trues(r, s)') = Cardinality(Trues(r, s)) + 1
    BY <2>1, <2>5, FS_AddElement
  <2>7. Cardinality(Approved(r, s)') \in Nat
    <3>1. SetsFinite'
      BY GrantSets, PTL
    <3> QED BY <3>1 DEF SetsFinite
  <2> QED BY <2>1, <2>4, <2>6, <2>7 DEF GrantOK
<1> QED BY <1>7, <1>8

\* Entering a step passes none: the step before was behind the run already.
LEMMA EnterApproved ==
    ASSUME TypeInv, GraphKept, NEW r \in Runs, NEW s \in Signals, Enter(r), err[r] = "nil", ~Past(r)'
    PROVE  Approved(r, s)' \subseteq Approved(r, s)
<1> SUFFICES ASSUME NEW i \in Approved(r, s)' PROVE i \in Approved(r, s)
  OBVIOUS
<1>1. path[r] \in Seq(DOMAIN activity) /\ currActivity[r] \in DOMAIN activity
  BY DEF TypeInv, TypeOK, Enter
<1>2. path'[r] = Append(path[r], currActivity[r]) /\ pc[r] = "next"
  BY DEF Enter, TypeInv, TypeOK
<1>3. /\ Len(path[r]) \in Nat /\ Len(path'[r]) = Len(path[r]) + 1
      /\ DOMAIN path'[r] = 1 .. Len(path[r]) + 1 /\ DOMAIN path[r] = 1 .. Len(path[r])
      /\ \A j \in 1 .. Len(path[r]) : path'[r][j] = path[r][j] /\ path[r][j] \in DOMAIN activity
  BY <1>1, <1>2, LenProperties, AppendProperties, ElementOfSeq
<1>4. /\ i \in DOMAIN path'[r] /\ activity'[path'[r][i]].Resumable.ApprovalSignal = s
      /\ i < Len(path'[r])
  BY DEF Approved, Past
<1>5. i \in 1 .. Len(path[r])
  BY <1>3, <1>4
<1>6. i \in DOMAIN path[r] /\ activity[path[r][i]].Resumable.ApprovalSignal = s
  BY <1>3, <1>4, <1>5 DEF GraphKept
<1>7. Past(r)
  BY <1>2 DEF Past
<1> QED BY <1>6, <1>7 DEF Approved, Past

\* Every step of a run keeps approvals paid for.
LEMMA StepGrant ==
    ASSUME TypeInv, TypeInv', PathInv, BudgetInv, SignalInv, GrantInv, NEW r \in Runs,
           Operate(r) \/ Step(r) \/ Outcome(r)
    PROVE  GrantInv'
<1> USE DEF shared, control, queues
<1>1. GraphKept
  BY StepKeepsGraph
<1>2. /\ pc \in [Runs -> PCs] /\ err \in [Runs -> Errors] /\ path \in [Runs -> Seq(DOMAIN activity)]
      /\ sent \in [Runs -> [Signals -> Seq(Payloads)]] /\ taken \in [Runs -> [Signals -> Nat]]
  BY DEF TypeInv, TypeOK
<1>3. /\ err[r] # "nil" => pc[r] \in {"failing", "done"}
      /\ pc[r] = "failing" => err[r] # "nil"
      /\ pc[r] = "started" => path[r] = <<>>
  BY DEF BudgetInv, BudgetOK, GrantInv, TypeInv, ControlOK, Control
<1>4. ASSUME NEW q \in Runs \ {r}
      PROVE  /\ pc'[q] = "failing" => err'[q] # "nil"
             /\ \A s \in Signals : GrantOK(q, s)'
  <2>1. /\ pc'[q] = pc[q] /\ err'[q] = err[q] /\ path'[q] = path[q]
        /\ sent'[q] = sent[q] /\ taken'[q] = taken[q]
    BY OthersKept DEF Local
  <2>2. Past(q)' => Past(q)
    BY <2>1 DEF Past
  <2>3. ASSUME NEW s \in Signals PROVE GrantOK(q, s)'
    <3>1. Approved(q, s)' \subseteq Approved(q, s)
      BY <1>1, <2>1, <2>2, ApprovedKept
    <3>2. Trues(q, s) \subseteq Trues(q, s)'
      BY <2>1, TruesKept
    <3> QED BY <3>1, <3>2, GrantKept DEF GrantInv
  <2> QED BY <2>1, <2>3 DEF GrantInv
<1> SUFFICES /\ pc'[r] = "failing" => err'[r] # "nil"
             /\ \A s \in Signals : GrantOK(r, s)'
  <2>1. (\A n \in DOMAIN activity : ~Gated(n) => activity[n].Resumable.ApprovalSignal = NoSignal)'
    BY <1>1, UngatedKept
  <2> QED BY <1>4, <2>1 DEF GrantInv
<1>5. ASSUME pc'[r] = "failing" PROVE err'[r] # "nil"
  <2>1. CASE Step(r) /\ ~(WaitTimeout(r) \/ WaitCanceled(r) \/ CorrectionRefused(r)
                          \/ Reject(r) \/ ApprovalTimeout(r) \/ ApprovalCanceled(r))
    BY <1>2, <1>3, <1>5, <2>1 DEF Step, Execute, ExecuteRefused, EnterFailFast, EnterPlaceholder, EnterResumable, Enter,
           LeaveLoop, ReceiveSignal, StartResumable, CorruptApproval, Approve, Advance, FailExit,
           CompleteExit, Exit, Goto
  <2>2. CASE \/ WaitTimeout(r) \/ WaitCanceled(r) \/ CorrectionRefused(r)
             \/ Reject(r) \/ ApprovalTimeout(r) \/ ApprovalCanceled(r)
    BY <1>2, <2>2 DEF WaitTimeout, WaitCanceled, WaitFails, CorrectionRefused, Reject,
           ApprovalTimeout, ApprovalCanceled, Return, Goto
  <2>3. CASE Operate(r)
    BY <1>2, <1>3, <1>5, <2>3 DEF Operate, StartWorkflow, SignalWorkflow, CancelWorkflow, Goto
  <2>4. CASE Outcome(r)
    BY <1>2, <1>5, <2>4 DEF Outcome, ActivitySucceeds, FailFastFails, ResumableFails, Return, Goto
  <2> QED BY <2>1, <2>2, <2>3, <2>4
<1>6. ASSUME NEW s \in Signals PROVE GrantOK(r, s) /\ PlaceOK(r) /\ PathOK(r)
  BY DEF GrantInv, PathInv
\* The answers received, for every step.
<1>7. ASSUME NEW s \in Signals PROVE Trues(r, s) \subseteq Trues(r, s)'
  <2>1. taken'[r][s] \in {taken[r][s], taken[r][s] + 1}
    <3>1. CASE ReceiveSignal(r) \/ CorrectionRefused(r)
      <4>1. GateSignal(r) \in Signals /\ taken' = [taken EXCEPT ![r][GateSignal(r)] = @ + 1]
        BY <3>1, WaitSignals DEF ReceiveSignal, CorrectionRefused, Receive
      <4> QED BY <1>2, <4>1, CountOne
    <3>2. CASE CorruptApproval(r) \/ Approve(r) \/ Reject(r)
      <4>1. ApprovalSignal(r) \in Signals /\ taken' = [taken EXCEPT ![r][ApprovalSignal(r)] = @ + 1]
        BY <3>2, WaitSignals DEF CorruptApproval, Approve, Reject, Receive
      <4> QED BY <1>2, <4>1, CountOne
    <3>3. CASE taken' = taken
      BY <3>3
    <3>4. Operate(r) \/ Outcome(r) => taken' = taken
      BY DEF Operate, StartWorkflow, SignalWorkflow, CancelWorkflow, Outcome, ActivitySucceeds,
             FailFastFails, ResumableFails
    <3>5. Step(r) => \/ ReceiveSignal(r) \/ CorrectionRefused(r) \/ taken' = taken
                     \/ CorruptApproval(r) \/ Approve(r) \/ Reject(r)
      BY DEF Step, Execute, ExecuteRefused, EnterFailFast, EnterPlaceholder, EnterResumable, Enter, LeaveLoop,
             WaitTimeout, WaitCanceled, WaitFails, StartResumable, ApprovalTimeout,
             ApprovalCanceled, Advance, FailExit, CompleteExit, Exit
    <3> QED BY <3>1, <3>2, <3>3, <3>4, <3>5
  <2>2. \A i \in 1 .. taken[r][s] : sent'[r][s][i] = sent[r][s][i]
    <3>1. CASE sent' = sent
      BY <3>1
    <3>2. ASSUME NEW u \in Signals, NEW p \in Payloads, SignalWorkflow(r, u, p),
                 NEW i \in 1 .. taken[r][s]
          PROVE  sent'[r][s][i] = sent[r][s][i]
      <4>1. sent'[r][s] = IF s = u THEN Append(sent[r][u], p) ELSE sent[r][s]
        BY <1>2, <3>2 DEF SignalWorkflow
      <4>2. sent[r][s] \in Seq(Payloads) /\ taken[r][s] \in Nat /\ Len(sent[r][s]) \in Nat
        BY Counters
      <4>3. taken[r][s] <= Len(sent[r][s])
        BY DEF SignalInv, AccountOK
      <4>4. i \in 1 .. Len(sent[r][s])
        BY <4>2, <4>3
      <4> QED BY <4>1, <4>2, <4>4, AppendProperties
    <3>3. Operate(r) => sent' = sent \/ \E u \in Signals, p \in Payloads : SignalWorkflow(r, u, p)
      BY DEF Operate, StartWorkflow, CancelWorkflow
    <3>4. Outcome(r) => sent' = sent
      BY DEF Outcome, ActivitySucceeds, FailFastFails, ResumableFails
    <3>5. Step(r) => sent' = sent
      BY DEF Step, Execute, ExecuteRefused, EnterFailFast, EnterPlaceholder, EnterResumable, Enter, LeaveLoop,
             ReceiveSignal, CorrectionRefused, WaitTimeout, WaitCanceled, WaitFails,
             StartResumable, CorruptApproval, Approve, Reject, ApprovalTimeout,
             ApprovalCanceled, Advance, FailExit, CompleteExit, Exit
    <3> QED BY <3>1, <3>2, <3>3, <3>4, <3>5
  <2> QED BY <2>1, <2>2, TruesKept
\* The steps passed, for every step but an approval.
<1>8. CASE Approve(r)
  BY <1>1, <1>5, <1>6, <1>8, ApproveGrant
<1>9. ASSUME NEW s \in Signals, ~Approve(r) PROVE Approved(r, s)' \subseteq Approved(r, s)
  <2>1. CASE EnterFailFast(r) \/ EnterPlaceholder(r) \/ EnterResumable(r)
    <3>1. Enter(r) /\ pc'[r] \in {"running", "panicked", "parked"} /\ err[r] = "nil"
      BY <1>2, <1>3, <2>1 DEF EnterFailFast, EnterPlaceholder, EnterResumable, Enter, Goto
    <3>2. ~Past(r)'
      BY <3>1 DEF Past
    <3> QED BY <1>1, <3>1, <3>2, EnterApproved
  <2>2. CASE path'[r] = path[r] /\ (Past(r)' => Past(r) \/ path[r] = <<>>)
    BY <1>1, <2>2, ApprovedKept
  <2>3. CASE ActivitySucceeds(r)
    <3>1. /\ path'[r] = path[r] /\ pc[r] = "running"
          /\ pc'[r] = "advance" => ~(Gated(currActivity[r]) /\ ApprovalSignal(r) # NoSignal)
          /\ pc'[r] \in {"advance", "approving"}
      BY <1>2, <2>3 DEF ActivitySucceeds, Goto
    <3>2. LastStep(r) = currActivity[r] /\ currActivity[r] \in DOMAIN activity
      BY <1>6, <3>1, WaitSignals DEF PlaceOK, InStep
    <3>3. pc'[r] = "advance" => activity[LastStep(r)].Resumable.ApprovalSignal # s
      BY <3>1, <3>2, SignalsAssumption DEF GrantInv, ApprovalSignal, Opts, Info
    <3>4. Past(r)' => pc'[r] = "advance"
      BY <3>1 DEF Past
    <3> QED BY <1>1, <3>1, <3>3, <3>4, ApprovedKept
  <2>4. CASE FailFastFails(r) \/ ResumableFails(r)
    BY <1>2, <2>2, <2>4 DEF FailFastFails, ResumableFails, Return, Goto, Past
  <2>5. CASE Operate(r)
    BY <1>2, <2>2, <2>5 DEF Operate, StartWorkflow, SignalWorkflow, CancelWorkflow, Goto, Past
  <2>6. CASE Execute(r) \/ ExecuteRefused(r) \/ LeaveLoop(r)
    BY <1>2, <1>3, <2>2, <2>6 DEF Execute, ExecuteRefused, LeaveLoop, Goto, Past
  <2>7. CASE ReceiveSignal(r) \/ CorrectionRefused(r) \/ WaitTimeout(r) \/ WaitCanceled(r) \/ StartResumable(r)
    BY <1>2, <2>2, <2>7 DEF ReceiveSignal, CorrectionRefused, WaitTimeout, WaitCanceled, WaitFails,
           StartResumable, Return, Goto, Past
  <2>8. CASE CorruptApproval(r) \/ Reject(r) \/ ApprovalTimeout(r) \/ ApprovalCanceled(r)
    BY <1>2, <2>2, <2>8 DEF CorruptApproval, Reject, ApprovalTimeout, ApprovalCanceled, Return, Goto, Past
  <2>9. CASE Advance(r) \/ FailExit(r) \/ CompleteExit(r)
    BY <1>2, <1>3, <2>2, <2>9 DEF Advance, FailExit, CompleteExit, Exit, Goto, Past
  <2> QED
    BY <1>9, <2>1, <2>3, <2>4, <2>5, <2>6, <2>7, <2>8, <2>9 DEF Step, Outcome
<1>10. CASE ~Approve(r)
  BY <1>5, <1>6, <1>7, <1>9, <1>10, GrantKept
<1> QED BY <1>8, <1>10

\* Registration: a gate comes with its options, a placeholder with none.
LEMMA ConfigureGrant ==
    ASSUME TypeInv, TypeInv', GrantInv, Configure
    PROVE  GrantInv'
<1>1. \A n \in DOMAIN activity' :
         ~Gated(n)' => activity'[n].Resumable.ApprovalSignal = NoSignal
  <2>1. ASSUME NEW t \in Transitions, AddTransitionActivityWithOptions(t), NEW n \in DOMAIN activity',
               activity'[n].SignalEvent = NoSignal
        PROVE  activity'[n].Resumable.ApprovalSignal = NoSignal
    <3>1. activity'[n] = IF n = t.activityName THEN NewInfo(t)
                         ELSE IF n \in DOMAIN activity THEN activity[n] ELSE Placeholder
      BY <2>1 DEF AddTransitionActivityWithOptions
    <3>2. NewInfo(t).SignalEvent = NoSignal => NewInfo(t).Resumable = ZeroResumable
      BY DEF NewInfo
    <3>3. /\ ZeroResumable.ApprovalSignal = NoSignal /\ Placeholder.Resumable = ZeroResumable
      BY DEF ZeroResumable, Placeholder
    <3> QED BY <2>1, <3>1, <3>2, <3>3 DEF GrantInv, Gated
  <2>2. ASSUME NEW m \in Names, NEW o \in Tunings, Tune(m, o), NEW n \in DOMAIN activity',
               activity'[n].SignalEvent = NoSignal
        PROVE  activity'[n].Resumable.ApprovalSignal = NoSignal
    <3>1. /\ m \in DOMAIN activity /\ activity[m].SignalEvent # NoSignal
          /\ activity' = [activity EXCEPT ![m].Resumable = o]
      BY <2>2 DEF Tune, Gated
    <3>2. activity[m] \in ActivityExecutionInfo
      BY <3>1 DEF TypeInv, TypeOK
    <3>3. n \in DOMAIN activity /\ (n # m => activity'[n] = activity[n])
      BY <3>1
    <3>4. activity'[m].SignalEvent = activity[m].SignalEvent
      BY <3>1, <3>2 DEF ActivityExecutionInfo
    <3> QED BY <2>2, <3>1, <3>3, <3>4 DEF GrantInv, Gated
  <2> QED BY <2>1, <2>2 DEF Configure, Gated
<1>2. ASSUME NEW q \in Runs
      PROVE  pc'[q] # "failing" /\ \A s \in Signals : GrantOK(q, s)'
  <2>1. /\ pc'[q] = "idle" /\ path'[q] = <<>>
    BY ConfigureIdle DEF Local
  <2>2. ASSUME NEW s \in Signals PROVE GrantOK(q, s)'
    <3>1. Approved(q, s)' = {}
      BY <2>1 DEF Approved
    <3>2. SetsFinite'
      BY GrantSets, PTL
    <3>3. Cardinality(Approved(q, s)') = 0 /\ Cardinality(Trues(q, s)') \in Nat
      BY <3>1, <3>2, FS_EmptySet DEF SetsFinite
    <3> QED BY <3>3 DEF GrantOK
  <2> QED BY <2>1, <2>2
<1> QED BY <1>1, <1>2 DEF GrantInv

\* GrantInv, with the invariants before it, is inductive.
LEMMA NextGrant ==
    TypeInv /\ TypeInv' /\ PathInv /\ BudgetInv /\ SignalInv /\ GrantInv /\ [Next]_vars => GrantInv'
<1> SUFFICES ASSUME TypeInv, TypeInv', PathInv, BudgetInv, SignalInv, GrantInv, [Next]_vars
             PROVE  GrantInv'
  OBVIOUS
<1>1. CASE UNCHANGED vars
  BY <1>1 DEF GrantInv, GrantOK, Gated, Approved, Trues, vars, shared, control, queues
<1>2. ASSUME NEW r \in Runs, Operate(r) \/ Step(r) \/ Outcome(r) PROVE GrantInv'
  BY <1>2, StepGrant
<1> QED
  BY <1>1, <1>2, ConfigureGrant DEF Next

\* Nothing is passed before a run is started.
LEMMA InitGrant == Init => GrantInv
<1> SUFFICES ASSUME Init PROVE GrantInv
  OBVIOUS
<1>1. ASSUME NEW q \in Runs, NEW s \in Signals PROVE GrantOK(q, s)
  <2>1. path[q] = <<>>
    BY DEF Init
  <2>2. Approved(q, s) = {}
    BY <2>1 DEF Approved
  <2>3. TypeInv
    BY InitType
  <2>4. Cardinality(Approved(q, s)) = 0 /\ Cardinality(Trues(q, s)) \in Nat
    BY <2>2, <2>3, GrantSets, FS_EmptySet DEF SetsFinite
  <2> QED BY <2>4 DEF GrantOK
<1> QED BY <1>1 DEF GrantInv, Init

\* No step that asks for an approval is passed without a "true" of its own,
\* for any graph, any answers and any number of runs (waitForApproval).
THEOREM ApprovalTheorem == Spec => []ApprovalsGranted
<1>1. GrantInv => ApprovalsGranted
  BY DEF GrantInv, GrantOK, Trues, ApprovalsGranted
<1> QED
  BY <1>1, InitGrant, NextGrant, PathInvariant, BudgetInvariant, SignalInvariant, TypeInvariant, PTL
     DEF Spec

-----------------------------------------------------------------------------
(* The status of a single run                                              *)

\* What the status may be between two steps, or in a fail-fast step.
Between == {StatusPending, StatusExecuting, StatusAwaitingApproval}

\* Where the run is determines its status, up to what the steps before left.
StatusAt(r, s) ==
    /\ pc[r] \in {"idle", "started"} => s = ""
    /\ pc[r] \in {"next", "advance", "finishing"} => s \in Between
    /\ pc[r] \in {"parked", "ready"} => s = StatusAwaitingCorrection
    /\ pc[r] = "running" =>
          IF Gated(currActivity[r]) THEN s = StatusExecuting ELSE s \in Between
    /\ pc[r] = "approving" => s = StatusAwaitingApproval
    /\ pc[r] = "failing" =>
          /\ err[r] \notin {"nil", "upsert"}
          /\ IF err[r] = "rejected" THEN s = StatusRejected
             ELSE s \in Between \cup {StatusAwaitingCorrection, StatusFailed}
    /\ pc[r] \notin {"failing", "done"} => err[r] = "nil"
    /\ pc[r] = "done" =>
          s = CASE err[r] = "nil"      -> StatusCompleted
                [] err[r] = "rejected" -> StatusRejected
                [] err[r] = "upsert"   -> StatusPending
                [] OTHER               -> StatusFailed

StatusOK(r) == StatusAt(r, status)

\* The status machine's step, over the two things it sees of the pipeline.
Moves(r) == \/ status' = status /\ (pc'[r] = "done" <=> pc[r] = "done")
            \/ /\ pc[r] # "done"
               /\ \/ status = "" /\ status' = "PENDING"
                  \/ /\ status \in {"PENDING", "EXECUTING", "AWAITING_APPROVAL"}
                     /\ status' = "AWAITING_CORRECTION" /\ pc'[r] # "done"
                  \/ status = "AWAITING_CORRECTION" /\ status' = "EXECUTING" /\ pc'[r] # "done"
                  \/ status = "EXECUTING" /\ status' = "AWAITING_APPROVAL" /\ pc'[r] # "done"
                  \/ status = "AWAITING_APPROVAL" /\ status' = "REJECTED" /\ pc'[r] # "done"
                  \/ /\ status \in {"PENDING", "EXECUTING", "AWAITING_CORRECTION", "AWAITING_APPROVAL"}
                     /\ status' = "FAILED"
                  \/ /\ status \in {"PENDING", "EXECUTING", "AWAITING_APPROVAL"}
                     /\ status' = "COMPLETED" /\ pc'[r] = "done"
                  \/ status \in {"FAILED", "REJECTED"} /\ status' = status /\ pc'[r] = "done"

\* Every step of the only run keeps its status right and moves it as the
\* status machine allows.
LEMMA StepStatus ==
    ASSUME TypeInv, NEW r \in Runs, StatusOK(r), Operate(r) \/ Step(r) \/ Outcome(r)
    PROVE  StatusOK(r)' /\ Moves(r)
<1> USE DEF shared, control, queues, StatusPending, StatusExecuting, StatusAwaitingCorrection,
            StatusAwaitingApproval, StatusFailed, StatusCompleted, StatusRejected, Between
<1>1. /\ pc \in [Runs -> PCs] /\ err \in [Runs -> Errors]
      /\ currActivity \in [Runs -> DOMAIN activity \cup {NoName}]
  BY DEF TypeInv, TypeOK
<1>2. CASE Operate(r)
  <2>1. /\ UNCHANGED <<activity, status, currActivity, err>>
        /\ pc' = pc \/ (pc[r] = "idle" /\ pc'[r] = "started")
    BY <1>1, <1>2 DEF Operate, StartWorkflow, SignalWorkflow, CancelWorkflow, Goto
  <2> QED
    BY <2>1 DEF StatusOK, StatusAt, Gated, Moves
<1>3. CASE Execute(r) \/ ExecuteRefused(r) \/ LeaveLoop(r)
  BY <1>1, <1>3 DEF Execute, ExecuteRefused, LeaveLoop, SetExecutionStatus, Goto, StatusOK, StatusAt, Moves
<1>4. CASE EnterFailFast(r) \/ EnterPlaceholder(r)
  BY <1>1, <1>4 DEF EnterFailFast, EnterPlaceholder, Enter, Goto, StatusOK, StatusAt, Gated, Moves
<1>5. CASE EnterResumable(r)
  BY <1>1, <1>5 DEF EnterResumable, Enter, SetExecutionStatus, Goto, StatusOK, StatusAt, Moves
<1>6. CASE ReceiveSignal(r) \/ CorrectionRefused(r)
  BY <1>1, <1>6 DEF ReceiveSignal, CorrectionRefused, Return, Goto, StatusOK, StatusAt, Moves
<1>7. CASE WaitTimeout(r) \/ WaitCanceled(r)
  BY <1>1, <1>7 DEF WaitTimeout, WaitCanceled, WaitFails, SetExecutionStatus, Return, Goto,
         StatusOK, StatusAt, Moves
<1>8. CASE StartResumable(r)
  <2>1. Gated(currActivity[r])
    BY <1>8 DEF StartResumable, TypeInv, ControlOK, Control
  <2> QED
    BY <1>1, <1>8, <2>1 DEF StartResumable, SetExecutionStatus, Goto, StatusOK, StatusAt, Gated, Moves
<1>9. CASE CorruptApproval(r) \/ Approve(r) \/ ApprovalTimeout(r) \/ ApprovalCanceled(r) \/ Reject(r)
  BY <1>1, <1>9 DEF CorruptApproval, Approve, ApprovalTimeout, ApprovalCanceled, Reject,
         SetExecutionStatus, Return, Goto, StatusOK, StatusAt, Moves
<1>10. CASE ActivitySucceeds(r)
  BY <1>1, <1>10 DEF ActivitySucceeds, SetExecutionStatus, Goto, StatusOK, StatusAt, Gated, Moves
<1>11. CASE FailFastFails(r)
  BY <1>1, <1>11 DEF FailFastFails, Return, Goto, StatusOK, StatusAt, Moves
<1>12. CASE ResumableFails(r)
  BY <1>1, <1>12 DEF ResumableFails, SetExecutionStatus, Return, Goto, StatusOK, StatusAt, Moves
<1>13. CASE Advance(r)
  BY <1>1, <1>13 DEF Advance, Goto, StatusOK, StatusAt, Moves
<1>14. CASE FailExit(r) \/ CompleteExit(r)
  BY <1>1, <1>14 DEF FailExit, CompleteExit, Exit, Settled, SetExecutionStatus, Goto, StatusOK, StatusAt, Moves
<1> QED
  BY <1>2, <1>3, <1>4, <1>5, <1>6, <1>7, <1>8, <1>9, <1>10, <1>11, <1>12, <1>13, <1>14 DEF Step, Outcome

\* Configuring the graph leaves the run idle and its status empty.
LEMMA ConfigureStatus ==
    ASSUME TypeInv, NEW r \in Runs, StatusOK(r), Configure
    PROVE  StatusOK(r)' /\ Moves(r)
<1>1. pc[r] = "idle" /\ UNCHANGED <<pc, err, status>>
  BY DEF Configure, AddTransitionActivityWithOptions, Tune, Setup, control
<1> QED
  BY <1>1 DEF StatusOK, StatusAt, Moves

StatusInv == \A r \in Runs : StatusOK(r)

\* With one run, StatusInv is inductive and every step is one of Moves.
LEMMA NextStatus ==
    ASSUME NEW only, Runs = {only}, TypeInv, StatusInv, [Next]_vars
    PROVE  StatusInv' /\ Moves(only)
<1> SUFFICES StatusOK(only)' /\ Moves(only)
  BY DEF StatusInv
<1>0. StatusOK(only) /\ only \in Runs
  BY DEF StatusInv
<1>1. CASE UNCHANGED vars
  BY <1>0, <1>1 DEF StatusOK, StatusAt, Gated, Moves, vars, shared, control
<1>2. CASE Configure
  BY <1>0, <1>2, ConfigureStatus
<1>3. ASSUME NEW r \in Runs, Operate(r) \/ Step(r) \/ Outcome(r)
      PROVE  StatusOK(only)' /\ Moves(only)
  BY <1>0, <1>3, StepStatus
<1> QED
  BY <1>1, <1>2, <1>3 DEF Next

\* What Moves describes is a step of the status machine.
LEMMA MovesRefine ==
    ASSUME NEW only, Runs = {only}, Moves(only)
    PROVE  [Lifecycle!Next]_(Lifecycle!vars)
<1>1. /\ (\A r \in Runs : pc[r] = "done") <=> pc[only] = "done"
      /\ (\A r \in Runs : pc'[r] = "done") <=> pc'[only] = "done"
  OBVIOUS
<1>2. CASE status' = status /\ (pc'[only] = "done" <=> pc[only] = "done")
  <2>1. (\A r \in Runs : pc'[r] = "done") = (\A r \in Runs : pc[r] = "done")
    BY <1>1, <1>2, Zenon
  <2> QED
    BY <1>2, <2>1 DEF Lifecycle!vars
<1>3. CASE ~(status' = status /\ (pc'[only] = "done" <=> pc[only] = "done"))
  <2>1. Lifecycle!Next
    BY <1>1, <1>3 DEF Moves, Lifecycle!Next, Lifecycle!Begin, Lifecycle!AwaitCorrection,
       Lifecycle!Run, Lifecycle!AwaitApproval, Lifecycle!Reject, Lifecycle!Fail, Lifecycle!Live,
       Lifecycle!Complete, Lifecycle!Close
  <2> QED
    BY <2>1
<1> QED
  BY <1>2, <1>3

\* The invariant and the steps of a single run, combined.
LEMMA StatusInvariant ==
    ASSUME NEW CONSTANT only, Runs = {only}
    PROVE  Spec => []StatusInv
<1>1. Init => StatusInv
  <2> SUFFICES ASSUME Init, NEW r \in Runs PROVE StatusOK(r)
    BY DEF StatusInv
  <2>1. pc[r] = "idle" /\ err[r] = "nil" /\ status = ""
    BY DEF Init
  <2> QED
    BY <2>1 DEF StatusOK, StatusAt
<1>2. TypeInv /\ StatusInv /\ [Next]_vars => StatusInv'
  BY NextStatus
<1> QED
  BY <1>1, <1>2, TypeInvariant, PTL DEF Spec

\* With one run, GetWorkflowStatus and the run's outcome agree: at every wait
\* and after every way out of Execute (setExecutionStatus).
THEOREM StatusTheorem ==
    ASSUME NEW CONSTANT only, Runs = {only}
    PROVE  Spec => []StatusReport
<1>1. StatusInv => StatusReport
  BY DEF StatusInv, StatusOK, StatusAt, StatusReport, TrueOf
<1> QED
  BY <1>1, StatusInvariant, PTL

\* With one run, the pipeline implements the status machine: for every graph,
\* every failure, signal, timeout and cancellation.
THEOREM LifecycleTheorem ==
    ASSUME NEW CONSTANT only, Runs = {only}
    PROVE  Spec => ImplementsExecutionStatus
<1>1. Init => Lifecycle!Init
  BY DEF Init, Lifecycle!Init
<1>2. TypeInv /\ StatusInv /\ [Next]_vars => [Lifecycle!Next]_(Lifecycle!vars)
  BY NextStatus, MovesRefine
<1> QED
  BY <1>1, <1>2, TypeInvariant, StatusInvariant, PTL DEF Spec, ImplementsExecutionStatus, Lifecycle!Spec

-----------------------------------------------------------------------------
(* The status on a worker that may be restarted                            *)

\* What Execute wrote last tells where the run is, whether a worker has it in
\* memory or not; the field is what the run wrote whenever the run is there.
WrittenOK(r) ==
    /\ StatusAt(r, written[r])
    /\ r \in cached \/ pc[r] \in {"idle", "started"} => status = written[r]

\* When every gated step asks for it, the attribute follows what is written.
IndexOK(r) ==
    UniformIndex /\ StatusSearchAttribute =>
        (pc[r] \notin {"idle", "started"} /\ err[r] # "upsert" => attribute[r] = written[r])

RestartInv ==
    /\ TypeInv /\ written \in [Runs -> Statuses \cup {""}] /\ cached \subseteq Runs
    /\ \A r \in Runs : WrittenOK(r) /\ IndexOK(r)

\* Filling in the defaults of a gate does not change whether it is one, nor
\* whether it asks for the search attribute.
LEMMA IndexKept ==
    ASSUME TypeInv, NEW r \in Runs, Operate(r) \/ Step(r) \/ Outcome(r)
    PROVE  /\ UniformIndex' <=> UniformIndex
           /\ StatusSearchAttribute' <=> StatusSearchAttribute
<1> USE DEF shared
<1>1. CASE EnterResumable(r)
  <2> DEFINE n == currActivity[r]
  <2>1. n \in DOMAIN activity /\ TypeOK
    BY <1>1 DEF EnterResumable, Enter, TypeInv, TypeOK
  <2>2. activity' = [activity EXCEPT ![n].Resumable = GateOptions(n)]
    BY <1>1 DEF EnterResumable
  <2>3. /\ activity[n] \in ActivityExecutionInfo
        /\ GateOptions(n).StatusSearchAttribute = activity[n].Resumable.StatusSearchAttribute
    <3>1. activity[n] \in ActivityExecutionInfo
      BY <2>1 DEF TypeOK
    <3> QED BY <3>1 DEF GateOptions, WithDefaults, ActivityExecutionInfo, ResumableOptions
  <2>4. /\ DOMAIN activity' = DOMAIN activity
        /\ \A m \in DOMAIN activity :
              /\ activity'[m].SignalEvent = activity[m].SignalEvent
              /\ activity'[m].Resumable.StatusSearchAttribute
                    = activity[m].Resumable.StatusSearchAttribute
    <3>1. activity'[n].SignalEvent = activity[n].SignalEvent /\ activity'[n].Resumable = GateOptions(n)
      BY <2>1, <2>2, <2>3 DEF TypeOK, ActivityExecutionInfo
    <3>2. DOMAIN activity' = DOMAIN activity /\ \A m \in DOMAIN activity \ {n} : activity'[m] = activity[m]
      BY <2>1, <2>2 DEF TypeOK
    <3> QED BY <2>3, <3>1, <3>2
  <2> QED BY <2>4 DEF UniformIndex, StatusSearchAttribute, Gated
<1>2. CASE UNCHANGED activity
  BY <1>2 DEF UniformIndex, StatusSearchAttribute, Gated
<1>3. Operate(r) \/ Outcome(r) => UNCHANGED activity
  BY DEF Operate, StartWorkflow, SignalWorkflow, CancelWorkflow,
         Outcome, ActivitySucceeds, FailFastFails, ResumableFails
<1>4. Step(r) => EnterResumable(r) \/ UNCHANGED activity
  BY DEF Step, Execute, ExecuteRefused, EnterFailFast, EnterPlaceholder, Enter, LeaveLoop, ReceiveSignal,
         CorrectionRefused, WaitTimeout, WaitCanceled, WaitFails, StartResumable,
         CorruptApproval, Approve, Reject, ApprovalTimeout, ApprovalCanceled, Advance,
         FailExit, CompleteExit, Exit
<1> QED BY <1>1, <1>2, <1>3, <1>4

\* When every gated step asks for the attribute, whoever writes the field
\* writes the attribute with it; only a refused upsert does not.
LEMMA WritesBoth ==
    ASSUME TypeInv, NEW r \in Runs, UniformIndex, StatusSearchAttribute, Step(r) \/ Outcome(r)
    PROVE  \/ ExecuteRefused(r)
           \/ UNCHANGED <<status, attribute>>
           \/ attribute' = [attribute EXCEPT ![r] = status']
<1> USE DEF shared, SetExecutionStatus
<1>1. currActivity[r] \in DOMAIN activity /\ Gated(currActivity[r]) => Opts(r).StatusSearchAttribute
  BY DEF UniformIndex, Opts, Info
<1>2. pc[r] \in {"parked", "ready", "approving"} =>
          currActivity[r] \in DOMAIN activity /\ Gated(currActivity[r])
  BY DEF TypeInv, ControlOK, Control, InStep
<1>3. pc[r] = "running" => currActivity[r] \in DOMAIN activity
  BY DEF TypeInv, ControlOK, Control, InStep
<1>4. CASE Execute(r) \/ ExecuteRefused(r) \/ LeaveLoop(r) \/ EnterFailFast(r) \/ EnterPlaceholder(r) \/ ReceiveSignal(r)
           \/ CorrectionRefused(r) \/ CorruptApproval(r) \/ Approve(r) \/ ApprovalCanceled(r)
           \/ Advance(r) \/ FailFastFails(r)
  BY <1>4 DEF Execute, LeaveLoop, EnterFailFast, EnterPlaceholder, ReceiveSignal, CorrectionRefused,
              CorruptApproval, Approve, ApprovalCanceled, Advance, FailFastFails
<1>5. CASE EnterResumable(r)
  <2>1. currActivity[r] \in DOMAIN activity
    BY <1>5 DEF EnterResumable, Enter, TypeInv, TypeOK
  <2> QED BY <1>1, <1>5, <2>1 DEF EnterResumable
<1>6. CASE WaitTimeout(r) \/ WaitCanceled(r) \/ StartResumable(r) \/ Reject(r) \/ ApprovalTimeout(r)
  BY <1>1, <1>2, <1>6 DEF WaitTimeout, WaitCanceled, WaitFails, StartResumable, Reject, ApprovalTimeout
<1>7. CASE ActivitySucceeds(r) \/ ResumableFails(r)
  BY <1>1, <1>3, <1>7 DEF ActivitySucceeds, ResumableFails
<1>8. CASE FailExit(r) \/ CompleteExit(r)
  BY <1>8 DEF FailExit, CompleteExit, Exit
<1> QED BY <1>4, <1>5, <1>6, <1>7, <1>8 DEF Step, Outcome

\* What is done around a run, in memory or not, moves neither its status nor
\* what it wrote.
LEMMA AroundRestart ==
    ASSUME NEW only, Runs = {only}, RestartInv, Around, UNCHANGED <<cached, written>>
    PROVE  WrittenOK(only)' /\ IndexOK(only)'
<1>0. TypeInv /\ WrittenOK(only) /\ IndexOK(only) /\ only \in Runs
  BY DEF RestartInv
<1>1. CASE Configure
  <2>1. pc[only] = "idle" /\ UNCHANGED <<pc, err, status>>
    BY <1>1 DEF Configure, AddTransitionActivityWithOptions, Tune, Setup, control
  <2> QED BY <1>0, <2>1 DEF WrittenOK, StatusAt, IndexOK
<1>2. CASE Operate(only)
  <2>1. /\ UNCHANGED <<activity, status, currActivity, err, attribute>>
        /\ pc' = pc \/ (pc[only] = "idle" /\ pc'[only] = "started")
    BY <1>0, <1>2 DEF Operate, StartWorkflow, SignalWorkflow, CancelWorkflow, Goto, shared, control,
                      TypeInv, TypeOK
  <2>2. WrittenOK(only)'
    BY <1>0, <2>1 DEF WrittenOK, StatusAt, Gated
  <2>3. IndexOK(only)'
    BY <1>0, <1>2, <2>1, IndexKept DEF IndexOK
  <2> QED BY <2>2, <2>3
<1> QED BY <1>1, <1>2 DEF Around

\* A run in memory has written what the field says, and goes on doing so.
LEMMA ProgressRestart ==
    ASSUME NEW only, Runs = {only}, RestartInv, Progress(only)
    PROVE  WrittenOK(only)' /\ IndexOK(only)' /\ written'[only] = status'
<1>0. TypeInv /\ WrittenOK(only) /\ IndexOK(only) /\ only \in Runs
      /\ written \in [Runs -> Statuses \cup {""}]
  BY DEF RestartInv
<1>1. status = written[only] /\ (Step(only) \/ Outcome(only))
  BY <1>0 DEF Progress, WrittenOK
<1>2. StatusOK(only)
  BY <1>0, <1>1 DEF WrittenOK, StatusOK
<1>3. StatusOK(only)'
  BY <1>0, <1>1, <1>2, StepStatus
<1>4. written'[only] = status'
  BY <1>0, <1>1 DEF Progress
<1>5. WrittenOK(only)'
  BY <1>3, <1>4 DEF WrittenOK, StatusOK
<1>6. IndexOK(only)'
  <2> SUFFICES ASSUME UniformIndex, StatusSearchAttribute,
                      pc'[only] \notin {"idle", "started"}, err'[only] # "upsert"
               PROVE  attribute'[only] = status'
    BY <1>0, <1>1, <1>4, IndexKept DEF IndexOK
  <2>1. attribute \in [Runs -> Statuses \cup {""}] /\ err \in [Runs -> Errors] /\ pc \in [Runs -> PCs]
    BY <1>0 DEF TypeInv, TypeOK
  <2>2. ~ExecuteRefused(only)
    BY <1>0, <2>1 DEF ExecuteRefused
  <2>3. CASE attribute' = [attribute EXCEPT ![only] = status']
    BY <1>0, <2>1, <2>3
  <2>4. CASE UNCHANGED <<status, attribute>>
    <3>1. pc[only] \notin {"idle", "started"}
      <4>1. pc[only] = "started" => status = "" /\ status' # ""
        <5>1. pc[only] = "started" => Execute(only) \/ ExecuteRefused(only)
          BY <1>1 DEF Step, Outcome, EnterFailFast, EnterPlaceholder, EnterResumable, Enter, LeaveLoop, ReceiveSignal,
             CorrectionRefused, WaitTimeout, WaitCanceled, WaitFails, StartResumable,
             CorruptApproval, Approve, Reject, ApprovalTimeout, ApprovalCanceled, Advance,
             FailExit, CompleteExit, ActivitySucceeds, FailFastFails, ResumableFails
        <5> QED BY <1>2, <5>1 DEF StatusOK, StatusAt, Execute, ExecuteRefused,
                                  SetExecutionStatus, StatusPending
      <4>2. pc[only] # "idle"
        BY <1>1 DEF Step, Outcome, Execute, ExecuteRefused, EnterFailFast, EnterPlaceholder, EnterResumable, Enter,
           LeaveLoop, ReceiveSignal, CorrectionRefused, WaitTimeout, WaitCanceled, WaitFails,
           StartResumable, CorruptApproval, Approve, Reject, ApprovalTimeout, ApprovalCanceled,
           Advance, FailExit, CompleteExit, ActivitySucceeds, FailFastFails, ResumableFails
      <4> QED BY <2>4, <4>1, <4>2
    <3>2. err[only] # "upsert"
      <4>1. pc[only] # "done"
        BY <1>1 DEF Step, Outcome, Execute, ExecuteRefused, EnterFailFast, EnterPlaceholder, EnterResumable, Enter,
           LeaveLoop, ReceiveSignal, CorrectionRefused, WaitTimeout, WaitCanceled, WaitFails,
           StartResumable, CorruptApproval, Approve, Reject, ApprovalTimeout, ApprovalCanceled,
           Advance, FailExit, CompleteExit, ActivitySucceeds, FailFastFails, ResumableFails
      <4> QED BY <1>2, <4>1 DEF StatusOK, StatusAt
    <3> QED BY <1>0, <1>1, <2>4, <3>1, <3>2 DEF IndexOK
  <2> QED BY <1>0, <1>1, <2>2, <2>3, <2>4, WritesBoth
<1> QED BY <1>4, <1>5, <1>6

\* A new process starts with an empty field and no run in memory; a replay
\* fills the field with what the run wrote last.
LEMMA LossRestart ==
    ASSUME NEW only, Runs = {only}, RestartInv, Restart \/ Evict(only) \/ Replay(only)
    PROVE  TypeInv' /\ WrittenOK(only)' /\ IndexOK(only)' /\ written' = written
<1>0. TypeInv /\ WrittenOK(only) /\ IndexOK(only) /\ only \in Runs
      /\ written \in [Runs -> Statuses \cup {""}]
  BY DEF RestartInv
<1>1. /\ UNCHANGED <<activity, firstActivity, pc, currActivity, data, correctionCount, err, path,
                     sent, taken, spent, executed, cancelled, attribute, written>>
      /\ status' \in {status, "", written[only]}
  BY DEF Restart, Evict, Replay, ReplayStatus, vars, shared, control, queues
<1>2. TypeInv'
  BY <1>0, <1>1 DEF TypeInv, TypeOK, ControlOK, Control, GraphClosed, Gated, ApprovalSignal, Opts, Info
<1>3. IndexOK(only)'
  BY <1>0, <1>1 DEF IndexOK, UniformIndex, StatusSearchAttribute, Gated
<1>4. StatusAt(only, written[only])'
  BY <1>0, <1>1 DEF WrittenOK, StatusAt, Gated
<1>5. only \in cached' \/ pc[only] \in {"idle", "started"} => status' = written[only]
  <2>1. CASE Restart
    <3>1. pc[only] \in {"idle", "started"} => written[only] = ""
      BY <1>0 DEF WrittenOK, StatusAt
    <3> QED BY <2>1, <3>1 DEF Restart
  <2>2. CASE Evict(only)
    BY <1>0, <2>2 DEF Evict, WrittenOK, vars, shared
  <2>3. CASE Replay(only)
    BY <2>3 DEF Replay, ReplayStatus
  <2> QED BY <2>1, <2>2, <2>3
<1> QED BY <1>1, <1>2, <1>3, <1>4, <1>5 DEF WrittenOK

LEMMA NextRestart ==
    ASSUME NEW only, Runs = {only}, RestartInv, [RestartNext]_restartVars
    PROVE  RestartInv'
<1>0. TypeInv /\ only \in Runs /\ written \in [Runs -> Statuses \cup {""}] /\ cached \subseteq Runs
  BY DEF RestartInv
<1> SUFFICES /\ TypeInv' /\ written' \in [Runs -> Statuses \cup {""}] /\ cached' \subseteq Runs
             /\ WrittenOK(only)' /\ IndexOK(only)'
  BY DEF RestartInv
<1>1. CASE Around /\ UNCHANGED <<cached, written, losses>>
  <2>1. Next
    BY <1>1 DEF Around, Next
  <2>2. TypeInv'
    BY <1>0, <2>1, NextType
  <2> QED BY <1>0, <1>1, <2>2, AroundRestart
<1>2. CASE Progress(only)
  <2>1. Next
    BY <1>0, <1>2 DEF Progress, Next
  <2>2. TypeInv'
    BY <1>0, <2>1, NextType
  <2>3. status' \in Statuses \cup {""}
    BY <2>2 DEF TypeInv, TypeOK
  <2>4. written' \in [Runs -> Statuses \cup {""}] /\ cached' \subseteq Runs
    <3> DEFINE S == Statuses \cup {""}
    <3> HIDE DEF S
    <3> QED BY <1>0, <1>2, <2>3 DEF Progress, S
  <2> QED BY <1>2, <2>2, <2>4, ProgressRestart
<1>3. CASE Restart \/ Evict(only) \/ Replay(only)
  <2>1. cached' \subseteq Runs
    BY <1>0, <1>3 DEF Restart, Evict, Replay
  <2> QED BY <1>0, <1>3, <2>1, LossRestart
<1>4. CASE UNCHANGED restartVars
  <2>1. UNCHANGED vars /\ UNCHANGED <<cached, written>>
    BY <1>4 DEF restartVars
  <2>2. TypeInv'
    BY <1>0, <2>1, NextType
  <2>3. WrittenOK(only) /\ IndexOK(only)
    BY <1>0 DEF RestartInv
  <2> QED BY <1>0, <2>1, <2>2, <2>3 DEF vars, shared, control, WrittenOK, StatusAt, Gated, IndexOK,
             UniformIndex, StatusSearchAttribute
<1> QED BY <1>1, <1>2, <1>3, <1>4 DEF RestartNext

LEMMA RestartInvariant ==
    ASSUME NEW CONSTANT only, Runs = {only}
    PROVE  RestartSpec => []RestartInv
<1>1. RestartInit => RestartInv
  <2> SUFFICES ASSUME RestartInit PROVE RestartInv
    OBVIOUS
  <2>1. TypeInv
    BY InitType DEF RestartInit
  <2>2. pc[only] = "idle" /\ err[only] = "nil" /\ status = "" /\ written[only] = ""
    BY DEF RestartInit, Init
  <2>3. written \in [Runs -> Statuses \cup {""}] /\ cached \subseteq Runs
    BY DEF RestartInit
  <2> QED BY <2>1, <2>2, <2>3 DEF RestartInv, WrittenOK, StatusAt, IndexOK
<1>2. RestartInv /\ [RestartNext]_restartVars => RestartInv'
  BY NextRestart
<1> QED BY <1>1, <1>2, PTL DEF RestartSpec

\* With one run, restarts and evictions do not make GetWorkflowStatus lie: a
\* run that is in the worker's memory between two tasks is reported as it is,
\* because replaying Execute writes the Status field anew.
THEOREM StatusSurvivesRestart ==
    ASSUME NEW CONSTANT only, Runs = {only}
    PROVE  RestartSpec => []StatusOutlivesWorker
<1>1. RestartInv => StatusOutlivesWorker
  <2> SUFFICES ASSUME RestartInv, NEW r \in cached
               PROVE  TrueOf(r, status)
    BY DEF StatusOutlivesWorker
  <2>1. StatusAt(r, status)
    BY DEF RestartInv, WrittenOK
  <2> QED BY <2>1 DEF StatusAt, TrueOf
<1> QED BY <1>1, RestartInvariant, PTL

\* The search attribute setExecutionStatus upserts stays true of the run while
\* no worker has it in memory, when every gated step asks for it.
THEOREM AttributeSurvivesRestart ==
    ASSUME NEW CONSTANT only, Runs = {only}
    PROVE  RestartSpec => []AttributeOutlivesWorker
<1>1. RestartInv => AttributeOutlivesWorker
  <2> SUFFICES ASSUME RestartInv, UniformIndex, StatusSearchAttribute, NEW r \in Runs,
                      pc[r] \notin {"idle", "started"}, err[r] # "upsert"
               PROVE  TrueOf(r, attribute[r]) /\ attribute[r] = written[r]
    BY DEF AttributeOutlivesWorker
  <2>1. attribute[r] = written[r] /\ StatusAt(r, written[r])
    BY DEF RestartInv, WrittenOK, IndexOK
  <2> QED BY <2>1 DEF StatusAt, TrueOf
<1> QED BY <1>1, RestartInvariant, PTL

-----------------------------------------------------------------------------
(* A worker that restarts implements one that does not                     *)

\* What does not mention the Status field means the same in Undisturbed.
LEMMA SameStatuses ==
    /\ Undisturbed!StatusPending = StatusPending /\ Undisturbed!StatusExecuting = StatusExecuting
    /\ Undisturbed!StatusAwaitingCorrection = StatusAwaitingCorrection
    /\ Undisturbed!StatusAwaitingApproval = StatusAwaitingApproval
    /\ Undisturbed!StatusFailed = StatusFailed /\ Undisturbed!StatusCompleted = StatusCompleted
    /\ Undisturbed!StatusRejected = StatusRejected
BY DEF Undisturbed!StatusPending, StatusPending, Undisturbed!StatusExecuting, StatusExecuting,
       Undisturbed!StatusAwaitingCorrection, StatusAwaitingCorrection,
       Undisturbed!StatusAwaitingApproval, StatusAwaitingApproval, Undisturbed!StatusFailed, StatusFailed,
       Undisturbed!StatusCompleted, StatusCompleted, Undisturbed!StatusRejected, StatusRejected

LEMMA SameSetup ==
    /\ \A t : Undisturbed!NewInfo(t) = NewInfo(t)
    /\ Undisturbed!Placeholder = Placeholder /\ (Undisturbed!Setup <=> Setup)
    /\ \A r : Undisturbed!SentSignals(r) = SentSignals(r)
<1>1. /\ \A t : Undisturbed!NewInfo(t) = NewInfo(t)
      /\ Undisturbed!Placeholder = Placeholder /\ (Undisturbed!Setup <=> Setup)
  BY DEF Undisturbed!NewInfo, NewInfo, Undisturbed!WithDefaults, WithDefaults, Undisturbed!ZeroResumable,
         ZeroResumable, Undisturbed!Placeholder, Placeholder, Undisturbed!Setup, Setup
<1>2. \A r : Undisturbed!SentSignals(r) = SentSignals(r)
  BY DEF Undisturbed!SentSignals, SentSignals, Undisturbed!MapThenSumSet, MapThenSumSet,
         Undisturbed!MapThenFoldSet, MapThenFoldSet
<1> QED BY <1>1, <1>2

LEMMA OnlyRun == ASSUME NEW only, Runs = {only} PROVE TheRun = only
BY DEF TheRun

\* Registration and operators leave the status alone, in both.
LEMMA AroundSame ==
    ASSUME Around, written' = written
    PROVE  Undisturbed!Next
<1> USE SameSetup
<1> USE DEF shared, control, queues, Undisturbed!shared, Undisturbed!control, Undisturbed!queues
<1>1. ASSUME NEW t \in Transitions, AddTransitionActivityWithOptions(t) PROVE Undisturbed!Next
  <2>1. Undisturbed!AddTransitionActivityWithOptions(t)
    BY <1>1 DEF AddTransitionActivityWithOptions, Undisturbed!AddTransitionActivityWithOptions
  <2> QED BY <2>1 DEF Undisturbed!Next, Undisturbed!Configure
<1>2. ASSUME NEW n \in Names, NEW o \in Tunings, Tune(n, o) PROVE Undisturbed!Next
  <2>1. Undisturbed!Tune(n, o)
    BY <1>2 DEF Tune, Undisturbed!Tune, Gated, Undisturbed!Gated
  <2> QED BY <2>1 DEF Undisturbed!Next, Undisturbed!Configure
<1>3. ASSUME NEW r \in Runs, Operate(r) PROVE Undisturbed!Next
  <2>1. ASSUME NEW d \in Names \cup {NoName, NoData}, StartWorkflow(r, d) PROVE Undisturbed!Operate(r)
    BY <2>1 DEF StartWorkflow, Undisturbed!StartWorkflow, Goto, Undisturbed!Goto, Undisturbed!Operate
  <2>2. ASSUME NEW s \in Signals, NEW p \in Payloads, SignalWorkflow(r, s, p) PROVE Undisturbed!Operate(r)
    BY <2>2 DEF SignalWorkflow, Undisturbed!SignalWorkflow, Open, Undisturbed!Open, Undisturbed!Operate
  <2>3. ASSUME CancelWorkflow(r) PROVE Undisturbed!Operate(r)
    BY <2>3 DEF CancelWorkflow, Undisturbed!CancelWorkflow, Open, Undisturbed!Open, Undisturbed!Operate
  <2>4. Undisturbed!Operate(r)
    BY <1>3, <2>1, <2>2, <2>3 DEF Operate
  <2> QED BY <2>4 DEF Undisturbed!Next
<1> QED BY <1>1, <1>2, <1>3 DEF Around, Configure

\* A step of the run while the field has what the run wrote last, before and
\* after, is a step of the undisturbed pipeline.
LEMMA StepSame ==
    ASSUME NEW r \in Runs, written[TheRun] = status, written'[TheRun] = status', Step(r) \/ Outcome(r)
    PROVE  Undisturbed!Step(r) \/ Undisturbed!Outcome(r)
<1> USE SameStatuses
<1> USE DEF shared, control, queues, Undisturbed!shared, Undisturbed!control, Undisturbed!queues
<1>1. Execute(r) => Undisturbed!Execute(r)
  BY DEF Execute, Undisturbed!Execute, SetExecutionStatus, Undisturbed!SetExecutionStatus, Goto,
         Undisturbed!Goto, StatusSearchAttribute, Undisturbed!StatusSearchAttribute
<1>2. ExecuteRefused(r) => Undisturbed!ExecuteRefused(r)
  BY DEF ExecuteRefused, Undisturbed!ExecuteRefused, Goto, Undisturbed!Goto,
         StatusSearchAttribute, Undisturbed!StatusSearchAttribute
<1>3. /\ EnterFailFast(r) => Undisturbed!EnterFailFast(r)
      /\ EnterPlaceholder(r) => Undisturbed!EnterPlaceholder(r)
  BY DEF EnterFailFast, Undisturbed!EnterFailFast, EnterPlaceholder, Undisturbed!EnterPlaceholder,
         Enter, Undisturbed!Enter, Goto, Undisturbed!Goto, Gated, Undisturbed!Gated, Info,
         Undisturbed!Info
<1>4. EnterResumable(r) => Undisturbed!EnterResumable(r)
  BY DEF EnterResumable, Undisturbed!EnterResumable, Enter, Undisturbed!Enter, SetExecutionStatus,
         Undisturbed!SetExecutionStatus, Goto, Undisturbed!Goto, Gated, Undisturbed!Gated,
         GateOptions, Undisturbed!GateOptions, WithDefaults, Undisturbed!WithDefaults, Opts,
         Undisturbed!Opts, Info, Undisturbed!Info
<1>5. LeaveLoop(r) => Undisturbed!LeaveLoop(r)
  BY DEF LeaveLoop, Undisturbed!LeaveLoop, Goto, Undisturbed!Goto
<1>6. ReceiveSignal(r) => Undisturbed!ReceiveSignal(r)
  BY DEF ReceiveSignal, Undisturbed!ReceiveSignal, Receive, Undisturbed!Receive, Goto,
         Undisturbed!Goto, Destinations, Undisturbed!Destinations, GateSignal,
         Undisturbed!GateSignal, Info, Undisturbed!Info, Pending, Undisturbed!Pending, Oldest,
         Undisturbed!Oldest
<1>7. CorrectionRefused(r) => Undisturbed!CorrectionRefused(r)
  BY DEF CorrectionRefused, Undisturbed!CorrectionRefused, Receive, Undisturbed!Receive, Return,
         Undisturbed!Return, Goto, Undisturbed!Goto, GateSignal, Undisturbed!GateSignal, Info,
         Undisturbed!Info, Pending, Undisturbed!Pending, Oldest, Undisturbed!Oldest
<1>8. WaitTimeout(r) => Undisturbed!WaitTimeout(r)
  BY DEF WaitTimeout, Undisturbed!WaitTimeout, WaitFails, Undisturbed!WaitFails,
         SetExecutionStatus, Undisturbed!SetExecutionStatus, Return, Undisturbed!Return, Goto,
         Undisturbed!Goto, Opts, Undisturbed!Opts, Pending, Undisturbed!Pending, GateSignal,
         Undisturbed!GateSignal, Info, Undisturbed!Info
<1>9. WaitCanceled(r) => Undisturbed!WaitCanceled(r)
  BY DEF WaitCanceled, Undisturbed!WaitCanceled, WaitFails, Undisturbed!WaitFails,
         SetExecutionStatus, Undisturbed!SetExecutionStatus, Return, Undisturbed!Return, Goto,
         Undisturbed!Goto, Opts, Undisturbed!Opts, Pending, Undisturbed!Pending, GateSignal,
         Undisturbed!GateSignal, Info, Undisturbed!Info
<1>10. StartResumable(r) => Undisturbed!StartResumable(r)
  BY DEF StartResumable, Undisturbed!StartResumable, SetExecutionStatus,
         Undisturbed!SetExecutionStatus, Goto, Undisturbed!Goto, Opts, Undisturbed!Opts,
         GateSignal, Undisturbed!GateSignal, Info, Undisturbed!Info
<1>11. CorruptApproval(r) => Undisturbed!CorruptApproval(r)
  BY DEF CorruptApproval, Undisturbed!CorruptApproval, Receive, Undisturbed!Receive, Corrupt,
         Undisturbed!Corrupt, ApprovalSignal, Undisturbed!ApprovalSignal, Opts, Undisturbed!Opts,
         Info, Undisturbed!Info, Pending, Undisturbed!Pending, Oldest, Undisturbed!Oldest
<1>12. Approve(r) => Undisturbed!Approve(r)
  BY DEF Approve, Undisturbed!Approve, Receive, Undisturbed!Receive, Goto, Undisturbed!Goto,
         Corrupt, Undisturbed!Corrupt, Approves, Undisturbed!Approves, ApprovalSignal,
         Undisturbed!ApprovalSignal, Opts, Undisturbed!Opts, Info, Undisturbed!Info, Pending,
         Undisturbed!Pending, Oldest, Undisturbed!Oldest
<1>13. Reject(r) => Undisturbed!Reject(r)
  BY DEF Reject, Undisturbed!Reject, Receive, Undisturbed!Receive, SetExecutionStatus,
         Undisturbed!SetExecutionStatus, Return, Undisturbed!Return, Goto, Undisturbed!Goto,
         Corrupt, Undisturbed!Corrupt, Approves, Undisturbed!Approves, ApprovalSignal,
         Undisturbed!ApprovalSignal, Opts, Undisturbed!Opts, Info, Undisturbed!Info, Pending,
         Undisturbed!Pending, Oldest, Undisturbed!Oldest
<1>14. ApprovalTimeout(r) => Undisturbed!ApprovalTimeout(r)
  BY DEF ApprovalTimeout, Undisturbed!ApprovalTimeout, SetExecutionStatus,
         Undisturbed!SetExecutionStatus, Return, Undisturbed!Return, Goto, Undisturbed!Goto,
         Pending, Undisturbed!Pending, ApprovalSignal, Undisturbed!ApprovalSignal, Opts,
         Undisturbed!Opts, Info, Undisturbed!Info
<1>15. ApprovalCanceled(r) => Undisturbed!ApprovalCanceled(r)
  BY DEF ApprovalCanceled, Undisturbed!ApprovalCanceled, Return, Undisturbed!Return, Goto,
         Undisturbed!Goto, Pending, Undisturbed!Pending, ApprovalSignal,
         Undisturbed!ApprovalSignal, Opts, Undisturbed!Opts, Info, Undisturbed!Info
<1>16. Advance(r) => Undisturbed!Advance(r)
  BY DEF Advance, Undisturbed!Advance, Goto, Undisturbed!Goto, Ends, Undisturbed!Ends, Info,
         Undisturbed!Info, GetNextActivity, Undisturbed!GetNextActivity
<1>17. FailExit(r) => Undisturbed!FailExit(r)
  BY DEF FailExit, Undisturbed!FailExit, Exit, Undisturbed!Exit, Settled, Undisturbed!Settled,
         SetExecutionStatus, Undisturbed!SetExecutionStatus, Goto, Undisturbed!Goto,
         StatusSearchAttribute, Undisturbed!StatusSearchAttribute
<1>18. CompleteExit(r) => Undisturbed!CompleteExit(r)
  BY DEF CompleteExit, Undisturbed!CompleteExit, Exit, Undisturbed!Exit, Settled,
         Undisturbed!Settled, SetExecutionStatus, Undisturbed!SetExecutionStatus, Goto,
         Undisturbed!Goto, StatusSearchAttribute, Undisturbed!StatusSearchAttribute
<1>19. ActivitySucceeds(r) => Undisturbed!ActivitySucceeds(r)
  BY DEF ActivitySucceeds, Undisturbed!ActivitySucceeds, SetExecutionStatus,
         Undisturbed!SetExecutionStatus, Goto, Undisturbed!Goto, Runnable, Undisturbed!Runnable,
         Gated, Undisturbed!Gated, Destinations, Undisturbed!Destinations, ApprovalSignal,
         Undisturbed!ApprovalSignal, Opts, Undisturbed!Opts, Info, Undisturbed!Info
<1>20. FailFastFails(r) => Undisturbed!FailFastFails(r)
  BY DEF FailFastFails, Undisturbed!FailFastFails, Return, Undisturbed!Return, Goto,
         Undisturbed!Goto, Gated, Undisturbed!Gated
<1>21. ResumableFails(r) => Undisturbed!ResumableFails(r)
  BY DEF ResumableFails, Undisturbed!ResumableFails, SetExecutionStatus,
         Undisturbed!SetExecutionStatus, Return, Undisturbed!Return, Goto, Undisturbed!Goto,
         Gated, Undisturbed!Gated, Exhausted, Undisturbed!Exhausted, Opts, Undisturbed!Opts, Info,
         Undisturbed!Info
<1> QED
  BY <1>1, <1>2, <1>3, <1>4, <1>5, <1>6, <1>7, <1>8, <1>9, <1>10, <1>11, <1>12, <1>13, <1>14,
     <1>15, <1>16, <1>17, <1>18, <1>19, <1>20, <1>21 DEF Step, Outcome, Undisturbed!Step,
     Undisturbed!Outcome

\* Losses and replays change nothing the run wrote.
LEMMA LossUnseen ==
    ASSUME Restart \/ (\E r \in Runs : Evict(r) \/ Replay(r))
    PROVE  UNCHANGED Undisturbed!vars
<1> USE DEF vars, shared, control, queues, Undisturbed!vars, Undisturbed!shared, Undisturbed!control,
            Undisturbed!queues
<1>1. CASE Restart
  BY <1>1 DEF Restart
<1>2. ASSUME NEW r \in Runs, Evict(r) \/ Replay(r) PROVE UNCHANGED Undisturbed!vars
  BY <1>2 DEF Evict, Replay
<1> QED BY <1>1, <1>2

\* Every step on the restarting worker is a step of the pipeline, or unseen.
LEMMA NextSame ==
    ASSUME NEW only, Runs = {only}, RestartInv, [RestartNext]_restartVars
    PROVE  [Undisturbed!Next]_(Undisturbed!vars)
<1>0. TheRun = only /\ only \in Runs
  BY OnlyRun
<1>1. CASE Around /\ UNCHANGED <<cached, written, losses>>
  BY <1>1, AroundSame
<1>2. CASE Progress(only)
  <2>1. written[only] = status
    BY <1>2 DEF Progress, RestartInv, WrittenOK
  <2>2. written'[only] = status'
    <3>1. written \in [Runs -> Statuses \cup {""}]
      BY DEF RestartInv
    <3>2. written' = [written EXCEPT ![only] = IF status' # status THEN status' ELSE written[only]]
      BY <1>2 DEF Progress
    <3> QED BY <1>0, <2>1, <3>1, <3>2
  <2>3. Undisturbed!Step(only) \/ Undisturbed!Outcome(only)
    BY <1>0, <1>2, <2>1, <2>2, StepSame DEF Progress
  <2> QED BY <1>0, <2>3 DEF Undisturbed!Next
<1>3. CASE Restart \/ Evict(only) \/ Replay(only)
  BY <1>0, <1>3, LossUnseen
<1>4. CASE UNCHANGED restartVars
  BY <1>4 DEF restartVars, vars, shared, control, queues, Undisturbed!vars, Undisturbed!shared,
              Undisturbed!control, Undisturbed!queues
<1> QED BY <1>1, <1>2, <1>3, <1>4 DEF RestartNext

\* With one run, a worker that restarts, evicts and replays implements one
\* that never loses anything: no signal is spent twice, no step is entered or
\* executed again, no status, attribute or result differs (Execute on replay).
THEOREM RestartRefinement ==
    ASSUME NEW CONSTANT only, Runs = {only}
    PROVE  RestartSpec => ImplementsPipeline
<1>1. RestartInit => Undisturbed!Init
  <2> SUFFICES ASSUME RestartInit PROVE Undisturbed!Init
    OBVIOUS
  <2>1. written[TheRun] = "" /\ Init
    BY OnlyRun DEF RestartInit
  <2>2. Undisturbed!Placeholder = Placeholder
    BY SameSetup
  <2> QED BY <2>1, <2>2 DEF Init, Undisturbed!Init
<1>2. RestartInv /\ [RestartNext]_restartVars => [Undisturbed!Next]_(Undisturbed!vars)
  BY NextSame
<1> QED
  BY <1>1, <1>2, RestartInvariant, PTL DEF RestartSpec, ImplementsPipeline, Undisturbed!Spec

-----------------------------------------------------------------------------
(* Several runs on a worker that may be restarted                          *)

\* What does not mention the Status field.
SafetyInv == TypeInv /\ PathInv /\ BudgetInv /\ VisitInv /\ SignalInv /\ GrantInv

LostSafely == SafetyInv /\ written \in [Runs -> Statuses \cup {""}]

LEMMA NextSafe == SafetyInv /\ [Next]_vars => SafetyInv'
<1> SUFFICES ASSUME SafetyInv, [Next]_vars PROVE SafetyInv'
  OBVIOUS
<1>1. TypeInv'
  BY NextType DEF SafetyInv
<1>2. PathInv' /\ BudgetInv'
  BY NextPath, NextBudget DEF SafetyInv
<1>3. VisitInv' /\ SignalInv' /\ GrantInv'
  BY <1>1, NextVisit, NextSignal, NextGrant DEF SafetyInv
<1> QED BY <1>1, <1>2, <1>3 DEF SafetyInv

\* A loss or a replay moves no run: the histories are with the server.
LEMMA LossSafe ==
    ASSUME SafetyInv, status' \in Statuses \cup {""},
           UNCHANGED <<activity, firstActivity, control, queues, cancelled, attribute>>
    PROVE  SafetyInv'
<1> USE DEF control, queues
<1>1. TypeInv'
  BY DEF SafetyInv, TypeInv, TypeOK, ControlOK, Control, GraphClosed, Gated, ApprovalSignal, Opts, Info
<1>2. PathInv'
  BY DEF SafetyInv, PathInv, PathOK, PlaceOK, LastStep
<1>3. BudgetInv'
  BY DEF SafetyInv, BudgetInv, BudgetOK, AtGate, Gated, Opts, Info
<1>4. VisitInv'
  BY DEF SafetyInv, VisitInv, VisitOK, Here, MaxAt, Gated
<1>5. SignalInv'
  <2>1. ApprovalSignals' = ApprovalSignals
    BY DEF ApprovalSignals
  <2>2. \A q \in Runs, t \in Signals : Unspent(q, t)' = Unspent(q, t)
    BY DEF Unspent, GateSignal, Info
  <2>3. \A q \in Runs, t \in Signals : AccountOK(q, t)' = AccountOK(q, t)
    BY <2>1, <2>2 DEF AccountOK
  <2> QED BY <2>3 DEF SafetyInv, SignalInv, Holding
<1>6. GrantInv'
  BY DEF SafetyInv, GrantInv, GrantOK, Gated, Approved, Trues
<1> QED BY <1>1, <1>2, <1>3, <1>4, <1>5, <1>6 DEF SafetyInv

LEMMA NextLost == LostSafely /\ [RestartNext]_restartVars => LostSafely'
<1> SUFFICES ASSUME LostSafely, [RestartNext]_restartVars PROVE LostSafely'
  OBVIOUS
<1>0. SafetyInv /\ TypeInv /\ written \in [Runs -> Statuses \cup {""}] /\ status \in Statuses \cup {""}
  BY DEF LostSafely, SafetyInv, TypeInv, TypeOK
<1>1. CASE Around /\ UNCHANGED <<cached, written, losses>>
  <2>1. Next
    BY <1>1 DEF Around, Next
  <2> QED BY <1>0, <1>1, <2>1, NextSafe DEF LostSafely
<1>2. ASSUME NEW r \in Runs, Progress(r) PROVE LostSafely'
  <2>1. Next
    BY <1>2 DEF Progress, Next
  <2>2. SafetyInv'
    BY <1>0, <2>1, NextSafe
  <2>3. status' \in Statuses \cup {""}
    BY <2>2 DEF SafetyInv, TypeInv, TypeOK
  <2>4. written' \in [Runs -> Statuses \cup {""}]
    <3> DEFINE S == Statuses \cup {""}
    <3> HIDE DEF S
    <3> QED BY <1>0, <1>2, <2>3 DEF Progress, S
  <2> QED BY <2>2, <2>4 DEF LostSafely
<1>3. CASE Restart
  BY <1>0, <1>3, LossSafe DEF Restart, LostSafely
<1>4. ASSUME NEW r \in Runs, Evict(r) PROVE LostSafely'
  BY <1>0, <1>4, NextSafe DEF Evict, LostSafely
<1>5. ASSUME NEW r \in Runs, Replay(r) PROVE LostSafely'
  <2>1. status' \in Statuses \cup {""} /\ written' = written
    BY <1>0, <1>5 DEF Replay, ReplayStatus
  <2> QED BY <1>0, <1>5, <2>1, LossSafe DEF Replay, LostSafely
<1>6. CASE UNCHANGED restartVars
  BY <1>0, <1>6, NextSafe DEF restartVars, LostSafely
<1> QED BY <1>1, <1>2, <1>3, <1>4, <1>5, <1>6 DEF RestartNext

\* Whatever the number of runs, and wherever restarts, evictions and replays
\* hit them: a run keeps to registered transitions, a signal buys one thing,
\* no visit exceeds its budget and no step is passed without its approval.
\* What is lost with the worker is only the shared Status field.
THEOREM SafetySurvivesRestart ==
    RestartSpec => []/\ PathFollowsTransitions /\ EverySignalBuysOneRun
                     /\ ExecutionBudget /\ ApprovalsGranted
<1>1. RestartInit => LostSafely
  BY InitType, InitPath, InitBudget, InitVisit, InitSignal, InitGrant
     DEF RestartInit, LostSafely, SafetyInv
<1>2. LostSafely => PathFollowsTransitions /\ EverySignalBuysOneRun /\ ExecutionBudget
                    /\ ApprovalsGranted
  <2> SUFFICES ASSUME LostSafely
               PROVE  PathFollowsTransitions /\ EverySignalBuysOneRun /\ ExecutionBudget
                      /\ ApprovalsGranted
    OBVIOUS
  <2>1. PathFollowsTransitions
    BY DEF LostSafely, SafetyInv, PathInv, PathOK, PathFollowsTransitions
  <2>2. EverySignalBuysOneRun /\ ExecutionBudget
    BY SignalAccount, VisitBudget DEF LostSafely, SafetyInv
  <2>3. ApprovalsGranted
    BY DEF LostSafely, SafetyInv, GrantInv, GrantOK, Trues, ApprovalsGranted
  <2> QED BY <2>1, <2>2, <2>3
<1> QED
  BY <1>1, <1>2, NextLost, PTL DEF RestartSpec
=============================================================================
