--------------------------- MODULE WorkflowProofs ---------------------------
(***************************************************************************)
(* Proofs about the helpers of workflow code.                              *)
(*                                                                         *)
(* ChildWorkflow, for any number of callers, workflow IDs and child runs:  *)
(* which child has a request and a result, and which one is left open.     *)
(*                                                                         *)
(* WorkflowData, for any number of runs and callers: what ends             *)
(* QueryWorkflowData, and whose data a run and its readers get.            *)
(***************************************************************************)
EXTENDS ChildWorkflow, WorkflowData, SequenceTheorems, FiniteSetTheorems, TLAPS

\* A run holds at most one request, its owner's.
OwnRequestOnce ==
    \A k \in DOMAIN runs :
        /\ \A n \in Requests(k) : runs[k].inbox[n] = runs[k].owner
        /\ \A m, n \in Requests(k) : m = n

\* A call between its start and its return has a run of its own, which has
\* the request exactly when the call waits for the result.
CallHasRun ==
    \A c \in Callers : pc[c] \in {"signalling", "waiting"} =>
        /\ child[c] \in DOMAIN runs /\ runs[child[c]].owner = c
        /\ pc[c] = "signalling" => Requests(child[c]) = {}
        /\ pc[c] = "waiting" => Requests(child[c]) # {}

\* A result stands only between two calls; a nil is about a run there is.
ResultAfterCall ==
    \A c \in Callers :
        /\ pc[c] # "idle" => err[c] = "none"
        /\ err[c] = "nil" => /\ child[c] \in DOMAIN runs /\ result[c] = child[c]
                             /\ runs[child[c]].owner = c
                             /\ runs[child[c]].state = "completed"
                             /\ Requests(child[c]) # {}

\* An open run is the one its caller is working with, or has no request, or
\* the caller's context is cancelled.
OpenIsAttended ==
    \A k \in DOMAIN runs : Open(k) /\ Requests(k) # {} =>
        LET c == runs[k].owner
        IN  cancelled[c] \/ (pc[c] = "waiting" /\ child[c] = k)

\* A call has no run before its start, and leaves an open one only when its
\* signal failed or its context is cancelled.
LeavesClosed ==
    \A c \in Callers :
        /\ pc[c] = "starting" => child[c] = 0
        /\ pc[c] = "idle" /\ ~cancelled[c] /\ child[c] # 0 /\ err[c] # "signal" => ~Open(child[c])

IInv == TypeOK /\ OwnRequestOnce /\ CallHasRun /\ ResultAfterCall /\ OpenIsAttended /\ LeavesClosed

USE CallersAssumption, RunsAssumption

-----------------------------------------------------------------------------
LEMMA RunsType ==
    ASSUME TypeOK
    PROVE  /\ runs \in Seq(Run) /\ Len(runs) \in Nat /\ DOMAIN runs = 1 .. Len(runs)
           /\ \A k \in DOMAIN runs :
                 /\ runs[k] \in Run /\ runs[k].owner \in Callers
                 /\ runs[k].inbox \in Seq(Callers \cup {External})
                 /\ Len(runs[k].inbox) \in Nat
                 /\ DOMAIN runs[k].inbox = 1 .. Len(runs[k].inbox)
<1>1. runs \in Seq(Run) /\ Len(runs) \in Nat /\ DOMAIN runs = 1 .. Len(runs)
  BY LenProperties DEF TypeOK
<1>2. ASSUME NEW k \in DOMAIN runs
      PROVE  /\ runs[k] \in Run /\ runs[k].owner \in Callers
             /\ runs[k].inbox \in Seq(Callers \cup {External})
  <2>1. runs[k] \in Run
    BY <1>1, ElementOfSeq
  <2> QED BY <2>1 DEF Run
<1>3. ASSUME NEW k \in DOMAIN runs
      PROVE  Len(runs[k].inbox) \in Nat /\ DOMAIN runs[k].inbox = 1 .. Len(runs[k].inbox)
  BY <1>2, LenProperties
<1> QED BY <1>1, <1>2, <1>3

\* Replacing one run leaves the others and their number.
LEMMA RunReplaced ==
    ASSUME TypeOK, NEW k \in DOMAIN runs, NEW r \in Run, runs' = [runs EXCEPT ![k] = r]
    PROVE  /\ runs' \in Seq(Run) /\ Len(runs') = Len(runs) /\ DOMAIN runs' = DOMAIN runs
           /\ runs'[k] = r /\ \A j \in DOMAIN runs \ {k} : runs'[j] = runs[j]
<1>1. runs \in Seq(Run) /\ k \in 1 .. Len(runs)
  BY RunsType
<1>2. runs' \in Seq(Run) /\ Len(runs') = Len(runs)
  BY <1>1, ExceptSeq
<1> QED BY <1>1, <1>2

\* A signal is added to the inbox of one run; its sender decides whether it
\* is a request.
LEMMA Delivered ==
    ASSUME TypeOK, NEW k \in DOMAIN runs, NEW from \in Callers \cup {External}, Deliver(k, from)
    PROVE  /\ runs' \in Seq(Run) /\ Len(runs') = Len(runs) /\ DOMAIN runs' = DOMAIN runs
           /\ \A j \in DOMAIN runs : /\ runs'[j].id = runs[j].id
                                     /\ runs'[j].owner = runs[j].owner
                                     /\ runs'[j].state = runs[j].state
                                     /\ j # k => runs'[j] = runs[j]
           /\ \A n \in DOMAIN runs[k].inbox : runs'[k].inbox[n] = runs[k].inbox[n]
           /\ from = External => Requests(k)' = Requests(k)
           /\ from # External =>
                 /\ Requests(k)' = Requests(k) \cup {Len(runs[k].inbox) + 1}
                 /\ runs'[k].inbox[Len(runs[k].inbox) + 1] = from
<1> DEFINE box == runs[k].inbox
           r == [runs[k] EXCEPT !.inbox = Append(box, from)]
<1>1. /\ runs[k] \in Run /\ box \in Seq(Callers \cup {External}) /\ Len(box) \in Nat
      /\ DOMAIN box = 1 .. Len(box)
  BY RunsType
<1>2. /\ Append(box, from) \in Seq(Callers \cup {External})
      /\ Len(Append(box, from)) = Len(box) + 1
      /\ \A n \in 1 .. Len(box) : Append(box, from)[n] = box[n]
      /\ Append(box, from)[Len(box) + 1] = from
  BY <1>1, AppendProperties
<1>3. DOMAIN Append(box, from) = 1 .. Len(box) + 1
  BY <1>2, LenProperties
<1>4. r \in Run /\ r.inbox = Append(box, from)
      /\ r.id = runs[k].id /\ r.owner = runs[k].owner /\ r.state = runs[k].state
  BY <1>1, <1>2 DEF Run
<1>5. runs' = [runs EXCEPT ![k] = r]
  BY DEF Deliver
<1> HIDE DEF r
<1>6. /\ runs' \in Seq(Run) /\ Len(runs') = Len(runs) /\ DOMAIN runs' = DOMAIN runs
      /\ runs'[k] = r /\ \A j \in DOMAIN runs \ {k} : runs'[j] = runs[j]
  BY <1>4, <1>5, RunReplaced
<1>7. runs'[k].inbox = Append(box, from)
  BY <1>4, <1>6
<1>8. Requests(k)' = {n \in 1 .. Len(box) + 1 : Append(box, from)[n] # External}
  BY <1>3, <1>7 DEF Requests
<1>9. Requests(k) = {n \in 1 .. Len(box) : box[n] # External}
  BY <1>1 DEF Requests
<1>10. /\ from = External => Requests(k)' = Requests(k)
       /\ from # External => Requests(k)' = Requests(k) \cup {Len(box) + 1}
  <2> HIDE DEF box
  <2> QED BY <1>1, <1>2, <1>8, <1>9
<1> QED BY <1>1, <1>2, <1>4, <1>6, <1>7, <1>10

\* A run that does not change keeps its requests.
LEMMA RequestsKept ==
    ASSUME NEW k, runs'[k] = runs[k]
    PROVE  Requests(k)' = Requests(k)
BY DEF Requests

\* A child that closes keeps its signals.
LEMMA Closed ==
    ASSUME TypeOK, NEW k \in DOMAIN runs, NEW s \in Outcomes, ChildCloses(k, s)
    PROVE  /\ runs' \in Seq(Run) /\ Len(runs') = Len(runs) /\ DOMAIN runs' = DOMAIN runs
           /\ \A j \in DOMAIN runs : /\ runs'[j].owner = runs[j].owner
                                     /\ runs'[j].inbox = runs[j].inbox
                                     /\ j # k => runs'[j] = runs[j]
           /\ runs[k].state = "open" /\ runs'[k].state = s
<1> DEFINE r == [runs[k] EXCEPT !.state = s]
<1>1. runs[k] \in Run
  BY RunsType
<1>2. r \in Run /\ r.inbox = runs[k].inbox /\ r.owner = runs[k].owner /\ r.state = s
  BY <1>1 DEF Run, Outcomes
<1>3. runs' = [runs EXCEPT ![k] = r]
  BY DEF ChildCloses
<1> HIDE DEF r
<1>4. /\ runs' \in Seq(Run) /\ Len(runs') = Len(runs) /\ DOMAIN runs' = DOMAIN runs
      /\ runs'[k] = r /\ \A j \in DOMAIN runs \ {k} : runs'[j] = runs[j]
  BY <1>2, <1>3, RunReplaced
<1> QED BY <1>2, <1>4 DEF ChildCloses, Open

\* A new run is the last one; its inbox is empty.
LEMMA Started ==
    ASSUME TypeOK, NEW c \in Callers, ChildStarts(c), NEW last \in Nat, last = Len(runs) + 1
    PROVE  /\ runs' \in Seq(Run) /\ Len(runs') = last
           /\ DOMAIN runs' = DOMAIN runs \cup {last}
           /\ \A j \in DOMAIN runs : runs'[j] = runs[j] /\ j # last
           /\ runs'[last].owner = c
           /\ Requests(last)' = {}
<1> DEFINE r == [id |-> id[c], owner |-> c, state |-> "open", inbox |-> <<>>]
<1>1. runs \in Seq(Run) /\ Len(runs) \in Nat /\ DOMAIN runs = 1 .. Len(runs)
  BY RunsType
<1>2. <<>> \in Seq(Callers \cup {External}) /\ Len(<<>>) = 0 /\ DOMAIN <<>> = 1 .. 0
  OBVIOUS
<1>3. r \in Run /\ r.owner = c /\ r.inbox = <<>>
  BY <1>2 DEF Run, TypeOK
<1>4. runs' = Append(runs, r)
  BY DEF ChildStarts
<1> HIDE DEF r
<1>5. /\ runs' \in Seq(Run) /\ Len(runs') = last
      /\ \A j \in 1 .. Len(runs) : runs'[j] = runs[j]
      /\ runs'[last] = r
  BY <1>1, <1>3, <1>4, AppendProperties
<1>6. DOMAIN runs' = 1 .. last
  BY <1>5, LenProperties
<1>7. Requests(last)' = {}
  BY <1>2, <1>3, <1>5 DEF Requests
<1> QED BY <1>1, <1>3, <1>5, <1>6, <1>7

-----------------------------------------------------------------------------
LEMMA InitInvariant == Init => IInv
<1> SUFFICES ASSUME Init PROVE IInv
  OBVIOUS
<1>1. runs \in Seq(Run) /\ Len(runs) = 0 /\ DOMAIN runs = {}
  BY DEF Init
<1>2. TypeOK
  BY <1>1 DEF Init, TypeOK
<1>3. OwnRequestOnce /\ CallHasRun /\ ResultAfterCall /\ OpenIsAttended /\ LeavesClosed
  BY <1>1 DEF Init, OwnRequestOnce, CallHasRun, ResultAfterCall, OpenIsAttended, LeavesClosed
<1> QED BY <1>2, <1>3 DEF IInv

\* The steps of one call that leave the runs alone.  A failed start has no run,
\* and the run of a failed signal has no request.
LEMMA StartCallInvariant ==
    ASSUME IInv, NEW c \in Callers, NEW i \in WorkflowIDs, StartChildWorkflow(c, i)
    PROVE  IInv'
<1>1. UNCHANGED <<runs, cancelled>> /\ pc[c] = "idle" /\ ~cancelled[c]
  BY DEF StartChildWorkflow
<1>2. /\ pc' = [pc EXCEPT ![c] = "starting"] /\ child' = [child EXCEPT ![c] = 0]
      /\ err' = [err EXCEPT ![c] = "none"] /\ result' = [result EXCEPT ![c] = 0]
      /\ id' = [id EXCEPT ![c] = i]
  BY DEF StartChildWorkflow, Goto
<1>3. TypeOK'
  BY <1>1, <1>2, RunsType DEF IInv, TypeOK
<1>4. \A k : Requests(k)' = Requests(k)
  BY <1>1 DEF Requests
<1>5. OwnRequestOnce'
  BY <1>1, <1>4 DEF IInv, OwnRequestOnce
<1>6. CallHasRun'
  BY <1>1, <1>2, <1>4 DEF IInv, TypeOK, CallHasRun
<1>7. ResultAfterCall'
  BY <1>1, <1>2, <1>4 DEF IInv, TypeOK, ResultAfterCall
<1>8. OpenIsAttended'
  BY <1>1, <1>2, <1>4, RunsType DEF IInv, TypeOK, OpenIsAttended, Open
<1>9. LeavesClosed'
  BY <1>1, <1>2 DEF IInv, TypeOK, LeavesClosed, Open
<1> QED BY <1>3, <1>5, <1>6, <1>7, <1>8, <1>9 DEF IInv

LEMMA ReturnInvariant ==
    ASSUME IInv, NEW c \in Callers, StartFails(c) \/ SignalFails(c) \/ ChildFailed(c)
    PROVE  IInv'
<1>1. UNCHANGED <<runs, id, child, result, cancelled>>
  BY DEF StartFails, SignalFails, ChildFailed
<1>2. PICK e \in {"start", "signal", "result"} :
          pc' = [pc EXCEPT ![c] = "idle"] /\ err' = [err EXCEPT ![c] = e]
  BY DEF StartFails, SignalFails, ChildFailed, Return, Goto
<1>3. \/ pc[c] = "starting"
      \/ pc[c] = "signalling" /\ e = "signal"
      \/ pc[c] = "waiting" /\ (cancelled[c] \/ ~Open(child[c]))
  <2>1. CASE SignalFails(c)
    <3>1. pc[c] = "signalling" /\ err' = [err EXCEPT ![c] = "signal"]
      BY <2>1 DEF SignalFails, Return
    <3> QED BY <1>2, <3>1 DEF IInv, TypeOK
  <2>2. CASE StartFails(c) \/ ChildFailed(c)
    BY <2>2 DEF StartFails, ChildFailed, ResultFailed
  <2> QED BY <2>1, <2>2
<1>4. TypeOK'
  BY <1>1, <1>2 DEF IInv, TypeOK
<1>5. \A k : Requests(k)' = Requests(k)
  BY <1>1 DEF Requests
<1>6. OwnRequestOnce'
  BY <1>1, <1>5 DEF IInv, OwnRequestOnce
<1>7. CallHasRun'
  BY <1>1, <1>2, <1>5 DEF IInv, TypeOK, CallHasRun
<1>8. ResultAfterCall'
  BY <1>1, <1>2, <1>5 DEF IInv, TypeOK, ResultAfterCall
<1>9. OpenIsAttended'
  <2> SUFFICES ASSUME NEW k \in DOMAIN runs, Open(k), Requests(k) # {}
               PROVE  \/ cancelled[runs[k].owner]
                      \/ pc'[runs[k].owner] = "waiting" /\ child[runs[k].owner] = k
    BY <1>1, <1>5 DEF OpenIsAttended, Open
  <2>1. \/ cancelled[runs[k].owner]
        \/ pc[runs[k].owner] = "waiting" /\ child[runs[k].owner] = k
    BY DEF IInv, OpenIsAttended
  <2>2. CASE runs[k].owner = c
    BY <1>3, <2>1, <2>2
  <2>3. CASE runs[k].owner # c
    <3>1. runs[k].owner \in Callers
      BY RunsType DEF IInv, TypeOK
    <3>2. pc'[runs[k].owner] = pc[runs[k].owner]
      BY <1>2, <2>3, <3>1 DEF IInv, TypeOK
    <3> QED BY <2>1, <3>2
  <2> QED BY <2>2, <2>3
<1>10. LeavesClosed'
  <2>1. pc[c] = "starting" => child[c] = 0
    BY DEF IInv, LeavesClosed
  <2> QED BY <1>1, <1>2, <1>3, <2>1 DEF IInv, TypeOK, LeavesClosed, Open
<1> QED BY <1>4, <1>6, <1>7, <1>8, <1>9, <1>10 DEF IInv

LEMMA CompletedInvariant ==
    ASSUME IInv, NEW c \in Callers, ChildCompleted(c)
    PROVE  IInv'
<1>1. UNCHANGED <<runs, id, child, cancelled>> /\ pc[c] = "waiting"
  BY DEF ChildCompleted
<1>2. /\ pc' = [pc EXCEPT ![c] = "idle"] /\ err' = [err EXCEPT ![c] = "nil"]
      /\ result' = [result EXCEPT ![c] = child[c]]
      /\ runs[child[c]].state = "completed"
  BY DEF ChildCompleted, OwnRun, Return, Goto
<1>3. /\ child[c] \in DOMAIN runs /\ runs[child[c]].owner = c /\ Requests(child[c]) # {}
  BY <1>1 DEF IInv, CallHasRun
<1>4. TypeOK'
  BY <1>1, <1>2 DEF IInv, TypeOK
<1>5. \A k : Requests(k)' = Requests(k)
  BY <1>1 DEF Requests
<1>6. OwnRequestOnce'
  BY <1>1, <1>5 DEF IInv, OwnRequestOnce
<1>7. CallHasRun'
  BY <1>1, <1>2, <1>5 DEF IInv, TypeOK, CallHasRun
<1>8. ResultAfterCall'
  BY <1>1, <1>2, <1>3, <1>5 DEF IInv, TypeOK, ResultAfterCall
<1>9. OpenIsAttended'
  <2> SUFFICES ASSUME NEW k \in DOMAIN runs, Open(k), Requests(k) # {}
               PROVE  \/ cancelled[runs[k].owner]
                      \/ pc'[runs[k].owner] = "waiting" /\ child[runs[k].owner] = k
    BY <1>1, <1>5 DEF OpenIsAttended, Open
  <2>1. \/ cancelled[runs[k].owner]
        \/ pc[runs[k].owner] = "waiting" /\ child[runs[k].owner] = k
    BY DEF IInv, OpenIsAttended
  <2>2. CASE runs[k].owner = c
    BY <1>2, <2>1, <2>2 DEF Open
  <2>3. CASE runs[k].owner # c
    <3>1. runs[k].owner \in Callers
      BY RunsType DEF IInv, TypeOK
    <3>2. pc'[runs[k].owner] = pc[runs[k].owner]
      BY <1>2, <2>3, <3>1 DEF IInv, TypeOK
    <3> QED BY <2>1, <3>2
  <2> QED BY <2>2, <2>3
<1>10. LeavesClosed'
  BY <1>1, <1>2 DEF IInv, TypeOK, LeavesClosed, Open
<1> QED BY <1>4, <1>6, <1>7, <1>8, <1>9, <1>10 DEF IInv

LEMMA CancelInvariant ==
    ASSUME IInv, NEW c \in Callers, CancelWorkflow(c)
    PROVE  IInv'
<1>1. UNCHANGED <<runs, pc, id, child, err, result>>
      /\ cancelled' = [cancelled EXCEPT ![c] = TRUE]
  BY DEF CancelWorkflow, calls
<1>2. TypeOK'
  BY <1>1 DEF IInv, TypeOK
<1>3. \A k : Requests(k)' = Requests(k)
  BY <1>1 DEF Requests
<1>4. OwnRequestOnce' /\ CallHasRun' /\ ResultAfterCall'
  BY <1>1, <1>3 DEF IInv, OwnRequestOnce, CallHasRun, ResultAfterCall
<1>5. OpenIsAttended'
  BY <1>1, <1>3, RunsType DEF IInv, TypeOK, OpenIsAttended, Open
<1>6. LeavesClosed'
  BY <1>1 DEF IInv, TypeOK, LeavesClosed, Open
<1> QED BY <1>2, <1>4, <1>5, <1>6 DEF IInv

\* A new run is its caller's, and has no request yet.
LEMMA StartsInvariant ==
    ASSUME IInv, NEW c \in Callers, ChildStarts(c)
    PROVE  IInv'
<1> DEFINE last == Len(runs) + 1
<1>1. last \in Nat /\ Len(runs) \in Nat /\ last <= MaxRuns
  BY RunsType DEF IInv, ChildStarts
<1>2. /\ runs' \in Seq(Run) /\ Len(runs') = last
      /\ DOMAIN runs' = DOMAIN runs \cup {last}
      /\ \A j \in DOMAIN runs : runs'[j] = runs[j] /\ j # last
      /\ runs'[last].owner = c
  BY <1>1, Started DEF IInv
<1>3. \A k \in DOMAIN runs : Requests(k)' = Requests(k)
  BY <1>2, RequestsKept
<1>4. \A k : k = last => Requests(k)' = {}
  BY <1>1, Started DEF IInv
<1>5. /\ pc' = [pc EXCEPT ![c] = "signalling"] /\ child' = [child EXCEPT ![c] = last]
      /\ UNCHANGED <<id, err, result, cancelled>> /\ pc[c] = "starting"
  BY DEF ChildStarts, Goto
<1> HIDE DEF last
<1>6. TypeOK'
  <2>1. runs' \in Seq(Run) /\ Len(runs') <= MaxRuns
    BY <1>1, <1>2
  <2>2. child' \in [Callers -> 0 .. last] /\ result' \in [Callers -> 0 .. last]
    BY <1>1, <1>5 DEF IInv, TypeOK, last
  <2> QED BY <1>2, <1>5, <2>1, <2>2 DEF IInv, TypeOK
<1>7. OwnRequestOnce'
  BY <1>2, <1>3, <1>4 DEF IInv, OwnRequestOnce
<1>8. CallHasRun'
  BY <1>2, <1>3, <1>4, <1>5 DEF IInv, TypeOK, CallHasRun
<1>9. ResultAfterCall'
  BY <1>2, <1>3, <1>5 DEF IInv, TypeOK, ResultAfterCall
<1>10. OpenIsAttended'
  BY <1>2, <1>3, <1>4, <1>5, RunsType DEF IInv, TypeOK, OpenIsAttended, Open
<1>11. LeavesClosed'
  <2>1. \A d \in Callers : child[d] # 0 => child[d] \in DOMAIN runs
    BY RunsType DEF IInv, TypeOK
  <2> QED BY <1>2, <1>5, <2>1 DEF IInv, TypeOK, LeavesClosed, Open
<1> QED BY <1>6, <1>7, <1>8, <1>9, <1>10, <1>11 DEF IInv

\* The request goes to the run the call started, which had none.
LEMMA AcceptedInvariant ==
    ASSUME IInv, NEW c \in Callers, SignalAccepted(c)
    PROVE  IInv'
<1>1. PICK k : k = child[c] /\ Deliver(k, c) /\ pc[c] = "signalling"
  BY DEF SignalAccepted, StartedRun
<1>2. k \in DOMAIN runs /\ runs[k].owner = c /\ Requests(k) = {} /\ c # External
  BY <1>1 DEF IInv, CallHasRun
<1>3. /\ runs' \in Seq(Run) /\ Len(runs') = Len(runs) /\ DOMAIN runs' = DOMAIN runs
      /\ \A j \in DOMAIN runs : /\ runs'[j].owner = runs[j].owner
                                /\ runs'[j].state = runs[j].state
                                /\ j # k => runs'[j] = runs[j]
      /\ Requests(k)' = {Len(runs[k].inbox) + 1}
      /\ runs'[k].inbox[Len(runs[k].inbox) + 1] = c
  <2>1. TypeOK /\ Deliver(k, c) /\ c \in Callers \cup {External}
    BY <1>1 DEF IInv
  <2> QED BY <1>2, <2>1, Delivered
<1>4. \A j \in DOMAIN runs \ {k} : Requests(j)' = Requests(j)
  BY <1>3, RequestsKept
<1>5. Requests(k)' # {} /\ \A j \in DOMAIN runs : Requests(j) # {} => Requests(j)' # {}
  BY <1>2, <1>3, <1>4
<1>6. /\ DOMAIN runs' = DOMAIN runs
       /\ \A j \in DOMAIN runs : runs'[j].owner = runs[j].owner /\ runs'[j].state = runs[j].state
  BY <1>3
<1>7. /\ pc' = [pc EXCEPT ![c] = "waiting"]
      /\ UNCHANGED <<id, child, err, result, cancelled>>
  BY DEF SignalAccepted, Goto
<1>8. TypeOK'
  BY <1>3, <1>7 DEF IInv, TypeOK
<1>9. OwnRequestOnce'
  BY <1>2, <1>3, <1>4 DEF IInv, OwnRequestOnce
<1>10. CallHasRun'
  <2> SUFFICES ASSUME NEW d \in Callers, pc'[d] \in {"signalling", "waiting"}
               PROVE  /\ child[d] \in DOMAIN runs' /\ runs'[child[d]].owner = d
                      /\ pc'[d] = "signalling" => Requests(child[d])' = {}
                      /\ pc'[d] = "waiting" => Requests(child[d])' # {}
    BY <1>7 DEF CallHasRun
  <2>1. CASE d = c
    BY <1>1, <1>2, <1>7, <1>5, <1>6, <2>1 DEF IInv, TypeOK
  <2>2. CASE d # c
    <3>1. /\ child[d] \in DOMAIN runs /\ runs[child[d]].owner = d /\ pc'[d] = pc[d]
          /\ pc[d] = "signalling" => Requests(child[d]) = {}
          /\ pc[d] = "waiting" => Requests(child[d]) # {}
      BY <1>7, <2>2 DEF IInv, TypeOK, CallHasRun
    <3>2. child[d] # k
      BY <1>2, <2>2, <3>1
    <3>3. Requests(child[d])' = Requests(child[d])
      BY <1>4, <1>7, <3>1, <3>2
    <3> QED BY <1>7, <1>6, <3>1, <3>3
  <2> QED BY <2>1, <2>2
<1>11. ResultAfterCall'
  <2>1. ASSUME NEW d \in Callers, err[d] = "nil"
        PROVE  /\ child[d] \in DOMAIN runs' /\ result[d] = child[d]
               /\ runs'[child[d]].owner = d /\ runs'[child[d]].state = "completed"
               /\ Requests(child[d])' # {}
    <3>1. /\ child[d] \in DOMAIN runs /\ result[d] = child[d] /\ Requests(child[d]) # {}
          /\ runs[child[d]].owner = d /\ runs[child[d]].state = "completed"
      BY <2>1 DEF IInv, ResultAfterCall
    <3>2. Requests(child[d])' # {}
      BY <1>5, <1>7, <3>1
    <3> QED BY <1>6, <3>1, <3>2
  <2>2. \A d \in Callers : pc'[d] # "idle" => err[d] = "none"
    BY <1>1, <1>7 DEF IInv, TypeOK, ResultAfterCall
  <2> QED BY <1>7, <2>1, <2>2 DEF ResultAfterCall
<1>12. OpenIsAttended'
  <2> SUFFICES ASSUME NEW j \in DOMAIN runs, runs[j].state = "open", Requests(j)' # {},
                      NEW d \in Callers, d = runs[j].owner, ~cancelled[d]
               PROVE  pc'[d] = "waiting" /\ child[d] = j
    BY <1>6, <1>7, RunsType DEF IInv, OpenIsAttended, Open
  <2>1. CASE j = k
    BY <1>1, <1>2, <1>7, <2>1 DEF IInv, TypeOK
  <2>2. CASE j # k
    <3>1. pc[d] = "waiting" /\ child[d] = j
      BY <1>4, <2>2 DEF IInv, OpenIsAttended, Open
    <3> QED BY <1>1, <1>7, <3>1 DEF IInv, TypeOK
  <2> QED BY <2>1, <2>2
<1>13. LeavesClosed'
  <2>1. \A d \in Callers : child[d] # 0 => child[d] \in DOMAIN runs
    BY RunsType DEF IInv, TypeOK
  <2> QED BY <1>1, <1>6, <1>7, <2>1 DEF IInv, TypeOK, LeavesClosed, Open
<1> QED BY <1>8, <1>9, <1>10, <1>11, <1>12, <1>13 DEF IInv

\* A signal from elsewhere is no request, wherever it arrives.
LEMMA ExternalInvariant ==
    ASSUME IInv, NEW i \in WorkflowIDs, SignalExternalWorkflow(i)
    PROVE  IInv'
<1>1. PICK k \in DOMAIN runs : Deliver(k, External)
  BY DEF SignalExternalWorkflow, OpenRuns
<1>2. UNCHANGED <<pc, id, child, err, result, cancelled>>
  BY DEF SignalExternalWorkflow, calls
<1>3. /\ runs' \in Seq(Run) /\ Len(runs') = Len(runs) /\ DOMAIN runs' = DOMAIN runs
      /\ \A j \in DOMAIN runs : /\ runs'[j].owner = runs[j].owner
                                /\ runs'[j].state = runs[j].state
                                /\ j # k => runs'[j] = runs[j]
      /\ \A n \in DOMAIN runs[k].inbox : runs'[k].inbox[n] = runs[k].inbox[n]
      /\ Requests(k)' = Requests(k)
  BY <1>1, Delivered DEF IInv
<1>4. \A j \in DOMAIN runs : Requests(j)' = Requests(j)
  BY <1>3, RequestsKept
<1>5. \A j \in DOMAIN runs : \A n \in Requests(j) : runs'[j].inbox[n] = runs[j].inbox[n]
  BY <1>3 DEF Requests
<1>6. /\ DOMAIN runs' = DOMAIN runs
       /\ \A j \in DOMAIN runs : runs'[j].owner = runs[j].owner /\ runs'[j].state = runs[j].state
  BY <1>3
<1>7. TypeOK'
  BY <1>2, <1>3 DEF IInv, TypeOK
<1>8. OwnRequestOnce'
  BY <1>3, <1>4, <1>5 DEF IInv, OwnRequestOnce
<1>9. CallHasRun'
  BY <1>2, <1>6, <1>4 DEF IInv, CallHasRun
<1>10. ResultAfterCall'
  BY <1>2, <1>6, <1>4 DEF IInv, ResultAfterCall
<1>11. OpenIsAttended'
  BY <1>2, <1>4, <1>6 DEF IInv, OpenIsAttended, Open
<1>12. LeavesClosed'
  <2>1. \A d \in Callers : child[d] # 0 => child[d] \in DOMAIN runs
    BY RunsType DEF IInv, TypeOK
  <2> QED BY <1>2, <1>6, <2>1 DEF IInv, LeavesClosed, Open
<1> QED BY <1>7, <1>8, <1>9, <1>10, <1>11, <1>12 DEF IInv

\* A child may close at any time, whatever its caller is doing.
LEMMA ClosesInvariant ==
    ASSUME IInv, NEW k \in DOMAIN runs, NEW s \in Outcomes, ChildCloses(k, s)
    PROVE  IInv'
<1>1. UNCHANGED <<pc, id, child, err, result, cancelled>>
  BY DEF ChildCloses, calls
<1>2. /\ runs' \in Seq(Run) /\ Len(runs') = Len(runs) /\ DOMAIN runs' = DOMAIN runs
      /\ \A j \in DOMAIN runs : /\ runs'[j].owner = runs[j].owner
                                /\ runs'[j].inbox = runs[j].inbox
                                /\ j # k => runs'[j] = runs[j]
      /\ runs[k].state = "open" /\ runs'[k].state = s
  BY Closed DEF IInv
<1>3. \A j \in DOMAIN runs : Requests(j)' = Requests(j)
  BY <1>2 DEF Requests
<1>4. TypeOK'
  BY <1>1, <1>2 DEF IInv, TypeOK
<1>5. OwnRequestOnce'
  BY <1>2, <1>3 DEF IInv, OwnRequestOnce
<1>6. CallHasRun'
  <2>1. DOMAIN runs' = DOMAIN runs /\ \A j \in DOMAIN runs : runs'[j].owner = runs[j].owner
    BY <1>2
  <2> QED BY <1>1, <1>3, <2>1 DEF IInv, CallHasRun
<1>7. ResultAfterCall'
  BY <1>1, <1>2, <1>3 DEF IInv, ResultAfterCall
<1>8. OpenIsAttended'
  BY <1>1, <1>2, <1>3 DEF IInv, OpenIsAttended, Open, Outcomes
<1>9. LeavesClosed'
  <2>1. \A d \in Callers : child[d] # 0 => child[d] \in DOMAIN runs
    BY RunsType DEF IInv, TypeOK
  <2> QED BY <1>1, <1>2, <2>1 DEF IInv, LeavesClosed, Open, Outcomes
<1> QED BY <1>4, <1>5, <1>6, <1>7, <1>8, <1>9 DEF IInv

LEMMA NextInvariant == IInv /\ [Next]_vars => IInv'
<1> SUFFICES ASSUME IInv, [Next]_vars PROVE IInv'
  OBVIOUS
<1>1. ASSUME NEW c \in Callers, Step(c) PROVE IInv'
  BY <1>1, StartsInvariant, ReturnInvariant, AcceptedInvariant, CompletedInvariant DEF Step
<1>2. CASE Next
  BY <1>1, <1>2, StartCallInvariant, CancelInvariant, ClosesInvariant, ExternalInvariant DEF Next
<1>3. CASE UNCHANGED vars
  <2>1. \A k : Requests(k)' = Requests(k)
    BY <1>3 DEF vars, Requests
  <2> QED BY <1>3, <2>1 DEF vars, calls, IInv, TypeOK, OwnRequestOnce, CallHasRun,
                            ResultAfterCall, OpenIsAttended, LeavesClosed, Open
<1> QED BY <1>2, <1>3

-----------------------------------------------------------------------------
\* Signals that are all the same one are at most one.
LEMMA AtMostOne ==
    ASSUME NEW S, \A m, n \in S : m = n
    PROVE  Cardinality(S) <= 1
<1>1. CASE S = {}
  BY <1>1, FS_EmptySet
<1>2. CASE S # {}
  <2>1. PICK n : S = {n}
    BY <1>2
  <2> QED BY <2>1, FS_Singleton
<1> QED BY <1>1, <1>2

LEMMA InvariantImplies ==
    IInv => TypeOK /\ RequestToOwnChild /\ NilMeansServed /\ RequestIsAwaited
<1> SUFFICES ASSUME IInv
             PROVE  TypeOK /\ RequestToOwnChild /\ NilMeansServed /\ RequestIsAwaited
  OBVIOUS
<1>1. RequestToOwnChild
  <2> SUFFICES ASSUME NEW k \in DOMAIN runs
               PROVE  /\ Cardinality(Requests(k)) <= 1
                      /\ \A n \in Requests(k) : runs[k].inbox[n] = runs[k].owner
    BY DEF RequestToOwnChild
  <2>1. \A m, n \in Requests(k) : m = n
    BY DEF IInv, OwnRequestOnce
  <2> QED BY <2>1, AtMostOne DEF IInv, OwnRequestOnce
<1>2. NilMeansServed
  BY DEF IInv, ResultAfterCall, NilMeansServed
<1>3. RequestIsAwaited
  BY DEF IInv, OpenIsAttended, LeavesClosed, RequestIsAwaited
<1> QED BY <1>1, <1>2, <1>3 DEF IInv

\* Every variable of the callers and the children keeps its type.
THEOREM TypeCorrect == Spec => []TypeOK
BY InitInvariant, NextInvariant, InvariantImplies, PTL DEF Spec

\* Because SignalChildWorkflow is addressed with the run ID it got from
\* GetChildWorkflowExecution, a request never reaches another caller's child
\* under the same workflow ID, however calls, closings and signals interleave.
THEOREM RequestStaysWithChild == Spec => []RequestToOwnChild
BY InitInvariant, NextInvariant, InvariantImplies, PTL DEF Spec

\* A nil of StartChildWorkflow comes with the result of a child that ran with
\* the request of this call.
THEOREM NilIsOwnResult == Spec => []NilMeansServed
BY InitInvariant, NextInvariant, InvariantImplies, PTL DEF Spec

\* StartChildWorkflow does not return while its child works on the request,
\* unless its context is cancelled; the one error that leaves an open child
\* is the signal's, and that child never gets the request.
THEOREM ReturnsLeaveNoWork == Spec => []RequestIsAwaited
BY InitInvariant, NextInvariant, InvariantImplies, PTL DEF Spec

-----------------------------------------------------------------------------
(* WorkflowData                                                            *)

USE NoRunAssumption, VersionAssumption

\* There is data once some run went through WorkflowInit.
DataStored == \A r \in Runs : at[r] # "idle" => ExecutionData # NoRun

\* The shared data is the run's own, or that of a run that stored after it.
SharedIsLater == \A r \in Runs : at[r] # "idle" => ExecutionData \in {r} \cup later[r]

DataInv == DataTypeOK /\ DataStored /\ SharedIsLater /\ RetriesUntilDeadline /\ NoEarlierData

LEMMA DataInitInvariant == DataInit => DataInv
BY DEF DataInit, DataInv, DataTypeOK, DataStored, SharedIsLater, NoEarlierData,
       RetriesUntilDeadline, Results, Error, Call

\* Steps of a run leave the callers alone, and the later runs only grow.
LEMMA WorkflowSide ==
    ASSUME DataInv, NEW r \in Runs, Workflow(r)
    PROVE  DataInv'
<1>1. UNCHANGED <<client, call, ctxDone, ret>>
  BY DEF Workflow, StoreData, RegisterQuery, ReturnData, GetWorkflowData,
         RunActivity, CloseRun, reader
<1>2. /\ WorkflowID \in Runs \cup {NoRun} /\ ExecutionData \in Runs \cup {NoRun}
      /\ version \in [Runs -> 0 .. MaxVersion] /\ own \in [Runs -> Runs \cup {NoRun}]
      /\ at \in [Runs -> {"idle", "stored", "registered", "executing", "closed"}]
      /\ seen \in [Runs -> Runs \cup {NoRun}] /\ later \in [Runs -> SUBSET Runs]
      /\ \A q \in Runs : at[q] = "executing" => own[q] # NoRun
  BY DEF DataInv, DataTypeOK
<1>3. version' \in [Runs -> 0 .. MaxVersion]
  <2>1. CASE RunActivity(r)
    <3>1. own[r] \in Runs /\ version[own[r]] < MaxVersion
      BY <1>2, <2>1 DEF RunActivity
    <3>2. version[own[r]] + 1 \in 0 .. MaxVersion
      BY <1>2, <3>1
    <3>3. version' = [version EXCEPT ![own[r]] = version[own[r]] + 1]
      BY <2>1 DEF RunActivity
    <3> QED BY <1>2, <3>1, <3>2, <3>3
  <2>2. CASE version' = version
    BY <1>2, <2>2
  <2> QED
    BY <2>1, <2>2 DEF Workflow, StoreData, RegisterQuery, ReturnData,
           GetWorkflowData, CloseRun
<1>4. /\ WorkflowID' \in Runs \cup {NoRun} /\ seen' \in [Runs -> Runs \cup {NoRun}]
  BY <1>2 DEF Workflow, StoreData, RegisterQuery, ReturnData, GetWorkflowData,
         RunActivity, CloseRun
<1>5. /\ ExecutionData' \in Runs \cup {NoRun} /\ own' \in [Runs -> Runs \cup {NoRun}]
      /\ at' \in [Runs -> {"idle", "stored", "registered", "executing", "closed"}]
      /\ DataStored' /\ \A q \in Runs : at'[q] = "executing" => own'[q] # NoRun
  <2>1. CASE StoreData(r)
    BY <1>2, <2>1 DEF StoreData, Stored, DataInv, DataStored
  <2>2. CASE RegisterQuery(r) \/ CloseRun(r)
    BY <1>2, <2>2 DEF RegisterQuery, CloseRun, DataInv, DataStored
  <2>3. CASE ReturnData(r)
    BY <1>2, <2>3 DEF ReturnData, DataInv, DataStored
  <2>4. CASE GetWorkflowData(r) \/ RunActivity(r)
    BY <1>2, <2>4 DEF GetWorkflowData, RunActivity, DataInv, DataStored
  <2> QED BY <2>1, <2>2, <2>3, <2>4 DEF Workflow
<1>6. /\ later' \in [Runs -> SUBSET Runs] /\ SharedIsLater'
      /\ \A q \in Runs : later[q] \subseteq later'[q]
  <2>1. CASE StoreData(r)
    <3>1. /\ later' = [q \in Runs |-> IF at[q] = "idle" THEN later[q] ELSE later[q] \cup {r}]
          /\ ExecutionData' = r /\ \A q \in Runs \ {r} : at'[q] = at[q]
      BY <1>2, <2>1 DEF StoreData, Stored
    <3> QED BY <1>2, <3>1 DEF SharedIsLater
  <2>2. CASE UNCHANGED <<later, ExecutionData>> /\ \A q \in Runs : at[q] = "idle" => at'[q] = "idle"
    BY <1>2, <2>2 DEF DataInv, SharedIsLater
  <2>3. \/ StoreData(r)
        \/ UNCHANGED <<later, ExecutionData>> /\ \A q \in Runs : at[q] = "idle" => at'[q] = "idle"
    BY <1>2 DEF Workflow, RegisterQuery, ReturnData, GetWorkflowData, RunActivity, CloseRun
  <2> QED BY <2>1, <2>2, <2>3
<1>7. DataTypeOK'
  BY <1>1, <1>3, <1>4, <1>5, <1>6 DEF DataInv, DataTypeOK
<1>8. RetriesUntilDeadline'
  BY <1>1 DEF DataInv, RetriesUntilDeadline
<1>9. ASSUME NEW q \in Runs, own'[q] # NoRun PROVE own'[q] \in {q} \cup later'[q]
  <2>1. CASE own'[q] = own[q]
    BY <1>6, <1>9, <2>1 DEF DataInv, NoEarlierData
  <2>2. CASE own'[q] # own[q]
    <3>1. ReturnData(r)
      BY <2>2 DEF Workflow, StoreData, RegisterQuery, GetWorkflowData, RunActivity, CloseRun
    <3>2. q = r /\ own'[q] = ExecutionData /\ at[q] # "idle"
      BY <1>2, <2>2, <3>1 DEF ReturnData
    <3> QED BY <1>6, <3>2 DEF DataInv, SharedIsLater
  <2> QED BY <2>1, <2>2
<1>10. ASSUME NEW c \in Clients, ret'[c].kind = "data"
       PROVE  ret'[c].run \in {Target(c)'} \cup later'[Target(c)']
  <2>1. call[c].run \in Runs /\ ret[c].run \in {call[c].run} \cup later[call[c].run]
    BY <1>1, <1>10 DEF DataInv, DataTypeOK, Call, NoEarlierData, Target
  <2> QED BY <1>1, <1>6, <2>1 DEF Target
<1>11. NoEarlierData'
  BY <1>9, <1>10 DEF NoEarlierData
<1> QED BY <1>5, <1>6, <1>7, <1>8, <1>11 DEF DataInv

\* Steps of a caller leave the runs alone; it returns once, with a result.
LEMMA ReaderSide ==
    ASSUME DataInv, NEW c \in Clients,
           QueryWorkflowData(c) \/ ContextDone(c) \/ Read(c)
    PROVE  DataInv'
<1>1. UNCHANGED <<WorkflowID, ExecutionData, version, at, own, seen, later, call>>
  BY DEF QueryWorkflowData, ContextDone, Read, LoopContext, QuerySucceeds,
         QueryFails, TimerFires, WaitContext, workflow
<1>2. /\ version \in [Runs -> 0 .. MaxVersion] /\ ExecutionData \in Runs \cup {NoRun}
      /\ client \in [Clients -> {"idle", "loop", "waiting", "returned"}]
      /\ call[c].run \in Runs /\ ctxDone \in [Clients -> BOOLEAN]
      /\ ret \in [Clients -> Results]
  BY DEF DataInv, DataTypeOK, Call
<1>3. \A k \in {"none", "context", "query", "decode"} :
         Error(k) \in Results /\ Error(k).kind = k
  BY DEF Error, Results
<1>4. DataStored' /\ SharedIsLater'
  BY <1>1 DEF DataInv, DataStored, SharedIsLater
<1>5. ASSUME client' \in [Clients -> {"idle", "loop", "waiting", "returned"}],
             ctxDone' \in [Clients -> BOOLEAN], ret' \in [Clients -> Results]
      PROVE  DataTypeOK'
  BY <1>1, <1>5 DEF DataInv, DataTypeOK
<1>6. ASSUME ret' = ret PROVE NoEarlierData'
  BY <1>1, <1>6 DEF DataInv, NoEarlierData, Target
<1>7. CASE ContextDone(c)
  <2>1. ctxDone' = [ctxDone EXCEPT ![c] = TRUE] /\ UNCHANGED <<client, ret>>
    BY <1>7 DEF ContextDone
  <2>2. DataTypeOK'
    BY <1>2, <1>5, <2>1
  <2>3. RetriesUntilDeadline'
    BY <1>1, <1>2, <2>1 DEF DataInv, RetriesUntilDeadline
  <2> QED BY <1>4, <1>6, <2>1, <2>2, <2>3 DEF DataInv
<1>8. ASSUME NEW p \in {"loop", "waiting"},
             client' = [client EXCEPT ![c] = p], UNCHANGED <<ctxDone, ret>>
      PROVE  DataInv'
  <2>1. DataTypeOK'
    BY <1>2, <1>5, <1>8
  <2>2. RetriesUntilDeadline'
    BY <1>1, <1>2, <1>8 DEF DataInv, RetriesUntilDeadline
  <2> QED BY <1>4, <1>6, <1>8, <2>1, <2>2 DEF DataInv
<1>9. ASSUME NEW x \in Results, Answer(c, x), UNCHANGED ctxDone,
             x.kind \in {"data", "decode"} \/ (x.kind = "context" /\ ctxDone[c]) \/ ~call[c].bounded,
             x.kind = "data" => x.run \in {call[c].run} \cup later[call[c].run]
      PROVE  DataInv'
  <2>1. client' = [client EXCEPT ![c] = "returned"] /\ ret' = [ret EXCEPT ![c] = x]
    BY <1>9 DEF Answer
  <2>2. DataTypeOK'
    BY <1>2, <1>5, <1>9, <2>1
  <2>3. RetriesUntilDeadline'
    BY <1>1, <1>2, <1>9, <2>1 DEF DataInv, RetriesUntilDeadline
  <2>4. NoEarlierData'
    BY <1>1, <1>2, <1>9, <2>1 DEF DataInv, NoEarlierData, Target
  <2> QED BY <1>4, <2>2, <2>3, <2>4 DEF DataInv
<1>10. CASE LoopContext(c) \/ WaitContext(c)
  <2>1. ctxDone[c] /\ Answer(c, Error("context")) /\ UNCHANGED ctxDone
    BY <1>10 DEF LoopContext, WaitContext
  <2> QED BY <1>3, <1>9, <2>1
<1>11. CASE QuerySucceeds(c)
  <2>1. ExecutionData \in {call[c].run} \cup later[call[c].run] /\ ExecutionData \in Runs
    BY <1>2, <1>11 DEF QuerySucceeds, HandlerAnswers, Target, DataInv, SharedIsLater
  <2>2. PICK x \in Results : /\ x.kind \in {"data", "decode"} /\ Answer(c, x)
                             /\ x.kind = "data" => x.run = ExecutionData
    <3>1. [kind |-> "data", run |-> ExecutionData, version |-> version[ExecutionData]] \in Results
      BY <1>2, <2>1 DEF Results
    <3> QED BY <1>3, <1>11, <3>1 DEF QuerySucceeds
  <2> QED BY <1>9, <1>11, <2>1, <2>2 DEF QuerySucceeds
<1>12. CASE QueryFails(c)
  <2>1. UNCHANGED ctxDone /\ AfterError(c)
    BY <1>12 DEF QueryFails
  <2>2. CASE call[c].bounded
    BY <1>8, <2>1, <2>2 DEF AfterError
  <2>3. CASE ~call[c].bounded
    BY <1>3, <1>9, <2>1, <2>3 DEF AfterError
  <2> QED BY <2>2, <2>3
<1>13. CASE QueryWorkflowData(c) \/ TimerFires(c)
  BY <1>8, <1>13 DEF QueryWorkflowData, TimerFires
<1> QED
  BY <1>7, <1>10, <1>11, <1>12, <1>13 DEF Read

LEMMA DataInvariant == DataSpec => []DataInv
<1>1. ASSUME DataInv, [DataNext]_dataVars PROVE DataInv'
  <2>1. CASE UNCHANGED dataVars
    BY <1>1, <2>1 DEF dataVars, workflow, reader, DataInv, DataTypeOK, DataStored,
           SharedIsLater, NoEarlierData, Target, RetriesUntilDeadline
  <2> QED BY <1>1, <2>1, WorkflowSide, ReaderSide DEF DataNext
<1> QED BY <1>1, DataInitInvariant, PTL DEF DataSpec

-----------------------------------------------------------------------------
\* Every variable of the runs and of the callers of QueryWorkflowData keeps its
\* type; an executing run was handed some data (WorkflowInit).
THEOREM DataTypeCorrect == DataSpec => []DataTypeOK
BY DataInvariant, PTL DEF DataInv

\* QueryWorkflowData with a deadline outlasts any number of failing queries,
\* also when runs share their data and its handler is never ready.
THEOREM OutlastsFailures == DataSpec => []RetriesUntilDeadline
BY DataInvariant, PTL DEF DataInv

\* However many runs share the execution, none is handed and no reader is
\* answered the data of a run that called WorkflowInit before it.
THEOREM SharedOnlyWithLater == DataSpec => []NoEarlierData
BY DataInvariant, PTL DEF DataInv
=============================================================================
