-------------------------- MODULE MigrationProofs --------------------------
(***************************************************************************)
(* Proofs about Migration, for any number of processes, any list of        *)
(* statements, and any number of calls and faults.                         *)
(***************************************************************************)
EXTENDS Migration, SequenceTheorems, TLAPS

\* A call under way, or one that returned nil, has put every statement it
\* passed in effect, and executed itself those that cannot be repeated.
PassedByItself ==
    \A w \in Workers : pc[w] = "migrating" \/ err[w] = "nil" =>
        /\ next[w] <= Len(Tables[w]) + 1
        /\ \A s \in Statements : s < next[w] =>
               effects[s] > 0 /\ (program[s] = "once" => owner[s] = call[w])

\* A call has no result while it is under way; without a call there is no
\* effect; and a call that began with the whole list keeps it.
CallUnderWay ==
    /\ \A w \in Workers : pc[w] = "migrating" =>
           /\ err[w] = "none" /\ calls > 0
           /\ ~partial => Len(Tables[w]) = Len(program)
    /\ calls = 0 => \A s \in Statements : effects[s] = 0

\* Some call is at the first statement that is not in effect.
LeaderAtGap ==
    faults = 0 /\ ~partial /\ calls > 0 =>
        \/ \A s \in Statements : effects[s] > 0
        \/ \E u \in Workers : /\ pc[u] = "migrating" /\ next[u] \in Statements
                              /\ effects[next[u]] = 0

IInv == TypeOK /\ SchemaIsPrefix /\ PassedByItself /\ CallUnderWay /\ LeaderAtGap

USE BoundsAssumption

-----------------------------------------------------------------------------
\* A list of the first n statements has n members, the i-th at place i.
LEMMA ListedIsSeq ==
    ASSUME NEW n \in Nat
    PROVE  /\ Listed(n) \in Seq(Nat) /\ Len(Listed(n)) = n
           /\ \A i \in 1 .. n : Listed(n)[i] = i
<1>1. Listed(n) \in [1 .. n -> Nat] /\ DOMAIN Listed(n) = 1 .. n
  BY DEF Listed
<1>2. Listed(n) \in Seq(Nat)
  BY <1>1, SeqDef
<1>3. Len(Listed(n)) = n
  BY <1>1, <1>2, LenProperties
<1> QED BY <1>2, <1>3 DEF Listed

\* RegisterMigration appends the statements that follow.
LEMMA ListedExtends ==
    ASSUME NEW k \in Nat, NEW n \in Nat
    PROVE  Listed(k) \o [i \in 1 .. n |-> k + i] = Listed(k + n)
<1> DEFINE more == [i \in 1 .. n |-> k + i]
<1>1. more \in Seq(Nat) /\ Len(more) = n /\ \A i \in 1 .. n : more[i] = k + i
  <2>1. more \in [1 .. n -> Nat] /\ DOMAIN more = 1 .. n
    OBVIOUS
  <2>2. more \in Seq(Nat)
    BY <2>1, SeqDef
  <2>3. Len(more) = n
    BY <2>1, <2>2, LenProperties
  <2> QED BY <2>2, <2>3
<1> HIDE DEF more
<1>2. Listed(k) \o more \in Seq(Nat) /\ Len(Listed(k) \o more) = k + n
  BY <1>1, ListedIsSeq, ConcatProperties
<1>3. \A i \in 1 .. k + n : (Listed(k) \o more)[i] = i
  <2> SUFFICES ASSUME NEW i \in 1 .. k + n PROVE (Listed(k) \o more)[i] = i
    OBVIOUS
  <2>1. (Listed(k) \o more)[i] = IF i <= k THEN Listed(k)[i] ELSE more[i - k]
    <3>1. Listed(k) \in Seq(Nat) /\ Len(Listed(k)) = k
      BY ListedIsSeq
    <3>2. /\ Len(Listed(k)) + Len(more) = k + n
          /\ \A j \in 1 .. Len(Listed(k)) + Len(more) :
                (Listed(k) \o more)[j] = IF j <= Len(Listed(k)) THEN Listed(k)[j]
                                         ELSE more[j - Len(Listed(k))]
      BY <1>1, <3>1, ConcatProperties
    <3> QED BY <3>1, <3>2
  <2> QED BY <2>1, <1>1, ListedIsSeq
<1>4. Listed(k + n) \in Seq(Nat) /\ Len(Listed(k + n)) = k + n
      /\ \A i \in 1 .. k + n : Listed(k + n)[i] = i
  BY ListedIsSeq
<1>5. Listed(k) \o more = Listed(k + n)
  BY <1>2, <1>3, <1>4, SeqEqual
<1> QED BY <1>5 DEF more

\* The sizes the model's expressions stand for.
LEMMA Sizes ==
    ASSUME TypeOK
    PROVE  /\ Len(program) \in Nat /\ Len(program) >= 1
           /\ Statements = 1 .. Len(program)
           /\ \A w \in Workers : /\ Len(Tables[w]) \in 0 .. Len(program)
                                 /\ Tables[w] = Listed(Len(Tables[w]))
                                 /\ DOMAIN Tables[w] = 1 .. Len(Tables[w])
                                 /\ \A i \in 1 .. Len(Tables[w]) : Tables[w][i] = i
<1>1. /\ Len(program) \in Nat /\ Len(program) >= 1 /\ Statements = 1 .. Len(program)
  <2>1. PICK n \in 1 .. MaxStatements : program \in [1 .. n -> {"once", "safe", "again"}]
    BY DEF TypeOK, Programs
  <2>2. n \in Nat /\ n >= 1 /\ DOMAIN program = 1 .. n
    BY <2>1
  <2>3. program \in Seq({"once", "safe", "again"})
    BY <2>1, <2>2, SeqDef
  <2>4. Len(program) = n
    BY <2>2, <2>3, LenProperties
  <2> QED BY <2>2, <2>4 DEF Statements
<1>2. ASSUME NEW w \in Workers
      PROVE  /\ Len(Tables[w]) \in 0 .. Len(program)
             /\ Tables[w] = Listed(Len(Tables[w]))
             /\ DOMAIN Tables[w] = 1 .. Len(Tables[w])
             /\ \A i \in 1 .. Len(Tables[w]) : Tables[w][i] = i
  <2>1. PICK n \in 0 .. Len(program) : Tables[w] = Listed(n)
    BY DEF TypeOK
  <2>2. n \in Nat
    BY <1>1, <2>1
  <2>3. DOMAIN Listed(n) = 1 .. n
    BY DEF Listed
  <2> QED BY <2>1, <2>2, <2>3, ListedIsSeq
<1> QED BY <1>1, <1>2

-----------------------------------------------------------------------------
LEMMA InitInvariant == Init => IInv
<1> SUFFICES ASSUME Init PROVE IInv
  OBVIOUS
<1>1. Len(program) \in Nat
  <2>1. PICK n \in 1 .. MaxStatements : program \in [1 .. n -> {"once", "safe", "again"}]
    BY DEF Init, Programs
  <2>2. program \in Seq({"once", "safe", "again"})
    BY <2>1, SeqDef
  <2> QED BY <2>2, LenProperties
<1>2. <<>> = Listed(0)
  BY ListedIsSeq, EmptySeq
<1>3. TypeOK
  <2>1. Tables \in [Workers -> {Listed(n) : n \in 0 .. Len(program)}]
    BY <1>1, <1>2 DEF Init
  <2>2. effects \in [Statements -> Nat] /\ owner \in [Statements -> 0 .. MaxCalls]
    BY DEF Init, Statements
  <2>3. /\ pc \in [Workers -> {"idle", "migrating"}]
        /\ next \in [Workers -> 1 .. Len(program) + 1]
        /\ call \in [Workers -> 0 .. MaxCalls]
        /\ err \in [Workers -> {"none", "nil", "exists", "failed"}]
    BY <1>1 DEF Init
  <2>4. program \in Programs /\ calls \in 0 .. MaxCalls /\ faults \in 0 .. MaxFaults
    BY DEF Init
  <2>5. partial \in BOOLEAN
    BY DEF Init
  <2> QED BY <2>1, <2>2, <2>3, <2>4, <2>5 DEF TypeOK
<1>4. SchemaIsPrefix /\ PassedByItself /\ CallUnderWay /\ LeaderAtGap
  BY DEF Init, SchemaIsPrefix, PassedByItself, CallUnderWay, LeaderAtGap, Statements
<1> QED BY <1>3, <1>4 DEF IInv

-----------------------------------------------------------------------------
\* The statement a call is at is the one of that number.
LEMMA AtStatement ==
    ASSUME TypeOK, NEW w \in Workers, Executing(w)
    PROVE  /\ Statement(w) = next[w] /\ next[w] \in Statements
           /\ next[w] \in 1 .. Len(program) /\ next[w] <= Len(Tables[w])
           /\ pc[w] = "migrating"
<1>1. next[w] \in 1 .. Len(program) + 1
  BY DEF TypeOK
<1> QED BY <1>1, Sizes DEF Executing, AtEnd, Statement

\* The types of what a call works on, and of what it leaves behind.
WorkerTypes ==
    /\ pc \in [Workers -> {"idle", "migrating"}]
    /\ next \in [Workers -> 1 .. Len(program) + 1]
    /\ err \in [Workers -> {"none", "nil", "exists", "failed"}]

DatabaseTypes ==
    /\ effects \in [Statements -> Nat] /\ owner \in [Statements -> 0 .. MaxCalls]

TablesTypes == Tables \in [Workers -> {Listed(n) : n \in 0 .. Len(program)}]

CountTypes ==
    /\ call \in [Workers -> 0 .. MaxCalls]
    /\ calls \in 0 .. MaxCalls /\ faults \in 0 .. MaxFaults /\ partial \in BOOLEAN

LEMMA TypeParts ==
    /\ TypeOK => program \in Programs /\ WorkerTypes /\ DatabaseTypes /\ TablesTypes /\ CountTypes
    /\ program' \in Programs /\ WorkerTypes' /\ DatabaseTypes' /\ TablesTypes' /\ CountTypes' => TypeOK'
BY DEF TypeOK, WorkerTypes, DatabaseTypes, TablesTypes, CountTypes

\* A statement that takes effect leaves the database in its type.
LEMMA EffectTypes ==
    ASSUME TypeOK, NEW w \in Workers, NEW s \in Statements, TakesEffect(w, s)
    PROVE  program' = program /\ DatabaseTypes'
<1>1. call[w] \in 0 .. MaxCalls
  BY DEF TypeOK
<1>2. program' = program
  BY DEF TakesEffect, database
<1>3. CASE UNCHANGED <<effects, owner>>
  BY <1>2, <1>3 DEF TypeOK, DatabaseTypes, Statements
<1>4. CASE /\ effects' = [effects EXCEPT ![s] = @ + 1]
           /\ owner' = [owner EXCEPT ![s] = call[w]]
  BY <1>1, <1>2, <1>4 DEF TypeOK, DatabaseTypes, Statements
<1> QED BY <1>3, <1>4 DEF TakesEffect, database

\* What each action keeps of the types.
LEMMA TypesKept ==
    ASSUME TypeOK, Next
    PROVE  TypeOK'
<1> PICK w \in Workers :
        \/ \E n \in 1 .. Len(program) : RegisterMigration(w, n)
        \/ Migration(w) \/ Step(w) \/ Crash(w)
  BY DEF Next
<1>0. program \in Programs /\ WorkerTypes /\ DatabaseTypes /\ TablesTypes /\ CountTypes
  BY TypeParts
<1>1. CASE \E n \in 1 .. Len(program) : RegisterMigration(w, n)
  <2>1. PICK n \in 1 .. Len(program) : RegisterMigration(w, n)
    BY <1>1
  <2> DEFINE k == Len(Tables[w])
  <2>2. Tables' = [Tables EXCEPT ![w] = Tables[w] \o [i \in 1 .. n |-> k + i]]
    BY <2>1 DEF RegisterMigration
  <2>3. k \in Nat /\ k + n \in 0 .. Len(program) /\ Tables[w] = Listed(k) /\ n \in Nat
    BY <2>1, Sizes DEF RegisterMigration
  <2>4. Tables' = [Tables EXCEPT ![w] = Listed(k + n)]
    BY <2>2, <2>3, ListedExtends
  <2>5. UNCHANGED <<program, effects, owner, pc, next, call, err, calls, faults, partial>>
    BY <2>1 DEF RegisterMigration, database
  <2>6. TablesTypes'
    BY <1>0, <2>3, <2>4, <2>5 DEF TablesTypes
  <2> QED BY <1>0, <2>5, <2>6, TypeParts DEF WorkerTypes, DatabaseTypes, CountTypes, Statements
<1>2. CASE Migration(w)
  <2>1. partial' \in BOOLEAN
    BY <1>2 DEF Migration
  <2>2. calls' \in 0 .. MaxCalls /\ call' \in [Workers -> 0 .. MaxCalls]
    BY <1>0, <1>2 DEF Migration, CountTypes
  <2>3. UNCHANGED <<program, effects, owner, Tables, faults>>
    BY <1>2 DEF Migration, database
  <2>4. WorkerTypes'
    BY <1>0, <1>2, <2>3, Sizes DEF Migration, WorkerTypes
  <2> QED BY <1>0, <2>1, <2>2, <2>3, <2>4, TypeParts
        DEF DatabaseTypes, TablesTypes, CountTypes, Statements
<1>3. CASE Exec(w)
  <2>1. program' = program /\ DatabaseTypes'
    BY <1>3, EffectTypes, AtStatement DEF Exec
  <2>2. UNCHANGED <<Tables, call, calls, faults, partial>>
    BY <1>3 DEF Exec
  <2>3. next[w] \in 1 .. Len(program)
    BY <1>3, AtStatement DEF Exec
  <2>4. WorkerTypes'
    BY <1>0, <1>3, <2>1, <2>3, Sizes DEF Exec, Advance, WorkerTypes
  <2> QED BY <1>0, <2>1, <2>2, <2>4, TypeParts DEF TablesTypes, CountTypes
<1>4. CASE ExecRefused(w) \/ MigrationReturns(w)
  <2>1. UNCHANGED <<program, effects, owner, Tables, call, calls, faults, partial>>
    BY <1>4 DEF ExecRefused, MigrationReturns, database
  <2>2. WorkerTypes'
    BY <1>0, <1>4, <2>1 DEF ExecRefused, MigrationReturns, OnError, Return, WorkerTypes
  <2> QED BY <1>0, <2>1, <2>2, TypeParts DEF DatabaseTypes, TablesTypes, CountTypes, Statements
<1>5. CASE ExecFails(w)
  <2>1. program' = program /\ DatabaseTypes'
    <3>1. CASE UNCHANGED database
      BY <1>0, <3>1 DEF database, DatabaseTypes, Statements
    <3>2. CASE TakesEffect(w, Statement(w))
      BY <1>5, <3>2, EffectTypes, AtStatement DEF ExecFails
    <3> QED BY <1>5, <3>1, <3>2 DEF ExecFails
  <2>2. UNCHANGED <<Tables, call, calls, partial>>
    BY <1>5 DEF ExecFails
  <2>3. faults' \in 0 .. MaxFaults
    BY <1>0, <1>5 DEF ExecFails, CountTypes
  <2>4. WorkerTypes'
    BY <1>0, <1>5, <2>1 DEF ExecFails, OnError, Return, WorkerTypes
  <2> QED BY <1>0, <2>1, <2>2, <2>3, <2>4, TypeParts DEF TablesTypes, CountTypes
<1>6. CASE Crash(w)
  <2>1. UNCHANGED <<program, effects, owner, next, call, calls, partial>>
    BY <1>6 DEF Crash, database
  <2>2. faults' \in 0 .. MaxFaults
    BY <1>0, <1>6 DEF Crash, CountTypes
  <2>3. TablesTypes'
    <3>1. <<>> = Listed(0)
      BY ListedIsSeq, EmptySeq
    <3> QED BY <1>0, <1>6, <2>1, <3>1, Sizes DEF Crash, TablesTypes
  <2>4. WorkerTypes'
    BY <1>0, <1>6, <2>1 DEF Crash, WorkerTypes
  <2> QED BY <1>0, <2>1, <2>2, <2>3, <2>4, TypeParts DEF DatabaseTypes, CountTypes, Statements
<1> QED BY <1>1, <1>2, <1>3, <1>4, <1>5, <1>6 DEF Step

-----------------------------------------------------------------------------
\* What an execution may do to the database: nothing is undone, and what
\* cannot be repeated takes effect for the first time.
LEMMA Effect ==
    ASSUME TypeOK, NEW w \in Workers, NEW s \in Statements, ~Refused(s), TakesEffect(w, s)
    PROVE  /\ program' = program /\ effects'[s] > 0
           /\ \A t \in Statements : effects[t] > 0 => effects'[t] > 0
           /\ \A t \in Statements \ {s} : effects'[t] = effects[t] /\ owner'[t] = owner[t]
           /\ program[s] = "once" => effects[s] = 0 /\ owner'[s] = call[w]
<1>1. \A t \in Statements : effects[t] \in Nat
  BY DEF TypeOK
<1>2. program' = program
  BY DEF TakesEffect, database
<1>3. CASE program[s] = "safe" /\ effects[s] > 0
  BY <1>1, <1>2, <1>3 DEF TakesEffect, database
<1>4. CASE ~(program[s] = "safe" /\ effects[s] > 0)
  <2>1. effects' = [effects EXCEPT ![s] = @ + 1] /\ owner' = [owner EXCEPT ![s] = call[w]]
    BY <1>4 DEF TakesEffect
  <2> QED BY <1>1, <1>2, <2>1 DEF TypeOK, Refused
<1> QED BY <1>3, <1>4

\* An execution that took effect, with or without its caller knowing: the
\* statement's predecessors were in effect, and no other call has passed it
\* when it cannot be repeated.
LEMMA EffectInvariant ==
    ASSUME IInv, NEW w \in Workers, Executing(w), ~Refused(Statement(w)),
           TakesEffect(w, Statement(w)), UNCHANGED <<Tables, call, calls>>
    PROVE  /\ SchemaIsPrefix'
           /\ \A v \in Workers : pc[v] = "migrating" \/ err[v] = "nil" =>
                  \A t \in Statements : t < next[v] =>
                      effects'[t] > 0 /\ (program[t] = "once" => owner'[t] = call[v])
           /\ effects'[next[w]] > 0
           /\ program[next[w]] = "once" => owner'[next[w]] = call[w]
<1> DEFINE s == next[w]
<1>1. s \in Statements /\ Statement(w) = s /\ pc[w] = "migrating" /\ s \in Nat
  BY AtStatement DEF IInv
<1>2. Statements = 1 .. Len(program) /\ Len(program) \in Nat
  BY Sizes DEF IInv
<1>3. /\ program' = program /\ effects'[s] > 0
      /\ \A t \in Statements : effects[t] > 0 => effects'[t] > 0
      /\ \A t \in Statements \ {s} : effects'[t] = effects[t] /\ owner'[t] = owner[t]
      /\ program[s] = "once" => effects[s] = 0 /\ owner'[s] = call[w]
  BY <1>1, Effect DEF IInv
<1>4. \A t \in Statements : t < s => effects[t] > 0
  BY <1>1 DEF IInv, PassedByItself
<1> HIDE DEF s
<1>5. SchemaIsPrefix'
  <2> SUFFICES ASSUME NEW a \in Statements, NEW b \in Statements, a < b, effects'[b] > 0
               PROVE  effects'[a] > 0
    BY <1>3 DEF SchemaIsPrefix, Statements
  <2>1. CASE b = s
    BY <1>3, <1>4, <2>1
  <2>2. CASE b # s
    BY <1>3, <2>2 DEF IInv, SchemaIsPrefix
  <2> QED BY <2>1, <2>2
<1>6. ASSUME NEW v \in Workers, pc[v] = "migrating" \/ err[v] = "nil",
             NEW t \in Statements, t < next[v]
      PROVE  effects'[t] > 0 /\ (program[t] = "once" => owner'[t] = call[v])
  <2>1. effects[t] > 0 /\ (program[t] = "once" => owner[t] = call[v])
    BY <1>6 DEF IInv, PassedByItself
  <2>2. effects[t] \in Nat
    BY DEF IInv, TypeOK
  <2>3. program[t] = "once" => t # s
    BY <1>3, <2>1, <2>2
  <2> QED BY <1>3, <2>1, <2>3
<1> QED BY <1>3, <1>5, <1>6 DEF s

\* The steps that leave the database alone and move no call forward.
LEMMA RegisterInvariant ==
    ASSUME IInv, TypeOK', NEW w \in Workers, NEW n \in 1 .. Len(program),
           RegisterMigration(w, n)
    PROVE  IInv'
<1>1. UNCHANGED <<program, effects, owner, pc, next, call, err, calls, faults, partial>>
  BY DEF RegisterMigration, database
<1>2. pc[w] = "idle" /\ \A v \in Workers \ {w} : Tables'[v] = Tables[v]
  BY DEF RegisterMigration, IInv, TypeOK
<1>3. Len(Tables[w]) \in Nat /\ Len(Tables'[w]) \in Nat /\ Len(Tables[w]) <= Len(Tables'[w])
  <2> DEFINE more == [i \in 1 .. n |-> Len(Tables[w]) + i]
  <2>1. /\ Len(Tables[w]) \in Nat /\ n \in Nat
        /\ Tables[w] = Listed(Len(Tables[w]))
    BY Sizes DEF IInv
  <2>2. Tables'[w] = Tables[w] \o more
    BY DEF RegisterMigration, IInv, TypeOK
  <2>3. Tables'[w] = Listed(Len(Tables[w]) + n)
    BY <2>1, <2>2, ListedExtends
  <2>4. Len(Tables[w]) + n \in Nat
    BY <2>1
  <2>5. Len(Tables'[w]) = Len(Tables[w]) + n
    BY <2>3, <2>4, ListedIsSeq
  <2> QED BY <2>1, <2>5
<1>4. SchemaIsPrefix' /\ LeaderAtGap'
  BY <1>1 DEF IInv, SchemaIsPrefix, LeaderAtGap, Statements
<1>5. \A v \in Workers : next[v] \in Nat /\ Len(Tables[v]) \in Nat
  <2>1. TypeOK /\ Len(program) \in Nat /\ \A v \in Workers : Len(Tables[v]) \in 0 .. Len(program)
    BY Sizes DEF IInv
  <2>2. next \in [Workers -> 1 .. Len(program) + 1]
    BY <2>1 DEF TypeOK
  <2> QED BY <2>1, <2>2
<1>6. PassedByItself'
  BY <1>1, <1>2, <1>3, <1>5 DEF IInv, PassedByItself, Statements
<1>7. CallUnderWay'
  BY <1>1, <1>2 DEF IInv, CallUnderWay, Statements
<1> QED BY <1>4, <1>6, <1>7 DEF IInv

LEMMA MigrationInvariant ==
    ASSUME IInv, TypeOK', NEW w \in Workers, Migration(w)
    PROVE  IInv'
<1>1. UNCHANGED <<program, effects, owner, Tables, faults>>
  BY DEF Migration, database
<1>2. /\ pc' = [pc EXCEPT ![w] = "migrating"] /\ next' = [next EXCEPT ![w] = 1]
      /\ err' = [err EXCEPT ![w] = "none"] /\ call' = [call EXCEPT ![w] = calls + 1]
      /\ calls' = calls + 1 /\ pc[w] = "idle"
  BY DEF Migration
<1>3. /\ partial' => partial \/ Len(Tables[w]) < Len(program)
      /\ ~partial' => ~partial /\ ~(Len(Tables[w]) < Len(program))
  BY DEF Migration
<1>4. /\ Len(program) \in Nat /\ Len(program) >= 1 /\ Statements = 1 .. Len(program)
      /\ \A v \in Workers : Len(Tables[v]) \in 0 .. Len(program)
  BY Sizes DEF IInv
<1>5. SchemaIsPrefix'
  BY <1>1 DEF IInv, SchemaIsPrefix, Statements
<1>6. PassedByItself'
  BY <1>1, <1>2, <1>4 DEF IInv, TypeOK, PassedByItself, Statements
<1>7. CallUnderWay'
  <2>1. calls \in Nat
    BY DEF IInv, TypeOK
  <2> QED BY <1>1, <1>2, <1>3, <1>4, <2>1 DEF IInv, TypeOK, CallUnderWay, Statements
<1>8. LeaderAtGap'
  <2> SUFFICES ASSUME faults = 0, ~partial
               PROVE  \/ \A s \in Statements : effects[s] > 0
                      \/ \E u \in Workers : /\ pc'[u] = "migrating" /\ next'[u] \in Statements
                                            /\ effects[next'[u]] = 0
    BY <1>1, <1>3 DEF LeaderAtGap, Statements
  <2>1. CASE calls = 0
    <3>1. pc'[w] = "migrating" /\ next'[w] = 1 /\ 1 \in Statements
      BY <1>2, <1>4 DEF IInv, TypeOK
    <3> QED BY <2>1, <3>1 DEF IInv, CallUnderWay
  <2>2. CASE calls > 0 /\ \A s \in Statements : effects[s] > 0
    BY <2>2
  <2>3. CASE calls > 0 /\ \E u \in Workers : /\ pc[u] = "migrating" /\ next[u] \in Statements
                                              /\ effects[next[u]] = 0
    <3>1. PICK u \in Workers : pc[u] = "migrating" /\ next[u] \in Statements /\ effects[next[u]] = 0
      BY <2>3
    <3>2. pc'[u] = "migrating" /\ next'[u] = next[u]
      BY <1>2, <3>1 DEF IInv, TypeOK
    <3> QED BY <3>1, <3>2
  <2> QED BY <2>1, <2>2, <2>3 DEF IInv, LeaderAtGap, TypeOK
<1> QED BY <1>5, <1>6, <1>7, <1>8 DEF IInv

LEMMA ReturnsInvariant ==
    ASSUME IInv, TypeOK', NEW w \in Workers, ExecRefused(w) \/ MigrationReturns(w)
    PROVE  IInv'
<1>1. UNCHANGED <<program, effects, owner, Tables, next, call, calls, faults, partial>>
  BY DEF ExecRefused, MigrationReturns, OnError, Return, database
<1>2. /\ pc' = [pc EXCEPT ![w] = "idle"] /\ pc[w] = "migrating"
      /\ \E e \in {"nil", "exists"} : err' = [err EXCEPT ![w] = e]
  BY DEF ExecRefused, MigrationReturns, OnError, Return, Executing
<1>3. SchemaIsPrefix'
  BY <1>1 DEF IInv, SchemaIsPrefix, Statements
<1>4. PassedByItself'
  BY <1>1, <1>2 DEF IInv, TypeOK, PassedByItself, Statements
<1>5. CallUnderWay'
  BY <1>1, <1>2 DEF IInv, TypeOK, CallUnderWay, Statements
<1>6. LeaderAtGap'
  <2> SUFFICES ASSUME faults = 0, ~partial, calls > 0
               PROVE  \/ \A s \in Statements : effects[s] > 0
                      \/ \E u \in Workers : /\ pc'[u] = "migrating" /\ next[u] \in Statements
                                            /\ effects[next[u]] = 0
    BY <1>1 DEF LeaderAtGap, Statements
  <2>1. ~(next[w] \in Statements /\ effects[next[w]] = 0)
    <3>1. CASE ExecRefused(w)
      BY <3>1, AtStatement DEF ExecRefused, Refused, IInv
    <3>2. CASE MigrationReturns(w)
      <4>1. next[w] > Len(Tables[w]) /\ Len(Tables[w]) = Len(program)
        BY <3>2 DEF MigrationReturns, AtEnd, IInv, CallUnderWay
      <4> QED BY <4>1, Sizes DEF IInv
    <3> QED BY <3>1, <3>2
  <2>2. CASE \E u \in Workers : /\ pc[u] = "migrating" /\ next[u] \in Statements
                               /\ effects[next[u]] = 0
    <3>1. PICK u \in Workers : pc[u] = "migrating" /\ next[u] \in Statements /\ effects[next[u]] = 0
      BY <2>2
    <3>2. u # w
      BY <2>1, <3>1
    <3>3. pc'[u] = "migrating"
      BY <1>2, <3>1, <3>2 DEF IInv, TypeOK
    <3> QED BY <3>1, <3>3
  <2> QED BY <2>2 DEF IInv, LeaderAtGap
<1> QED BY <1>3, <1>4, <1>5, <1>6 DEF IInv

LEMMA CrashInvariant ==
    ASSUME IInv, TypeOK', NEW w \in Workers, Crash(w)
    PROVE  IInv'
<1>1. UNCHANGED <<program, effects, owner, next, call, calls, partial>>
  BY DEF Crash, database
<1>2. /\ pc' = [pc EXCEPT ![w] = "idle"] /\ err' = [err EXCEPT ![w] = "none"]
      /\ Tables' = [Tables EXCEPT ![w] = <<>>] /\ faults' = faults + 1
  BY DEF Crash
<1>3. SchemaIsPrefix'
  BY <1>1 DEF IInv, SchemaIsPrefix, Statements
<1>4. PassedByItself'
  BY <1>1, <1>2 DEF IInv, TypeOK, PassedByItself, Statements
<1>5. CallUnderWay'
  BY <1>1, <1>2 DEF IInv, TypeOK, CallUnderWay, Statements
<1>6. LeaderAtGap'
  BY <1>2 DEF IInv, TypeOK, LeaderAtGap
<1> QED BY <1>3, <1>4, <1>5, <1>6 DEF IInv

\* A call moves past the statement it executed: when that was the gap, it is
\* at the next one, or there is none.
LEMMA ExecInvariant ==
    ASSUME IInv, TypeOK', NEW w \in Workers, Exec(w)
    PROVE  IInv'
<1> DEFINE s == next[w]
<1>1. UNCHANGED <<program, Tables, call, calls, faults, partial, pc, err>>
  BY DEF Exec, Advance, TakesEffect, database
<1>2. /\ s \in Statements /\ s \in 1 .. Len(program) /\ s <= Len(Tables[w])
      /\ pc[w] = "migrating" /\ Statement(w) = s
  BY AtStatement DEF IInv, Exec
<1>3. next' = [next EXCEPT ![w] = s + 1]
  BY DEF Exec, Advance
<1>4. /\ SchemaIsPrefix'
      /\ \A v \in Workers : pc[v] = "migrating" \/ err[v] = "nil" =>
             \A t \in Statements : t < next[v] =>
                 effects'[t] > 0 /\ (program[t] = "once" => owner'[t] = call[v])
      /\ effects'[s] > 0
      /\ program[s] = "once" => owner'[s] = call[w]
  BY <1>1, EffectInvariant DEF Exec
<1>5. /\ \A t \in Statements : effects[t] > 0 => effects'[t] > 0
      /\ \A t \in Statements \ {s} : effects'[t] = effects[t]
  BY <1>2, Effect DEF Exec, IInv
<1>6. /\ Len(program) \in Nat /\ Statements = 1 .. Len(program)
      /\ \A v \in Workers : Len(Tables[v]) \in 0 .. Len(program)
  BY Sizes DEF IInv
<1>7. \A v \in Workers \ {w} : next'[v] = next[v]
  BY <1>3 DEF IInv, TypeOK
<1>8. next'[w] = s + 1 /\ s \in Nat
  BY <1>2, <1>3 DEF IInv, TypeOK
<1>9. \A t \in Statements : effects[t] \in Nat /\ effects'[t] \in Nat
  BY <1>1 DEF IInv, TypeOK, Statements
<1> HIDE DEF s
<1>10. PassedByItself'
  <2> SUFFICES ASSUME NEW v \in Workers, pc[v] = "migrating" \/ err[v] = "nil"
               PROVE  /\ next'[v] <= Len(Tables[v]) + 1
                      /\ \A t \in Statements : t < next'[v] =>
                             effects'[t] > 0 /\ (program[t] = "once" => owner'[t] = call[v])
    BY <1>1 DEF PassedByItself, Statements
  <2>1. CASE v = w
    <3>1. next'[w] <= Len(Tables[w]) + 1
      BY <1>2, <1>6, <1>8
    <3>2. ASSUME NEW t \in Statements, t < s + 1, t # s
          PROVE  effects'[t] > 0 /\ (program[t] = "once" => owner'[t] = call[w])
      <4>1. t < s
        BY <1>6, <1>8, <3>2
      <4> QED BY <1>2, <1>4, <4>1 DEF s
    <3> QED BY <1>4, <1>8, <2>1, <3>1, <3>2
  <2>2. CASE v # w
    BY <1>4, <1>7, <2>2 DEF IInv, PassedByItself
  <2> QED BY <2>1, <2>2
<1>11. CallUnderWay'
  <2>1. calls # 0
    BY <1>2 DEF IInv, CallUnderWay, TypeOK
  <2> QED BY <1>1, <2>1 DEF IInv, CallUnderWay
<1>12. LeaderAtGap'
  <2> SUFFICES ASSUME faults = 0, ~partial, calls > 0
               PROVE  \/ \A t \in Statements : effects'[t] > 0
                      \/ \E u \in Workers : /\ pc[u] = "migrating" /\ next'[u] \in Statements
                                            /\ effects'[next'[u]] = 0
    BY <1>1 DEF LeaderAtGap, Statements
  <2>1. CASE \A t \in Statements : effects[t] > 0
    BY <1>5, <2>1
  <2>2. CASE effects[s] = 0
    <3>1. CASE s = Len(program)
      <4>1. \A t \in Statements : t < s \/ t = s
        BY <1>6, <1>8, <3>1
      <4> QED BY <1>2, <1>4, <4>1 DEF s
    <3>2. CASE s # Len(program)
      <4>1. s + 1 \in Statements /\ s < s + 1 /\ s + 1 # s
        BY <1>2, <1>6, <1>8, <3>2
      <4>2. ~(effects[s + 1] > 0)
        BY <1>2, <2>2, <4>1 DEF IInv, SchemaIsPrefix
      <4>3. effects'[s + 1] = 0
        BY <1>5, <1>9, <4>1, <4>2
      <4> QED BY <1>2, <1>8, <4>1, <4>3
    <3> QED BY <3>1, <3>2
  <2>3. CASE /\ effects[s] # 0
             /\ \E u \in Workers : /\ pc[u] = "migrating" /\ next[u] \in Statements
                                   /\ effects[next[u]] = 0
    <3>1. PICK u \in Workers : pc[u] = "migrating" /\ next[u] \in Statements /\ effects[next[u]] = 0
      BY <2>3
    <3>2. next[u] # s /\ u # w
      BY <2>3, <3>1 DEF s
    <3> QED BY <1>5, <1>7, <3>1, <3>2
  <2> QED BY <2>1, <2>2, <2>3 DEF IInv, LeaderAtGap
<1> QED BY <1>4, <1>10, <1>11, <1>12 DEF IInv

\* An execution that reports an error, whether it took effect or not.
LEMMA ExecFailsInvariant ==
    ASSUME IInv, TypeOK', NEW w \in Workers, ExecFails(w)
    PROVE  IInv'
<1>1. UNCHANGED <<program, Tables, next, call, calls, partial>>
  BY DEF ExecFails, OnError, Return, TakesEffect, database
<1>2. /\ pc' = [pc EXCEPT ![w] = "idle"] /\ err' = [err EXCEPT ![w] = "failed"]
      /\ faults' = faults + 1 /\ pc[w] = "migrating"
  BY DEF ExecFails, OnError, Return, Executing
<1>3. /\ SchemaIsPrefix'
      /\ \A v \in Workers : pc[v] = "migrating" \/ err[v] = "nil" =>
             \A t \in Statements : t < next[v] =>
                 effects'[t] > 0 /\ (program[t] = "once" => owner'[t] = call[v])
  <2>1. CASE UNCHANGED database
    BY <2>1 DEF IInv, SchemaIsPrefix, PassedByItself, database, Statements
  <2>2. CASE ~Refused(Statement(w)) /\ TakesEffect(w, Statement(w))
    BY <1>1, <2>2, EffectInvariant DEF ExecFails
  <2> QED BY <2>1, <2>2 DEF ExecFails
<1>4. PassedByItself'
  BY <1>1, <1>2, <1>3 DEF IInv, TypeOK, PassedByItself, Statements
<1>5. CallUnderWay'
  <2>1. calls # 0
    BY <1>2 DEF IInv, CallUnderWay, TypeOK
  <2> QED BY <1>1, <1>2, <2>1 DEF IInv, TypeOK, CallUnderWay
<1>6. LeaderAtGap'
  BY <1>2 DEF IInv, TypeOK, LeaderAtGap
<1> QED BY <1>3, <1>4, <1>5, <1>6 DEF IInv

LEMMA NextInvariant == IInv /\ [Next]_vars => IInv'
<1> SUFFICES ASSUME IInv, [Next]_vars PROVE IInv'
  OBVIOUS
<1>1. CASE Next
  <2>1. TypeOK'
    BY <1>1, TypesKept DEF IInv
  <2>2. PICK w \in Workers :
            \/ \E n \in 1 .. Len(program) : RegisterMigration(w, n)
            \/ Migration(w) \/ Step(w) \/ Crash(w)
    BY <1>1 DEF Next
  <2> QED BY <2>1, <2>2, RegisterInvariant, MigrationInvariant, ExecInvariant, ReturnsInvariant,
             ExecFailsInvariant, CrashInvariant DEF Step
<1>2. CASE UNCHANGED vars
  BY <1>2 DEF vars, database, IInv, TypeOK, SchemaIsPrefix, PassedByItself, CallUnderWay,
              LeaderAtGap, Statements
<1> QED BY <1>1, <1>2

-----------------------------------------------------------------------------
\* What the invariant says of the results of Migration.
LEMMA InvariantImplies ==
    IInv => TypeOK /\ SchemaIsPrefix /\ NilOwnsOnceStatements /\ RaceHasWinner
<1> SUFFICES ASSUME IInv
             PROVE  TypeOK /\ SchemaIsPrefix /\ NilOwnsOnceStatements /\ RaceHasWinner
  OBVIOUS
<1>1. NilOwnsOnceStatements
  <2> SUFFICES ASSUME NEW w \in Workers, err[w] = "nil", NEW i \in DOMAIN Tables[w],
                      program[Tables[w][i]] = "once", i < next[w]
               PROVE  owner[Tables[w][i]] = call[w]
    BY DEF NilOwnsOnceStatements
  <2>1. /\ Len(program) \in Nat /\ Statements = 1 .. Len(program)
        /\ Len(Tables[w]) \in 0 .. Len(program)
        /\ i \in 1 .. Len(Tables[w]) /\ Tables[w][i] = i
    BY Sizes DEF IInv
  <2>2. i \in Statements
    BY <2>1
  <2> QED BY <2>1, <2>2 DEF IInv, PassedByItself
<1>2. RaceHasWinner
  BY DEF IInv, LeaderAtGap, RaceHasWinner
<1> QED BY <1>1, <1>2 DEF IInv

\* Every variable of a run of MigrationWorkers keeps its type; each list is a
\* prefix of what the setup code registers.
THEOREM TypeCorrect == Spec => []TypeOK
BY InitInvariant, NextInvariant, InvariantImplies, PTL DEF Spec

\* Migration leaves no gap in the schema, whatever processes race, fail
\* between two ExecContext calls, or start over from the first statement.
THEOREM NoGapInSchema == Spec => []SchemaIsPrefix
BY InitInvariant, NextInvariant, InvariantImplies, PTL DEF Spec

\* A nil of Migration vouches for every statement that cannot be repeated:
\* this very call executed it.
THEOREM NilIsOwnWork == Spec => []NilOwnsOnceStatements
BY InitInvariant, NextInvariant, InvariantImplies, PTL DEF Spec

\* When processes race over the whole list without faults, the early returns
\* of the losers never leave the schema short.
THEOREM RaceCompletes == Spec => []RaceHasWinner
BY InitInvariant, NextInvariant, InvariantImplies, PTL DEF Spec
=============================================================================
