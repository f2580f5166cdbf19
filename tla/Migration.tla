----------------------------- MODULE Migration -----------------------------
(***************************************************************************)
(* MigrationWorker (db/migration.go): processes that register statements   *)
(* and run them, each on its own, against one database.  The list is kept  *)
(* in memory only, nothing records what was applied, and every Migration   *)
(* starts from the first statement.                                        *)
(*                                                                         *)
(* The database is external.  A statement is atomic and commits by itself. *)
(* It is "once" (CREATE TABLE: refused when already in effect), "safe"     *)
(* (CREATE TABLE IF NOT EXISTS) or "again" (a seed INSERT: takes effect    *)
(* every time).  An execution may fail without effect, or take effect and  *)
(* still report an error (a deadline, a lost reply).                       *)
(***************************************************************************)
EXTENDS Integers, Sequences

CONSTANTS
    Workers,        \* processes of the application
    MaxStatements,  \* bound: length of the list
    MaxCalls,       \* bound: calls of Migration
    MaxFaults       \* bound: failed executions and crashes

ASSUME BoundsAssumption == MaxStatements \in Nat /\ MaxCalls \in Nat /\ MaxFaults \in Nat

\* What the setup code registers: each statement by its kind.
Programs == UNION {[1 .. n -> {"once", "safe", "again"}] : n \in 1 .. MaxStatements}

VARIABLES
    program,    \* what the setup code registers, in order
    effects,    \* the database: how often each statement took effect
    owner,      \* history: the call whose execution last took effect
    Tables,     \* MigrationWorker.Tables: indexes into program
    pc,         \* idle, migrating
    next,       \* the range loop's position
    call,       \* history: the number of the worker's latest call
    err,        \* its result: "none" while there is none, "nil", "exists", "failed"
    calls, faults,
    partial     \* history: some call began before all was registered

database == <<program, effects, owner>>
vars     == <<database, Tables, pc, next, call, err, calls, faults, partial>>

Statements == DOMAIN program

Init ==
    /\ program \in Programs
    /\ effects = [s \in DOMAIN program |-> 0]
    /\ owner = [s \in DOMAIN program |-> 0]
    /\ Tables = [w \in Workers |-> <<>>]
    /\ pc = [w \in Workers |-> "idle"]
    /\ next = [w \in Workers |-> 1]
    /\ call = [w \in Workers |-> 0]
    /\ err = [w \in Workers |-> "none"]
    /\ calls = 0 /\ faults = 0 /\ partial = FALSE

-----------------------------------------------------------------------------
\* The setup code of the application registers its statements in order, in
\* one call or several, before a Migration or between two.
RegisterMigration(w, n) ==
    /\ pc[w] = "idle" /\ n \in 1 .. Len(program) - Len(Tables[w])
    /\ Tables' = [Tables EXCEPT ![w] = @ \o [i \in 1 .. n |-> Len(@) + i]]
    /\ UNCHANGED <<database, pc, next, call, err, calls, faults, partial>>

Migration(w) ==
    /\ pc[w] = "idle" /\ calls < MaxCalls
    /\ calls' = calls + 1
    /\ call' = [call EXCEPT ![w] = calls + 1]
    /\ pc' = [pc EXCEPT ![w] = "migrating"]
    /\ next' = [next EXCEPT ![w] = 1]
    /\ err' = [err EXCEPT ![w] = "none"]
    /\ partial' = (partial \/ Len(Tables[w]) < Len(program))
    /\ UNCHANGED <<database, Tables, faults>>

Statement(w) == Tables[w][next[w]]

\* The range loop has seen the whole list.  Variant: but for its last element.
ShortOfLast(w) == next[w] >= Len(Tables[w])
AtEnd(w)       == next[w] > Len(Tables[w])

Return(w, e) ==
    /\ pc' = [pc EXCEPT ![w] = "idle"]
    /\ err' = [err EXCEPT ![w] = e]
    /\ next' = next

Advance(w) ==
    /\ next' = [next EXCEPT ![w] = @ + 1]
    /\ UNCHANGED <<pc, err>>

\* if err != nil { return err }.  Variants: the next statement is tried all
\* the same; "already exists" is taken for success.
KeepGoing(w, e)  == Advance(w)
SkipExists(w, e) == IF e = "exists" THEN Advance(w) ELSE Return(w, e)
OnError(w, e)    == Return(w, e)

Refused(s) == program[s] = "once" /\ effects[s] > 0

TakesEffect(w, s) ==
    IF program[s] = "safe" /\ effects[s] > 0
    THEN UNCHANGED database
    ELSE /\ effects' = [effects EXCEPT ![s] = @ + 1]
         /\ owner' = [owner EXCEPT ![s] = call[w]]
         /\ UNCHANGED program

Executing(w) == pc[w] = "migrating" /\ ~AtEnd(w)

\* ExecContext succeeds.
Exec(w) ==
    /\ Executing(w) /\ ~Refused(Statement(w))
    /\ TakesEffect(w, Statement(w)) /\ Advance(w)
    /\ UNCHANGED <<Tables, call, calls, faults, partial>>

ExecRefused(w) ==
    /\ Executing(w) /\ Refused(Statement(w))
    /\ OnError(w, "exists")
    /\ UNCHANGED <<database, Tables, call, calls, faults, partial>>

\* The context is done or the connection breaks, before the statement took
\* effect or after.
ExecFails(w) ==
    /\ Executing(w) /\ faults < MaxFaults
    /\ \/ UNCHANGED database
       \/ ~Refused(Statement(w)) /\ TakesEffect(w, Statement(w))
    /\ OnError(w, "failed")
    /\ faults' = faults + 1
    /\ UNCHANGED <<Tables, call, calls, partial>>

MigrationReturns(w) ==
    /\ pc[w] = "migrating" /\ AtEnd(w)
    /\ Return(w, "nil")
    /\ UNCHANGED <<database, Tables, call, calls, faults, partial>>

\* A new process starts with an empty list.
Crash(w) ==
    /\ faults < MaxFaults
    /\ faults' = faults + 1
    /\ Tables' = [Tables EXCEPT ![w] = <<>>]
    /\ pc' = [pc EXCEPT ![w] = "idle"]
    /\ err' = [err EXCEPT ![w] = "none"]
    /\ UNCHANGED <<database, next, call, calls, partial>>

Step(w) == Exec(w) \/ ExecRefused(w) \/ ExecFails(w) \/ MigrationReturns(w)

Next == \E w \in Workers :
            \/ \E n \in 1 .. Len(program) : RegisterMigration(w, n)
            \/ Migration(w) \/ Step(w) \/ Crash(w)

Spec == Init /\ [][Next]_vars

-----------------------------------------------------------------------------
\* The first n statements, as a list registers them.
Listed(n) == [i \in 1 .. n |-> i]

\* Every variable stays in its type; the list is a prefix of what the setup
\* code registers, each statement once.
TypeOK ==
    /\ program \in Programs
    /\ effects \in [Statements -> Nat] /\ owner \in [Statements -> 0 .. MaxCalls]
    /\ Tables \in [Workers -> {Listed(n) : n \in 0 .. Len(program)}]
    /\ pc \in [Workers -> {"idle", "migrating"}]
    /\ next \in [Workers -> 1 .. Len(program) + 1]
    /\ call \in [Workers -> 0 .. MaxCalls]
    /\ err \in [Workers -> {"none", "nil", "exists", "failed"}]
    /\ calls \in 0 .. MaxCalls /\ faults \in 0 .. MaxFaults /\ partial \in BOOLEAN

\* However many processes migrate at once, fail or die half way and start
\* over, a statement is in effect only when all before it are.
SchemaIsPrefix ==
    \A s, t \in Statements : s < t /\ effects[t] > 0 => effects[s] > 0

\* A Migration that returns nil has itself executed every statement that
\* cannot be repeated.  So a database left half migrated by one call is never
\* finished by another, and of two processes at most one returns nil.
NilOwnsOnceStatements ==
    \A w \in Workers : err[w] = "nil" =>
        \A i \in DOMAIN Tables[w] :
            program[Tables[w][i]] = "once" /\ i < next[w] =>
                owner[Tables[w][i]] = call[w]

\* Processes that race over the whole list, without faults, bring the
\* database all the way: the losers' errors do not leave a gap.
RaceHasWinner ==
    /\ faults = 0 /\ ~partial /\ calls > 0
    /\ \A w \in Workers : pc[w] = "idle"
    => \A s \in Statements : effects[s] > 0
=============================================================================
