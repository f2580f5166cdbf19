----------------------------- MODULE Repository -----------------------------
(***************************************************************************)
(* The generic SQL helpers (db/repository.go) used by concurrent callers   *)
(* on one connection pool (db/db.go).  The database and database/sql are   *)
(* external: statements are atomic, ids are assigned in order, a query     *)
(* reads the rows of the moment it starts, a caller waits while            *)
(* MaxOpenConns connections are in use, and a connection of an open Rows   *)
(* comes back when Next returns false, not when Scan fails (the callers'   *)
(* contexts are taken to outlive the calls).                               *)
(***************************************************************************)
EXTENDS Integers, Sequences, FiniteSets, SequencesExt

CONSTANTS
    Callers,
    Values,         \* what a row holds besides its id
    NoValue,
    Drivers,        \* the values of DBConfig.Db that are tried
    MaxOpenConns,   \* DBConfig.MaxOpenConns
    MaxRows,        \* bound: rows ever inserted
    MaxCalls,       \* bound: calls of one caller
    MaxScanFailures \* bound: rows that do not fit the struct

ASSUME DriversAssumption == Drivers \subseteq {"mysql", "postgresql"}
ASSUME BoundsAssumption == /\ MaxOpenConns \in Nat \ {0} /\ MaxRows \in Nat
                           /\ MaxCalls \in Nat /\ MaxScanFailures \in Nat
ASSUME ValuesAssumption == NoValue \notin Values

\* A query text, by the placeholders and commands it contains.
Queries == [marks : SUBSET {"?", "$"}, commands : SUBSET {"SELECT", "INSERT", "UPDATE"}]

VARIABLES
    driver,     \* DBConfig.Db
    table,      \* the rows: id -> value
    lastID,     \* ids given out
    conns,      \* connections in use
    lost,       \* connections that will not come back
    pc,         \* idle, inserted, iterating, returned
    op,         \* history: the function called last, and the id it was given
    id,         \* saveMySQL: the id of the statement's result
    cursor,     \* FindAll: rows not yet scanned
    snapshot,   \* history: the rows its query matched
    result,     \* FindAll's slice, or the one row FindByID scans
    saved,      \* history: the id Save returned last
    born,       \* history: the caller that inserted each row
    err,        \* "nil", or which error the call returned
    broken,     \* history: the driver failed between two rows
    calls

db   == <<driver, table, lastID, born>>
pool == <<conns, lost>>
call == <<pc, op, saved, id, cursor, snapshot, result, err, broken, calls>>
vars == <<db, pool, call>>

Row(i) == <<i, table[i]>>
Rows   == [i \in 1 .. lastID |-> Row(i)]

Init ==
    /\ driver \in Drivers
    /\ table = [i \in {} |-> NoValue] /\ lastID = 0
    /\ conns = 0 /\ lost = 0
    /\ pc = [c \in Callers |-> "idle"]
    /\ op = [c \in Callers |-> <<"none", 0>>]
    /\ saved = [c \in Callers |-> 0] /\ born = [i \in {} |-> NoValue]
    /\ id = [c \in Callers |-> 0]
    /\ cursor = [c \in Callers |-> <<>>]
    /\ snapshot = [c \in Callers |-> <<>>]
    /\ result = [c \in Callers |-> <<>>]
    /\ err = [c \in Callers |-> "nil"]
    /\ broken = [c \in Callers |-> FALSE]
    /\ calls = [c \in Callers |-> 0]

-----------------------------------------------------------------------------
QueryValidation(q, command) == command \in q.commands

\* The first test wins: "?" anywhere in the text means MySQL.
CheckDriverBasedExpression(q) ==
    IF "?" \in q.marks THEN "mysql" ELSE IF "$" \in q.marks THEN "postgresql" ELSE "none"

\* Statements use "?" on MySQL and "$" on PostgreSQL, where "?" may still
\* occur as an operator.
Accepted(q) == IF driver = "mysql" THEN "$" \notin q.marks ELSE "$" \in q.marks

FreeConn == conns < MaxOpenConns

Begin(c, f, i) == /\ pc[c] \in {"idle", "returned"} /\ calls[c] < MaxCalls
                  /\ calls' = [calls EXCEPT ![c] = @ + 1]
                  /\ op' = [op EXCEPT ![c] = <<f, i>>]

Finish(c, e, x) ==
    /\ pc' = [pc EXCEPT ![c] = "returned"]
    /\ err' = [err EXCEPT ![c] = e]
    /\ result' = [result EXCEPT ![c] = x]

\* The statement gives the row the next id.
Insert(c, v) ==
    LET new == lastID + 1 IN
    /\ lastID < MaxRows
    /\ driver' = driver
    /\ lastID' = new
    /\ table' = [i \in DOMAIN table \cup {new} |-> IF i = new THEN v ELSE table[i]]
    /\ born' = [i \in DOMAIN born \cup {new} |-> IF i = new THEN c ELSE born[i]]

-----------------------------------------------------------------------------
(* Save                                                                    *)

\* No known placeholder (sql.ErrConnDone), then no command, else the
\* database refuses the statement.
SaveError(q) ==
    IF CheckDriverBasedExpression(q) = "none" THEN "conn done"
    ELSE IF ~QueryValidation(q, "INSERT") THEN "invalid" ELSE "driver"

SaveRefused(c, q) ==
    /\ Begin(c, "Save", 0)
    /\ Finish(c, SaveError(q), <<>>)
    /\ UNCHANGED <<db, pool, saved, id, cursor, snapshot, broken>>

\* stmt.ExecContext inserts and keeps the id in its result.
SaveMySQL(c, q, v) ==
    /\ Begin(c, "Save", 0) /\ FreeConn
    /\ CheckDriverBasedExpression(q) = "mysql" /\ QueryValidation(q, "INSERT") /\ Accepted(q)
    /\ Insert(c, v)
    /\ id' = [id EXCEPT ![c] = lastID + 1]
    /\ pc' = [pc EXCEPT ![c] = "inserted"]
    /\ UNCHANGED <<pool, saved, cursor, snapshot, result, err, broken>>

\* Variant: the id is asked of the database once more.
LastInsertIdOfTable(c) == lastID
LastInsertId(c) == id[c]

\* result.LastInsertId: the PostgreSQL driver does not support it.
SaveReturns(c) ==
    /\ pc[c] = "inserted"
    /\ IF driver = "mysql" THEN /\ Finish(c, "nil", <<>>)
                                /\ saved' = [saved EXCEPT ![c] = LastInsertId(c)]
                           ELSE /\ Finish(c, "driver", <<>>)
                                /\ saved' = saved
    /\ UNCHANGED <<db, pool, op, id, cursor, snapshot, broken, calls>>

\* INSERT ... RETURNING id, scanned from the one row it yields.  Without
\* RETURNING there is no row, and what it returns may not fit the id: the row
\* is stored and Save fails.
SavePostgres(c, q, v) ==
    /\ Begin(c, "Save", 0) /\ FreeConn
    /\ CheckDriverBasedExpression(q) = "postgresql" /\ QueryValidation(q, "INSERT") /\ Accepted(q)
    /\ Insert(c, v)
    /\ \/ Finish(c, "nil", <<>>) /\ saved' = [saved EXCEPT ![c] = lastID + 1]
       \/ \E e \in {"no rows", "scan"} : Finish(c, e, <<>>) /\ saved' = saved
    /\ UNCHANGED <<pool, id, cursor, snapshot, broken>>

-----------------------------------------------------------------------------
(* FindAll                                                                 *)

FindAll(c) ==
    /\ Begin(c, "FindAll", 0) /\ FreeConn
    /\ conns' = conns + 1
    /\ cursor' = [cursor EXCEPT ![c] = Rows]
    /\ snapshot' = [snapshot EXCEPT ![c] = Rows]
    /\ result' = [result EXCEPT ![c] = <<>>]
    /\ broken' = [broken EXCEPT ![c] = FALSE]
    /\ pc' = [pc EXCEPT ![c] = "iterating"]
    /\ UNCHANGED <<db, lost, saved, id, err>>

\* Variant: every element of the slice points to the one scanned struct.
AppendAliased(s, row) == [i \in 1 .. Len(s) + 1 |-> row]

\* Each element is a new struct with a copy of the scanned fields.
AppendCopy(s, row) == Append(s, row)

ScanRow(c) ==
    /\ pc[c] = "iterating" /\ cursor[c] # <<>>
    /\ result' = [result EXCEPT ![c] = AppendCopy(@, Head(cursor[c]))]
    /\ cursor' = [cursor EXCEPT ![c] = Tail(@)]
    /\ UNCHANGED <<db, pool, pc, op, saved, id, snapshot, err, broken, calls>>

\* Variant: the connection stays with the Rows.
ReleaseNothing == conns' = conns
Release == conns' = conns - 1

\* rows.Next returns false: no rows left, or the driver failed; rows.Err is
\* not looked at, and the error is nil in both cases.
RowsEnd(c) ==
    /\ pc[c] = "iterating"
    /\ broken' = [broken EXCEPT ![c] = cursor[c] # <<>>]
    /\ Release
    /\ Finish(c, "nil", result[c])
    /\ UNCHANGED <<db, lost, op, saved, id, cursor, snapshot, calls>>

\* The Rows is left open.
ScanFails(c) ==
    /\ pc[c] = "iterating" /\ cursor[c] # <<>> /\ lost < MaxScanFailures
    /\ lost' = lost + 1
    /\ Finish(c, "scan", <<>>)
    /\ UNCHANGED <<db, conns, op, saved, id, cursor, snapshot, broken, calls>>

-----------------------------------------------------------------------------
(* FindByID, Update, Delete                                                *)

\* The query lacks its command, or the database refuses the statement; so
\* too FindAll before its first row.
Refused(c, f, e) ==
    /\ f \in {"FindAll", "FindByID", "Update"} /\ e \in {"invalid", "driver"}
    /\ Begin(c, f, 0)
    /\ Finish(c, e, <<>>)
    /\ UNCHANGED <<db, pool, saved, id, cursor, snapshot, broken>>

\* The statement is prepared before the result pointer is looked at; a row
\* that does not fit the struct is another error than no row.
FindByID(c, i) ==
    /\ Begin(c, "FindByID", i) /\ FreeConn
    /\ \/ i \in DOMAIN table /\ (Finish(c, "nil", <<Row(i)>>) \/ Finish(c, "scan", <<>>))
       \/ i \notin DOMAIN table /\ Finish(c, "no rows", <<>>)
       \/ Finish(c, "nil result", <<>>)
    /\ UNCHANGED <<db, pool, saved, id, cursor, snapshot, broken>>

Update(c, i, v) ==
    /\ Begin(c, "Update", i) /\ FreeConn
    /\ table' = [j \in DOMAIN table |-> IF j = i THEN v ELSE table[j]]
    /\ Finish(c, "nil", <<>>)
    /\ UNCHANGED <<driver, lastID, born, pool, saved, id, cursor, snapshot, broken>>

\* Sprintf is given the id for a format with one verb, so the statement ends
\* in "?%!(EXTRA uint64=...)", which no database parses.
Delete(c, i) ==
    /\ Begin(c, "Delete", i) /\ FreeConn
    /\ Finish(c, "driver", <<>>)
    /\ UNCHANGED <<db, pool, saved, id, cursor, snapshot, broken>>

-----------------------------------------------------------------------------
InsertQueries == {q \in Queries : "UPDATE" \notin q.commands}

Start(c) ==
    \/ \E q \in InsertQueries : \/ SaveRefused(c, q)
                                \/ \E v \in Values : SaveMySQL(c, q, v) \/ SavePostgres(c, q, v)
    \/ FindAll(c)
    \/ \E f \in {"FindAll", "FindByID", "Update"}, e \in {"invalid", "driver"} : Refused(c, f, e)
    \/ \E i \in 1 .. MaxRows : \/ FindByID(c, i) \/ Delete(c, i)
                               \/ \E v \in Values : Update(c, i, v)

Continue(c) == SaveReturns(c) \/ ScanRow(c) \/ RowsEnd(c) \/ ScanFails(c)

Next == \E c \in Callers : Start(c) \/ Continue(c)

Spec == Init /\ [][Next]_vars /\ \A c \in Callers : WF_vars(Continue(c))

-----------------------------------------------------------------------------
Ops        == {"none", "Save", "FindAll", "FindByID", "Update", "Delete"} \X (0 .. MaxRows)
RowSeqs(n) == Seq((1 .. n) \X Values)

\* Every variable stays in its type; ids are dense and never reused.
TypeOK ==
    /\ driver \in Drivers
    /\ lastID \in 0 .. MaxRows
    /\ table \in [1 .. lastID -> Values] /\ born \in [1 .. lastID -> Callers]
    /\ conns \in 0 .. MaxOpenConns /\ lost \in 0 .. MaxScanFailures
    /\ pc \in [Callers -> {"idle", "inserted", "iterating", "returned"}]
    /\ op \in [Callers -> Ops]
    /\ id \in [Callers -> 0 .. lastID] /\ saved \in [Callers -> 0 .. lastID]
    /\ err \in [Callers -> {"nil", "conn done", "invalid", "driver", "scan", "no rows", "nil result"}]
    /\ cursor \in [Callers -> RowSeqs(lastID)] /\ snapshot \in [Callers -> RowSeqs(lastID)]
    /\ result \in [Callers -> RowSeqs(lastID)]
    /\ broken \in [Callers -> BOOLEAN]
    /\ calls \in [Callers -> 0 .. MaxCalls]

\* The id Save returns is that of the caller's own row, whoever inserts
\* between its statement and its return.
SavedIdIsOwn == \A c \in Callers : saved[c] # 0 => born[saved[c]] = c

FoundAll(c) == op[c][1] = "FindAll" /\ pc[c] = "returned" /\ err[c] = "nil"

\* What FindAll returns are the rows its query matched, each once, in order
\* and with the values of that moment, however slowly they are read and
\* whatever others write; cut short only by a failing driver.
FindAllIsSnapshot ==
    \A c \in Callers : FoundAll(c) =>
        /\ IsPrefix(result[c], snapshot[c])
        /\ ~broken[c] => result[c] = snapshot[c]

\* The pool's books balance: a connection is out for a FindAll in progress or
\* for one whose Scan failed, and for nothing else.
ConnectionsAccounted ==
    conns = Cardinality({c \in Callers : pc[c] = "iterating"}) + lost

\* While fewer scans have failed than the pool has connections, a waiting
\* caller always gets one in the end.
PoolRecovers == []<>FreeConn

\* db/repository.go:149: FindAll "returns all matching rows".  The code does
\* not keep this when the driver fails between two rows.
FindAllReturnsAll == \A c \in Callers : FoundAll(c) => result[c] = snapshot[c]
=============================================================================
