-------------------------- MODULE RepositoryProofs --------------------------
(***************************************************************************)
(* Proofs about Repository, for any callers, rows, values and connections. *)
(***************************************************************************)
EXTENDS Repository, SequenceTheorems, FiniteSetTheorems, TLAPS

\* The statement's result that a Save still holds is its own row's id.
InsertedOwn == \A c \in Callers : pc[c] = "inserted" =>
                   op[c][1] = "Save" /\ id[c] # 0 /\ born[id[c]] = c

\* What FindAll has scanned and what it has not are its query's rows.
ReadSoFar == \A c \in Callers : pc[c] = "iterating" =>
                 result[c] \o cursor[c] = snapshot[c]

Reading == {c \in Callers : pc[c] = "iterating"}

\* Only finitely many callers read at a time, however many there are.
ReadingFinite == IsFiniteSet(Reading)

IInv == /\ TypeOK /\ InsertedOwn /\ SavedIdIsOwn /\ ReadSoFar /\ FindAllIsSnapshot
        /\ ReadingFinite /\ ConnectionsAccounted

USE BoundsAssumption

-----------------------------------------------------------------------------
LEMMA RowsGrow ==
    ASSUME NEW n \in Nat
    PROVE  RowSeqs(n) \subseteq RowSeqs(n + 1)
<1>1. ((1 .. n) \X Values) \subseteq ((1 .. n + 1) \X Values)
  OBVIOUS
<1> QED BY <1>1, SeqMonotonic DEF RowSeqs

LEMMA NoRows ==
    ASSUME NEW n
    PROVE  <<>> \in RowSeqs(n)
BY EmptySeq DEF RowSeqs

LEMMA IdRange == 0 \in 0 .. MaxRows /\ \A i \in 1 .. MaxRows : i \in 0 .. MaxRows
OBVIOUS

\* Moving the head of t to the end of s keeps s \o t.
LEMMA MoveHead ==
    ASSUME NEW S, NEW s \in Seq(S), NEW t \in Seq(S), t # <<>>
    PROVE  /\ Append(s, Head(t)) \in Seq(S) /\ Tail(t) \in Seq(S)
           /\ Append(s, Head(t)) \o Tail(t) = s \o t
<1>1. Head(t) \in S /\ Tail(t) \in Seq(S) /\ <<Head(t)>> \in Seq(S)
  BY HeadTailProperties
<1>2. Append(s, Head(t)) = s \o <<Head(t)>> /\ Append(s, Head(t)) \in Seq(S)
  BY <1>1, AppendIsConcat, AppendProperties
<1>3. <<Head(t)>> \o Tail(t) = t
  <2>1. /\ Len(<<Head(t)>> \o Tail(t)) = Len(t)
        /\ \A i \in 1 .. Len(t) : (<<Head(t)>> \o Tail(t))[i] = t[i]
    BY <1>1, HeadTailProperties, ConcatProperties
  <2>2. <<Head(t)>> \o Tail(t) \in Seq(S)
    BY <1>1, ConcatProperties
  <2> QED BY <2>1, <2>2, SeqEqual
<1> QED BY <1>1, <1>2, <1>3, ConcatAssociative

\* s is a prefix of s \o t.
LEMMA PrefixOfConcat ==
    ASSUME NEW S, NEW s \in Seq(S), NEW t \in Seq(S)
    PROVE  IsPrefix(s, s \o t) /\ s \o <<>> = s
<1>1. Len(s) <= Len(s \o t)
  BY ConcatProperties, LenProperties
<1>2. SubSeq(s, 1, Len(s)) = s
  BY SubSeqFull
<1>3. SubSeq(s \o t, 1, Len(s)) = s
  BY SubSeqOfConcat1, <1>2, LenProperties
<1> QED BY <1>1, <1>2, <1>3, ConcatEmptySeq DEF IsPrefix

-----------------------------------------------------------------------------
LEMMA InitInvariant == Init => IInv
<1> SUFFICES ASSUME Init PROVE IInv
  OBVIOUS
<1>1. Reading = {}
  BY DEF Init, Reading
<1>2. ReadingFinite /\ ConnectionsAccounted
  <2>1. IsFiniteSet(Reading) /\ Cardinality(Reading) = 0
    BY <1>1, FS_EmptySet
  <2>2. conns = 0 /\ lost = 0
    BY DEF Init
  <2>3. conns = Cardinality(Reading) + lost
    BY <2>1, <2>2
  <2> QED BY <2>1, <2>3 DEF ReadingFinite, ConnectionsAccounted, Reading
<1>3. TypeOK
  <2>1. \A s \in {cursor, snapshot, result} : s \in [Callers -> RowSeqs(lastID)]
    BY NoRows DEF Init
  <2>2. /\ driver \in Drivers /\ lastID \in 0 .. MaxRows /\ conns \in 0 .. MaxOpenConns
        /\ lost \in 0 .. MaxScanFailures /\ calls \in [Callers -> 0 .. MaxCalls]
        /\ id \in [Callers -> 0 .. lastID] /\ saved \in [Callers -> 0 .. lastID]
    BY DEF Init
  <2>3. table \in [1 .. lastID -> Values] /\ born \in [1 .. lastID -> Callers]
    BY DEF Init
  <2>4. op \in [Callers -> Ops]
    BY IdRange DEF Init, Ops
  <2>5. /\ pc \in [Callers -> {"idle", "inserted", "iterating", "returned"}]
        /\ err \in [Callers -> {"nil", "conn done", "invalid", "driver", "scan", "no rows", "nil result"}]
        /\ broken \in [Callers -> BOOLEAN]
    BY DEF Init
  <2> QED BY <2>1, <2>2, <2>3, <2>4, <2>5 DEF TypeOK
<1>4. InsertedOwn /\ SavedIdIsOwn /\ ReadSoFar /\ FindAllIsSnapshot
  BY DEF Init, InsertedOwn, SavedIdIsOwn, ReadSoFar, FindAllIsSnapshot, FoundAll
<1> QED BY <1>2, <1>3, <1>4 DEF IInv

Helpers == {"Save", "FindAll", "FindByID", "Update", "Delete"}
Errors  == {"nil", "conn done", "invalid", "driver", "scan", "no rows", "nil result"}

\* A call of c that is over in one step and has no row to scan or insert.
Answered(c, f, e) ==
    /\ \E i \in 0 .. MaxRows : Begin(c, f, i)
    /\ \E x \in RowSeqs(lastID) : Finish(c, e, x)
    /\ table' \in [1 .. lastID -> Values]
    /\ UNCHANGED <<driver, lastID, born, pool, saved, id, cursor, snapshot, broken>>

LEMMA AtOnce ==
    ASSUME IInv, NEW c \in Callers, NEW f \in Helpers, NEW e \in Errors,
           f = "FindAll" => e # "nil", Answered(c, f, e)
    PROVE  IInv'
<1> PICK i \in 0 .. MaxRows : Begin(c, f, i)
  BY DEF Answered
<1> PICK x \in RowSeqs(lastID) : Finish(c, e, x)
  BY DEF Answered
<1>1. /\ pc[c] \in {"idle", "returned"} /\ pc' = [pc EXCEPT ![c] = "returned"]
      /\ err' = [err EXCEPT ![c] = e] /\ result' = [result EXCEPT ![c] = x]
      /\ op' = [op EXCEPT ![c] = <<f, i>>]
      /\ calls' = [calls EXCEPT ![c] = @ + 1] /\ calls[c] < MaxCalls
  BY DEF Begin, Finish
<1>2. UNCHANGED <<driver, lastID, born, conns, lost, saved, id, cursor, snapshot, broken>>
  BY DEF Answered, pool
<1>3. TypeOK'
  <2>1. /\ op' \in [Callers -> Ops]
        /\ err' \in [Callers -> {"nil", "conn done", "invalid", "driver", "scan", "no rows", "nil result"}]
    BY <1>1 DEF IInv, TypeOK, Helpers, Errors, Ops
  <2>2. result' \in [Callers -> RowSeqs(lastID)]
    BY <1>1 DEF IInv, TypeOK
  <2>3. calls' \in [Callers -> 0 .. MaxCalls]
    <3>1. calls \in [Callers -> 0 .. MaxCalls]
      BY DEF IInv, TypeOK
    <3> QED BY <1>1, <3>1
  <2>4. table' \in [1 .. lastID -> Values]
    BY DEF Answered
  <2> QED BY <1>1, <1>2, <2>1, <2>2, <2>3, <2>4 DEF IInv, TypeOK
<1>4. InsertedOwn' /\ SavedIdIsOwn'
  BY <1>1, <1>2 DEF IInv, TypeOK, InsertedOwn, SavedIdIsOwn
<1>5. ReadSoFar'
  BY <1>1, <1>2 DEF IInv, TypeOK, ReadSoFar
<1>6. FindAllIsSnapshot'
  <2> SUFFICES ASSUME NEW d \in Callers, FoundAll(d)'
               PROVE  (IsPrefix(result[d], snapshot[d]) /\ (~broken[d] => result[d] = snapshot[d]))'
    BY DEF FindAllIsSnapshot
  <2>1. d # c
    BY <1>1 DEF FoundAll, IInv, TypeOK
  <2>2. FoundAll(d)
    BY <2>1, <1>1 DEF FoundAll, IInv, TypeOK
  <2>3. result'[d] = result[d] /\ snapshot'[d] = snapshot[d] /\ broken'[d] = broken[d]
    BY <1>1, <1>2, <2>1 DEF IInv, TypeOK
  <2> QED BY <2>2, <2>3 DEF IInv, FindAllIsSnapshot
<1>7. Reading' = Reading
  BY <1>1 DEF IInv, TypeOK, Reading
<1>8. ReadingFinite' /\ ConnectionsAccounted'
  BY <1>2, <1>7 DEF IInv, ReadingFinite, ConnectionsAccounted, Reading
<1> QED BY <1>3, <1>4, <1>5, <1>6, <1>8 DEF IInv

LEMMA SaveRefusedInvariant ==
    ASSUME IInv, NEW c \in Callers, NEW q \in InsertQueries, SaveRefused(c, q)
    PROVE  IInv'
<1> DEFINE e == SaveError(q)
<1>1. e \in Errors
  BY DEF SaveError, Errors
<1>2. /\ Begin(c, "Save", 0) /\ Finish(c, e, <<>>)
      /\ UNCHANGED <<driver, lastID, table, born, pool, saved, id, cursor, snapshot, broken>>
  BY DEF SaveRefused, db
<1> HIDE DEF e
<1>3. table' \in [1 .. lastID -> Values]
  BY <1>2 DEF IInv, TypeOK
<1>4. Answered(c, "Save", e)
  BY <1>2, <1>3, NoRows, IdRange DEF Answered
<1> QED BY <1>1, <1>4, AtOnce DEF Helpers

LEMMA RefusedInvariant ==
    ASSUME IInv, NEW c \in Callers, NEW f, NEW e, Refused(c, f, e)
    PROVE  IInv'
<1>1. /\ f \in {"FindAll", "FindByID", "Update"} /\ e \in {"invalid", "driver"}
      /\ Begin(c, f, 0) /\ Finish(c, e, <<>>)
      /\ UNCHANGED <<driver, lastID, table, born, pool, saved, id, cursor, snapshot, broken>>
  BY DEF Refused, db
<1>2. table' \in [1 .. lastID -> Values]
  BY <1>1 DEF IInv, TypeOK
<1>3. Answered(c, f, e)
  BY <1>1, <1>2, NoRows, IdRange DEF Answered
<1> QED BY <1>1, <1>3, AtOnce DEF Helpers, Errors

LEMMA FindByIDInvariant ==
    ASSUME IInv, NEW c \in Callers, NEW i \in 1 .. MaxRows, FindByID(c, i)
    PROVE  IInv'
<1>1. /\ Begin(c, "FindByID", i)
      /\ UNCHANGED <<driver, lastID, table, born, pool, saved, id, cursor, snapshot, broken>>
  BY DEF FindByID, db
<1>2. table' \in [1 .. lastID -> Values]
  BY <1>1 DEF IInv, TypeOK
<1>3. CASE i \in DOMAIN table /\ Finish(c, "nil", <<Row(i)>>)
  <2>1. Row(i) \in (1 .. lastID) \X Values
    BY <1>3 DEF Row, IInv, TypeOK
  <2>2. <<Row(i)>> \in RowSeqs(lastID)
    BY <2>1 DEF RowSeqs
  <2>3. Answered(c, "FindByID", "nil")
    BY <1>1, <1>2, <1>3, <2>2, IdRange DEF Answered
  <2> QED BY <2>3, AtOnce DEF Helpers, Errors
<1>4. ASSUME NEW e \in {"scan", "no rows", "nil result"}, Finish(c, e, <<>>) PROVE IInv'
  <2>1. Answered(c, "FindByID", e)
    BY <1>1, <1>2, <1>4, NoRows, IdRange DEF Answered
  <2>2. e \in Errors
    BY DEF Errors
  <2> QED BY <2>1, <2>2, AtOnce DEF Helpers
<1> QED BY <1>3, <1>4 DEF FindByID

LEMMA UpdateInvariant ==
    ASSUME IInv, NEW c \in Callers, NEW i \in 1 .. MaxRows, NEW v \in Values, Update(c, i, v)
    PROVE  IInv'
<1>1. /\ Begin(c, "Update", i) /\ Finish(c, "nil", <<>>)
      /\ UNCHANGED <<driver, lastID, born, pool, saved, id, cursor, snapshot, broken>>
      /\ table' = [j \in DOMAIN table |-> IF j = i THEN v ELSE table[j]]
  BY DEF Update
<1>2. table' \in [1 .. lastID -> Values]
  BY <1>1 DEF IInv, TypeOK
<1>3. Answered(c, "Update", "nil")
  BY <1>1, <1>2, NoRows, IdRange DEF Answered
<1> QED BY <1>3, AtOnce DEF Helpers, Errors

LEMMA DeleteInvariant ==
    ASSUME IInv, NEW c \in Callers, NEW i \in 1 .. MaxRows, Delete(c, i)
    PROVE  IInv'
<1>1. /\ Begin(c, "Delete", i) /\ Finish(c, "driver", <<>>)
      /\ UNCHANGED <<driver, lastID, table, born, pool, saved, id, cursor, snapshot, broken>>
  BY DEF Delete, db
<1>2. table' \in [1 .. lastID -> Values]
  BY <1>1 DEF IInv, TypeOK
<1>3. Answered(c, "Delete", "driver")
  BY <1>1, <1>2, NoRows, IdRange DEF Answered
<1> QED BY <1>3, AtOnce DEF Helpers, Errors

-----------------------------------------------------------------------------
LEMMA LastIDNat ==
    ASSUME IInv
    PROVE  lastID \in Nat
<1>1. lastID \in 0 .. MaxRows
  BY DEF IInv, TypeOK
<1> QED BY <1>1

\* An insert adds one row and disturbs none.
LEMMA InsertKeeps ==
    ASSUME IInv, NEW c \in Callers, NEW v \in Values, Insert(c, v)
    PROVE  /\ lastID' = lastID + 1 /\ driver' = driver /\ lastID' \in 0 .. MaxRows
           /\ table' \in [1 .. lastID' -> Values] /\ born' \in [1 .. lastID' -> Callers]
           /\ born'[lastID + 1] = c /\ \A i \in 1 .. lastID : born'[i] = born[i]
<1>1. /\ lastID \in Nat /\ lastID \in 0 .. MaxRows
      /\ table \in [1 .. lastID -> Values] /\ born \in [1 .. lastID -> Callers]
  BY LastIDNat DEF IInv, TypeOK
<1>2. /\ lastID < MaxRows /\ driver' = driver /\ lastID' = lastID + 1
      /\ table' = [i \in DOMAIN table \cup {lastID + 1} |-> IF i = lastID + 1 THEN v ELSE table[i]]
      /\ born' = [i \in DOMAIN born \cup {lastID + 1} |-> IF i = lastID + 1 THEN c ELSE born[i]]
  BY DEF Insert
<1>3. (1 .. lastID) \cup {lastID + 1} = 1 .. lastID'
  BY <1>1, <1>2
<1> QED BY <1>1, <1>2, <1>3

\* A Save of c inserts v and is in state p then.
Inserts(c, v, p) ==
    /\ Begin(c, "Save", 0) /\ Insert(c, v) /\ pc' = [pc EXCEPT ![c] = p]
    /\ err' \in [Callers -> {"nil", "conn done", "invalid", "driver", "scan", "no rows", "nil result"}]
    /\ result' \in [Callers -> RowSeqs(lastID)]
    /\ \A d \in Callers \ {c} : err'[d] = err[d] /\ result'[d] = result[d]
    /\ id' = [id EXCEPT ![c] = lastID + 1] \/ (id' = id /\ p = "returned")
    /\ saved' = [saved EXCEPT ![c] = lastID + 1] \/ saved' = saved
    /\ UNCHANGED <<pool, cursor, snapshot, broken>>

LEMMA InsertInvariant ==
    ASSUME IInv, NEW c \in Callers, NEW v \in Values, NEW p \in {"inserted", "returned"},
           Inserts(c, v, p)
    PROVE  IInv'
<1>1. /\ pc[c] \in {"idle", "returned"} /\ pc' = [pc EXCEPT ![c] = p]
      /\ op' = [op EXCEPT ![c] = <<"Save", 0>>]
  BY DEF Inserts, Begin
<1>2. UNCHANGED <<conns, lost, cursor, snapshot, broken>>
  BY DEF Inserts, pool
<1>3. /\ lastID' = lastID + 1 /\ driver' = driver /\ lastID' \in 0 .. MaxRows
      /\ table' \in [1 .. lastID' -> Values] /\ born' \in [1 .. lastID' -> Callers]
      /\ born'[lastID + 1] = c /\ \A i \in 1 .. lastID : born'[i] = born[i]
  BY InsertKeeps DEF Inserts
<1>4. /\ pc \in [Callers -> {"idle", "inserted", "iterating", "returned"}]
      /\ driver \in Drivers /\ op \in [Callers -> Ops]
  BY DEF IInv, TypeOK
<1>5. lastID \in Nat /\ id \in [Callers -> 0 .. lastID] /\ saved \in [Callers -> 0 .. lastID]
  BY LastIDNat DEF IInv, TypeOK
<1>6. /\ id' = [id EXCEPT ![c] = lastID + 1] \/ (id' = id /\ p = "returned")
      /\ saved' = [saved EXCEPT ![c] = lastID + 1] \/ saved' = saved
  BY DEF Inserts
<1>7. \A d \in Callers \ {c} : err'[d] = err[d] /\ result'[d] = result[d]
  BY DEF Inserts
<1>8. TypeOK'
  <2>1. \A s \in {cursor', snapshot', result'} : s \in [Callers -> RowSeqs(lastID')]
    <3>1. RowSeqs(lastID) \subseteq RowSeqs(lastID')
      BY <1>3, <1>5, RowsGrow
    <3>2. /\ cursor' \in [Callers -> RowSeqs(lastID)] /\ snapshot' \in [Callers -> RowSeqs(lastID)]
          /\ result' \in [Callers -> RowSeqs(lastID)]
      BY <1>2 DEF IInv, TypeOK, Inserts
    <3>3. \A s : s \in [Callers -> RowSeqs(lastID)] => s \in [Callers -> RowSeqs(lastID')]
      BY <3>1
    <3> QED BY <3>2, <3>3
  <2>2. id' \in [Callers -> 0 .. lastID'] /\ saved' \in [Callers -> 0 .. lastID']
    <3>1. 0 .. lastID \subseteq 0 .. lastID' /\ lastID + 1 \in 0 .. lastID'
      BY <1>3, <1>5
    <3> QED BY <1>5, <1>6, <3>1
  <2>3. calls' \in [Callers -> 0 .. MaxCalls]
    <3>1. calls \in [Callers -> 0 .. MaxCalls]
      BY DEF IInv, TypeOK
    <3>2. calls' = [calls EXCEPT ![c] = @ + 1] /\ calls[c] < MaxCalls
      BY DEF Inserts, Begin
    <3> QED BY <3>1, <3>2
  <2>4. op' \in [Callers -> Ops]
    <3>1. <<"Save", 0>> \in Ops
      BY IdRange DEF Ops
    <3> QED BY <1>1, <1>4, <3>1
  <2>5. pc' \in [Callers -> {"idle", "inserted", "iterating", "returned"}]
    BY <1>1, <1>4
  <2>6. /\ err' \in [Callers -> {"nil", "conn done", "invalid", "driver", "scan", "no rows", "nil result"}]
        /\ broken' \in [Callers -> BOOLEAN] /\ conns' \in 0 .. MaxOpenConns
        /\ lost' \in 0 .. MaxScanFailures
    BY <1>2 DEF Inserts, IInv, TypeOK
  <2> QED BY <1>3, <1>4, <2>1, <2>2, <2>3, <2>4, <2>5, <2>6 DEF TypeOK
<1>9. InsertedOwn'
  <2> SUFFICES ASSUME NEW d \in Callers, pc'[d] = "inserted"
               PROVE  op'[d][1] = "Save" /\ id'[d] # 0 /\ born'[id'[d]] = d
    BY DEF InsertedOwn
  <2>1. CASE d = c
    <3>1. p = "inserted" /\ op'[d] = <<"Save", 0>>
      BY <1>1, <1>4, <2>1
    <3>2. id'[d] = lastID + 1 /\ lastID + 1 # 0
      BY <1>5, <1>6, <2>1, <3>1
    <3> QED BY <1>3, <2>1, <3>1, <3>2
  <2>2. CASE d # c
    <3>1. pc[d] = "inserted" /\ id'[d] = id[d] /\ op'[d] = op[d]
      BY <1>1, <1>4, <1>5, <1>6, <2>2
    <3>2. op[d][1] = "Save" /\ id[d] # 0 /\ born[id[d]] = d
      BY <3>1 DEF IInv, InsertedOwn
    <3>3. id[d] \in 1 .. lastID
      BY <3>2, <1>5
    <3> QED BY <1>3, <3>1, <3>2, <3>3
  <2> QED BY <2>1, <2>2
<1>10. SavedIdIsOwn'
  <2> SUFFICES ASSUME NEW d \in Callers, saved'[d] # 0
               PROVE  born'[saved'[d]] = d
    BY DEF SavedIdIsOwn
  <2>1. saved'[d] = saved[d] \/ (d = c /\ saved'[d] = lastID + 1)
    BY <1>5, <1>6
  <2>2. CASE saved'[d] = saved[d]
    <3>1. saved[d] \in 1 .. lastID /\ born[saved[d]] = d
      BY <1>5, <2>2 DEF IInv, SavedIdIsOwn
    <3> QED BY <1>3, <2>2, <3>1
  <2> QED BY <1>3, <2>1, <2>2
<1>11. \A d \in Callers : (pc'[d] = "iterating" => d # c /\ pc[d] = "iterating")
                          /\ (FoundAll(d)' => d # c /\ FoundAll(d))
  <2>1. op'[c][1] = "Save" /\ pc'[c] # "iterating"
    BY <1>1, <1>4
  <2>2. \A d \in Callers \ {c} : op'[d] = op[d] /\ pc'[d] = pc[d]
    BY <1>1, <1>4
  <2> QED BY <1>7, <2>1, <2>2 DEF FoundAll
<1>12. ReadSoFar' /\ FindAllIsSnapshot'
  BY <1>2, <1>11, <1>7 DEF IInv, ReadSoFar, FindAllIsSnapshot
<1>13. Reading' = Reading
  BY <1>1, <1>4 DEF Reading
<1>14. ReadingFinite' /\ ConnectionsAccounted'
  BY <1>2, <1>13 DEF IInv, ReadingFinite, ConnectionsAccounted, Reading
<1> QED BY <1>8, <1>9, <1>10, <1>12, <1>14 DEF IInv

LEMMA SaveMySQLInvariant ==
    ASSUME IInv, NEW c \in Callers, NEW q, NEW v \in Values, SaveMySQL(c, q, v)
    PROVE  IInv'
<1>1. /\ Begin(c, "Save", 0) /\ Insert(c, v) /\ pc' = [pc EXCEPT ![c] = "inserted"]
      /\ id' = [id EXCEPT ![c] = lastID + 1]
      /\ UNCHANGED <<pool, saved, cursor, snapshot, result, err, broken>>
  BY DEF SaveMySQL
<1>2. /\ err' \in [Callers -> {"nil", "conn done", "invalid", "driver", "scan", "no rows", "nil result"}]
      /\ result' \in [Callers -> RowSeqs(lastID)]
  BY <1>1 DEF IInv, TypeOK
<1>3. \A d \in Callers \ {c} : err'[d] = err[d] /\ result'[d] = result[d]
  BY <1>1
<1>4. Inserts(c, v, "inserted")
  BY <1>1, <1>2, <1>3 DEF Inserts
<1> QED BY <1>4, InsertInvariant

LEMMA SavePostgresInvariant ==
    ASSUME IInv, NEW c \in Callers, NEW q, NEW v \in Values, SavePostgres(c, q, v)
    PROVE  IInv'
<1>1. /\ Begin(c, "Save", 0) /\ Insert(c, v) /\ pc' = [pc EXCEPT ![c] = "returned"]
      /\ \E e \in {"nil", "scan", "no rows"} : err' = [err EXCEPT ![c] = e]
      /\ result' = [result EXCEPT ![c] = <<>>]
      /\ saved' = [saved EXCEPT ![c] = lastID + 1] \/ saved' = saved
      /\ UNCHANGED <<pool, id, cursor, snapshot, broken>>
  BY DEF SavePostgres, Finish
<1>2. /\ err' \in [Callers -> {"nil", "conn done", "invalid", "driver", "scan", "no rows", "nil result"}]
      /\ result' \in [Callers -> RowSeqs(lastID)]
  BY <1>1, NoRows DEF IInv, TypeOK
<1>3. \A d \in Callers \ {c} : err'[d] = err[d] /\ result'[d] = result[d]
  BY <1>1 DEF IInv, TypeOK
<1>4. Inserts(c, v, "returned")
  BY <1>1, <1>2, <1>3 DEF Inserts
<1> QED BY <1>4, InsertInvariant

\* saveMySQL returns the id of its own statement's result.
LEMMA SaveReturnsInvariant ==
    ASSUME IInv, NEW c \in Callers, SaveReturns(c)
    PROVE  IInv'
<1>1. /\ pc[c] = "inserted" /\ pc' = [pc EXCEPT ![c] = "returned"]
      /\ result' = [result EXCEPT ![c] = <<>>]
      /\ UNCHANGED <<driver, table, lastID, born, conns, lost, op, id, cursor, snapshot, broken, calls>>
  BY DEF SaveReturns, Finish, db, pool
<1>2. \E e \in {"nil", "driver"} : err' = [err EXCEPT ![c] = e]
  BY DEF SaveReturns, Finish
<1>3. saved' = saved \/ saved' = [saved EXCEPT ![c] = id[c]]
  BY DEF SaveReturns, LastInsertId
<1>4. op[c][1] = "Save" /\ id[c] # 0 /\ born[id[c]] = c
  BY <1>1 DEF IInv, InsertedOwn
<1>5. /\ pc \in [Callers -> {"idle", "inserted", "iterating", "returned"}]
      /\ id \in [Callers -> 0 .. lastID] /\ saved \in [Callers -> 0 .. lastID]
      /\ err \in [Callers -> {"nil", "conn done", "invalid", "driver", "scan", "no rows", "nil result"}]
      /\ result \in [Callers -> RowSeqs(lastID)]
  BY DEF IInv, TypeOK
<1>6. TypeOK'
  <2>1. result' \in [Callers -> RowSeqs(lastID)]
    BY <1>1, <1>5, NoRows
  <2>2. saved' \in [Callers -> 0 .. lastID]
    BY <1>3, <1>5
  <2>3. /\ pc' \in [Callers -> {"idle", "inserted", "iterating", "returned"}]
        /\ err' \in [Callers -> {"nil", "conn done", "invalid", "driver", "scan", "no rows", "nil result"}]
    BY <1>1, <1>2, <1>5
  <2> QED BY <1>1, <2>1, <2>2, <2>3 DEF IInv, TypeOK
<1>7. InsertedOwn' /\ ReadSoFar'
  BY <1>1, <1>5 DEF IInv, InsertedOwn, ReadSoFar
<1>8. SavedIdIsOwn'
  BY <1>1, <1>3, <1>4, <1>5 DEF IInv, SavedIdIsOwn
<1>9. FindAllIsSnapshot'
  <2>1. \A d \in Callers : FoundAll(d)' => d # c
    BY <1>1, <1>4 DEF FoundAll
  <2>2. \A d \in Callers \ {c} : pc'[d] = pc[d] /\ err'[d] = err[d] /\ result'[d] = result[d]
    BY <1>1, <1>2, <1>5
  <2> QED BY <1>1, <2>1, <2>2 DEF IInv, FindAllIsSnapshot, FoundAll
<1>10. Reading' = Reading
  BY <1>1, <1>5 DEF Reading
<1>11. ReadingFinite' /\ ConnectionsAccounted'
  BY <1>1, <1>10 DEF IInv, ReadingFinite, ConnectionsAccounted, Reading
<1> QED BY <1>6, <1>7, <1>8, <1>9, <1>11 DEF IInv

-----------------------------------------------------------------------------
\* The books, in terms of Reading.
LEMMA Books ==
    ASSUME IInv
    PROVE  /\ IsFiniteSet(Reading) /\ conns = Cardinality(Reading) + lost
           /\ conns \in Nat /\ lost \in Nat /\ Cardinality(Reading) \in Nat
<1>1. IsFiniteSet(Reading) /\ conns = Cardinality(Reading) + lost
  BY DEF IInv, ReadingFinite, ConnectionsAccounted, Reading
<1>2. conns \in 0 .. MaxOpenConns /\ lost \in 0 .. MaxScanFailures
  BY DEF IInv, TypeOK
<1>3. Cardinality(Reading) \in Nat
  BY <1>1, FS_CardinalityType
<1> QED BY <1>1, <1>2, <1>3

LEMMA FindAllInvariant ==
    ASSUME IInv, NEW c \in Callers, FindAll(c)
    PROVE  IInv'
<1>1. /\ pc[c] \in {"idle", "returned"} /\ pc' = [pc EXCEPT ![c] = "iterating"]
      /\ op' = [op EXCEPT ![c] = <<"FindAll", 0>>]
      /\ cursor' = [cursor EXCEPT ![c] = Rows] /\ snapshot' = [snapshot EXCEPT ![c] = Rows]
      /\ result' = [result EXCEPT ![c] = <<>>] /\ broken' = [broken EXCEPT ![c] = FALSE]
      /\ UNCHANGED <<driver, table, lastID, born, lost, saved, id, err>>
  BY DEF FindAll, Begin, db
<1>2. /\ calls' = [calls EXCEPT ![c] = @ + 1] /\ calls[c] < MaxCalls
      /\ conns < MaxOpenConns /\ conns' = conns + 1
  BY DEF FindAll, Begin, FreeConn
<1>3. /\ pc \in [Callers -> {"idle", "inserted", "iterating", "returned"}]
      /\ op \in [Callers -> Ops] /\ broken \in [Callers -> BOOLEAN]
      /\ cursor \in [Callers -> RowSeqs(lastID)] /\ snapshot \in [Callers -> RowSeqs(lastID)]
      /\ result \in [Callers -> RowSeqs(lastID)]
  BY DEF IInv, TypeOK
<1>4. Rows \in RowSeqs(lastID) /\ <<>> \o Rows = Rows
  <2>1. table \in [1 .. lastID -> Values] /\ lastID \in Nat
    BY LastIDNat DEF IInv, TypeOK
  <2>2. \A i \in 1 .. lastID : Row(i) \in (1 .. lastID) \X Values
    BY <2>1 DEF Row
  <2>3. Rows \in Seq((1 .. lastID) \X Values)
    BY <2>1, <2>2, IsASeq DEF Rows
  <2> QED BY <2>3, ConcatEmptySeq DEF RowSeqs
<1>5. TypeOK'
  <2>1. /\ cursor' \in [Callers -> RowSeqs(lastID)] /\ snapshot' \in [Callers -> RowSeqs(lastID)]
        /\ result' \in [Callers -> RowSeqs(lastID)]
    BY <1>1, <1>3, <1>4, NoRows
  <2>2. calls' \in [Callers -> 0 .. MaxCalls]
    <3>1. calls \in [Callers -> 0 .. MaxCalls]
      BY DEF IInv, TypeOK
    <3> QED BY <1>2, <3>1
  <2>3. conns' \in 0 .. MaxOpenConns
    BY <1>2, Books
  <2>4. op' \in [Callers -> Ops]
    <3>1. <<"FindAll", 0>> \in Ops
      BY IdRange DEF Ops
    <3> QED BY <1>1, <1>3, <3>1
  <2>5. /\ pc' \in [Callers -> {"idle", "inserted", "iterating", "returned"}]
        /\ broken' \in [Callers -> BOOLEAN]
    BY <1>1, <1>3
  <2> QED BY <1>1, <2>1, <2>2, <2>3, <2>4, <2>5 DEF IInv, TypeOK
<1>6. \A d \in Callers \ {c} : /\ pc'[d] = pc[d] /\ op'[d] = op[d] /\ result'[d] = result[d]
                               /\ cursor'[d] = cursor[d] /\ snapshot'[d] = snapshot[d]
                               /\ broken'[d] = broken[d]
  BY <1>1, <1>3
<1>7. pc'[c] = "iterating"
  BY <1>1, <1>3
<1>8. InsertedOwn' /\ SavedIdIsOwn'
  BY <1>1, <1>6, <1>7 DEF IInv, InsertedOwn, SavedIdIsOwn
<1>9. ReadSoFar'
  <2>1. result'[c] \o cursor'[c] = snapshot'[c]
    BY <1>1, <1>3, <1>4
  <2> QED BY <1>6, <2>1 DEF IInv, ReadSoFar
<1>10. FindAllIsSnapshot'
  BY <1>1, <1>6, <1>7 DEF IInv, FindAllIsSnapshot, FoundAll
<1>11. ReadingFinite' /\ ConnectionsAccounted'
  <2>1. Reading' = Reading \cup {c} /\ c \notin Reading
    BY <1>1, <1>3 DEF Reading
  <2>2. IsFiniteSet(Reading') /\ Cardinality(Reading') = Cardinality(Reading) + 1
    BY <2>1, Books, FS_AddElement
  <2>3. conns' = Cardinality(Reading') + lost'
    BY <1>1, <1>2, <2>2, Books
  <2> QED BY <2>2, <2>3 DEF ReadingFinite, ConnectionsAccounted, Reading
<1> QED BY <1>5, <1>8, <1>9, <1>10, <1>11 DEF IInv

\* Scanning moves a row from the cursor to the slice.
LEMMA ScanRowInvariant ==
    ASSUME IInv, NEW c \in Callers, ScanRow(c)
    PROVE  IInv'
<1>1. /\ pc[c] = "iterating" /\ cursor[c] # <<>>
      /\ result' = [result EXCEPT ![c] = Append(result[c], Head(cursor[c]))]
      /\ cursor' = [cursor EXCEPT ![c] = Tail(cursor[c])]
      /\ UNCHANGED <<driver, table, lastID, born, conns, lost, pc, op, saved, id, snapshot, err,
                     broken, calls>>
  BY DEF ScanRow, AppendCopy, db, pool
<1>2. cursor \in [Callers -> RowSeqs(lastID)] /\ result \in [Callers -> RowSeqs(lastID)]
  BY DEF IInv, TypeOK
<1>3. /\ Append(result[c], Head(cursor[c])) \in RowSeqs(lastID)
      /\ Tail(cursor[c]) \in RowSeqs(lastID)
      /\ Append(result[c], Head(cursor[c])) \o Tail(cursor[c]) = result[c] \o cursor[c]
  <2>1. cursor[c] \in RowSeqs(lastID) /\ result[c] \in RowSeqs(lastID)
    BY <1>2
  <2>2. cursor[c] \in Seq((1 .. lastID) \X Values) /\ result[c] \in Seq((1 .. lastID) \X Values)
    BY <2>1 DEF RowSeqs
  <2>3. cursor[c] # <<>>
    BY <1>1
  <2>4. /\ Append(result[c], Head(cursor[c])) \in Seq((1 .. lastID) \X Values)
        /\ Tail(cursor[c]) \in Seq((1 .. lastID) \X Values)
        /\ Append(result[c], Head(cursor[c])) \o Tail(cursor[c]) = result[c] \o cursor[c]
    BY <2>2, <2>3, MoveHead
  <2> QED BY <2>4 DEF RowSeqs
<1>4. TypeOK'
  <2>1. cursor' \in [Callers -> RowSeqs(lastID)] /\ result' \in [Callers -> RowSeqs(lastID)]
    BY <1>1, <1>2, <1>3
  <2> QED BY <1>1, <2>1 DEF IInv, TypeOK
<1>5. InsertedOwn' /\ SavedIdIsOwn'
  BY <1>1 DEF IInv, InsertedOwn, SavedIdIsOwn
<1>6. \A d \in Callers \ {c} : cursor'[d] = cursor[d] /\ result'[d] = result[d]
  BY <1>1, <1>2
<1>7. ReadSoFar'
  <2>1. result'[c] \o cursor'[c] = result[c] \o cursor[c]
    BY <1>1, <1>2, <1>3
  <2> QED BY <1>1, <1>6, <2>1 DEF IInv, ReadSoFar
<1>8. FindAllIsSnapshot'
  BY <1>1, <1>6 DEF IInv, FindAllIsSnapshot, FoundAll
<1>9. ReadingFinite' /\ ConnectionsAccounted'
  BY <1>1 DEF IInv, ReadingFinite, ConnectionsAccounted, Reading
<1> QED BY <1>4, <1>5, <1>7, <1>8, <1>9 DEF IInv

\* The last of a read: its connection comes back, or is lost with it.
LEMMA ReadEnds ==
    ASSUME IInv, NEW c \in Callers, pc[c] = "iterating", pc' = [pc EXCEPT ![c] = "returned"],
           (conns' = conns - 1 /\ lost' = lost) \/ (conns' = conns /\ lost' = lost + 1)
    PROVE  /\ ReadingFinite' /\ ConnectionsAccounted' /\ conns' \in 0 .. MaxOpenConns
           /\ pc' \in [Callers -> {"idle", "inserted", "iterating", "returned"}]
           /\ pc'[c] = "returned" /\ \A d \in Callers \ {c} : pc'[d] = pc[d]
<1>1. pc \in [Callers -> {"idle", "inserted", "iterating", "returned"}]
  BY DEF IInv, TypeOK
<1>2. Reading' = Reading \ {c} /\ c \in Reading
  BY <1>1 DEF Reading
<1>3. IsFiniteSet(Reading') /\ Cardinality(Reading') = Cardinality(Reading) - 1
  BY <1>2, Books, FS_RemoveElement
<1>4. Cardinality(Reading') \in Nat
  BY <1>3, FS_CardinalityType
<1>5. conns' = Cardinality(Reading') + lost'
  BY <1>3, Books
<1>6. conns' \in 0 .. MaxOpenConns
  <2>1. conns \in 0 .. MaxOpenConns
    BY DEF IInv, TypeOK
  <2> QED BY <1>4, <1>5, <2>1, Books
<1>7. ReadingFinite' /\ ConnectionsAccounted'
  BY <1>3, <1>5 DEF ReadingFinite, ConnectionsAccounted, Reading
<1> QED BY <1>1, <1>6, <1>7

LEMMA RowsEndInvariant ==
    ASSUME IInv, NEW c \in Callers, RowsEnd(c)
    PROVE  IInv'
<1>1. /\ pc[c] = "iterating" /\ pc' = [pc EXCEPT ![c] = "returned"]
      /\ broken' = [broken EXCEPT ![c] = cursor[c] # <<>>]
      /\ conns' = conns - 1 /\ err' = [err EXCEPT ![c] = "nil"]
      /\ result' = [result EXCEPT ![c] = result[c]]
      /\ UNCHANGED <<driver, table, lastID, born, lost, op, saved, id, cursor, snapshot, calls>>
  BY DEF RowsEnd, Release, Finish, db
<1>2. /\ ReadingFinite' /\ ConnectionsAccounted' /\ conns' \in 0 .. MaxOpenConns
      /\ pc' \in [Callers -> {"idle", "inserted", "iterating", "returned"}]
      /\ pc'[c] = "returned" /\ \A d \in Callers \ {c} : pc'[d] = pc[d]
  BY <1>1, ReadEnds
<1>3. /\ err \in [Callers -> {"nil", "conn done", "invalid", "driver", "scan", "no rows", "nil result"}]
      /\ broken \in [Callers -> BOOLEAN]
      /\ cursor \in [Callers -> RowSeqs(lastID)] /\ result \in [Callers -> RowSeqs(lastID)]
  BY DEF IInv, TypeOK
<1>4. /\ result' = result /\ broken'[c] = (cursor[c] # <<>>)
      /\ \A d \in Callers \ {c} : broken'[d] = broken[d] /\ err'[d] = err[d]
  BY <1>1, <1>3
<1>5. TypeOK'
  <2>1. /\ err' \in [Callers -> {"nil", "conn done", "invalid", "driver", "scan", "no rows", "nil result"}]
        /\ broken' \in [Callers -> BOOLEAN]
    BY <1>1, <1>3
  <2> QED BY <1>1, <1>2, <1>4, <2>1 DEF IInv, TypeOK
<1>6. InsertedOwn' /\ SavedIdIsOwn' /\ ReadSoFar'
  <2>1. InsertedOwn'
    BY <1>1, <1>2 DEF IInv, InsertedOwn
  <2>2. SavedIdIsOwn'
    BY <1>1 DEF IInv, SavedIdIsOwn
  <2>3. ReadSoFar'
    BY <1>1, <1>2, <1>4 DEF IInv, ReadSoFar
  <2> QED BY <2>1, <2>2, <2>3
<1>7. FindAllIsSnapshot'
  <2>1. result[c] \o cursor[c] = snapshot[c]
    BY <1>1 DEF IInv, ReadSoFar
  <2>2. IsPrefix(result[c], result[c] \o cursor[c]) /\ result[c] \o <<>> = result[c]
    <3>1. result[c] \in RowSeqs(lastID) /\ cursor[c] \in RowSeqs(lastID)
      BY <1>3
    <3> QED BY <3>1, PrefixOfConcat DEF RowSeqs
  <2>3. /\ IsPrefix(result'[c], snapshot'[c])
        /\ ~broken'[c] => result'[c] = snapshot'[c]
    BY <1>1, <1>4, <2>1, <2>2
  <2>4. \A d \in Callers \ {c} : FoundAll(d)' => FoundAll(d)
    BY <1>1, <1>2, <1>4 DEF FoundAll
  <2> QED BY <1>1, <1>4, <2>3, <2>4 DEF IInv, FindAllIsSnapshot
<1> QED BY <1>2, <1>5, <1>6, <1>7 DEF IInv

LEMMA ScanFailsInvariant ==
    ASSUME IInv, NEW c \in Callers, ScanFails(c)
    PROVE  IInv'
<1>1. /\ pc[c] = "iterating" /\ pc' = [pc EXCEPT ![c] = "returned"]
      /\ lost < MaxScanFailures /\ lost' = lost + 1 /\ conns' = conns
      /\ err' = [err EXCEPT ![c] = "scan"] /\ result' = [result EXCEPT ![c] = <<>>]
      /\ UNCHANGED <<driver, table, lastID, born, op, saved, id, cursor, snapshot, broken, calls>>
  BY DEF ScanFails, Finish, db
<1>2. /\ ReadingFinite' /\ ConnectionsAccounted' /\ conns' \in 0 .. MaxOpenConns
      /\ pc' \in [Callers -> {"idle", "inserted", "iterating", "returned"}]
      /\ pc'[c] = "returned" /\ \A d \in Callers \ {c} : pc'[d] = pc[d]
  BY <1>1, ReadEnds
<1>3. /\ err \in [Callers -> {"nil", "conn done", "invalid", "driver", "scan", "no rows", "nil result"}]
      /\ result \in [Callers -> RowSeqs(lastID)]
  BY DEF IInv, TypeOK
<1>4. TypeOK'
  <2>1. lost' \in 0 .. MaxScanFailures
    BY <1>1, Books
  <2>2. result' \in [Callers -> RowSeqs(lastID)]
    BY <1>1, <1>3, NoRows
  <2>3. err' \in [Callers -> {"nil", "conn done", "invalid", "driver", "scan", "no rows", "nil result"}]
    BY <1>1, <1>3
  <2> QED BY <1>1, <1>2, <2>1, <2>2, <2>3 DEF IInv, TypeOK
<1>5. \A d \in Callers \ {c} : result'[d] = result[d] /\ err'[d] = err[d]
  BY <1>1, <1>3
<1>6. InsertedOwn' /\ SavedIdIsOwn' /\ ReadSoFar'
  <2>1. InsertedOwn'
    BY <1>1, <1>2 DEF IInv, InsertedOwn
  <2>2. SavedIdIsOwn'
    BY <1>1 DEF IInv, SavedIdIsOwn
  <2>3. ReadSoFar'
    BY <1>1, <1>2, <1>5 DEF IInv, ReadSoFar
  <2> QED BY <2>1, <2>2, <2>3
<1>7. FindAllIsSnapshot'
  <2>1. err'[c] = "scan"
    BY <1>1, <1>3
  <2> QED BY <1>1, <1>2, <1>5, <2>1 DEF IInv, FindAllIsSnapshot, FoundAll
<1> QED BY <1>2, <1>4, <1>6, <1>7 DEF IInv

-----------------------------------------------------------------------------
LEMMA NextInvariant == IInv /\ [Next]_vars => IInv'
<1> SUFFICES ASSUME IInv, [Next]_vars PROVE IInv'
  OBVIOUS
<1>1. CASE UNCHANGED vars
  BY <1>1 DEF vars, db, pool, call, IInv, TypeOK, InsertedOwn, SavedIdIsOwn, ReadSoFar,
              FindAllIsSnapshot, FoundAll, ReadingFinite, Reading, ConnectionsAccounted
<1>2. ASSUME NEW c \in Callers, Start(c) PROVE IInv'
  <2>1. CASE \E q \in InsertQueries : SaveRefused(c, q)
    BY <2>1, SaveRefusedInvariant
  <2>2. CASE \E q \in InsertQueries, v \in Values : SaveMySQL(c, q, v) \/ SavePostgres(c, q, v)
    BY <2>2, SaveMySQLInvariant, SavePostgresInvariant
  <2>3. CASE FindAll(c)
    BY <2>3, FindAllInvariant
  <2>4. CASE \E f \in {"FindAll", "FindByID", "Update"}, e \in {"invalid", "driver"} : Refused(c, f, e)
    BY <2>4, RefusedInvariant
  <2>5. CASE \E i \in 1 .. MaxRows : FindByID(c, i) \/ Delete(c, i)
    BY <2>5, FindByIDInvariant, DeleteInvariant
  <2>6. CASE \E i \in 1 .. MaxRows, v \in Values : Update(c, i, v)
    BY <2>6, UpdateInvariant
  <2> QED BY <1>2, <2>1, <2>2, <2>3, <2>4, <2>5, <2>6 DEF Start
<1>3. ASSUME NEW c \in Callers, Continue(c) PROVE IInv'
  BY <1>3, SaveReturnsInvariant, ScanRowInvariant, RowsEndInvariant, ScanFailsInvariant DEF Continue
<1> QED BY <1>1, <1>2, <1>3 DEF Next

-----------------------------------------------------------------------------
\* The pool, the table and the calls of repository.go stay in their types;
\* in particular never more than MaxOpenConns connections are out.
THEOREM TypeCorrect == Spec => []TypeOK
BY InitInvariant, NextInvariant, PTL DEF Spec, IInv

\* Save returns the id of the row it inserted, whoever else inserts between
\* its statement and LastInsertId.
THEOREM SaveReturnsOwnId == Spec => []SavedIdIsOwn
BY InitInvariant, NextInvariant, PTL DEF Spec, IInv

\* FindAll returns a prefix of what its query matched, and all of it unless
\* the driver failed, however its scanning interleaves with writes.
THEOREM FindAllReturnsSnapshot == Spec => []FindAllIsSnapshot
BY InitInvariant, NextInvariant, PTL DEF Spec, IInv

\* No connection is out but for a FindAll in progress or one whose Scan
\* failed.
THEOREM PoolBalances == Spec => []ConnectionsAccounted
BY InitInvariant, NextInvariant, PTL DEF Spec, IInv

=============================================================================
