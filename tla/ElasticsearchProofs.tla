------------------------ MODULE ElasticsearchProofs ------------------------
(***************************************************************************)
(* Proofs about Elasticsearch, for any callers, batches, late requests and *)
(* number of calls.                                                        *)
(***************************************************************************)
EXTENDS Elasticsearch, SequenceTheorems, FiniteSetTheorems, TLAPS

\* The documents of call k before position n have been stored.
AllBefore(k, n) == \A p \in 1 .. n - 1 : Copies(k, p) # {}

\* The server's part: what is stored has no gaps, and what is still on its
\* way will not make one.
TypeServer ==
    /\ index \in {"absent", "declared", "guessed"} /\ stored \in Seq(Docs)
    /\ live \subseteq DOMAIN stored /\ (index = "absent" => live = {})

TypeLate == late \subseteq Request /\ IsFiniteSet(late) /\ Cardinality(late) <= MaxLate

\* An insert comes behind the documents before it; the other kinds store none.
Follows(q) == q.kind = "insert" => q.doc \in 1 .. MaxBatch /\ AllBefore(q.call, q.doc)

LateInOrder == \A q \in late : Follows(q)

ServerOK == TypeServer /\ TypeLate /\ NoGaps /\ LateInOrder

\* The callers' part: an insert that has come to a document has stored those
\* before it.
TypeLocal ==
    /\ pc \in [Callers -> {"idle", "inserting"}]
    /\ documents \in [Callers -> Batches \cup {<<>>}]
    /\ pos \in [Callers -> 1 .. MaxBatch + 1]
    /\ err \in [Callers -> {"none", "nil", "failed"}]
    /\ calls \in 0 .. MaxCalls /\ call \in [Callers -> 0 .. MaxCalls]

InOrder == \A c \in Callers : pc[c] = "inserting" => call[c] # 0 /\ AllBefore(call[c], pos[c])

CallersOK == TypeLocal /\ InOrder /\ NilMeansStored

IInv == ServerOK /\ CallersOK

\* No copy stops being one of its call and position.
CopiesStay ==
    \A d \in DOMAIN stored : /\ d \in DOMAIN stored'
                             /\ stored'[d].call = stored[d].call
                             /\ stored'[d].pos = stored[d].pos

\* What is deleted stays so, and as it was.
DeletedKept == \A d \in DOMAIN stored \ live : d \notin live' /\ stored'[d] = stored[d]

USE BoundsAssumption

-----------------------------------------------------------------------------
LEMMA CopyKept ==
    ASSUME CopiesStay, NEW k, NEW p, Copies(k, p) # {}
    PROVE  Copies(k, p)' # {}
<1>1. PICK d \in DOMAIN stored : stored[d].call = k /\ stored[d].pos = p
  BY DEF Copies
<1>2. d \in Copies(k, p)'
  BY <1>1 DEF CopiesStay, Copies
<1> QED BY <1>2

LEMMA AllBeforeKept ==
    ASSUME CopiesStay, NEW k, NEW n, AllBefore(k, n)
    PROVE  AllBefore(k, n)'
BY CopyKept DEF AllBefore

LEMMA BatchLength ==
    ASSUME NEW b \in Batches \cup {<<>>}
    PROVE  Len(b) \in 0 .. MaxBatch /\ DOMAIN b = 1 .. Len(b)
<1>1. CASE b = <<>>
  BY <1>1, EmptySeq
<1>2. CASE b \in Batches
  <2>1. PICK n \in 1 .. MaxBatch : b \in [1 .. n -> BOOLEAN]
    BY <1>2 DEF Batches
  <2>2. b \in Seq(BOOLEAN) /\ DOMAIN b = 1 .. n /\ n \in Nat
    BY <2>1, SeqDef
  <2>3. Len(b) = n
    BY <2>2, LenProperties
  <2> QED BY <2>2, <2>3
<1> QED BY <1>1, <1>2

-----------------------------------------------------------------------------
(* What a step of the server keeps                                         *)

LEMMA ContentUnchanged ==
    ASSUME ServerOK, UNCHANGED content
    PROVE  TypeServer' /\ NoGaps' /\ CopiesStay /\ DeletedKept
<1>1. UNCHANGED <<index, stored, live>>
  BY DEF content
<1> QED BY <1>1 DEF ServerOK, TypeServer, NoGaps, Copies, CopiesStay, DeletedKept

LEMMA ServerUnchanged ==
    ASSUME ServerOK, UNCHANGED server
    PROVE  ServerOK' /\ CopiesStay /\ DeletedKept
<1>1. UNCHANGED <<index, stored, live, late>>
  BY DEF server, content
<1>2. TypeServer' /\ NoGaps' /\ CopiesStay /\ DeletedKept
  BY <1>1, ContentUnchanged DEF content
<1>3. TypeLate' /\ LateInOrder'
  BY <1>1 DEF ServerOK, TypeLate, LateInOrder, Follows, AllBefore, Copies
<1> QED BY <1>2, <1>3 DEF ServerOK

\* A request about the index, or one that removes a copy from it.
LEMMA IndexChanged ==
    ASSUME ServerOK, Create \/ Drop \/ \E d : Delete(d)
    PROVE  TypeServer' /\ NoGaps' /\ CopiesStay /\ DeletedKept
<1>1. /\ stored' = stored /\ live' \subseteq live
      /\ index' \in {"absent", "declared", "guessed"} /\ (index' = "absent" => live' = {})
  BY DEF Create, Drop, Delete, ServerOK, TypeServer
<1> QED BY <1>1 DEF ServerOK, TypeServer, NoGaps, Copies, CopiesStay, DeletedKept

\* A document is stored behind those before it, under a new id.
LEMMA DocumentStored ==
    ASSUME ServerOK, NEW key \in 1 .. MaxCalls, NEW at \in 1 .. MaxBatch, Index(key, at),
           AllBefore(key, at)
    PROVE  /\ TypeServer' /\ NoGaps' /\ CopiesStay /\ DeletedKept
           /\ Copies(key, at)' # {}
<1> PICK doc : doc = [call |-> key, pos |-> at, merged |-> {}]
  OBVIOUS
<1>1. /\ stored \in Seq(Docs) /\ live \subseteq DOMAIN stored
      /\ index \in {"absent", "declared", "guessed"}
  BY DEF ServerOK, TypeServer
<1>2. /\ stored' = Append(stored, doc) /\ live' = live \cup {Len(stored) + 1}
      /\ index' = IF index = "absent" THEN "guessed" ELSE index
  BY DEF Index
<1>3. doc \in Docs /\ doc.call = key /\ doc.pos = at
  BY DEF Docs
<1>4. Len(stored) \in Nat /\ DOMAIN stored = 1 .. Len(stored)
  BY <1>1, LenProperties
<1>5. /\ stored' \in Seq(Docs) /\ Len(stored') = Len(stored) + 1
      /\ stored'[Len(stored) + 1] = doc
      /\ \A d \in 1 .. Len(stored) : stored'[d] = stored[d]
  BY <1>1, <1>2, <1>3, AppendProperties
<1>6. DOMAIN stored' = 1 .. Len(stored) + 1
  BY <1>5, LenProperties
<1>7. TypeServer'
  <2>1. live' \subseteq DOMAIN stored'
    BY <1>1, <1>2, <1>4, <1>6
  <2>2. index' \in {"declared", "guessed"}
    BY <1>1, <1>2
  <2> QED BY <1>5, <2>1, <2>2 DEF TypeServer
<1>8. CopiesStay
  BY <1>4, <1>5, <1>6 DEF CopiesStay
<1>9. DeletedKept
  <2>1. \A d \in 1 .. Len(stored) : d # Len(stored) + 1
    BY <1>4
  <2> QED BY <1>2, <1>4, <1>5, <2>1 DEF DeletedKept
<1>10. Copies(key, at)' # {}
  <2>1. Len(stored) + 1 \in DOMAIN stored'
    BY <1>4, <1>6
  <2>2. Len(stored) + 1 \in Copies(key, at)'
    BY <1>3, <1>5, <2>1 DEF Copies
  <2> QED BY <2>2
<1>11. NoGaps'
  <2> SUFFICES ASSUME NEW d \in 1 .. Len(stored) + 1, NEW p \in 1 .. stored'[d].pos,
                      NEW k, k = stored'[d].call
               PROVE  Copies(k, p)' # {}
    BY <1>6 DEF NoGaps, Copies
  <2>1. CASE d \in 1 .. Len(stored)
    <3>1. stored'[d] = stored[d] /\ d \in DOMAIN stored
      BY <1>4, <1>5, <2>1
    <3>2. Copies(stored[d].call, p) # {}
      BY <3>1 DEF ServerOK, NoGaps
    <3> QED BY <3>1, <3>2, <1>8, CopyKept
  <2>2. CASE d = Len(stored) + 1
    <3>1. k = key /\ p \in 1 .. at
      BY <1>3, <1>5, <2>2
    <3>2. CASE p = at
      BY <1>10, <3>1, <3>2
    <3>3. CASE p # at
      <4>1. p \in 1 .. at - 1
        BY <3>1, <3>3
      <4>2. Copies(key, p) # {}
        BY <4>1 DEF AllBefore
      <4> QED BY <1>8, <3>1, <4>2, CopyKept
    <3> QED BY <3>2, <3>3
  <2> QED BY <1>4, <2>1, <2>2
<1> QED BY <1>7, <1>8, <1>9, <1>10, <1>11

\* An update is merged into a copy of the index, which keeps its origin.
LEMMA DocumentMerged ==
    ASSUME ServerOK, NEW d, NEW key \in 1 .. MaxCalls, Merge(d, key)
    PROVE  TypeServer' /\ NoGaps' /\ CopiesStay /\ DeletedKept
<1> PICK new : new = [stored[d] EXCEPT !.merged = stored[d].merged \cup {key}]
  OBVIOUS
<1>1. stored \in Seq(Docs) /\ live \subseteq DOMAIN stored
  BY DEF ServerOK, TypeServer
<1>2. /\ d \in DOMAIN stored /\ d \in live /\ stored' = [stored EXCEPT ![d] = new]
      /\ UNCHANGED <<index, live>>
  BY <1>1 DEF Merge
<1>3. DOMAIN stored = 1 .. Len(stored) /\ stored[d] \in Docs
  BY <1>1, <1>2, LenProperties, ElementOfSeq
<1>4. new \in Docs /\ new.call = stored[d].call /\ new.pos = stored[d].pos
  BY <1>3 DEF Docs
<1>5. /\ stored' \in Seq(Docs) /\ Len(stored') = Len(stored) /\ DOMAIN stored' = DOMAIN stored
      /\ stored'[d] = new /\ \A e \in DOMAIN stored \ {d} : stored'[e] = stored[e]
  BY <1>1, <1>2, <1>3, <1>4, ExceptSeq
<1>6. CopiesStay /\ DeletedKept
  BY <1>2, <1>4, <1>5 DEF CopiesStay, DeletedKept
<1>7. TypeServer'
  BY <1>2, <1>5 DEF ServerOK, TypeServer
<1>8. \A k, p : Copies(k, p)' = Copies(k, p)
  BY <1>2, <1>4, <1>5 DEF Copies
<1>9. \A e \in DOMAIN stored : stored'[e].call = stored[e].call /\ stored'[e].pos = stored[e].pos
  BY <1>2, <1>4, <1>5
<1>10. NoGaps'
  <2> SUFFICES ASSUME NEW e \in DOMAIN stored, NEW p \in 1 .. stored[e].pos,
                      NEW k, k = stored[e].call
               PROVE  Copies(k, p)' # {}
    BY <1>5, <1>9 DEF NoGaps, Copies
  <2> QED BY <1>8 DEF ServerOK, NoGaps
<1> QED BY <1>6, <1>7, <1>10

LEMMA Served ==
    ASSUME ServerOK, NEW q \in Request, Follows(q), Serve(q)
    PROVE  /\ TypeServer' /\ NoGaps' /\ CopiesStay /\ DeletedKept
           /\ q.kind = "insert" => Copies(q.call, q.doc)' # {}
<1>1. q.call \in 1 .. MaxCalls
  BY DEF Request
<1>2. CASE q.kind = "insert"
  <2>1. Index(q.call, q.doc)
    BY <1>2 DEF Serve
  <2>2. q.doc \in 1 .. MaxBatch /\ AllBefore(q.call, q.doc)
    BY <1>2 DEF Follows
  <2> QED BY <1>1, <2>1, <2>2, DocumentStored
<1>3. CASE q.kind = "update"
  BY <1>1, <1>3, DocumentMerged DEF Serve
<1>4. CASE q.kind \notin {"insert", "update"}
  <2>1. Create \/ Drop \/ \E d : Delete(d)
    BY <1>4 DEF Serve
  <2> QED BY <1>4, <2>1, IndexChanged
<1> QED BY <1>2, <1>3, <1>4

\* The requests on their way after a step that delays one, or none.
LEMMA LateKept ==
    ASSUME ServerOK, CopiesStay, NEW q \in Request, Follows(q),
           late' = late \/ Delay(q) \/ late' = late \ {q}
    PROVE  TypeLate' /\ LateInOrder'
<1>1. late \subseteq Request /\ IsFiniteSet(late) /\ Cardinality(late) <= MaxLate
  BY DEF ServerOK, TypeLate
<1>2. Cardinality(late) \in Nat
  BY <1>1, FS_CardinalityType
<1>3. late' \subseteq late \cup {q}
  BY DEF Delay
<1>4. IsFiniteSet(late') /\ Cardinality(late') <= MaxLate
  <2>1. CASE late' = late
    BY <1>1, <2>1
  <2>2. CASE Delay(q)
    <3>1. late' = late \cup {q} /\ Cardinality(late) < MaxLate
      BY <2>2 DEF Delay
    <3>2. IsFiniteSet(late') /\ Cardinality(late') \in {Cardinality(late), Cardinality(late) + 1}
      BY <1>1, <3>1, FS_AddElement
    <3> QED BY <1>2, <3>1, <3>2
  <2>3. CASE late' = late \ {q}
    <3>1. IsFiniteSet(late') /\ Cardinality(late') \in {Cardinality(late), Cardinality(late) - 1}
      BY <1>1, <2>3, FS_RemoveElement
    <3> QED BY <1>1, <1>2, <3>1
  <2> QED BY <2>1, <2>2, <2>3
<1>5. TypeLate'
  BY <1>1, <1>3, <1>4 DEF TypeLate
<1>6. LateInOrder'
  <2> SUFFICES ASSUME NEW other \in late', other.kind = "insert"
               PROVE  other.doc \in 1 .. MaxBatch /\ AllBefore(other.call, other.doc)'
    BY DEF LateInOrder, Follows, AllBefore, Copies
  <2>1. other.doc \in 1 .. MaxBatch /\ AllBefore(other.call, other.doc)
    BY <1>3 DEF ServerOK, LateInOrder, Follows
  <2> QED BY <2>1, AllBeforeKept
<1> QED BY <1>5, <1>6

\* A request served or not, repeated or not.
LEMMA Handled ==
    ASSUME ServerOK, NEW q \in Request, Follows(q), Serve(q) \/ UNCHANGED content,
           late' = late \/ Delay(q) \/ late' = late \ {q}
    PROVE  ServerOK' /\ CopiesStay /\ DeletedKept
<1>1. TypeServer' /\ NoGaps' /\ CopiesStay /\ DeletedKept
  BY Served, ContentUnchanged
<1>2. TypeLate' /\ LateInOrder'
  BY <1>1, LateKept
<1> QED BY <1>1, <1>2 DEF ServerOK

-----------------------------------------------------------------------------
(* What a step of a caller keeps, whatever was stored meanwhile            *)

\* The caller's own part, for one caller.
Own(c) == /\ pc[c] = "inserting" => call[c] # 0 /\ AllBefore(call[c], pos[c])
          /\ err[c] = "nil" => \A p \in DOMAIN documents[c] : Copies(call[c], p) # {}

LEMMA OwnParts == CallersOK <=> TypeLocal /\ \A c \in Callers : Own(c)
BY DEF CallersOK, InOrder, NilMeansStored, Own

LEMMA OtherKept ==
    ASSUME CallersOK, CopiesStay, NEW c \in Callers, pc'[c] = pc[c], call'[c] = call[c],
           pos'[c] = pos[c], err'[c] = err[c], documents'[c] = documents[c]
    PROVE  Own(c)'
<1>1. Own(c)
  BY OwnParts
<1> SUFFICES ASSUME NEW k, k = call[c], NEW n, n = pos[c], NEW D, D = DOMAIN documents[c]
             PROVE  /\ pc[c] = "inserting" => k # 0 /\ AllBefore(k, n)'
                    /\ err[c] = "nil" => \A p \in D : Copies(k, p)' # {}
  BY DEF Own, AllBefore, Copies
<1> QED BY <1>1, AllBeforeKept, CopyKept DEF Own

LEMMA LocalUnchanged ==
    ASSUME CallersOK, CopiesStay, UNCHANGED <<local, calls>>
    PROVE  CallersOK'
<1>1. UNCHANGED <<pc, documents, pos, call, err, calls>>
  BY DEF local
<1>2. \A c \in Callers : Own(c)'
  BY <1>1, OtherKept
<1>3. TypeLocal'
  BY <1>1 DEF CallersOK, TypeLocal
<1> QED BY <1>2, <1>3 DEF CallersOK, InOrder, NilMeansStored, Own

\* c alone moves, and what it says of itself holds.
LEMMA CallerMoves ==
    ASSUME CallersOK, CopiesStay, NEW c \in Callers, TypeLocal', Own(c)',
           \A b \in Callers \ {c} : /\ pc'[b] = pc[b] /\ call'[b] = call[b] /\ pos'[b] = pos[b]
                                    /\ err'[b] = err[b] /\ documents'[b] = documents[b]
    PROVE  CallersOK'
<1>1. \A b \in Callers : Own(b)'
  BY OtherKept
<1> QED BY <1>1 DEF CallersOK, InOrder, NilMeansStored, Own

LEMMA TypeOfCaller ==
    ASSUME CallersOK, NEW c \in Callers
    PROVE  /\ pos[c] \in 1 .. MaxBatch + 1 /\ call[c] \in 0 .. MaxCalls
           /\ documents[c] \in Batches \cup {<<>>}
BY DEF CallersOK, TypeLocal

LEMMA CallCounts ==
    ASSUME CallersOK, NEW c \in Callers, Call(c)
    PROVE  /\ calls \in 0 .. MaxCalls - 1 /\ calls' \in 0 .. MaxCalls
           /\ call' \in [Callers -> 0 .. MaxCalls] /\ call'[c] \in 1 .. MaxCalls
           /\ \A b \in Callers \ {c} : call'[b] = call[b]
<1>1. calls \in 0 .. MaxCalls /\ call \in [Callers -> 0 .. MaxCalls]
  BY DEF CallersOK, TypeLocal
<1>2. calls < MaxCalls /\ calls' = calls + 1 /\ call' = [call EXCEPT ![c] = calls + 1]
  BY DEF Call
<1>3. calls \in 0 .. MaxCalls - 1 /\ calls + 1 \in 1 .. MaxCalls /\ calls + 1 \in 0 .. MaxCalls
  BY <1>1, <1>2
<1> QED BY <1>1, <1>2, <1>3

LEMMA ReturnTypes ==
    ASSUME CallersOK, NEW c \in Callers, NEW e \in {"nil", "failed"},
           NEW batch \in Batches \cup {<<>>}, Return(c, e, batch)
    PROVE  /\ pc' \in [Callers -> {"idle", "inserting"}] /\ pos' \in [Callers -> 1 .. MaxBatch + 1]
           /\ documents' \in [Callers -> Batches \cup {<<>>}]
           /\ err' \in [Callers -> {"none", "nil", "failed"}]
           /\ pc'[c] = "idle" /\ err'[c] = e /\ documents'[c] = batch
           /\ \A b \in Callers \ {c} : /\ pc'[b] = pc[b] /\ pos'[b] = pos[b]
                                       /\ err'[b] = err[b] /\ documents'[b] = documents[b]
<1>1. /\ pc \in [Callers -> {"idle", "inserting"}] /\ documents \in [Callers -> Batches \cup {<<>>}]
      /\ err \in [Callers -> {"none", "nil", "failed"}]
  BY DEF CallersOK, TypeLocal
<1>2. /\ pc' = [pc EXCEPT ![c] = "idle"] /\ err' = [err EXCEPT ![c] = e]
      /\ documents' = [documents EXCEPT ![c] = batch] /\ pos' = [pos EXCEPT ![c] = 1]
  BY DEF Return
<1>3. pos \in [Callers -> 1 .. MaxBatch + 1] /\ 1 \in 1 .. MaxBatch + 1
  BY DEF CallersOK, TypeLocal
<1>4. /\ pos' \in [Callers -> 1 .. MaxBatch + 1] /\ \A b \in Callers \ {c} : pos'[b] = pos[b]
  BY <1>2, <1>3
<1> QED BY <1>1, <1>2, <1>4

\* A call that returns without a document of its own.
LEMMA Answered ==
    ASSUME CallersOK, CopiesStay, NEW c \in Callers, Call(c) \/ UNCHANGED <<call, calls>>,
           NEW e \in {"nil", "failed"}, Return(c, e, <<>>)
    PROVE  CallersOK'
<1>1. /\ pc' \in [Callers -> {"idle", "inserting"}] /\ pos' \in [Callers -> 1 .. MaxBatch + 1]
      /\ documents' \in [Callers -> Batches \cup {<<>>}]
      /\ err' \in [Callers -> {"none", "nil", "failed"}]
      /\ pc'[c] = "idle" /\ err'[c] = e /\ documents'[c] = <<>>
      /\ \A b \in Callers \ {c} : /\ pc'[b] = pc[b] /\ pos'[b] = pos[b]
                                  /\ err'[b] = err[b] /\ documents'[b] = documents[b]
  BY ReturnTypes
<1>2. /\ calls' \in 0 .. MaxCalls /\ call' \in [Callers -> 0 .. MaxCalls]
      /\ \A b \in Callers \ {c} : call'[b] = call[b]
  BY CallCounts DEF CallersOK, TypeLocal
<1>3. TypeLocal'
  BY <1>1, <1>2 DEF TypeLocal
<1>4. DOMAIN documents'[c] = {}
  BY <1>1
<1>5. Own(c)'
  BY <1>1, <1>4 DEF Own
<1> QED BY <1>1, <1>2, <1>3, <1>5, CallerMoves

LEMMA BulkInsertKeeps ==
    ASSUME CallersOK, CopiesStay, NEW c \in Callers, NEW batch \in Batches, BulkInsert(c, batch)
    PROVE  CallersOK'
<1>1. /\ pc \in [Callers -> {"idle", "inserting"}] /\ documents \in [Callers -> Batches \cup {<<>>}]
      /\ err \in [Callers -> {"none", "nil", "failed"}] /\ pos \in [Callers -> 1 .. MaxBatch + 1]
  BY DEF CallersOK, TypeLocal
<1>2. /\ pc' = [pc EXCEPT ![c] = "inserting"] /\ err' = [err EXCEPT ![c] = "none"]
      /\ documents' = [documents EXCEPT ![c] = batch] /\ pos' = [pos EXCEPT ![c] = 1]
  BY DEF BulkInsert
<1>3. /\ calls' \in 0 .. MaxCalls /\ call' \in [Callers -> 0 .. MaxCalls]
      /\ call'[c] # 0 /\ \A b \in Callers \ {c} : call'[b] = call[b]
  BY CallCounts DEF BulkInsert
<1>4. 1 \in 1 .. MaxBatch + 1
  OBVIOUS
<1>5. TypeLocal'
  BY <1>1, <1>2, <1>3, <1>4 DEF TypeLocal
<1>6. pos'[c] = 1 /\ err'[c] = "none"
  BY <1>1, <1>2
<1>7. Own(c)'
  BY <1>3, <1>6 DEF Own, AllBefore
<1>8. \A b \in Callers \ {c} : /\ pc'[b] = pc[b] /\ pos'[b] = pos[b]
                               /\ err'[b] = err[b] /\ documents'[b] = documents[b]
  BY <1>1, <1>2
<1> QED BY <1>3, <1>5, <1>7, <1>8, CallerMoves

\* Going on to the next document, once this one is stored.
LEMMA AdvanceKeeps ==
    ASSUME CallersOK, CopiesStay, NEW c \in Callers, Inserting(c), Advance(c),
           UNCHANGED <<call, calls>>, NEW k, k = call[c], NEW n, n = pos[c], Copies(k, n)' # {}
    PROVE  CallersOK'
<1>1. pos \in [Callers -> 1 .. MaxBatch + 1] /\ pos' = [pos EXCEPT ![c] = n + 1]
  BY DEF CallersOK, TypeLocal, Advance
<1>2. n \in 1 .. MaxBatch
  <2>1. n <= Len(documents[c]) /\ Len(documents[c]) \in 0 .. MaxBatch /\ n \in 1 .. MaxBatch + 1
    BY TypeOfCaller, BatchLength DEF Inserting
  <2> QED BY <2>1
<1>3. /\ pos' \in [Callers -> 1 .. MaxBatch + 1] /\ pos'[c] = n + 1
      /\ \A b \in Callers \ {c} : pos'[b] = pos[b]
  <2>1. n + 1 \in 1 .. MaxBatch + 1
    BY <1>2
  <2> QED BY <1>1, <2>1
<1>4. UNCHANGED <<pc, err, documents, call, calls>>
  BY DEF Advance
<1>5. TypeLocal'
  BY <1>3, <1>4 DEF CallersOK, TypeLocal
<1>6. k # 0 /\ AllBefore(k, n)'
  <2>1. k # 0 /\ AllBefore(k, n)
    BY DEF Inserting, CallersOK, InOrder
  <2> QED BY <2>1, AllBeforeKept
<1>7. \A p \in 1 .. n : Copies(k, p)' # {}
  <2> SUFFICES ASSUME NEW p \in 1 .. n PROVE Copies(k, p)' # {}
    OBVIOUS
  <2>1. p = n \/ p \in 1 .. n - 1
    BY <1>2
  <2> QED BY <1>6, <2>1 DEF AllBefore
<1>8. ASSUME err[c] = "nil" PROVE \A p \in DOMAIN documents[c] : Copies(k, p)' # {}
  BY <1>8, CopyKept DEF CallersOK, NilMeansStored
<1>9. Own(c)'
  <2>1. \A p \in 1 .. pos'[c] - 1 : Copies(k, p)' # {}
    <3>1. pos'[c] = n + 1
      BY <1>3
    <3>2. pos'[c] - 1 = n
      BY <1>2, <3>1
    <3> QED BY <1>7, <3>2
  <2>2. call'[c] = k /\ k # 0 /\ err'[c] = err[c] /\ documents'[c] = documents[c]
    BY <1>4, <1>6
  <2>3. AllBefore(call[c], pos[c])'
    BY <2>1, <2>2 DEF AllBefore, Copies
  <2>4. err'[c] = "nil" => \A p \in DOMAIN documents'[c] : Copies(call[c], p)' # {}
    BY <1>8, <2>2 DEF Copies
  <2> QED BY <2>2, <2>3, <2>4 DEF Own
<1> QED BY <1>3, <1>4, <1>5, <1>9, CallerMoves

\* nil, once the last document is stored.
LEMMA InsertReturnsKeeps ==
    ASSUME CallersOK, CopiesStay, NEW c \in Callers, InsertReturns(c)
    PROVE  CallersOK'
<1> PICK batch : batch = documents[c]
  OBVIOUS
<1> PICK k : k = call[c]
  OBVIOUS
<1>1. batch \in Batches \cup {<<>>} /\ Return(c, "nil", batch) /\ UNCHANGED <<call, calls>>
  BY TypeOfCaller DEF InsertReturns
<1>2. /\ pc' \in [Callers -> {"idle", "inserting"}] /\ pos' \in [Callers -> 1 .. MaxBatch + 1]
      /\ documents' \in [Callers -> Batches \cup {<<>>}]
      /\ err' \in [Callers -> {"none", "nil", "failed"}]
      /\ pc'[c] = "idle" /\ documents'[c] = batch
      /\ \A b \in Callers \ {c} : /\ pc'[b] = pc[b] /\ pos'[b] = pos[b]
                                  /\ err'[b] = err[b] /\ documents'[b] = documents[b]
  BY <1>1, ReturnTypes
<1>3. TypeLocal'
  BY <1>1, <1>2 DEF CallersOK, TypeLocal
<1>4. pos[c] \in 1 .. MaxBatch + 1 /\ Len(batch) \in 0 .. MaxBatch /\ DOMAIN batch = 1 .. Len(batch)
  BY <1>1, TypeOfCaller, BatchLength
<1>5. \A p \in DOMAIN batch : p \in 1 .. pos[c] - 1
  BY <1>4 DEF InsertReturns
<1>6. \A p \in DOMAIN batch : Copies(k, p) # {}
  BY <1>5 DEF InsertReturns, CallersOK, InOrder, AllBefore
<1>7. \A p \in DOMAIN batch : Copies(k, p)' # {}
  BY <1>6, CopyKept
<1>8. Own(c)'
  BY <1>1, <1>2, <1>7 DEF Own, Copies
<1> QED BY <1>1, <1>2, <1>3, <1>8, CallerMoves

-----------------------------------------------------------------------------
LEMMA InitInvariant == Init => IInv
<1> SUFFICES ASSUME Init PROVE IInv
  OBVIOUS
<1>1. stored \in Seq(Docs)
  BY EmptySeq DEF Init
<1>2. DOMAIN stored = {}
  BY DEF Init
<1>3. TypeServer
  BY <1>1, <1>2 DEF Init, TypeServer
<1>4. TypeLate
  BY FS_EmptySet DEF Init, TypeLate
<1>5. NoGaps /\ LateInOrder
  BY <1>2 DEF Init, NoGaps, LateInOrder
<1>6. TypeLocal
  <2>1. calls \in 0 .. MaxCalls /\ call \in [Callers -> 0 .. MaxCalls] /\ pos \in [Callers -> 1 .. MaxBatch + 1]
    BY DEF Init
  <2> QED BY <2>1 DEF Init, TypeLocal
<1>7. InOrder /\ NilMeansStored
  BY DEF Init, InOrder, NilMeansStored
<1> QED BY <1>3, <1>4, <1>5, <1>6, <1>7 DEF IInv, ServerOK, CallersOK

\* The calls that are one request.
LEMMA SingleInvariant ==
    ASSUME IInv, NEW c \in Callers, NEW kind \in Kinds \ {"insert"}, NEW d \in Nat,
           Single(c, kind, d)
    PROVE  IInv' /\ DeletedKept
<1> PICK q : q = [kind |-> kind, call |-> calls + 1, doc |-> d]
  OBVIOUS
<1>1. Call(c) /\ Send(q, Return(c, "nil", <<>>), Fail(c))
  BY DEF Single
<1>2. q \in Request
  <2>1. calls + 1 \in 1 .. MaxCalls
    BY <1>1, CallCounts DEF IInv
  <2> QED BY <2>1 DEF Request
<1>3. Follows(q)
  BY DEF Follows
<1>4. ServerOK' /\ CopiesStay /\ DeletedKept
  BY <1>1, <1>2, <1>3, Handled DEF IInv, Send
<1>5. Return(c, "nil", <<>>) \/ Return(c, "failed", <<>>)
  BY <1>1 DEF Send, Fail
<1> QED BY <1>1, <1>4, <1>5, Answered DEF IInv

LEMMA StartInvariant ==
    ASSUME IInv, NEW c \in Callers, Start(c)
    PROVE  IInv' /\ DeletedKept
<1>1. CASE CreateIndex(c) \/ DeleteIndex(c)
  BY <1>1, SingleInvariant DEF CreateIndex, DeleteIndex, Kinds
<1>2. ASSUME NEW d \in 1 .. Len(stored), DeleteDocument(c, d) \/ UpdateDocument(c, d)
      PROVE  IInv' /\ DeletedKept
  <2>1. d \in Nat
    OBVIOUS
  <2> QED BY <1>2, <2>1, SingleInvariant DEF DeleteDocument, UpdateDocument, Kinds
<1>3. CASE SendNothing(c)
  <2>1. ServerOK' /\ CopiesStay /\ DeletedKept
    BY <1>3, ServerUnchanged DEF SendNothing, IInv
  <2> QED BY <1>3, <2>1, Answered DEF IInv, SendNothing, Fail
<1>4. ASSUME NEW batch \in Batches, BulkInsert(c, batch)
      PROVE  IInv' /\ DeletedKept
  <2>1. UNCHANGED server
    BY <1>4 DEF BulkInsert
  <2> QED BY <1>4, <2>1, ServerUnchanged, BulkInsertKeeps DEF IInv
<1> QED BY <1>1, <1>2, <1>3, <1>4 DEF Start

\* The document an insert sends comes after what it has stored.
LEMMA SentInOrder ==
    ASSUME IInv, NEW c \in Callers, Inserting(c),
           NEW q, q = [kind |-> "insert", call |-> call[c], doc |-> pos[c]]
    PROVE  q \in Request /\ Follows(q)
<1>1. q.kind = "insert" /\ q.call = call[c] /\ q.doc = pos[c]
  OBVIOUS
<1>2. call[c] # 0 /\ AllBefore(call[c], pos[c])
  BY DEF Inserting, IInv, CallersOK, InOrder
<1>3. call[c] \in 1 .. MaxCalls
  <2>1. call[c] \in 0 .. MaxCalls
    BY TypeOfCaller DEF IInv
  <2> QED BY <1>2, <2>1
<1>4. pos[c] \in 1 .. MaxBatch
  <2>1. pos[c] <= Len(documents[c]) /\ Len(documents[c]) \in 0 .. MaxBatch /\ pos[c] \in 1 .. MaxBatch + 1
    BY TypeOfCaller, BatchLength DEF Inserting, IInv
  <2> QED BY <2>1
<1>5. q \in Request
  BY <1>3, <1>4 DEF Request, Kinds
<1> QED BY <1>1, <1>2, <1>4, <1>5 DEF Follows

LEMMA InsertInvariant ==
    ASSUME IInv, NEW c \in Callers, Insert(c)
    PROVE  IInv' /\ DeletedKept
<1> PICK q : q = [kind |-> "insert", call |-> call[c], doc |-> pos[c]]
  OBVIOUS
<1>1. Inserting(c) /\ UNCHANGED <<call, calls>> /\ Send(q, Advance(c), InsertError(c))
  BY DEF Insert
<1>2. q \in Request /\ Follows(q) /\ q.kind = "insert" /\ q.call = call[c] /\ q.doc = pos[c]
  BY <1>1, SentInOrder
<1>3. ServerOK' /\ CopiesStay /\ DeletedKept
  BY <1>1, <1>2, Handled DEF IInv, Send
<1>4. CASE Serve(q) /\ Advance(c)
  <2> PICK k : k = call[c]
    OBVIOUS
  <2> PICK n : n = pos[c]
    OBVIOUS
  <2>1. Copies(q.call, q.doc)' # {}
    BY <1>2, <1>4, Served DEF IInv
  <2>2. Copies(k, n)' # {}
    BY <1>2, <2>1
  <2> QED BY <1>1, <1>3, <1>4, <2>2, AdvanceKeeps DEF IInv
<1>5. CASE InsertError(c)
  <2>1. Return(c, "failed", <<>>)
    BY <1>5 DEF InsertError, Fail
  <2> QED BY <1>1, <1>3, <2>1, Answered DEF IInv
<1> QED BY <1>1, <1>4, <1>5 DEF Send

LEMMA ContinueInvariant ==
    ASSUME IInv, NEW c \in Callers, Continue(c)
    PROVE  IInv' /\ DeletedKept
<1>1. CASE InsertUnencodable(c)
  <2>1. UNCHANGED <<call, calls>> /\ UNCHANGED server /\ Return(c, "failed", <<>>)
    BY <1>1 DEF InsertUnencodable, MarshalError, InsertError, Fail
  <2>2. ServerOK' /\ CopiesStay /\ DeletedKept
    BY <2>1, ServerUnchanged DEF IInv
  <2> QED BY <2>1, <2>2, Answered DEF IInv
<1>2. CASE InsertReturns(c)
  <2>1. UNCHANGED server
    BY <1>2 DEF InsertReturns
  <2> QED BY <1>2, <2>1, ServerUnchanged, InsertReturnsKeeps DEF IInv
<1> QED BY <1>1, <1>2, InsertInvariant DEF Continue

\* A request nobody waits for is served like the others.
LEMMA ArriveInvariant ==
    ASSUME IInv, NEW q \in late, Arrive(q), UNCHANGED <<local, calls>>
    PROVE  IInv' /\ DeletedKept
<1>1. q \in Request /\ Follows(q)
  BY DEF IInv, ServerOK, TypeLate, LateInOrder
<1>2. ServerOK' /\ CopiesStay /\ DeletedKept
  BY <1>1, Handled DEF IInv, Arrive
<1> QED BY <1>2, LocalUnchanged DEF IInv

LEMMA NextInvariant == IInv /\ [Next]_vars => IInv' /\ DeletedKept
<1> SUFFICES ASSUME IInv, [Next]_vars PROVE IInv' /\ DeletedKept
  OBVIOUS
<1>1. CASE UNCHANGED vars
  BY <1>1, ServerUnchanged, LocalUnchanged DEF vars, IInv
<1>2. CASE Next
  BY <1>2, StartInvariant, ContinueInvariant, ArriveInvariant DEF Next
<1> QED BY <1>1, <1>2

LEMMA InvariantImplies == IInv => TypeOK /\ NilMeansStored /\ NoGaps
BY DEF IInv, ServerOK, CallersOK, TypeServer, TypeLate, TypeLocal, TypeOK

-----------------------------------------------------------------------------
\* The client's calls and the documents of the index keep their types, and no
\* copy is live in an index that was dropped.
THEOREM TypeCorrect == Spec => []TypeOK
BY InitInvariant, NextInvariant, InvariantImplies, PTL DEF Spec

\* BulkInsert and InsertDocument return nil only with every document stored,
\* for any batch and whatever other callers and late requests do.
THEOREM NilAfterAllStored == Spec => []NilMeansStored
BY InitInvariant, NextInvariant, InvariantImplies, PTL DEF Spec

\* However often a BulkInsert fails and late a request of it arrives, what is
\* stored of it is a prefix of its documents.
THEOREM StoredIsPrefix == Spec => []NoGaps
BY InitInvariant, NextInvariant, InvariantImplies, PTL DEF Spec

\* However late an update or an insert arrives, it does not bring back or
\* change a document that was deleted.
THEOREM DeletedForGood == Spec => DeletedStays
<1>1. IInv /\ [Next]_vars
        => [\A d \in DOMAIN stored \ live : d \notin live' /\ stored'[d] = stored[d]]_vars
  BY NextInvariant DEF DeletedKept
<1>2. IInv /\ [Next]_vars => IInv'
  BY NextInvariant
<1> QED BY <1>1, <1>2, InitInvariant, PTL DEF Spec, DeletedStays
=============================================================================
