--------------------------- MODULE Elasticsearch ---------------------------
(***************************************************************************)
(* The Elasticsearch client (elasticsearch/elasticsearch.go): callers that *)
(* create and drop an index, insert documents one at a time or in bulk,    *)
(* update and delete them.  The calls that only read (IndexExists,         *)
(* GetDocument, SearchDocument, Count) change nothing and are left out.    *)
(*                                                                         *)
(* The cluster and the typed client are external.  The server serves a     *)
(* request at once and as a whole.  The caller may see an error although   *)
(* it was served, and a request of any kind may be served once more, or    *)
(* for the first time, when its call has long gone on: the transport       *)
(* repeats a request whose reply is late, and a caller gives up on one.    *)
(* An insert stores under an id the server makes up, and creates an absent *)
(* index with a guessed mapping.  An update sends the caller's document as *)
(* Doc, without Upsert or DocAsUpsert: the server merges it into a         *)
(* document it has, and refuses it for one it does not have.               *)
(***************************************************************************)
EXTENDS Integers, Sequences, FiniteSets

CONSTANTS
    Callers,
    MaxBatch,   \* bound: documents of one BulkInsert
    MaxLate,    \* bound: requests under way that nobody waits for
    MaxCalls    \* bound: calls of all callers

ASSUME BoundsAssumption == MaxBatch \in Nat /\ MaxCalls \in Nat /\ MaxLate \in Nat

\* The documents of one call, in order: does json.Marshal accept them?
Batches == UNION {[1 .. n -> BOOLEAN] : n \in 1 .. MaxBatch}

VARIABLES
    index,      \* absent, declared (by CreateIndex) or guessed
    stored,     \* every copy ever stored: the call and the position it came from,
                \* and the updates merged into it; its place is its id
    live,       \* the copies that are in the index
    late,       \* requests under way to the server that nobody waits for
    pc,         \* idle, inserting
    documents, pos,     \* the call's documents and the one it is at
    call,       \* history: the number of the caller's latest call
    err,        \* its result: "none" while there is none, "nil", "failed"
    calls

content == <<index, stored, live>>
server  == <<content, late>>
local   == <<pc, documents, pos, call, err>>
vars    == <<server, local, calls>>

Init ==
    /\ index = "absent" /\ stored = <<>> /\ live = {} /\ late = {}
    /\ pc = [c \in Callers |-> "idle"]
    /\ documents = [c \in Callers |-> <<>>]
    /\ pos = [c \in Callers |-> 1]
    /\ call = [c \in Callers |-> 0]
    /\ err = [c \in Callers |-> "none"]
    /\ calls = 0

-----------------------------------------------------------------------------
(* The server                                                              *)

Create == /\ index = "absent" /\ index' = "declared"
          /\ UNCHANGED <<stored, live>>

Drop == /\ index # "absent" /\ index' = "absent" /\ live' = {}
        /\ UNCHANGED stored

\* client.Index without Id.
Index(k, p) ==
    /\ stored' = Append(stored, [call |-> k, pos |-> p, merged |-> {}])
    /\ live' = live \cup {Len(stored) + 1}
    /\ index' = IF index = "absent" THEN "guessed" ELSE index

\* Variant: DocAsUpsert, a document that is gone is stored again.
Upsert(d, k) ==
    /\ d \in DOMAIN stored
    /\ stored' = [stored EXCEPT ![d].merged = @ \cup {k}]
    /\ live' = live \cup {d}
    /\ index' = IF index = "absent" THEN "guessed" ELSE index

\* update.Request with Doc alone.
Merge(d, k) ==
    /\ d \in live
    /\ stored' = [stored EXCEPT ![d].merged = @ \cup {k}]
    /\ UNCHANGED <<index, live>>

Delete(d) == /\ d \in live /\ live' = live \ {d}
             /\ UNCHANGED <<index, stored>>

\* A request: its kind, the call it is of and, for a document, its position in
\* the call or its id.
Kinds   == {"create", "drop", "insert", "update", "delete"}
Request == [kind : Kinds, call : 1 .. MaxCalls, doc : Nat]

Serve(q) ==
    \/ q.kind = "create" /\ Create
    \/ q.kind = "drop"   /\ Drop
    \/ q.kind = "insert" /\ Index(q.call, q.doc)
    \/ q.kind = "update" /\ Merge(q.doc, q.call)
    \/ q.kind = "delete" /\ Delete(q.doc)

\* One more request of the kind is still on its way.
Delay(q) == Cardinality(late) < MaxLate /\ late' = late \cup {q}

\* It arrives, or is lost.
Arrive(q) == /\ late' = late \ {q}
             /\ Serve(q) \/ UNCHANGED content

\* The client sends q and goes on with ok when the reply says it was served,
\* with failed when it is refused, lost, or the reply is.
Send(q, ok, failed) ==
    /\ \/ Serve(q) /\ (ok \/ failed)
       \/ UNCHANGED content /\ failed
    /\ late' = late \/ Delay(q)

-----------------------------------------------------------------------------
(* The client                                                              *)

Call(c) ==
    /\ pc[c] = "idle" /\ calls < MaxCalls
    /\ calls' = calls + 1
    /\ call' = [call EXCEPT ![c] = calls + 1]

\* The call returns e, after it stored all of batch if e is nil.
Return(c, e, batch) ==
    /\ pc' = [pc EXCEPT ![c] = "idle"]
    /\ err' = [err EXCEPT ![c] = e]
    /\ documents' = [documents EXCEPT ![c] = batch]
    /\ pos' = [pos EXCEPT ![c] = 1]

Fail(c) == Return(c, "failed", <<>>)

\* A call that is one request; d is the id of its document, 0 for the index.
Single(c, kind, d) ==
    /\ Call(c)
    /\ Send([kind |-> kind, call |-> calls + 1, doc |-> d], Return(c, "nil", <<>>), Fail(c))

\* Every field of the schema has a type of valueTypeMapping.
CreateIndex(c) == Single(c, "create", 0)

DeleteIndex(c) == Single(c, "drop", 0)

DeleteDocument(c, d) == Single(c, "delete", d)

\* The caller's document is encoded and sent whole.
UpdateDocument(c, d) == Single(c, "update", d)

\* CreateIndex with a field of another type, UpdateDocument with a document
\* that cannot be encoded: nothing is sent.
SendNothing(c) == Call(c) /\ Fail(c) /\ UNCHANGED server

\* InsertDocument is the call with a single document.
BulkInsert(c, batch) ==
    /\ Call(c)
    /\ pc' = [pc EXCEPT ![c] = "inserting"]
    /\ documents' = [documents EXCEPT ![c] = batch]
    /\ pos' = [pos EXCEPT ![c] = 1]
    /\ err' = [err EXCEPT ![c] = "none"]
    /\ UNCHANGED server

Advance(c) == pos' = [pos EXCEPT ![c] = @ + 1] /\ UNCHANGED <<pc, err, documents>>

\* if err != nil { return err }.  Variant: the document is skipped.
SkipDocument(c) == Advance(c)
InsertError(c)  == Fail(c)

\* Variant: a document that cannot be encoded is passed over.
PassOver(c)     == Advance(c)
MarshalError(c) == InsertError(c)

Inserting(c) == pc[c] = "inserting" /\ pos[c] <= Len(documents[c])

Insert(c) ==
    /\ Inserting(c) /\ documents[c][pos[c]]
    /\ Send([kind |-> "insert", call |-> call[c], doc |-> pos[c]], Advance(c), InsertError(c))
    /\ UNCHANGED <<call, calls>>

InsertUnencodable(c) ==
    /\ Inserting(c) /\ ~documents[c][pos[c]]
    /\ MarshalError(c)
    /\ UNCHANGED <<server, call, calls>>

InsertReturns(c) ==
    /\ pc[c] = "inserting" /\ pos[c] > Len(documents[c])
    /\ Return(c, "nil", documents[c])
    /\ UNCHANGED <<server, call, calls>>

Start(c) ==
    \/ CreateIndex(c) \/ DeleteIndex(c) \/ SendNothing(c)
    \/ \E batch \in Batches : BulkInsert(c, batch)
    \/ \E d \in 1 .. Len(stored) : DeleteDocument(c, d) \/ UpdateDocument(c, d)

Continue(c) == Insert(c) \/ InsertUnencodable(c) \/ InsertReturns(c)

Next == \/ \E c \in Callers : Start(c) \/ Continue(c)
        \/ \E q \in late : Arrive(q) /\ UNCHANGED <<local, calls>>

Spec == Init /\ [][Next]_vars

-----------------------------------------------------------------------------
Copies(k, p) == {d \in DOMAIN stored : stored[d].call = k /\ stored[d].pos = p}

Docs == [call : 1 .. MaxCalls, pos : 1 .. MaxBatch, merged : SUBSET (1 .. MaxCalls)]

\* Every variable stays in its type; only copies of an existing index are
\* live, and an index without a copy was declared or emptied.
TypeOK ==
    /\ index \in {"absent", "declared", "guessed"}
    /\ stored \in Seq(Docs)
    /\ live \subseteq DOMAIN stored /\ (index = "absent" => live = {})
    /\ late \subseteq Request /\ IsFiniteSet(late) /\ Cardinality(late) <= MaxLate
    /\ pc \in [Callers -> {"idle", "inserting"}]
    /\ documents \in [Callers -> Batches \cup {<<>>}]
    /\ pos \in [Callers -> 1 .. MaxBatch + 1]
    /\ err \in [Callers -> {"none", "nil", "failed"}]
    /\ calls \in 0 .. MaxCalls /\ call \in [Callers -> 0 .. MaxCalls]

\* A BulkInsert or InsertDocument that returns nil has stored every document
\* of its own, in the index of then, whatever the other callers do.
NilMeansStored ==
    \A c \in Callers : err[c] = "nil" =>
        \A p \in DOMAIN documents[c] : Copies(call[c], p) # {}

\* A call that fails has stored a prefix of its documents, also when the
\* request it gave up on arrives long after, next to the calls that repeat it.
NoGaps ==
    \A d \in DOMAIN stored : \A p \in 1 .. stored[d].pos : Copies(stored[d].call, p) # {}

\* A document that was deleted, alone or with its index, does not come back
\* and does not change: not by an UpdateDocument that did not see the delete,
\* not by a repeated update or insert that arrives after it.
DeletedStays ==
    [][\A d \in DOMAIN stored \ live : d \notin live' /\ stored'[d] = stored[d]]_vars
=============================================================================
