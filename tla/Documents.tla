----------------------------- MODULE Documents ------------------------------
(***************************************************************************)
(* The knowledge base: documents are ingested from files by a script that  *)
(* may be run at any time, and uploaded and deleted in the admin dashboard *)
(* (modules/documents.ts, gateway/adminDocumentsRoutes.ts,                 *)
(* scripts/ingest-knowledge.ts).  A document is a row, chunks in the       *)
(* vector store and, if it was uploaded, an object in cloud storage; no    *)
(* two of these change together, and requests overlap.                     *)
(***************************************************************************)
EXTENDS Chunking, FiniteSets

CONSTANTS Requests,  \* runs of the script, uploads and deletions
          Files,     \* the source URIs of the script's files
          Contents,  \* the texts that documents may have
          Plans,     \* what the requests may be
          MaxRows,   \* bound on the rows ever inserted
          MaxFaults  \* bound on the injected errors and crashes

\* An upload gets a source URI of its own.
Sources == Files \cup Requests
Items == [source : Sources, content : Contents]

\* A run has files, and their URIs are not those of the bucket.
ASSUME DocumentsAssumption ==
    /\ Files \cap Requests = {}
    /\ Contents \subseteq Seq(Characters) /\ IsFiniteSet(Contents)
    /\ Plans \subseteq [Requests -> [kind : {"none", "run", "upload", "delete"},
                                   items : Seq(Items)]]
    /\ \A plan \in Plans, r \in Requests :
           /\ plan[r].kind = "run" =>
                  plan[r].items # <<>> /\ \A k \in DOMAIN plan[r].items :
                                               plan[r].items[k].source \in Files
           /\ plan[r].kind = "upload" =>
                  Len(plan[r].items) = 1 /\ plan[r].items[1].source = r
    /\ MaxRows \in Nat /\ MaxFaults \in Nat

VARIABLES provider, \* VECTOR_DB_PROVIDER
          plan,     \* what each request is
          pc,       \* the call its handler is about to make, or how it ended
          local,    \* the handler's local variables
          rows,     \* knowledge_documents, by id
          inserted, \* rows inserted so far
          chunks,   \* the vector store: by document and index, the text of a chunk
          objects,  \* Google Cloud Storage: the uploads whose file is there
          unclean,  \* documents that a failure or an overlap may have spoilt
          kept,     \* objects whose deletion failed
          faults    \* errors and crashes so far

store == <<rows, inserted, chunks>>
trace == <<unclean, kept>>
vars == <<provider, plan, pc, local, store, objects, trace, faults>>

Ended == {"ok", "failed", "rejected"}
Working == {"upload", "find", "save", "embed", "clear", "put",
            "lookup", "unchunk", "unrow", "unstore"}

Ids == 1..MaxRows
NoRow == [source |-> "", version |-> 0, content |-> <<>>]
\* The item at hand, the id of its row and the row as it was read, the chunks
\* put so far, and whether no other request was at the same document.
NoLocals == [at |-> 1, id |-> 0, read |-> NoRow, put |-> 0, alone |-> TRUE]

Chunked == [c \in Contents |-> ChunkText(c)]
MaxChunks == Max({Len(Chunked[c]) : c \in Contents})
\* A chunk is the n-th one of a content; n is its index.
NoChunk == <<"none">>
NoChunks == [n \in 1..MaxChunks |-> NoChunk]
ChunksOf(c) == [n \in 1..MaxChunks |-> IF n <= Len(Chunked[c]) THEN c ELSE NoChunk]

Init ==
    /\ provider \in {"pgvector", "chroma"}
    /\ plan \in Plans
    /\ pc = [r \in Requests |-> "absent"]
    /\ local = [r \in Requests |-> NoLocals]
    /\ rows = [d \in Ids |-> NoRow] /\ inserted = 0
    /\ chunks = [d \in Ids |-> NoChunks]
    /\ objects = {} /\ unclean = {} /\ kept = {}
    /\ faults = 0

GoTo(r, step) == pc' = [pc EXCEPT ![r] = step]
Fault == faults < MaxFaults /\ faults' = faults + 1

Exists(d) == d # 0 /\ rows[d] # NoRow
Find(source) == {d \in Ids : Exists(d) /\ rows[d].source = source}
Item(r) == plan[r].items[local[r].at]

\* The requests that work on what they read of document d.
At(d) == {r \in Requests : d # 0 /\ pc[r] \in Working \ {"lookup"} /\ local[r].id = d}
\* The request takes up document d, whose row it read.
TakeUp(r, d, row) ==
    /\ local' = [q \in Requests |->
          IF q = r THEN [local[r] EXCEPT !.id = d, !.read = row, !.alone = At(d) = {}]
          ELSE IF q \in At(d) THEN [local[q] EXCEPT !.alone = FALSE]
          ELSE local[q]]
    /\ unclean' = IF At(d) = {} THEN unclean ELSE unclean \cup {d}

\* Between two of its writes a request leaves chunks that are not of the row.
Spoils(r) == local[r].id # 0 /\ pc[r] \in {"embed", "clear", "put", "unrow"}
Fails(S) ==
    /\ pc' = [r \in Requests |-> IF r \in S THEN "failed" ELSE pc[r]]
    /\ local' = [r \in Requests |-> IF r \in S THEN NoLocals ELSE local[r]]
    /\ unclean' = unclean \cup {local[r].id : r \in {q \in S : Spoils(q)}}

-----------------------------------------------------------------------------
(* The requests arrive.                                                    *)

\* main, for the first of its files.
StartRun(r) ==
    /\ pc[r] = "absent" /\ plan[r].kind = "run"
    /\ GoTo(r, "find")
    /\ UNCHANGED <<provider, plan, local, store, objects, trace, faults>>

\* POST /admin/documents: the fields are valid and the text is not blank.
AcceptUpload(r) ==
    /\ pc[r] = "absent" /\ plan[r].kind = "upload"
    /\ Chunked[Item(r).content] # <<>>
    /\ GoTo(r, "upload")
    /\ UNCHANGED <<provider, plan, local, store, objects, trace, faults>>

\* A missing file or title, an unknown category or type, a text that cannot be
\* extracted, or that is blank.
RejectUpload(r) ==
    /\ pc[r] = "absent" /\ plan[r].kind = "upload"
    /\ GoTo(r, "rejected")
    /\ UNCHANGED <<provider, plan, local, store, objects, trace, faults>>

\* The admin picks from the list of documents.
PickForDeletion(r, d) ==
    /\ pc[r] = "absent" /\ plan[r].kind = "delete"
    /\ Exists(d)
    /\ local' = [local EXCEPT ![r].id = d]
    /\ GoTo(r, "lookup")
    /\ UNCHANGED <<provider, plan, store, objects, trace, faults>>

SaveObject(r) ==
    /\ pc[r] = "upload"
    /\ objects' = objects \cup {r}
    /\ GoTo(r, "find")
    /\ UNCHANGED <<provider, plan, local, store, trace, faults>>

-----------------------------------------------------------------------------
(* ingestDocument.                                                         *)

FindBySource(r) ==
    /\ pc[r] = "find"
    /\ LET found == Find(Item(r).source)
       IN  IF found = {} THEN TakeUp(r, 0, NoRow)
           ELSE \E d \in found : TakeUp(r, d, rows[d])
    /\ GoTo(r, "save")
    /\ UNCHANGED <<provider, plan, store, objects, kept, faults>>

Changed(r) == local[r].id = 0 \/ local[r].read.content # Item(r).content

Ends(r) == local' = [local EXCEPT ![r] = NoLocals] /\ GoTo(r, "ok")
\* The next file of a run, or the end of the request.
Done(r) ==
    IF local[r].at < Len(plan[r].items)
    THEN /\ local' = [local EXCEPT ![r] = [NoLocals EXCEPT !.at = local[r].at + 1]]
         /\ GoTo(r, "find")
    ELSE Ends(r)

UpdateRow(r) ==
    /\ pc[r] = "save" /\ Exists(local[r].id)
    /\ rows' = [rows EXCEPT ![local[r].id].content = Item(r).content,
                            ![local[r].id].version =
                                local[r].read.version + IF Changed(r) THEN 1 ELSE 0]
    /\ IF Changed(r) THEN GoTo(r, "embed") /\ UNCHANGED local ELSE Done(r)
    /\ UNCHANGED <<provider, plan, inserted, chunks, objects, trace, faults>>

InsertRow(r) ==
    /\ pc[r] = "save" /\ local[r].id = 0
    /\ Find(Item(r).source) = {}
    /\ inserted < MaxRows /\ inserted' = inserted + 1
    /\ rows' = [rows EXCEPT ![inserted'] = [source |-> Item(r).source, version |-> 1,
                                             content |-> Item(r).content]]
    /\ local' = [local EXCEPT ![r].id = inserted']
    /\ GoTo(r, "embed")
    /\ UNCHANGED <<provider, plan, chunks, objects, trace, faults>>

\* The row is gone, or another request inserted one for the source.
SaveFails(r) ==
    /\ pc[r] = "save"
    /\ IF local[r].id # 0 THEN ~Exists(local[r].id) ELSE Find(Item(r).source) # {}
    /\ Fails({r})
    /\ UNCHANGED <<provider, plan, store, objects, kept, faults>>

EmbedBatch(r) ==
    /\ pc[r] = "embed"
    /\ GoTo(r, "clear")
    /\ UNCHANGED <<provider, plan, local, store, objects, trace, faults>>

\* Mutant of Cleared: the chunks of the last version stay.
Uncleared(d) == chunks
Cleared(d) == [chunks EXCEPT ![d] = NoChunks]

ClearChunks(r) ==
    /\ pc[r] = "clear"
    /\ chunks' = Cleared(local[r].id)
    /\ GoTo(r, "put")
    /\ UNCHANGED <<provider, plan, local, rows, inserted, objects, trace, faults>>

\* Mutant of AllPut: the loop runs once more.
OnePast(r) == local[r].put > Len(Chunked[Item(r).content])
AllPut(r) == local[r].put = Len(Chunked[Item(r).content])

\* PgVectorStore: a statement for each chunk, which needs its document.
PutChunk(r) ==
    /\ pc[r] = "put" /\ provider = "pgvector" /\ ~AllPut(r)
    /\ Exists(local[r].id)
    /\ LET n == local[r].put + 1
       IN  /\ chunks' = [chunks EXCEPT ![local[r].id][n] = Item(r).content]
           /\ local' = [local EXCEPT ![r].put = n]
    /\ UNCHANGED <<provider, plan, pc, rows, inserted, objects, trace, faults>>

PutFails(r) ==
    /\ pc[r] = "put" /\ provider = "pgvector" /\ ~AllPut(r)
    /\ ~Exists(local[r].id)
    /\ Fails({r})
    /\ UNCHANGED <<provider, plan, store, objects, kept, faults>>

\* ChromaVectorStore: one call, which knows of no rows.
PutChunks(r) ==
    /\ pc[r] = "put" /\ provider = "chroma" /\ ~AllPut(r)
    /\ chunks' = [chunks EXCEPT ![local[r].id] =
                     [n \in 1..MaxChunks |->
                         IF ChunksOf(Item(r).content)[n] = NoChunk THEN @[n] ELSE Item(r).content]]
    /\ local' = [local EXCEPT ![r].put = Len(Chunked[Item(r).content])]
    /\ UNCHANGED <<provider, plan, pc, rows, inserted, objects, trace, faults>>

\* Whoever was alone at the document leaves it as it should be.
FinishIngest(r) ==
    /\ pc[r] = "put" /\ AllPut(r)
    /\ unclean' = IF local[r].alone THEN unclean \ {local[r].id} ELSE unclean
    /\ Done(r)
    /\ UNCHANGED <<provider, plan, store, objects, kept, faults>>

-----------------------------------------------------------------------------
(* deleteDocument, and the deletion of the object after it.                *)

FindById(r) ==
    /\ pc[r] = "lookup" /\ Exists(local[r].id)
    /\ TakeUp(r, local[r].id, rows[local[r].id])
    /\ GoTo(r, "unchunk")
    /\ UNCHANGED <<provider, plan, store, objects, kept, faults>>

NotFound(r) ==
    /\ pc[r] = "lookup" /\ ~Exists(local[r].id)
    /\ local' = [local EXCEPT ![r] = NoLocals]
    /\ GoTo(r, "rejected")
    /\ UNCHANGED <<provider, plan, store, objects, trace, faults>>

DeleteChunks(r) ==
    /\ pc[r] = "unchunk"
    /\ chunks' = Cleared(local[r].id)
    /\ GoTo(r, "unrow")
    /\ UNCHANGED <<provider, plan, local, rows, inserted, objects, trace, faults>>

\* ON DELETE CASCADE of knowledge_chunks; the vectors of Chroma stay.
DeleteRow(r) ==
    /\ pc[r] = "unrow"
    /\ rows' = [rows EXCEPT ![local[r].id] = NoRow]
    /\ chunks' = IF provider = "pgvector" THEN Cleared(local[r].id) ELSE chunks
    /\ unclean' = IF local[r].alone THEN unclean \ {local[r].id} ELSE unclean
    /\ GoTo(r, "unstore")
    /\ UNCHANGED <<provider, plan, local, inserted, objects, kept, faults>>

\* Mutant of ObjectPath: the path is not recognised in the URI.
NoPath(source) == {}
\* The object, if any, that a source URI names.
ObjectPath(source) == {source} \cap Requests

DeleteObject(r) ==
    /\ pc[r] = "unstore"
    /\ objects' = objects \ ObjectPath(local[r].read.source)
    /\ Ends(r)
    /\ UNCHANGED <<provider, plan, store, trace, faults>>

\* An error is swallowed.
DeleteObjectFails(r) ==
    /\ Fault
    /\ pc[r] = "unstore"
    /\ kept' = kept \cup ObjectPath(local[r].read.source)
    /\ Ends(r)
    /\ UNCHANGED <<provider, plan, store, objects, unclean>>

-----------------------------------------------------------------------------
(* Failures, and the next-state relation.                                  *)

\* A call fails.  The script ends at that file and tries no other.
HandlerThrows(r) ==
    /\ Fault
    /\ pc[r] \in Working \ {"unstore"}
    /\ Fails({r})
    /\ UNCHANGED <<provider, plan, store, objects, kept>>

\* The gateway dies with the uploads and deletions it is at.
GatewayCrash ==
    LET lost == {r \in Requests : plan[r].kind # "run" /\ pc[r] \in Working}
    IN  /\ Fault
        /\ lost # {}
        /\ Fails(lost)
        /\ kept' = kept \cup UNION {ObjectPath(local[r].read.source) :
                                       r \in {q \in lost : pc[q] = "unstore"}}
        /\ UNCHANGED <<provider, plan, store, objects>>

Arrive(r) ==
    \/ StartRun(r)
    \/ AcceptUpload(r)
    \/ RejectUpload(r)
    \/ \E d \in Ids : PickForDeletion(r, d)

Ingest(r) ==
    \/ SaveObject(r)
    \/ FindBySource(r)
    \/ UpdateRow(r)
    \/ InsertRow(r)
    \/ SaveFails(r)
    \/ EmbedBatch(r)
    \/ ClearChunks(r)
    \/ PutChunk(r)
    \/ PutChunks(r)
    \/ PutFails(r)
    \/ FinishIngest(r)

Delete(r) ==
    \/ FindById(r)
    \/ NotFound(r)
    \/ DeleteChunks(r)
    \/ DeleteRow(r)
    \/ DeleteObject(r)
    \/ DeleteObjectFails(r)

Next ==
    \/ \E r \in Requests : Arrive(r) \/ Ingest(r) \/ Delete(r) \/ HandlerThrows(r)
    \/ GatewayCrash

Spec == Init /\ [][Next]_vars

-----------------------------------------------------------------------------
(* Properties.                                                             *)

\* Every variable keeps its type; no more chunks are put than there are.
TypeOK ==
    LET row == {NoRow} \cup [source : Sources, version : Nat \ {0}, content : Contents]
    IN  /\ provider \in {"pgvector", "chroma"}
        /\ plan \in Plans
        /\ pc \in [Requests -> {"absent"} \cup Working \cup Ended]
        /\ \A r \in Requests :
              /\ local[r].id \in 0..inserted /\ local[r].read \in row
              /\ local[r].alone \in BOOLEAN
              /\ local[r].at \in 1..Len(plan[r].items) + 1
              /\ pc[r] = "put" => local[r].put \in 0..Len(Chunked[Item(r).content])
        /\ inserted \in 0..MaxRows
        /\ \A d \in Ids :
              /\ rows[d] \in row
              /\ \A n \in 1..MaxChunks : chunks[d][n] \in {NoChunk} \cup Contents
        /\ objects \subseteq Requests /\ kept \subseteq Requests
        /\ unclean \subseteq Ids
        /\ faults \in 0..MaxFaults

\* Nobody is at the document, and it has not been spoilt since it was last
\* ingested, or deleted, by a request that was alone with it.
Settled(d) == At(d) = {} /\ d \notin unclean

\* The chunks in the vector store are those of the content its row tells of, in
\* its last version and no other, and a document without a row has none, unless
\* requests overlapped at the document or one of them failed between its writes.
ChunksMatchRows ==
    \A d \in Ids :
        Settled(d) => chunks[d] = IF Exists(d) THEN ChunksOf(rows[d].content) ELSE NoChunks

\* Every uploaded file is in cloud storage as long as a document names it, and no
\* longer, whatever overlaps: one that no document names belongs to an upload that
\* is still to insert its row or that failed, or to a deletion that is still to
\* delete it, failed to, or died before.
ObjectsAccountedFor ==
    \A o \in Requests :
        /\ Find(o) # {} => o \in objects
        /\ o \in objects =>
              \/ Find(o) # {}
              \/ pc[o] \in {"find", "save", "failed"}
              \/ o \in kept
              \/ \E r \in Requests : pc[r] = "unstore" /\ local[r].read.source = o

\* The characters of a text that a search must be able to find.
Solid(content) == {i \in DOMAIN content : content[i] \notin White}
\* The characters of document d's content that query can return.
Found(d) ==
    UNION {Chunked[chunks[d][n]][n].chars : n \in {k \in 1..MaxChunks : chunks[d][k] # NoChunk}}

\* No chunk is longer than the limit, each one goes on in the text beyond the one
\* before it, and of a settled document every paragraph that is not oversized is
\* found in one piece.
ChunksCoverText ==
    \A d \in Ids : Settled(d) /\ Exists(d) =>
        LET c == rows[d].content
            list == Chunked[c]
            paragraphs == SplitParagraphs(c)
        IN  /\ \A n \in DOMAIN list : list[n].length <= MaxChunkChars
            /\ \A n \in DOMAIN list \ {1} : Min(list[n - 1].chars) < Min(list[n].chars)
            /\ \A k \in DOMAIN paragraphs : ~Oversized(paragraphs[k]) =>
                  \E n \in DOMAIN list :
                      /\ chunks[d][n] = c
                      /\ paragraphs[k].from..paragraphs[k].to \subseteq list[n].chars

\* What the tests of chunking.ts say, "must not silently drop content": every
\* character of a settled document is found in one of its chunks.
NothingLost ==
    \A d \in Ids : Settled(d) /\ Exists(d) => Solid(rows[d].content) \subseteq Found(d)
=============================================================================
