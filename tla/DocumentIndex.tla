----------------------------- MODULE DocumentIndex -----------------------------
(***************************************************************************)
(* The cache of document embeddings (documentIndex.ts) and the retrieval   *)
(* that fills it (chatSendHelpers.ts): records in IndexedDB, or in         *)
(* localStorage where IndexedDB is missing or fails, changed by one queue  *)
(* of mutations and read beside it.                                        *)
(*                                                                         *)
(* A text is a version of the file at its path, a chunk's place in it an   *)
(* offset, a model the embedding model together with the server (the       *)
(* namespace).  A vector is what it was computed from.                     *)
(***************************************************************************)
EXTENDS Naturals, Sequences, FiniteSets, SequencesExt

CONSTANTS
  Paths, Models, Texts,
  Offsets,     \* chunks of a document
  MAX_RECORDS, \* records the index keeps
  MaxSearched, \* MAX_SEARCHABLE_DOCUMENT_CHUNKS
  MaxQueue,    \* bound: mutations waiting
  MaxClock     \* bound: records written

VARIABLES
  database,  \* whether there is an IndexedDB
  indexed, local, \* the records, by model and path
  queue,     \* indexMutationQueue
  found,     \* what the mutation under way has read
  asking,    \* the retrieval that waits for embeddings
  clock,     \* Date.now()
  failed,    \* a storage call has failed
  wanted     \* whether each path was last saved or removed since the last clear

vars == <<database, indexed, local, queue, found, asking, clock, failed, wanted>>

Keys == Models \X Paths
Vectors == Models \X (Paths \X Texts \X Offsets)
NoRecord == [text |-> 0, vectors |-> <<>>, at |-> 0]
Records == [text : Texts \cup {0}, vectors : UNION {[os -> Vectors] : os \in SUBSET Offsets},
            at : 0 .. MaxClock]
NoRecords == [k \in Keys |-> NoRecord]
Stored(rs) == {k \in Keys : rs[k] # NoRecord}

NoTask == [kind |-> "none", model |-> "none", docs |-> <<>>]
Versioned == Paths \X Texts
Documents ==
  {<<d>> : d \in Versioned} \cup
  {ds \in {<<d, e>> : d \in Versioned, e \in Versioned} : ds[1][1] # ds[2][1]}

\* splitDocumentChunks, cut to what is searched: <<path, text, offset>>.
Chunks(docs) ==
  LET all == FlattenSeq([i \in DOMAIN docs |->
               [o \in 1 .. Cardinality(Offsets) |-> <<docs[i][1], docs[i][2], o>>]])
  IN  SubSeq(all, 1, IF Len(all) < MaxSearched THEN Len(all) ELSE MaxSearched)

\* embedText: the vectors of the chunks, in their order.
Embeddings(m, chunks) == [i \in DOMAIN chunks |-> <<m, chunks[i]>>]

\* Mutant: the text of the chunk is not compared.
Matches_AnyText(r, chunk) == r # NoRecord /\ chunk[3] \in DOMAIN r.vectors

\* mergeCachedVectors: every chunk's, or nothing.
Matches(r, chunk) == r # NoRecord /\ r.text = chunk[2] /\ chunk[3] \in DOMAIN r.vectors
Cached(m, chunks, rs) ==
  IF chunks # <<>> /\ \A i \in DOMAIN chunks : Matches(rs[<<m, chunks[i][1]>>], chunks[i])
  THEN [i \in DOMAIN chunks |-> rs[<<m, chunks[i][1]>>].vectors[chunks[i][3]]]
  ELSE <<>>

\* Mutant: a document's vectors are counted from the first of the list.
VectorsOf_FromFirst(chunks, vectors, mine) ==
  [o \in {chunks[i][3] : i \in mine} |-> vectors[o]]

\* The vectors of one document's chunks among those of the list.
VectorsOf(chunks, vectors, mine) ==
  [o \in {chunks[i][3] : i \in mine} |-> vectors[CHOOSE i \in mine : chunks[i][3] = o]]

\* indexRecordsForChunks: one record for each document.
Indexed(m, docs) ==
  LET chunks == Chunks(docs) IN
  [k \in Keys |->
     LET mine == {i \in DOMAIN chunks : k = <<m, chunks[i][1]>>} IN
     IF mine = {} THEN NoRecord
     ELSE [text |-> chunks[CHOOSE i \in mine : TRUE][2],
           vectors |-> VectorsOf(chunks, Embeddings(m, chunks), mine), at |-> clock + 1]]

\* boundedIndexRecords: the newest stay; records of one time may go in any order.
Bounded(rs) ==
  LET all == Stored(rs)
      newest ==
        {S \in SUBSET all :
           /\ Cardinality(S) = IF Cardinality(all) < MAX_RECORDS THEN Cardinality(all) ELSE MAX_RECORDS
           /\ \A k \in S, l \in all \ S : rs[k].at >= rs[l].at}
  IN  {[k \in Keys |-> IF k \in S THEN rs[k] ELSE NoRecord] : S \in newest}

\* What a mutation makes of the records it has read.
Changed(task, rs) ==
  CASE task.kind = "save" ->
         LET new == Indexed(task.model, task.docs) IN
         [k \in Keys |-> IF new[k] # NoRecord THEN new[k] ELSE rs[k]]
    [] task.kind = "remove" ->
         [k \in Keys |-> IF \E i \in DOMAIN task.docs : k[2] = task.docs[i][1] THEN NoRecord ELSE rs[k]]

\* writeLocalRecords takes the records for the complete set; a full localStorage
\* ends it early.
WriteLocal(rs) ==
  \E b \in Bounded(rs) :
    \/ local' = b /\ UNCHANGED failed
    \/ /\ \E some \in SUBSET Stored(b) :
            local' = [k \in Keys |-> IF k \in some THEN b[k]
                                     ELSE IF k \in Stored(b) THEN local[k] ELSE NoRecord]
       /\ failed' = TRUE

\* Mutant: the oldest records are not dropped.
WriteIndexed_NoLimit(rs) ==
  indexed' = [k \in Keys |-> IF rs[k] # NoRecord THEN rs[k] ELSE indexed[k]]

\* writeIndexedRecords puts the records that stay and deletes those over the
\* bound; it does not know of any other.
WriteIndexed(rs) ==
  \E b \in Bounded(rs) :
    indexed' = [k \in Keys |-> IF k \in Stored(b) THEN b[k]
                               ELSE IF k \in Stored(rs) THEN NoRecord ELSE indexed[k]]

TypeOK ==
  /\ database \in BOOLEAN /\ failed \in BOOLEAN /\ clock \in 0 .. MaxClock
  /\ {indexed, local} \subseteq [Keys -> Records]
  /\ Len(queue) <= MaxQueue /\ found.read \in BOOLEAN
  /\ wanted \in [Paths -> {"never", "saved", "removed"}]

Init ==
  /\ database \in BOOLEAN /\ indexed = NoRecords /\ local = NoRecords /\ queue = <<>>
  /\ found = [read |-> FALSE, rs |-> NoRecords] /\ asking = NoTask
  /\ clock = 0 /\ failed = FALSE /\ wanted = [p \in Paths |-> "never"]

-----------------------------------------------------------------------------
\* retrieveDocumentContext: where the cache does not have all vectors, embedText
\* is asked; it answers or fails, and a save of the new vectors is queued.
Retrieves ==
  /\ asking = NoTask
  /\ \E m \in Models, docs \in Documents, fails \in BOOLEAN :
       LET rs == IF database /\ ~fails THEN indexed ELSE local
           task == [kind |-> "save", model |-> m, docs |-> docs]
           cached == Cached(m, Chunks(docs), rs)
       IN  /\ database \/ ~fails
           /\ failed' = (failed \/ fails)
           /\ cached = <<>> /\ asking' = task
  /\ UNCHANGED <<database, indexed, local, queue, found, clock, wanted>>

Embedded ==
  /\ asking # NoTask /\ asking' = NoTask
  /\ \/ UNCHANGED <<queue, wanted>>
     \/ /\ Len(queue) < MaxQueue /\ queue' = Append(queue, asking)
        /\ wanted' = [p \in Paths |->
                        IF \E i \in DOMAIN asking.docs : p = asking.docs[i][1] THEN "saved" ELSE wanted[p]]
  /\ UNCHANGED <<database, indexed, local, found, clock, failed>>

\* performDeleteThread drops the vectors of documents no conversation has left.
Removes ==
  /\ Len(queue) < MaxQueue
  /\ \E p \in Paths :
       /\ queue' = Append(queue, [NoTask EXCEPT !.kind = "remove", !.docs = <<<<p, 1>>>>])
       /\ wanted' = [wanted EXCEPT ![p] = IF @ = "saved" THEN "removed" ELSE @]
  /\ UNCHANGED <<database, indexed, local, found, asking, clock, failed>>

Clears ==
  /\ Len(queue) < MaxQueue /\ queue' = Append(queue, [NoTask EXCEPT !.kind = "clear"])
  /\ wanted' = [p \in Paths |-> "never"]
  /\ UNCHANGED <<database, indexed, local, found, asking, clock, failed>>

\* A mutation reads IndexedDB and writes it later, or does both with localStorage
\* if there is no IndexedDB or it fails.
Reads ==
  /\ queue # <<>> /\ Head(queue).kind # "clear" /\ ~found.read /\ database
  /\ found' = [read |-> TRUE, rs |-> indexed]
  /\ UNCHANGED <<database, indexed, local, queue, asking, clock, failed, wanted>>

Finish(task) ==
  /\ queue' = Tail(queue) /\ found' = [read |-> FALSE, rs |-> NoRecords]
  /\ clock < MaxClock /\ clock' = IF task.kind = "save" THEN clock + 1 ELSE clock
  /\ UNCHANGED <<database, asking, wanted>>

Writes ==
  /\ found.read
  /\ WriteIndexed(Changed(Head(queue), found.rs)) /\ UNCHANGED <<local, failed>>
  /\ Finish(Head(queue))

FallsBack ==
  /\ queue # <<>> /\ Head(queue).kind # "clear" /\ (~database \/ found.read)
  /\ IF database
     THEN failed' = TRUE /\ \E b \in Bounded(Changed(Head(queue), local)) : local' = b
     ELSE WriteLocal(Changed(Head(queue), local))
  /\ UNCHANGED indexed /\ Finish(Head(queue))

ClearsAll ==
  /\ queue # <<>> /\ Head(queue).kind = "clear"
  /\ local' = NoRecords
  /\ \/ indexed' = NoRecords /\ UNCHANGED failed
     \/ database /\ UNCHANGED indexed /\ failed' = TRUE
  /\ Finish(Head(queue))

Next == Retrieves \/ Embedded \/ Removes \/ Clears \/ Reads \/ Writes \/ FallsBack \/ ClearsAll

Spec == Init /\ [][Next]_vars

-----------------------------------------------------------------------------
\* Vectors a retrieval takes from the cache are those the model gives the chunks now asked about,
\* never those of another chunk or document they were embedded with, of an earlier
\* text of the file or of another model, whatever was saved, dropped or half read before.
VectorsFit ==
  \A rs \in {indexed, local} \ {NoRecords}, m \in Models, docs \in Documents :
    LET chunks == Chunks(docs)
        cached == Cached(m, chunks, rs)
    IN  cached # <<>> => cached = Embeddings(m, chunks)

\* The index never has more records than it is bound to.  Once the queue is empty, and
\* if no storage call has failed, localStorage has records only of documents that were
\* saved and not removed since.  IndexedDB keeps those of removed documents, too,
\* for writeIndexedRecords is not told which ones to delete (against the comment at
\* removeDocumentVectorsForPaths); there only a clear is sure to take them away.
IndexBounded ==
  /\ \A rs \in {indexed, local} : Cardinality(Stored(rs)) <= MAX_RECORDS
  /\ ~failed /\ queue = <<>> =>
       /\ \A k \in Stored(local) : wanted[k[2]] = "saved"
       /\ \A k \in Stored(indexed) : wanted[k[2]] # "never"

===============================================================================
