-------------------------------- MODULE Retrieval --------------------------------
(***************************************************************************)
(* What a question takes from its attached documents: chunks ranked by     *)
(* embeddings, or by words where the server has none (chatUtils.ts and     *)
(* retrieveDocumentContext in chatSendHelpers.ts).  Characters are scaled. *)
(***************************************************************************)
EXTENDS Integers, SequencesExt

CONSTANTS
  DocumentLengths,  \* characters of a document
  Scores,           \* what a chunk scores; below 0: a number that is not finite
  Size,             \* characters of a chunk, 1800
  Frame, Mark,       \* of the frame around an excerpt; of "[document excerpt truncated]"
  MaxChars,         \* 12_000
  MaxSearched,      \* MAX_SEARCHABLE_DOCUMENT_CHUNKS
  Limit             \* citations of an answer

\* The excerpts that are cited fit together.
CitationsFit == Limit * (Size + Frame) <= MaxChars /\ Limit > 0 /\ Size > 0

VARIABLE retrieval
vars == <<retrieval>>

\* chunkDocument: [document, order, length]
ChunksOf(d, length) ==
  [k \in 1..(length + Size - 1) \div Size |->
     [doc |-> d, order |-> k, length |-> IF k * Size <= length THEN Size ELSE length - (k - 1) * Size]]

\* splitDocumentChunks
Split(docs) == FlattenSeq([d \in DOMAIN docs |-> ChunksOf(d, docs[d])])

Before(chunks, i, j) ==
  \/ chunks[i].order < chunks[j].order
  \/ chunks[i].order = chunks[j].order /\ i < j

\* rankVectorDocumentChunks, rankDocumentChunks: the numbers of the chunks, the
\* best first, then in the order of their documents.
Ranked(chunks, score) ==
  SortSeq(SelectSeq([i \in DOMAIN chunks |-> i], LAMBDA i : score[i] >= 0),
    LAMBDA i, j : \/ score[i] > score[j]
                  \/ /\ score[i] = score[j]
                     /\ Before(chunks, i, j))

Section(c) == Frame + c.length

\* Mutant: only one section is given.
VectorContext_StopsAtFirst(chunks, ranked) ==
  FoldLeft(LAMBDA acc, i :
             IF acc.used > 0 THEN acc
             ELSE [given |-> Append(acc.given, chunks[i]), used |-> acc.used + Section(chunks[i])],
           [given |-> <<>>, used |-> 0], ranked).given

\* buildVectorDocumentContext: a section that does not fit is left out, unless
\* it is the first.
VectorContext(chunks, ranked) ==
  FoldLeft(LAMBDA acc, i :
             IF acc.used >= MaxChars \/ (acc.used + Section(chunks[i]) > MaxChars /\ acc.given # <<>>) THEN acc
             ELSE [given |-> Append(acc.given, chunks[i]), used |-> acc.used + Section(chunks[i])],
           [given |-> <<>>, used |-> 0], ranked).given

\* vectorDocumentSources, vectorDocumentCitations
Cited(chunks, ranked) ==
  [k \in 1..(IF Len(ranked) < Limit THEN Len(ranked) ELSE Limit) |-> chunks[ranked[k]]]

\* Mutant: a chunk of a longer document is not marked as cut.
Excerpt_MarksCuts(acc, c, whole) ==
  LET room == MaxChars - acc.used - Frame
      text == IF c.length < room THEN c.length ELSE room
      cut  == text < c.length
  IN  IF acc.full \/ room <= 0 THEN [acc EXCEPT !.full = TRUE]
      ELSE [given |-> Append(acc.given, [doc |-> c.doc, order |-> c.order, length |-> text, cut |-> cut]),
            used |-> acc.used + Frame + text + (IF cut THEN Mark ELSE 0), full |-> FALSE]

\* buildDocumentContext: the loop's body; "whole" is the length of the document.
Excerpt(acc, c, whole) ==
  LET room == MaxChars - acc.used - Frame
      text == IF c.length < room THEN c.length ELSE room
      cut  == text < c.length \/ whole > c.length
  IN  IF acc.full \/ room <= 0 THEN [acc EXCEPT !.full = TRUE]
      ELSE [given |-> Append(acc.given, [doc |-> c.doc, order |-> c.order, length |-> text, cut |-> cut]),
            used |-> acc.used + Frame + text + (IF cut THEN Mark ELSE 0), full |-> FALSE]

\* A document that fits is given whole, another one by its ranked chunks.
LexicalContext(docs, score) ==
  LET chunks == Split(docs)
      of(d)  == IF docs[d] <= MaxChars THEN <<[doc |-> d, order |-> 1, length |-> docs[d]]>>
                ELSE LET mine == SelectSeq(Ranked(chunks, score), LAMBDA i : chunks[i].doc = d)
                     IN  [k \in DOMAIN mine |-> chunks[mine[k]]]
  IN  FoldLeft(LAMBDA acc, c : Excerpt(acc, c, docs[c.doc]),
               [given |-> <<>>, used |-> 0, full |-> FALSE],
               FlattenSeq([d \in DOMAIN docs |-> of(d)]))

NoContext == [by |-> "none", given |-> <<>>, used |-> 0, cited |-> <<>>, warned |-> FALSE]

\* Every document is cited, from its beginning.
Lexical(docs, score) ==
  LET context == LexicalContext(docs, score)
  IN  [NoContext EXCEPT !.by = "words", !.given = context.given, !.used = context.used,
                        !.cited = [d \in DOMAIN docs |-> [doc |-> d, order |-> 1, length |-> docs[d]]]]

Init ==
  \E n \in 1..2 : \E docs \in [1..n -> DocumentLengths] :
    retrieval = [docs |-> docs, asked |-> FALSE, context |-> NoContext]

\* embedText refuses a list of vectors that is not one finite vector for each
\* text; any failure leaves the words' ranking.
EmbeddingsFail ==
  \E asked \in BOOLEAN, score \in [DOMAIN Split(retrieval.docs) -> Scores \ {-1}] :
    /\ retrieval.context = NoContext
    /\ retrieval' = [retrieval EXCEPT
         !.asked = asked,     \* a question without a text is not ranked by vectors
         !.context = [Lexical(retrieval.docs, score) EXCEPT !.warned = asked /\ Len(score) > MaxSearched]]

\* retrieveDocumentContext, with vectors from the cache or from the server. A
\* ranking without a finite score has no context and leaves the words' one.
Embedded ==
  LET all    == Split(retrieval.docs)
      chunks == SubSeq(all, 1, IF Len(all) < MaxSearched THEN Len(all) ELSE MaxSearched)
  IN  \E score \in [DOMAIN chunks -> Scores] :
        LET ranked  == Ranked(chunks, score)
            words   == Lexical(retrieval.docs, [i \in DOMAIN all |-> 0])
            given   == VectorContext(chunks, ranked)
            vectors == [words EXCEPT !.by = "vectors", !.given = given,
                                     !.used = FoldLeft(LAMBDA sum, c : sum + Section(c), 0, given)]
        IN  /\ retrieval.context = NoContext
            /\ retrieval' = [retrieval EXCEPT !.asked = TRUE,
                 !.context = [(IF ranked = <<>> THEN words ELSE vectors) EXCEPT
                                !.cited = Cited(chunks, ranked),
                                !.warned = Len(all) > MaxSearched]]

Next == EmbeddingsFail \/ Embedded

Spec == Init /\ [][Next]_vars

-----------------------------------------------------------------------------
TypeOK ==
  /\ CitationsFit /\ retrieval.context.by \in {"none", "words", "vectors"}
  /\ Len(retrieval.context.given) <= Len(Split(retrieval.docs)) /\ retrieval.context.used \in Nat

\* By vectors: each passage that is cited is in the context of the question, whole and
\* once, and the context takes no more than its share: a chunk that does not fit costs
\* no later, shorter one that does.  (A question too long for the window is cut with its
\* context when it is sent, which changes no citation.)
CitedIsGiven ==
  retrieval.context.by = "vectors" =>
    /\ Range(retrieval.context.cited) \subseteq Range(retrieval.context.given)
    /\ retrieval.context.used <= MaxChars
    /\ \A i, j \in DOMAIN retrieval.context.given :
         retrieval.context.given[i] = retrieval.context.given[j] => i = j

\* By words: the context exceeds its share by the mark of one cut at most, and a
\* document that stands in it without a mark stands there completely.  Every document
\* is cited then, in the context or not, but for the first, of which there is something;
\* unless there were vectors of which none had a score, when nothing is cited.
CutsAreMarked ==
  LET context == retrieval.context
      parts(d) == {i \in DOMAIN context.given : context.given[i].doc = d}
  IN  context.by = "words" =>
        /\ context.used <= MaxChars + Mark
        /\ context.cited # <<>> => parts(1) # {} /\ \A d \in DOMAIN retrieval.docs : context.cited[d].doc = d
        /\ \A d \in DOMAIN retrieval.docs :
             parts(d) # {} /\ (\A i \in parts(d) : ~context.given[i].cut) =>
               \E i \in parts(d) : parts(d) = {i} /\ context.given[i].length = retrieval.docs[d]
================================================================================
