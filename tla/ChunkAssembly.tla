--------------------------- MODULE ChunkAssembly ---------------------------
(***************************************************************************)
(* _do_chunking of the knowledge service, from the sections of a document  *)
(* to its rows in the vector store: the sections are split into pieces,    *)
(* the pieces of all sections are embedded together in batches, and the    *)
(* embeddings are dealt out again, section by section.  A text is known by *)
(* its place in the document, and an embedding by the text it is of, so    *)
(* that a row shows whether the two belong together.                       *)
(***************************************************************************)
EXTENDS Integers, Sequences, FiniteSets

CONSTANTS
    Sources,    \* the ids of sources
    Documents,  \* the documents: per section, which of its pieces have text
    Owner,      \* the owner of a source, as its job names it
    IsFile,     \* whether a source is a file, with a path, or a web page
    BatchSize,  \* _BATCH_SIZE
    MaxSaves    \* bound on the documents that are saved

ASSUME SourcesAreIds == Sources \subseteq Nat \ {0}
ASSUME DocumentsAreSections == Documents \subseteq Seq(Seq(BOOLEAN))
ASSUME BatchesAreNotEmpty == BatchSize \in Nat \ {0} /\ MaxSaves \in Nat
ASSUME FilesAreMarked == IsFile \in [Sources -> BOOLEAN]

VARIABLES
    step,        \* where the job stands
    source,      \* the source of the job
    document,    \* its document
    index,       \* the variable of the loop that runs
    texts,       \* all_child_texts
    counts,      \* pair_child_counts
    embeddings,  \* all_embeddings
    offset,      \* offset
    rows,        \* the parents and children that are to be saved
    stored,      \* the rows of the vector store
    saved        \* the documents saved so far, whose number makes the ids of parents

assembly == <<step, source, document, index, texts, counts, embeddings, offset,
              rows, saved>>

Min2(a, b) == IF a < b THEN a ELSE b

\* The pieces of a section that have text; the whole section, as piece 0, if
\* there is none.
Children(section, pieces) ==
    LET Full == {k \in DOMAIN pieces : pieces[k]} IN
    IF Full = {}
    THEN <<[section |-> section, piece |-> 0]>>
    ELSE [n \in 1..Cardinality(Full) |->
             [section |-> section,
              piece |-> CHOOSE k \in Full : Cardinality({m \in Full : m < k}) = n - 1]]

Pair(i) == Children(i, document[i])

\* The second part of <owner>/<source>/<name> is read as the id of the project;
\* a web page has no path.
ProjectColumn(s) == IF IsFile[s] THEN s ELSE 0

AssemblyInit ==
    /\ step = "idle"
    /\ source \in Sources
    /\ document = << >>
    /\ index = 1
    /\ texts = << >>
    /\ counts = << >>
    /\ embeddings = << >>
    /\ offset = 0
    /\ rows = {}
    /\ stored = {}
    /\ saved = << >>

-----------------------------------------------------------------------------
\* A job arrives and its document is parsed; without sections there is nothing
\* to do.
Begin(s, d) ==
    /\ step = "idle" /\ Len(saved) < MaxSaves
    /\ d # << >>
    /\ step' = "collect"
    /\ source' = s /\ document' = d
    /\ UNCHANGED <<index, texts, counts, embeddings, offset, rows, stored, saved>>

\* The loop over the pairs that collects their texts.
Collect ==
    /\ step = "collect"
    /\ \/ /\ index <= Len(document)
          /\ texts' = texts \o Pair(index)
          /\ counts' = Append(counts, Len(Pair(index)))
          /\ index' = index + 1
          /\ UNCHANGED step
       \/ /\ index > Len(document)
          /\ step' = "embed" /\ index' = 1
          /\ UNCHANGED <<texts, counts>>
    /\ UNCHANGED <<source, document, embeddings, offset, rows, stored, saved>>

Batch == SubSeq(texts, index, Min2(index + BatchSize - 1, Len(texts)))

\* What the provider answers: an item for every text of the batch, with its
\* index, in any order.
Answers(batch) ==
    {[n \in DOMAIN batch |-> [index |-> p[n], embedding |-> batch[p[n]]]] :
        p \in {f \in [DOMAIN batch -> DOMAIN batch] :
                   \A k \in DOMAIN batch : \E n \in DOMAIN batch : f[n] = k}}

\* Mutant: the answer is taken as it comes.
AsAnswered(data) == [n \in DOMAIN data |-> data[n].embedding]

\* sorted(response.data, key=index)
ByIndex(data) ==
    [n \in DOMAIN data |->
        (CHOOSE item \in {data[m] : m \in DOMAIN data} : item.index = n).embedding]

\* embed_texts: one call to the provider for each batch.
Embed ==
    /\ step = "embed"
    /\ \/ /\ index <= Len(texts)
          /\ \E data \in Answers(Batch) : embeddings' = embeddings \o ByIndex(data)
          /\ index' = index + BatchSize
          /\ UNCHANGED step
       \/ /\ index > Len(texts)
          /\ step' = "split" /\ index' = 1
          /\ UNCHANGED embeddings
    /\ UNCHANGED <<source, document, texts, counts, offset, rows, stored, saved>>

\* The children of a parent with the embeddings from the offset on.  The id of
\* the parent is made by the save.
NewRows(i) ==
    {[source |-> source, project |-> ProjectColumn(source), owner |-> Owner[source],
      parent |-> <<Len(saved) + 1, i>>, text |-> Pair(i)[n],
      embedding |-> embeddings[offset + n]] : n \in 1..counts[i]}

\* The loop that deals the embeddings out.
Split ==
    /\ step = "split"
    /\ \/ /\ index <= Len(document)
          /\ rows' = rows \cup NewRows(index)
          /\ index' = index + 1
          /\ offset' = offset + counts[index]
          /\ UNCHANGED step
       \/ /\ index > Len(document)
          /\ step' = "save"
          /\ UNCHANGED <<rows, index, offset>>
    /\ UNCHANGED <<source, document, texts, counts, embeddings, stored, saved>>

\* The function ends, and its variables with it.
End ==
    /\ step' = "idle"
    /\ document' = << >> /\ index' = 1
    /\ texts' = << >> /\ counts' = << >> /\ embeddings' = << >>
    /\ offset' = 0 /\ rows' = {}
    /\ UNCHANGED source

\* Mutant: the sections are saved one by one, and may be cut short.
SaveEachSection ==
    /\ step = "save"
    /\ End
    /\ \E n \in 1..Len(document) : stored' = stored \cup {r \in rows : r.parent[2] <= n}
    /\ saved' = Append(saved, document)

\* save_source_chunks: one transaction.  If it is committed and the call raises all
\* the same, the rows are there and the job may be tried again, as another one.
Save ==
    /\ step = "save"
    /\ End
    /\ stored' = stored \cup rows
    /\ saved' = Append(saved, document)

\* A call to the provider or the database raises: nothing has been stored, and
\* the consumer may try the job again.
Raise ==
    /\ step \in {"embed", "save"}
    /\ End
    /\ UNCHANGED <<stored, saved>>

AssemblyStep ==
    \/ \E s \in Sources, d \in Documents : Begin(s, d)
    \/ Collect
    \/ Embed
    \/ Split
    \/ Save
    \/ Raise

-----------------------------------------------------------------------------
(***************************************************************************)
(* Properties.                                                             *)
(***************************************************************************)
\* Every row has the embedding of its own text, however the texts fall into
\* batches and in whatever order the provider answers.
EmbeddingIsOfItsText == \A r \in stored : r.embedding = r.text

\* A document is searched in full or not at all: as long as one of its rows is
\* there, every section has a row, and every piece with text has one under the
\* section it is a piece of.
WholeDocuments ==
    \A r \in stored :
        LET Of == {t \in stored : t.parent[1] = r.parent[1]}
            doc == saved[r.parent[1]] IN
        \A i \in DOMAIN doc :
            /\ \E t \in Of : t.parent[2] = i
            /\ \A k \in DOMAIN doc[i] :
                   doc[i][k] => \E t \in Of : t.parent[2] = i /\ t.text = [section |-> i, piece |-> k]
=============================================================================
