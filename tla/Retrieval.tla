----------------------------- MODULE Retrieval -----------------------------
(***************************************************************************)
(* The questions that the knowledge service answers from its vector store, *)
(* while documents are assembled and sources are deleted: Search, Generate *)
(* and GenerateStream of RAGServicer.  A call changes nothing that another *)
(* call reads, so that one call stands for all of them.  Its caller is the *)
(* sub of a verified token (TokenVerifier).                                *)
(***************************************************************************)
EXTENDS ChunkAssembly

CONSTANTS
    Callers,      \* the users that ask
    Projects,     \* the ids of projects
    ProjectOf,    \* the project of a source, in the sources service
    AnnK,         \* ann_top_k of RetrievalService
    TopKs,        \* the values of top_k in requests; 0 where there is none
    DefaultTopK,  \* the default of the handler Search
    RerankK,      \* rerank_top_k of RetrievalService
    MaxScore,     \* the scores of a search are 0..MaxScore
    MaxPieces     \* bound on the pieces of a streamed answer

ASSUME LimitsArePositive ==
    /\ AnnK \in Nat \ {0} /\ RerankK \in Nat \ {0} /\ DefaultTopK \in Nat \ {0}
    /\ TopKs \subseteq Int /\ MaxScore \in Nat /\ MaxPieces \in Nat

VARIABLES
    phase,     \* where the call stands
    caller,    \* owner_id, from the token
    request,   \* [op, project, owner, topK]: what the body says
    found,     \* the rows that the search returned, best score first
    contexts,  \* the parents that the answer is made from, best first
    model,     \* the model that writes the answer: [state, said]
    sent       \* what the client has been sent: "contexts", "answer", "text", "done"

call == <<phase, caller, request, found, contexts, model, sent>>
vars == <<assembly, stored, call>>

\* Only Search has a top_k.
Requests ==
    [op : {"Search"}, project : Projects, owner : Callers, topK : TopKs]
        \cup [op : {"Generate", "GenerateStream"}, project : Projects,
              owner : Callers, topK : {0}]

Silent == [state |-> "silent", said |-> 0]

\* The model comes to the end of what it has to say, or is cut off at max_tokens;
\* nobody reads which of the two it was.
Ends == {"finished", "cut"}

Init ==
    /\ AssemblyInit
    /\ phase = "over"
    /\ caller \in Callers
    /\ request \in Requests
    /\ found = << >> /\ contexts = << >>
    /\ model = Silent
    /\ sent = << >>

-----------------------------------------------------------------------------
\* delete_by_source, by the consumer between two jobs: the children go with
\* their parents.
Delete(s) ==
    /\ step = "idle"
    /\ stored' = {r \in stored : ~(r.source = s /\ r.owner = Owner[s])}
    /\ UNCHANGED <<assembly, call>>

-----------------------------------------------------------------------------
\* A call begins; its query is embedded.
Ask(u, r) ==
    /\ phase = "over"
    /\ phase' = "search" /\ caller' = u /\ request' = r
    /\ found' = << >> /\ contexts' = << >> /\ model' = Silent /\ sent' = << >>
    /\ UNCHANGED <<assembly, stored>>

\* Mutant: the owner is that of the body.
ScopeOfRequest == {r \in stored : r.owner = request.owner /\ r.project = request.project}

\* The rows of the caller in the project of the body.
Scope == {r \in stored : r.owner = caller /\ r.project = request.project}

\* At most AnnK rows of the scope in the order of their scores.  The index is
\* approximate, so that any of them may be missing.
Ranked(S) ==
    UNION {{f \in [1..n -> [row : S, score : 0..MaxScore]] :
                /\ \A i, j \in 1..n : i # j => f[i].row # f[j].row
                /\ \A i, j \in 1..n : i < j => f[i].score >= f[j].score} :
           n \in 0..Min2(AnnK, Cardinality(S))}

\* Without rows no model is asked: the answer is empty, or a fixed text.
Nothing ==
    /\ phase' = "over"
    /\ sent' = CASE request.op = "Search" -> <<"contexts">>
                 [] request.op = "Generate" -> <<"answer">>
                 [] OTHER -> <<"text", "done">>

Search ==
    /\ phase = "search"
    /\ found' \in Ranked(Scope)
    /\ \/ found' = << >> /\ Nothing
       \/ found' # << >> /\ phase' = "rerank" /\ UNCHANGED sent
    /\ UNCHANGED <<assembly, stored, caller, request, contexts, model>>

\* Mutant: the last row of a parent replaces the others.
UniqueLast ==
    {i \in DOMAIN found :
        \A j \in DOMAIN found : found[j].row.parent = found[i].row.parent => j <= i}

\* The row that parent_map ends up with for each parent: the first of those
\* with the best score.
Unique ==
    {i \in DOMAIN found :
        \A j \in DOMAIN found :
            found[j].row.parent = found[i].row.parent
                => \/ found[j].score < found[i].score
                   \/ found[j].score = found[i].score /\ i <= j}

Limit ==
    IF request.op # "Search" THEN RerankK
    ELSE IF request.topK > 0 THEN request.topK ELSE DefaultTopK

\* The cross-encoder orders the parents as it likes; the first ones are kept.
Rerank ==
    /\ phase = "rerank"
    /\ \E order \in [1..Min2(Limit, Cardinality(Unique)) -> Unique] :
           /\ \A m, n \in DOMAIN order : order[m] = order[n] => m = n
           /\ contexts' = [n \in DOMAIN order |-> found[order[n]]]
    /\ IF request.op = "Search"
       THEN phase' = "over" /\ sent' = <<"contexts">>
       ELSE phase' = "model" /\ UNCHANGED sent
    /\ UNCHANGED <<assembly, stored, caller, request, found, model>>

\* The model answers Generate in one piece.
Complete ==
    /\ phase = "model" /\ request.op = "Generate"
    /\ phase' = "over" /\ sent' = <<"answer">>
    /\ \E end \in Ends : model' = [state |-> end, said |-> 1]
    /\ UNCHANGED <<assembly, stored, caller, request, found, contexts>>

OpenStream ==
    /\ phase = "model" /\ request.op = "GenerateStream"
    /\ phase' = "stream"
    /\ model' = [state |-> "speaking", said |-> 0]
    /\ UNCHANGED <<assembly, stored, caller, request, found, contexts, sent>>

\* A piece of the answer goes to the client as it comes; one without text is
\* left out.
Piece ==
    /\ phase = "stream" /\ model.said < MaxPieces
    /\ model' = [model EXCEPT !.said = @ + 1]
    /\ sent' = Append(sent, "text")
    /\ UNCHANGED <<assembly, stored, phase, caller, request, found, contexts>>

\* The model's stream is over, whole or cut: the client is told the same.
EndStream ==
    /\ phase = "stream"
    /\ \E end \in Ends : model' = [model EXCEPT !.state = end]
    /\ sent' = Append(sent, "done")
    /\ phase' = "over"
    /\ UNCHANGED <<assembly, stored, caller, request, found, contexts>>

\* Mutant: the end is sent in a finally.
BreakAndFinish ==
    /\ phase \in {"search", "rerank", "model", "stream"}
    /\ phase' = "over"
    /\ model' = [model EXCEPT !.state = "broken"]
    /\ sent' = IF phase = "stream" THEN Append(sent, "done") ELSE sent
    /\ UNCHANGED <<assembly, stored, caller, request, found, contexts>>

\* The embedder, the database, the reranker or the model raises, or the client
\* goes away: the call ends with an error and sends nothing more.
Break ==
    /\ phase \in {"search", "rerank", "model", "stream"}
    /\ phase' = "over"
    /\ model' = [model EXCEPT !.state = "broken"]
    /\ UNCHANGED <<assembly, stored, caller, request, found, contexts, sent>>

CallStep ==
    \/ \E u \in Callers, r \in Requests : Ask(u, r)
    \/ Search
    \/ Rerank
    \/ Complete
    \/ OpenStream
    \/ Piece
    \/ EndStream
    \/ Break

Next ==
    \/ AssemblyStep /\ UNCHANGED call
    \/ \E s \in Sources : Delete(s)
    \/ CallStep

Spec == Init /\ [][Next]_vars

-----------------------------------------------------------------------------
(***************************************************************************)
(* Properties.                                                             *)
(***************************************************************************)
\* Whatever a caller writes into the body of a request, an answer is only made
\* from sources of the caller, by way of the job, the rows and the search.
AnswerIsOwn == \A n \in DOMAIN contexts : Owner[contexts[n].row.source] = caller

\* An answer has a parent once, with the best score of the rows that were found
\* of it, and it has as many parents as were found, up to the limit.
BestOfEachParent ==
    LET Parents == {found[n].row.parent : n \in DOMAIN found} IN
    /\ \A m, n \in DOMAIN contexts :
           contexts[m].row.parent = contexts[n].row.parent => m = n
    /\ \A m \in DOMAIN contexts : \A n \in DOMAIN found :
           found[n].row.parent = contexts[m].row.parent => found[n].score <= contexts[m].score
    /\ contexts # << >> => Len(contexts) = Min2(Limit, Cardinality(Parents))

\* A stream that says it is done has passed on every piece that the model said, and
\* nothing follows: a client can tell it from one that broke half way.  It cannot
\* tell a whole answer from one that the model was made to stop at max_tokens.
DoneEndsTheStream ==
    \A n \in DOMAIN sent :
        sent[n] = "done" =>
            /\ n = Len(sent)
            /\ \/ found = << >> /\ n = 2
               \/ model.state \in Ends /\ n = model.said + 1

\* What is answered from belongs to the project that was asked for.
AnsweredInProject ==
    \A n \in DOMAIN contexts : ProjectOf[contexts[n].row.source] = request.project
=============================================================================
