---------------------------- MODULE MCRetrieval ----------------------------
EXTENDS Retrieval, TLC

\* Source 1 is a file of ann in project 2, source 2 a web page of bob in project 1.
const_Owner == 1 :> "ann" @@ 2 :> "bob"
const_IsFile == 1 :> TRUE @@ 2 :> FALSE
const_ProjectOf == 1 :> 2 @@ 2 :> 1

\* A section with nothing but a blank piece, then one of two pieces around a blank
\* one: three rows, of which the first batch of two takes one from each section.
\* And a document of one row.
const_Documents == {<< <<FALSE>>, <<TRUE, FALSE, TRUE>> >>, << <<TRUE>> >>}
=============================================================================
