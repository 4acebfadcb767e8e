-------------------------- MODULE SourceLifecycle --------------------------
(***************************************************************************)
(* What the sources service promises about each source, whatever its       *)
(* requests are doing: a source is uploaded once, is handed to indexing    *)
(* only after its upload is complete, is pending only under a job that was *)
(* really submitted for it, and never comes back once it is gone.          *)
(***************************************************************************)
EXTENDS FiniteSets

CONSTANTS Sources, Jobs, NoJob

VARIABLES
    life,       \* the stage of each source
    job,        \* the job_id shown for each source
    submitted   \* the jobs handed to indexing, each with its source

vars == <<life, job, submitted>>

Stages == {"unborn", "uploading", "uploaded", "pending", "gone"}

Init ==
    /\ life = [s \in Sources |-> "unborn"]
    /\ job = [s \in Sources |-> NoJob]
    /\ submitted = {}

\* The upload of s starts.
Begin(s) ==
    /\ life[s] = "unborn"
    /\ life' = [life EXCEPT ![s] = "uploading"]
    /\ UNCHANGED <<job, submitted>>

\* The upload of s is complete.
Finish(s) ==
    /\ life[s] = "uploading"
    /\ life' = [life EXCEPT ![s] = "uploaded"]
    /\ UNCHANGED <<job, submitted>>

\* A new job is handed to indexing.  The source may be gone by then.
Submit(s, j) ==
    /\ life[s] \in {"uploaded", "pending", "gone"}
    /\ \A e \in submitted : e.job # j
    /\ submitted' = submitted \cup {[job |-> j, source |-> s]}
    /\ UNCHANGED <<life, job>>

\* The source shows a job that was submitted for it.
Queue(s, j) ==
    /\ life[s] \in {"uploaded", "pending"}
    /\ [job |-> j, source |-> s] \in submitted
    /\ life' = [life EXCEPT ![s] = "pending"]
    /\ job' = [job EXCEPT ![s] = j]
    /\ UNCHANGED submitted

\* The source is deleted, or its upload is undone.
Vanish(s) ==
    /\ life[s] \in {"uploading", "uploaded", "pending"}
    /\ life' = [life EXCEPT ![s] = "gone"]
    /\ job' = [job EXCEPT ![s] = NoJob]
    /\ UNCHANGED submitted

\* Sources that will never be uploaded: their requests were turned down, or
\* died together.
Abandon(S) ==
    /\ S # {}
    /\ \A s \in S : life[s] = "unborn"
    /\ life' = [s \in Sources |-> IF s \in S THEN "gone" ELSE life[s]]
    /\ UNCHANGED <<job, submitted>>

Next ==
    \/ \E s \in Sources : Begin(s) \/ Finish(s) \/ Vanish(s)
    \/ \E s \in Sources, j \in Jobs : Submit(s, j) \/ Queue(s, j)
    \/ \E S \in SUBSET Sources : Abandon(S)

Spec == Init /\ [][Next]_vars
=============================================================================
