------------------------ MODULE MCIndexingPipeline ------------------------
(* Instances of IndexingPipeline for TLC. *)
EXTENDS IndexingPipeline, TLC

CONSTANTS u1, p1, r1

OneUser == {u1}
OneProject == {p1}

Symmetry == Permutations(Requests)

NoFaults == {}

\* Errors without effect; compensations get through.
ServiceRefusals == {"db", "storage", "jobsChunking", "jobsCancel"}
                       \X {"refused"}

CommitFaults == {"commit"} \X {"refused", "lostReply"}

\* Requests are interchangeable, and without an upload nothing happens: the first
\* one uploads, perhaps a file that is blank or broken, and the other a text.
FirstUploadInit ==
    /\ PipelineInit /\ req[r1].op = "upload"
    /\ \A r \in Requests \ {r1} : req[r].op = "upload" => req[r].file
    /\ \A r \in Requests : content[r] # "text" => r = r1 /\ req[r].file
FirstUploads == FirstUploadInit /\ [][PipelineNext]_pipelineVars /\ Fairness
=============================================================================
