-------------------------- MODULE MCSourceService --------------------------
(* Instances of SourceService for TLC. *)
EXTENDS SourceService, TLC

CONSTANTS u1, p1

OneUser == {u1}
OneProject == {p1}

\* Requests are interchangeable: a state treats them alike.
Symmetry == Permutations(Requests)

\* Every error, with and without effect; but a step of a request that fails in
\* the database has had none there.
AllErrors ==
    Dependencies \X {"refused"} \cup (Dependencies \ {"db"}) \X {"lostReply"}

\* The errors that are no excuse for a second job, a job that is not cancelled or
\* a file that is left behind.
RaceFaults ==
    {"projects", "storage", "jobsChunking"} \X {"refused"}
        \cup {<<"jobsChunking", "dropped">>}
=============================================================================
