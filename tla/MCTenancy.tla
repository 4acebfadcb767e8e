----------------------------- MODULE MCTenancy -----------------------------
(* Instances of Tenancy for TLC. *)
EXTENDS Tenancy, TLC

CONSTANTS u1, u2, p1, p2

TwoUsers == {u1, u2}
TwoProjects == {p1, p2}

\* Users, projects and requests are interchangeable.
Symmetry == Permutations(Users) \cup Permutations(Projects)
                \cup Permutations(Requests)

\* Errors without effect of the access check and the databases, and jobs that
\* the broker loses; compensations get through.
RefusalsAndLosses == {"projects", "db"} \X {"refused"}
                         \cup {<<"jobsChunking", "dropped">>}

\* A file is uploaded: without that, little is left to read.
SomeFileInit ==
    TenancyInit /\ \E r \in Requests : req[r].op = "upload" /\ req[r].file
SomeFile == SomeFileInit /\ [][TenancyNext]_tenancyVars
=============================================================================
