------------------------------ MODULE MCLearning ------------------------------
(* Small instances of Learning. *)
EXTENDS Learning, TLC

CONSTANTS a, b

\* b is added, removed, or takes a's place.
ABSyllabi == {<<a>>, <<a, b>>, <<b>>}
OneSyllabus == {<<a>>}

\* Restarts of one course amid its progress, or enrollments in two courses.
Second == Courses \ {CHOOSE c \in Courses : TRUE}
SecondUsed == \E c \in Second : enrollment[c].enrolled \/ \E p \in Procs : job[p].course = c
ProgressOrSecondCourse ==
    SecondUsed =>
        /\ \A c \in Courses : enrollment[c].revision = 0
        /\ \A c \in Courses : enrollment[c].generation <= 1
        /\ \A c \in Second : enrollment[c].generation = 0
        /\ \A p \in Procs : pc[p] \notin {"complete", "clear", "read"}

\* The learner enrolls on their own; a restart comes early, with the commands of
\* the generation it ends, so that the revisions of the two cross.
EarlyRestart ==
    \A c \in Courses :
        /\ ~enrollment[c].assigned
        /\ enrollment[c].generation > 0 =>
              /\ enrollment[c].revision <= 1 /\ course[c].version = 1
              /\ \A s \in snapshots : s.revision <= 1

Symmetry == Permutations(Procs) \cup Permutations(RequestIds)
=============================================================================
