----------------------------- MODULE MCWorkspace -----------------------------
(* Small instances of Workspace for TLC. *)
EXTENDS Workspace, TLC

\* Processes are interchangeable; used by the runs that check safety only.
ProcSymmetry == Permutations(Procs)

\* The row's machine is powered off or made again, or the course is restarted
\* and a second row may follow the first, not both.
MachineOrSecondRow ==
    \/ enrollment.generation = 0 /\ nextRow <= 2
    \/ /\ \A l \in LabIds : vm[l] # "off"
       /\ workspace.generation = 0
       /\ \A p \in Procs : job[p].generation = 0
       /\ \A l \in LabIds : l[2] = 0 \/ (post[l] = "none" /\ ~Reserved(l))
=============================================================================
