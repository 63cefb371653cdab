------------------------------ MODULE VmCustody ------------------------------
(***************************************************************************)
(* What the workspace service promises about the machines it asks Labs     *)
(* for: at every moment somebody answers for each of them.  A machine is   *)
(* asked for only once (unborn -> pending), serves one workspace after     *)
(* that workspace won it (pending -> attached), is condemned exactly once  *)
(* and for good, is destroyed only when condemned, and is let go of        *)
(* (gone) only when it does not exist and no longer can.                   *)
(***************************************************************************)
CONSTANT Machines

VARIABLES custody, exists

vars == <<custody, exists>>

Custodies == {"unborn", "pending", "attached", "condemned", "gone"}

Init ==
    /\ custody = [m \in Machines |-> "unborn"]
    /\ exists = [m \in Machines |-> FALSE]

Move(m, from, to) ==
    /\ custody[m] \in from
    /\ custody' = [custody EXCEPT ![m] = to]

\* A record is written before the machine is asked for.
Reserve(m) == Move(m, {"unborn"}, "pending") /\ UNCHANGED exists

\* Labs makes the machine, perhaps long after the caller gave up.
Appear(m) ==
    /\ custody[m] \in {"pending", "condemned"} /\ ~exists[m]
    /\ exists' = [exists EXCEPT ![m] = TRUE]
    /\ UNCHANGED custody

Attach(m) == exists[m] /\ Move(m, {"pending"}, "attached") /\ UNCHANGED exists

Condemn(m) == Move(m, {"pending", "attached"}, "condemned") /\ UNCHANGED exists

Destroy(m) ==
    /\ custody[m] = "condemned"
    /\ exists' = [exists EXCEPT ![m] = FALSE]
    /\ UNCHANGED custody

Release(m) == ~exists[m] /\ Move(m, {"condemned"}, "gone") /\ UNCHANGED exists

Next == \E m \in Machines :
    \/ Reserve(m) \/ Appear(m) \/ Attach(m)
    \/ Condemn(m) \/ Destroy(m) \/ Release(m)

Spec == Init /\ [][Next]_vars
=============================================================================
