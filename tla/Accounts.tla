-------------------------------- MODULE Accounts --------------------------------
(***************************************************************************)
(* The accounts of operators and of learners.  The two share no state, so  *)
(* a behaviour moves one of them, chosen at the start: whatever happens to *)
(* the other is no step of it.                                             *)
(***************************************************************************)
EXTENDS Operators, Sessions

VARIABLE part

AccountsInit ==
    /\ part \in {"operators", "sessions"}
    /\ OperatorsInit /\ SessionsInit

AccountsNext ==
    /\ UNCHANGED part
    /\ \/ part = "operators" /\ OperatorsNext /\ UNCHANGED sessionVars
       \/ part = "sessions" /\ SessionsNext /\ UNCHANGED operatorVars

accountsVars == <<part, operatorVars, sessionVars>>

AccountsSpec == AccountsInit /\ [][AccountsNext]_accountsVars

\* The types of the accounts' state: columns and labels, requests that refer to
\* tokens which are there, and tokens of nobody but an active learner.
AccountsTypeOK == OperatorsTypeOK /\ SessionsTypeOK
=============================================================================
