--------------------------------- MODULE MCServer ---------------------------------
(***************************************************************************)
(* Accounts, drafts and the chat in one run.  They share no state, so a    *)
(* behaviour moves one of them, chosen at the start, and their state       *)
(* spaces add up instead of multiplying.                                   *)
(***************************************************************************)
EXTENDS Accounts, Draft, Chat

VARIABLE moves

\* What does not move is in one of its initial states.
ServerInit ==
    /\ moves \in {"accounts", "draft", "chat"}
    /\ AccountsInit /\ DraftInit /\ Init
    /\ moves # "accounts" => part = "operators"
    /\ moves # "draft" => versions = VersionsAt("created")
    /\ moves # "chat" => \A e \in Enrollments : ~active[e]

ServerNext ==
    /\ UNCHANGED moves
    /\ \/ moves = "accounts" /\ AccountsNext /\ UNCHANGED <<draftVars, vars>>
       \/ moves = "draft" /\ DraftNext /\ UNCHANGED <<accountsVars, vars>>
       \/ moves = "chat" /\ Next /\ UNCHANGED <<accountsVars, draftVars>>

ServerSpec == ServerInit /\ [][ServerNext]_<<moves, accountsVars, draftVars, vars>>

\* Of an operator's account, either a session is looked at or failures count.
SessionOrFailures ==
    session # NoSession =>
        /\ guesses = 0
        /\ \A p \in Logins : login[p].at \notin {"failed", "increment", "lock"}

\* No request goes where a bound is all that would hold it.
NoneAtABound ==
    /\ \A p \in Logins : login[p].at = "increment" => guesses < MaxGuesses
    /\ \A a \in Admins : command[a].at \in {"reset", "resetting"} => operator.secret < MaxSecret
    /\ \A p \in Handlers : /\ On(p, "invite") => Cardinality(DOMAIN invitations) < MaxInvitation
                           /\ On(p, "issue") => NextId <= MaxToken

\* The three have their requests' names in common.
RequestSymmetry == Permutations(Requests)
=============================================================================
