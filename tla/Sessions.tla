-------------------------------- MODULE Sessions --------------------------------
(***************************************************************************)
(* How a learner comes by refresh tokens and trades them: invitation,      *)
(* login, refresh with rotation, logout.  Source: apps/api/src/auth and    *)
(* AdminService.inviteUser().                                              *)
(*                                                                         *)
(* No handler opens a transaction: each statement is a step, and two       *)
(* requests with one token, from two tabs or a retry, take theirs in any   *)
(* order; any of them may be the last, if the next fails or the instance   *)
(* is lost.  Access tokens are signed beside the refresh token and kept by *)
(* no one; they are left out.                                              *)
(***************************************************************************)
EXTENDS Integers, FiniteSets

CONSTANTS
    Handlers,         \* processes
    MaxToken,         \* bound: RefreshToken rows
    MaxInvitation     \* bound: Invitation rows

ASSUME SessionsAssumption ==
    MaxToken \in Nat \ {0} /\ MaxInvitation \in Nat \ {0} /\ IsFiniteSet(Handlers)

VARIABLES
    user,          \* User.status
    invitations,   \* Invitation rows: acceptedAt is not null
    tokens,        \* RefreshToken rows
    handler,       \* what each request is at and works on
    overlapped,    \* history: sign-ins with two refreshes of a token at once
    stranded,      \* history: tokens issued by refreshes that were lost after that
    ended          \* history: sign-ins that the replay of a token was to end

sessionHistory == <<overlapped, stranded, ended>>
sessionVars == <<user, invitations, tokens, handler, overlapped, stranded, ended>>

-----------------------------------------------------------------------------
Tokens == DOMAIN tokens
Live == {t \in Tokens : ~tokens[t].revoked}

\* signIn: the token that the login or the invitation at its origin issued.
NewToken(signIn) == [revoked |-> FALSE, replacedBy |-> 0, signIn |-> signIn]
NextId == Cardinality(Tokens) + 1
With(f, key, value) == [k \in DOMAIN f \cup {key} |-> IF k = key THEN value ELSE f[k]]

Free == [at |-> "free", token |-> 0, invitation |-> 0, issued |-> 0]
Turns(p, record) == handler' = [handler EXCEPT ![p] = record]
Frees(p) == Turns(p, Free)
On(p, label) == handler[p].at = label

SessionsInit ==
    /\ user = "ABSENT"
    /\ invitations = [i \in {} |-> FALSE]
    /\ tokens = [t \in {} |-> NewToken(0)]
    /\ handler = [p \in Handlers |-> Free]
    /\ overlapped = {} /\ stranded = {} /\ ended = {}

-----------------------------------------------------------------------------
(* inviteUser(): upsert the user, then the invitation *)

UpsertUser(p) ==
    /\ On(p, "free")
    /\ user' = IF user = "ABSENT" THEN "INVITED" ELSE user
    /\ Turns(p, [Free EXCEPT !.at = "invite"])
    /\ UNCHANGED <<invitations, tokens, sessionHistory>>

CreateInvitation(p) ==
    /\ On(p, "invite") /\ Cardinality(DOMAIN invitations) < MaxInvitation
    /\ invitations' = With(invitations, Cardinality(DOMAIN invitations) + 1, FALSE)
    /\ Frees(p)
    /\ UNCHANGED <<user, tokens, sessionHistory>>

-----------------------------------------------------------------------------
(* acceptInvitation() and login() *)

FindInvitation(p) ==
    \E i \in DOMAIN invitations :
        /\ On(p, "free")
        /\ ~invitations[i]
        /\ Turns(p, [Free EXCEPT !.at = "password", !.invitation = i])
        /\ UNCHANGED <<user, invitations, tokens, sessionHistory>>

SetPassword(p) ==
    /\ On(p, "password")
    /\ user' = "ACTIVE"
    /\ Turns(p, [handler[p] EXCEPT !.at = "accept"])
    /\ UNCHANGED <<invitations, tokens, sessionHistory>>

MarkAccepted(p) ==
    /\ On(p, "accept")
    /\ invitations' = [invitations EXCEPT ![handler[p].invitation] = TRUE]
    /\ Turns(p, [Free EXCEPT !.at = "issue"])
    /\ UNCHANGED <<user, tokens, sessionHistory>>

\* The password is the one in force; any other ends here, and so does one
\* that came before its learner is active.
CheckPasswordAlone(p) ==
    /\ On(p, "free")
    /\ user # "ABSENT"
    /\ Turns(p, [Free EXCEPT !.at = "issue"])
    /\ UNCHANGED <<user, invitations, tokens, sessionHistory>>
CheckPassword(p) ==
    /\ On(p, "free")
    /\ user = "ACTIVE"
    /\ Turns(p, [Free EXCEPT !.at = "issue"])
    /\ UNCHANGED <<user, invitations, tokens, sessionHistory>>

-----------------------------------------------------------------------------
(* refresh() and logout() *)

\* Two requests work with one token before it is revoked.
RefreshesOf(t) ==
    {q \in Handlers : handler[q].token = t /\ handler[q].at \in {"issue", "rotate"}}

NeverSpent(t) == FALSE
Spent(t) == tokens[t].revoked

\* A token is in somebody's hands once the request that issued it has answered.
SentOut(t) ==
    /\ t \notin stranded
    /\ \A q \in Handlers : On(q, "rotate") => handler[q].issued # t

\* A token's age is not kept: one that is not revoked may have expired.
FindToken(p) ==
    \E t \in Tokens :
        /\ On(p, "free") /\ SentOut(t)
        /\ \/ Spent(t) /\ Turns(p, [Free EXCEPT !.at = "family", !.token = t])
           \/ ~Spent(t) /\ Frees(p)
           \/ ~Spent(t) /\ Turns(p, [Free EXCEPT !.at = "issue", !.token = t])
        /\ overlapped' = IF RefreshesOf(t) = {} THEN overlapped
                         ELSE overlapped \cup {tokens[t].signIn}
        /\ UNCHANGED <<user, invitations, tokens, stranded, ended>>

\* Whom the replay of a token revokes: all of the learner's tokens.
ItsSuccessor(p) == {tokens[handler[p].token].replacedBy}
Family(p) == Tokens

\* A sign-in with a refresh about to issue its next token is not ended.
Refreshing(p, s) ==
    On(p, "issue") /\ handler[p].token # 0 /\ tokens[handler[p].token].signIn = s
Endable == {s \in Tokens : \A q \in Handlers : ~Refreshing(q, s)}

RevokeFamily(p) ==
    /\ On(p, "family")
    /\ tokens' = [t \in Tokens |->
          IF t \in Family(p) THEN [tokens[t] EXCEPT !.revoked = TRUE] ELSE tokens[t]]
    /\ Frees(p)
    /\ ended' = ended \cup Endable
    /\ UNCHANGED <<user, invitations, overlapped, stranded>>

issueTokensWithId(p) ==
    LET id == NextId
        old == handler[p].token
        signIn == IF old = 0 THEN id ELSE tokens[old].signIn
    IN
    /\ On(p, "issue") /\ id <= MaxToken
    /\ tokens' = With(tokens, id, NewToken(signIn))
    /\ IF old = 0 THEN Frees(p)
       ELSE Turns(p, [handler[p] EXCEPT !.at = "rotate", !.issued = id])
    /\ UNCHANGED <<user, invitations, sessionHistory>>

Rotate(p) ==
    /\ On(p, "rotate")
    /\ tokens' = [tokens EXCEPT ![handler[p].token].revoked = TRUE,
                                ![handler[p].token].replacedBy = handler[p].issued]
    /\ Frees(p)
    /\ UNCHANGED <<user, invitations, sessionHistory>>

FindTokenForLogout(p) ==
    \E t \in Tokens :
        /\ On(p, "free") /\ SentOut(t)
        /\ IF tokens[t].revoked THEN Frees(p)
           ELSE Turns(p, [Free EXCEPT !.at = "logout", !.token = t])
        /\ UNCHANGED <<user, invitations, tokens, sessionHistory>>

RevokeForLogout(p) ==
    /\ On(p, "logout")
    /\ tokens' = [tokens EXCEPT ![handler[p].token].revoked = TRUE]
    /\ Frees(p)
    /\ UNCHANGED <<user, invitations, sessionHistory>>

-----------------------------------------------------------------------------
(* Any request *)

\* Its next statement fails, or the instance is lost.  A refresh that had issued
\* a token leaves it and the one it was to replace: both live, one in use.
HandlerLost(p) ==
    /\ ~On(p, "free")
    /\ Frees(p)
    /\ stranded' = stranded \cup IF On(p, "rotate") THEN {handler[p].issued} ELSE {}
    /\ UNCHANGED <<user, invitations, tokens, overlapped, ended>>

-----------------------------------------------------------------------------
SessionsNext ==
    \E p \in Handlers :
        \/ UpsertUser(p) \/ CreateInvitation(p)
        \/ FindInvitation(p) \/ SetPassword(p) \/ MarkAccepted(p) \/ CheckPassword(p)
        \/ FindToken(p) \/ RevokeFamily(p) \/ issueTokensWithId(p) \/ Rotate(p)
        \/ FindTokenForLogout(p) \/ RevokeForLogout(p) \/ HandlerLost(p)

SessionsSpec == SessionsInit /\ [][SessionsNext]_sessionVars

-----------------------------------------------------------------------------
(* Properties *)

\* The rows' columns, whose references lead to rows, and the tokens belong to
\* an active learner.
SessionsTypeOK ==
    /\ user \in {"ABSENT", "INVITED", "ACTIVE"}
    /\ \A i \in DOMAIN invitations : invitations[i] \in BOOLEAN
    /\ \A t \in Tokens : tokens[t].signIn \in Tokens /\ tokens[t].replacedBy \in Tokens \cup {0}
    /\ \A p \in Handlers : handler[p].token \in Tokens \cup {0}
    /\ Tokens # {} => user = "ACTIVE"

\* Of the tokens that were answered or are about to be, a sign-in has one that is
\* live, and a second one only while a refresh has issued it and not yet revoked
\* the first, unless two refreshes of one token overlapped.  A refresh that is
\* lost in between leaves a live token too, but one that nobody was sent.
OneLiveTokenPerSignIn ==
    \A s \in Tokens \ overlapped :
        LET live == {t \in Live \ stranded : tokens[t].signIn = s}
            rotating == {p \in Handlers : On(p, "rotate") /\ tokens[handler[p].token].signIn = s}
        IN  Cardinality(live) <= 1 + Cardinality(rotating)

\* A replayed token ends the family: of the sign-ins there were when the replay
\* revoked it, none has a live token again, however the refreshes, retries and
\* lost requests of their devices were spread, but for one whose refresh had
\* been admitted before that and had its next token still to issue.
ReplayEndsFamily == \A t \in Live : tokens[t].signIn \notin ended

-----------------------------------------------------------------------------
(* The inductive invariant behind the two *)

HandlerLabels ==
    {"free", "invite", "password", "accept", "issue", "family", "rotate", "logout"}

\* Rows are numbered as they are created: m invitations and n tokens.
RowsNumbered(m, n) ==
    /\ invitations \in [1 .. m -> BOOLEAN]
    /\ tokens \in [1 .. n -> [revoked : BOOLEAN, replacedBy : 0 .. n, signIn : 1 .. n]]
    /\ handler \in [Handlers ->
          [at : HandlerLabels, token : 0 .. n, invitation : Nat, issued : 0 .. n]]
    /\ stranded \subseteq 1 .. n /\ ended \subseteq 1 .. n

RowsAreNumbered == \E m, n \in Nat : RowsNumbered(m, n)

SessionsTyped == user \in {"ABSENT", "INVITED", "ACTIVE"} /\ RowsAreNumbered

\* A token is issued to an active user only.
IssuedToTheActive ==
    /\ Tokens # {} => user = "ACTIVE"
    /\ \A p \in Handlers :
          /\ handler[p].at \in {"accept", "issue"} => user = "ACTIVE"
          /\ handler[p].at \in {"rotate", "logout", "family"} => handler[p].token \in Tokens
          /\ handler[p].at = "rotate" => handler[p].issued \in Tokens

\* A live token of a sign-in that is neither stranded nor about to be revoked by
\* a rotation.
LastOf(s) ==
    {t \in Live \ stranded :
        /\ tokens[t].signIn = s
        /\ \A p \in Handlers : On(p, "rotate") => handler[p].token # t}
Rotating(p, s) == On(p, "rotate") /\ tokens[handler[p].token].signIn = s
WorkingFor(p, s) == Refreshing(p, s) \/ Rotating(p, s)

\* A sign-in has one such token and one refresh at a time: while it has still to
\* issue the next one that is its own, and then the one it issued.
OneAtATime ==
    \A s \in Tokens \ overlapped :
        /\ \A t, u \in LastOf(s) : t = u
        /\ \A p \in Handlers :
              /\ Refreshing(p, s) => LastOf(s) \subseteq {handler[p].token}
              /\ Rotating(p, s) => LastOf(s) \subseteq {handler[p].issued}
              /\ WorkingFor(p, s) => \A q \in Handlers : WorkingFor(q, s) => q = p

\* No refresh is about to revive a sign-in that was ended.
EndedForGood == \A s \in ended, p \in Handlers : ~Refreshing(p, s)

SessionsInv ==
    SessionsTyped /\ IssuedToTheActive /\ OneAtATime /\ ReplayEndsFamily /\ EndedForGood
=============================================================================
