------------------------------- MODULE Operators -------------------------------
(***************************************************************************)
(* One operator account of the admin API: concurrent logins that count     *)
(* failures and lock it, the commands that add, reset and disable it, and  *)
(* the guard that admits a session's token.  Source: apps/api/src/         *)
(* operator-auth and apps/api/src/admin/operator-admin.service.ts.         *)
(*                                                                         *)
(* Every statement on the Operator row is a step; hashing and the audit    *)
(* log, which come between them, are where other requests run.  A          *)
(* transaction begins, which fixes the database's now(), and commits in a  *)
(* later step.  Time is counted in the seconds of a token's iat; the API   *)
(* and the database go by one clock.                                       *)
(***************************************************************************)
EXTENDS Integers, FiniteSets

CONSTANTS
    Logins,              \* processes: requests to POST /admin/auth/login
    Admins,              \* processes: command-line tools
    MAX_FAILED_LOGINS,
    LockSpan,            \* LOCK_MS
    SessionSpan,         \* OPERATOR_SESSION_TTL
    MaxSecret,           \* bound: passwords the account ever has
    MaxGuesses,          \* bound: wrong passwords counted in a row
    MaxClock             \* bound: the last second

ASSUME OperatorsAssumption ==
    /\ Logins \cap Admins = {}
    /\ MAX_FAILED_LOGINS \in Nat \ {0, 1}     \* it is 5
    /\ {LockSpan, SessionSpan, MaxSecret, MaxGuesses, MaxClock} \subseteq Nat \ {0}

VARIABLES
    operator,    \* the Operator row
    clock,
    login,       \* what each login is at, has read and was sent
    command,     \* the same for each command
    session,     \* one token of those signed, any
    guesses,     \* history: wrong passwords counted since the count was cleared
    dropped      \* history: the last of them to reach the limit was lost before it locked

history == <<guesses, dropped>>
operatorVars == <<operator, clock, login, command, session, guesses, dropped>>

-----------------------------------------------------------------------------
(* The row, and the statements conditional on its lock *)

\* status "ABSENT": there is no row.  A password is a number; 0 was never one.
\* lockedUntil 0: null.  inForceSince is history: the second of the commit that
\* put the password in force, where changedAt is that of its transaction's begin.
NoOperator == [status |-> "ABSENT", secret |-> 0, failures |-> 0, lockedUntil |-> 0,
               changedAt |-> 0, inForceSince |-> 0]

\* lockedUntil IS NULL OR lockedUntil <= now
WhateverTheLock(row, now) == TRUE
Unlocked(row, now) == row.lockedUntil <= now
\* lockedUntil <= now
LockExpired(row, now) == row.lockedUntil # 0 /\ row.lockedUntil <= now

\* History beside iat: the password it was opened with, and when its login began.
NoSession == [iat |-> 0, secret |-> 0, began |-> 0]
NoLogin == [at |-> "idle", typed |-> 0, row |-> NoOperator, began |-> 0, now |-> 0]
NoCommand == [at |-> "idle", now |-> 0]

OperatorsInit ==
    /\ operator = NoOperator
    /\ clock = 1
    /\ login = [p \in Logins |-> NoLogin]
    /\ command = [a \in Admins |-> NoCommand]
    /\ session = NoSession
    /\ guesses = 0 /\ dropped = FALSE

-----------------------------------------------------------------------------
(* login() *)

Reaches(p, label) == login' = [login EXCEPT ![p].at = label]
Answered(p) == login' = [login EXCEPT ![p] = NoLogin]

\* The columns of the row that login() goes on to use.
Read(row) == [row EXCEPT !.changedAt = 0, !.inForceSince = 0, !.failures = 0]

\* Typed is the account's password, or a wrong one, an old one included.
FindOperator(p) ==
    /\ login[p].at = "idle"
    /\ \E typed \in {0, operator.secret} :
          login' = [login EXCEPT ![p] =
                       [at |-> "verify", typed |-> typed, row |-> Read(operator),
                        began |-> clock, now |-> 0]]
    /\ UNCHANGED <<operator, clock, command, session, history>>

\* The time is taken after the password was compared with the row read.  An
\* account that is absent, disabled or locked counts nothing.
VerifyPassword(p) ==
    LET row == login[p].row IN
    /\ login[p].at = "verify"
    /\ IF row.status # "ACTIVE" \/ row.lockedUntil > clock
       THEN Answered(p)
       ELSE \/ /\ login[p].typed = row.secret
               /\ login' = [login EXCEPT ![p].at = "release", ![p].now = clock,
                                         ![p].row = NoOperator]
            \/ /\ login[p].typed # row.secret
               /\ login' = [login EXCEPT ![p] =
                     [NoLogin EXCEPT !.at = "failed", !.now = clock]]
    /\ UNCHANGED <<operator, clock, command, session, history>>

\* registerFailure(): after an expired lock the count starts again at 1.
RestartCount(p) ==
    /\ login[p].at = "failed"
    /\ IF LockExpired(operator, login[p].now)
       THEN /\ operator' = [operator EXCEPT !.failures = 1, !.lockedUntil = 0]
            /\ guesses' = 1 /\ dropped' = FALSE
            /\ Answered(p)
       ELSE Reaches(p, "increment") /\ UNCHANGED <<operator, history>>
    /\ UNCHANGED <<clock, command, session>>

AtMostLimit(failedLoginCount) == failedLoginCount <= MAX_FAILED_LOGINS
BelowLimit(failedLoginCount) == failedLoginCount < MAX_FAILED_LOGINS

\* The count is the one the statement returns, not the one in the row read.
IncrementCount(p) ==
    /\ login[p].at = "increment" /\ guesses < MaxGuesses
    /\ operator' = [operator EXCEPT !.failures = @ + 1]
    /\ guesses' = guesses + 1
    /\ IF BelowLimit(operator'.failures)
       THEN Answered(p) /\ UNCHANGED dropped
       ELSE Reaches(p, "lock") /\ dropped' = FALSE
    /\ UNCHANGED <<clock, command, session>>

SetLock(p) ==
    /\ login[p].at = "lock"
    /\ operator' = IF Unlocked(operator, login[p].now)
                   THEN [operator EXCEPT !.lockedUntil = login[p].now + LockSpan]
                   ELSE operator
    /\ Answered(p)
    /\ UNCHANGED <<clock, command, session, history>>

\* A lock set while the password was being verified stands.
Release(p) ==
    /\ login[p].at = "release"
    /\ IF Unlocked(operator, login[p].now)
       THEN /\ operator' = [operator EXCEPT !.failures = 0, !.lockedUntil = 0]
            /\ guesses' = 0 /\ dropped' = FALSE
            /\ Reaches(p, "sign")
       ELSE Answered(p) /\ UNCHANGED <<operator, history>>
    /\ UNCHANGED <<clock, command, session>>

SignSession(p) ==
    /\ login[p].at = "sign"
    /\ \/ session' = [iat |-> clock, secret |-> login[p].typed, began |-> login[p].began]
       \/ UNCHANGED session
    /\ Answered(p)
    /\ UNCHANGED <<operator, clock, command, history>>

\* A statement fails, or the instance is lost: the login ends where it is.
LoginLost(p) ==
    /\ login[p].at # "idle"
    /\ Answered(p)
    /\ dropped' = (dropped \/ login[p].at = "lock")
    /\ UNCHANGED <<operator, clock, command, session, guesses>>

-----------------------------------------------------------------------------
(* operator:add, operator:reset, operator:disable *)

\* Each looks for the row first.
FindAccount(a) ==
    /\ command[a].at = "idle"
    /\ \/ operator.status = "ABSENT" /\ command' = [command EXCEPT ![a].at = "add"]
       \/ /\ operator.status # "ABSENT"
          /\ \E at \in {"reset", "disable"} : command' = [command EXCEPT ![a].at = at]
    /\ UNCHANGED <<operator, clock, login, session, history>>

\* Once the new password is hashed; a disable is a statement by itself.
BeginTransaction(a) ==
    /\ \/ /\ command[a].at = "add"
          /\ command' = [command EXCEPT ![a] = [at |-> "adding", now |-> clock]]
       \/ /\ command[a].at = "reset"
          /\ command' = [command EXCEPT ![a] = [at |-> "resetting", now |-> clock]]
    /\ UNCHANGED <<operator, clock, login, session, history>>

\* A dry run ends after the search, a failed transaction leaves nothing.
Finished(a) == command' = [command EXCEPT ![a] = NoCommand]
EndsEarly(a) ==
    /\ command[a].at # "idle"
    /\ Finished(a)
    /\ UNCHANGED <<operator, clock, login, session, history>>

\* Of two that add it, the second meets the unique e-mail address.
add(a) ==
    /\ command[a].at = "adding"
    /\ operator' = IF operator.status = "ABSENT"
                   THEN [NoOperator EXCEPT !.status = "ACTIVE", !.secret = 1,
                                           !.changedAt = command[a].now,
                                           !.inForceSince = clock]
                   ELSE operator
    /\ Finished(a)
    /\ UNCHANGED <<clock, login, session, history>>

reset(a) ==
    /\ command[a].at = "resetting" /\ operator.secret < MaxSecret
    /\ operator' = [operator EXCEPT !.secret = @ + 1, !.failures = 0, !.lockedUntil = 0,
                                    !.changedAt = command[a].now, !.inForceSince = clock]
    /\ guesses' = 0 /\ dropped' = FALSE
    /\ Finished(a)
    /\ UNCHANGED <<clock, login, session>>

disable(a) ==
    /\ command[a].at = "disable"
    /\ operator' = [operator EXCEPT !.status = "DISABLED"]
    /\ Finished(a)
    /\ UNCHANGED <<clock, login, session, history>>

Tick ==
    /\ clock < MaxClock
    /\ clock' = clock + 1
    /\ UNCHANGED <<operator, login, command, session, history>>

-----------------------------------------------------------------------------
LoginNext(p) ==
    \/ FindOperator(p) \/ VerifyPassword(p)
    \/ RestartCount(p) \/ IncrementCount(p) \/ SetLock(p)
    \/ Release(p) \/ SignSession(p) \/ LoginLost(p)
CommandNext(a) ==
    \/ FindAccount(a) \/ BeginTransaction(a) \/ EndsEarly(a)
    \/ add(a) \/ reset(a) \/ disable(a)

OperatorsNext ==
    \/ \E p \in Logins : LoginNext(p)
    \/ \E a \in Admins : CommandNext(a)
    \/ Tick

OperatorsSpec == OperatorsInit /\ [][OperatorsNext]_operatorVars

\* canActivate() for a token.
IssuedNoLater(t) == t.iat <= operator.changedAt
IssuedBeforePasswordChange(t) == t.iat < operator.changedAt
Admitted(t) ==
    /\ clock < t.iat + SessionSpan
    /\ operator.status = "ACTIVE"
    /\ ~IssuedBeforePasswordChange(t)

-----------------------------------------------------------------------------
(* Properties *)

\* The row's columns, the labels, and no lock beyond a span from now.
OperatorsTypeOK ==
    /\ operator \in [status : {"ABSENT", "ACTIVE", "DISABLED"}, secret : 0 .. MaxSecret,
                     failures : Nat, lockedUntil : 0 .. MaxClock + LockSpan,
                     changedAt : 0 .. MaxClock, inForceSince : 0 .. MaxClock]
    /\ clock \in 1 .. MaxClock
    /\ {login[p].at : p \in Logins} \subseteq
          {"idle", "verify", "failed", "increment", "lock", "release", "sign"}
    /\ {command[a].at : a \in Admins} \subseteq
          {"idle", "add", "adding", "reset", "resetting", "disable"}
    /\ guesses \in Nat /\ dropped \in BOOLEAN

\* A lock that has not expired is lifted by a reset only, and never by a
\* login that was verifying its password when the lock was set.
LockHolds ==
    [][operator.lockedUntil > clock =>
         \/ operator'.lockedUntil = operator.lockedUntil
         \/ operator'.secret # operator.secret]_operatorVars

\* However the failures overlap, as many as MAX_FAILED_LOGINS of them since
\* the count was last cleared have locked the account or are about to, unless
\* the last one to reach the limit was lost on the way to the lock: then the
\* next wrong password locks.
FifthFailureLocks ==
    (guesses >= MAX_FAILED_LOGINS /\ ~dropped) =>
        operator.lockedUntil # 0 \/ \E p \in Logins : login[p].at = "lock"

\* What a reset leaves of older sessions.  One opened with an old password goes on
\* only if its login had read the row by the second the reset was committed in and
\* signed the token in the second the reset's transaction began in, or later: it
\* was under way at the reset, or over earlier in that one second.  And a session
\* opened with the present password is admitted, however close to the reset.
SessionsFollowThePassword ==
    session # NoSession =>
        /\ Admitted(session) /\ session.secret # operator.secret =>
              session.began <= operator.inForceSince /\ operator.changedAt <= session.iat
        /\ (session.secret = operator.secret /\ operator.status = "ACTIVE"
            /\ clock < session.iat + SessionSpan) => Admitted(session)

\* README.md, on operators: once a password is reset, the old tokens are invalid
\* at once.
OldTokensEndAtOnce ==
    [][operator'.secret # operator.secret => ~Admitted(session)']_operatorVars

-----------------------------------------------------------------------------
(* The inductive invariant behind the three *)

Accounts == [status : {"ABSENT", "ACTIVE", "DISABLED"}, secret : 0 .. MaxSecret,
             failures : Nat, lockedUntil : 0 .. MaxClock + LockSpan,
             changedAt : 0 .. MaxClock, inForceSince : 0 .. MaxClock]
LoginStates == [at : {"idle", "verify", "failed", "increment", "lock", "release", "sign"},
                typed : 0 .. MaxSecret, row : Accounts,
                began : 0 .. MaxClock, now : 0 .. MaxClock]
Commanded == [at : {"idle", "add", "adding", "reset", "resetting", "disable"},
              now : 0 .. MaxClock]

OperatorsTyped ==
    /\ operator \in Accounts
    /\ clock \in 1 .. MaxClock
    /\ login \in [Logins -> LoginStates]
    /\ command \in [Admins -> Commanded]
    /\ session \in [iat : 0 .. MaxClock, secret : 0 .. MaxSecret, began : 0 .. MaxClock]
    /\ guesses \in Nat /\ dropped \in BOOLEAN

\* Nothing begins before the account is there, and it is never removed.
NothingBeforeTheAccount ==
    /\ operator.status = "ABSENT" =>
          /\ operator = NoOperator /\ session = NoSession
          /\ \A p \in Logins : \/ login[p].at = "idle"
                                \/ /\ login[p].at = "verify"
                                   /\ login[p].row.status = "ABSENT"
          /\ \A a \in Admins : command[a].at \in {"idle", "add", "adding"}
    /\ operator.status # "ABSENT" => operator.secret # 0

\* Times that were noted have come; what a login read of the lock is no later.
TimesArePast ==
    /\ operator.changedAt <= clock /\ operator.inForceSince <= clock
    /\ session.began <= clock /\ session.iat <= clock
    /\ \A p \in Logins : login[p].began <= clock /\ login[p].now <= clock
    /\ \A a \in Admins : command[a].now <= clock

\* A password other than the present one was replaced after the login that
\* read it had begun.
PasswordsFollowTheRow ==
    /\ \A p \in Logins :
        /\ login[p].at = "verify" =>
              /\ login[p].row.secret <= operator.secret
              /\ login[p].typed \in {0, login[p].row.secret}
              /\ login[p].row.status # "ABSENT" => login[p].row.secret # 0
              /\ (login[p].row.status # "ABSENT" /\ login[p].row.secret # operator.secret)
                    => login[p].began <= operator.inForceSince
        /\ login[p].at \in {"release", "sign"} =>
              /\ login[p].typed <= operator.secret
              /\ login[p].typed # operator.secret => login[p].began <= operator.inForceSince
    /\ session # NoSession =>
          /\ session.secret <= operator.secret
          /\ session.secret # operator.secret => session.began <= operator.inForceSince
          /\ session.secret = operator.secret => operator.changedAt <= session.iat

OperatorsInv ==
    /\ OperatorsTyped /\ NothingBeforeTheAccount /\ TimesArePast /\ PasswordsFollowTheRow
    /\ guesses = operator.failures /\ FifthFailureLocks
=============================================================================
