---------------------------- MODULE AccountsProofs ----------------------------
(***************************************************************************)
(* Theorems about Operators and Sessions, the two kinds of accounts, for   *)
(* every value of their constants: any number of logins, commands,         *)
(* requests, tokens and invitations, any lock and session span, any limit  *)
(* above one.  The two share no state and no lemma; the first part is      *)
(* about the operators' account, the second about a learner's sessions,    *)
(* the last about both as Accounts composes them.                          *)
(***************************************************************************)
EXTENDS Accounts, FiniteSetTheorems, TLAPS

-----------------------------------------------------------------------------
(* Operator accounts: what a row holds *)

LEMMA Numbers ==
    /\ MAX_FAILED_LOGINS \in Nat /\ MAX_FAILED_LOGINS > 1
    /\ LockSpan \in Nat /\ LockSpan > 0 /\ SessionSpan \in Nat
    /\ MaxSecret \in Nat /\ MaxSecret > 0 /\ MaxClock \in Nat /\ MaxClock > 0
  BY OperatorsAssumption

LEMMA Ranges ==
  /\ 0 \in 0 .. MaxClock + LockSpan /\ 0 \in 0 .. MaxClock
  /\ 0 \in 0 .. MaxSecret /\ 1 \in 0 .. MaxSecret /\ 1 .. MaxClock \subseteq 0 .. MaxClock
  BY Numbers

LEMMA Blanks ==
  NoOperator \in Accounts /\ NoLogin \in LoginStates /\ NoCommand \in Commanded
  BY Numbers DEF NoOperator, NoLogin, NoCommand, Accounts, LoginStates, Commanded

-----------------------------------------------------------------------------
(* What the statements do to a row and to a login *)

\* The fields of a row and of a login.
LEMMA RowFields ==
  ASSUME NEW r \in Accounts
  PROVE  /\ r.status \in {"ABSENT", "ACTIVE", "DISABLED"} /\ r.secret \in 0 .. MaxSecret
         /\ r.failures \in Nat /\ r.lockedUntil \in 0 .. MaxClock + LockSpan
         /\ r.changedAt \in 0 .. MaxClock /\ r.inForceSince \in 0 .. MaxClock
  BY DEF Accounts

LEMMA LoginFields ==
  ASSUME NEW l \in LoginStates
  PROVE  /\ l.at \in {"idle", "verify", "failed", "increment", "lock", "release", "sign"}
         /\ l.typed \in 0 .. MaxSecret /\ l.row \in Accounts
         /\ l.began \in 0 .. MaxClock /\ l.now \in 0 .. MaxClock
  BY DEF LoginStates

\* A statement that sets the count and the lock leaves the rest of the row.
LEMMA CountSet ==
  ASSUME operator \in Accounts, NEW n \in Nat,
         operator' = [operator EXCEPT !.failures = n, !.lockedUntil = 0]
  PROVE  /\ operator' \in Accounts /\ operator'.failures = n /\ operator'.lockedUntil = 0
         /\ operator'.status = operator.status /\ operator'.secret = operator.secret
         /\ operator'.changedAt = operator.changedAt
         /\ operator'.inForceSince = operator.inForceSince
  BY Ranges DEF Accounts

LEMMA CountRaised ==
  ASSUME operator \in Accounts, operator' = [operator EXCEPT !.failures = @ + 1]
  PROVE  /\ operator' \in Accounts /\ operator'.failures = operator.failures + 1
         /\ operator'.lockedUntil = operator.lockedUntil
         /\ operator'.status = operator.status /\ operator'.secret = operator.secret
         /\ operator'.changedAt = operator.changedAt
         /\ operator'.inForceSince = operator.inForceSince
<1>1. operator.failures \in Nat /\ operator.failures + 1 \in Nat
  BY DEF Accounts
<1>2. operator' = [operator EXCEPT !.failures = operator.failures + 1]
  OBVIOUS
<1> QED
  BY <1>1, <1>2 DEF Accounts

LEMMA LockPut ==
  ASSUME operator \in Accounts, NEW n \in 0 .. MaxClock,
         operator' = [operator EXCEPT !.lockedUntil = n + LockSpan]
  PROVE  /\ operator' \in Accounts /\ operator'.failures = operator.failures
         /\ operator'.lockedUntil = n + LockSpan
         /\ operator'.status = operator.status /\ operator'.secret = operator.secret
         /\ operator'.changedAt = operator.changedAt
         /\ operator'.inForceSince = operator.inForceSince
<1>1. n + LockSpan \in 0 .. MaxClock + LockSpan
  BY Numbers
<1> QED
  BY <1>1 DEF Accounts

LEMMA PasswordReset ==
  ASSUME operator \in Accounts, clock \in 1 .. MaxClock, operator.secret < MaxSecret,
         NEW n \in 0 .. MaxClock,
         operator' = [operator EXCEPT !.secret = @ + 1, !.failures = 0, !.lockedUntil = 0,
                                      !.changedAt = n, !.inForceSince = clock]
  PROVE  /\ operator' \in Accounts /\ operator'.failures = 0 /\ operator'.lockedUntil = 0
         /\ operator'.status = operator.status /\ operator'.secret = operator.secret + 1
         /\ operator'.changedAt = n /\ operator'.inForceSince = clock
<1>1. operator.secret + 1 \in 0 .. MaxSecret /\ clock \in 0 .. MaxClock
  BY Numbers, RowFields
<1>2. operator' = [operator EXCEPT !.secret = operator.secret + 1, !.failures = 0,
                                   !.lockedUntil = 0, !.changedAt = n,
                                   !.inForceSince = clock]
  OBVIOUS
<1>3. 0 \in 0 .. MaxClock + LockSpan /\ 0 \in Nat
  BY Ranges
<1> QED
  BY <1>1, <1>2, <1>3 DEF Accounts

LEMMA RowAdded ==
  ASSUME clock \in 1 .. MaxClock, NEW n \in 0 .. MaxClock,
         operator' = [NoOperator EXCEPT !.status = "ACTIVE", !.secret = 1,
                                        !.changedAt = n, !.inForceSince = clock]
  PROVE  /\ operator' \in Accounts /\ operator'.failures = 0 /\ operator'.lockedUntil = 0
         /\ operator'.status = "ACTIVE" /\ operator'.secret = 1
         /\ operator'.changedAt = n /\ operator'.inForceSince = clock
  BY Ranges DEF Accounts, NoOperator

LEMMA RowDisabled ==
  ASSUME operator \in Accounts, operator' = [operator EXCEPT !.status = "DISABLED"]
  PROVE  /\ operator' \in Accounts /\ operator'.failures = operator.failures
         /\ operator'.lockedUntil = operator.lockedUntil
         /\ operator'.status = "DISABLED" /\ operator'.secret = operator.secret
         /\ operator'.changedAt = operator.changedAt
         /\ operator'.inForceSince = operator.inForceSince
  BY DEF Accounts

\* What a login keeps of the row it has found.
LEMMA RowRead ==
  ASSUME NEW r \in Accounts
  PROVE  /\ Read(r) \in Accounts /\ Read(r).lockedUntil = r.lockedUntil
         /\ Read(r).status = r.status /\ Read(r).secret = r.secret
  BY Ranges DEF Accounts, Read

LEMMA LoginSet ==
  ASSUME login \in [Logins -> LoginStates], NEW p \in Logins, NEW l \in LoginStates,
         login' = [login EXCEPT ![p] = l]
  PROVE  /\ login' \in [Logins -> LoginStates]
         /\ login'[p] = l
         /\ \A q \in Logins : q # p => login'[q] = login[q]
  OBVIOUS

\* A login goes on to its next statement with what it has.
LEMMA LoginMoves ==
  ASSUME login \in [Logins -> LoginStates], NEW p \in Logins,
         NEW label \in {"idle", "verify", "failed", "increment", "lock", "release", "sign"},
         Reaches(p, label)
  PROVE  /\ login' \in [Logins -> LoginStates]
         /\ login'[p].at = label /\ login'[p].typed = login[p].typed
         /\ login'[p].row = login[p].row /\ login'[p].began = login[p].began
         /\ login'[p].now = login[p].now
         /\ \A q \in Logins : q # p => login'[q] = login[q]
<1> DEFINE l == [login[p] EXCEPT !.at = label]
<1>1. login[p] \in LoginStates
  OBVIOUS
<1>2. /\ l \in LoginStates /\ l.at = label /\ l.typed = login[p].typed
      /\ l.row = login[p].row /\ l.began = login[p].began /\ l.now = login[p].now
  BY <1>1 DEF LoginStates
<1>3. login' = [login EXCEPT ![p] = l]
  BY DEF Reaches
<1> HIDE DEF l
<1> QED
  BY <1>2, <1>3, LoginSet

\* A request that was answered leaves nothing.
LEMMA Leaves ==
  ASSUME login \in [Logins -> LoginStates], NEW p \in Logins, Answered(p)
  PROVE  /\ login' \in [Logins -> LoginStates]
         /\ login'[p] = NoLogin
         /\ login'[p].at = "idle" /\ login'[p].began = 0 /\ login'[p].now = 0
         /\ \A q \in Logins : q # p => login'[q] = login[q]
<1>1. login' \in [Logins -> LoginStates] /\ login'[p] = NoLogin
      /\ \A q \in Logins : q # p => login'[q] = login[q]
  BY Blanks, LoginSet DEF Answered
<1> QED
  BY <1>1 DEF NoLogin

LEMMA Finds ==
  ASSUME OperatorsTyped, NEW p \in Logins, FindOperator(p)
  PROVE  /\ login' \in [Logins -> LoginStates]
         /\ login'[p].at = "verify" /\ login'[p].typed \in {0, operator.secret}
         /\ login'[p].row.status = operator.status /\ login'[p].row.secret = operator.secret
         /\ login'[p].row.lockedUntil = operator.lockedUntil
         /\ login'[p].began = clock /\ login'[p].now = 0
         /\ \A q \in Logins : q # p => login'[q] = login[q]
<1> DEFINE r == Read(operator)
<1>1. r \in Accounts /\ r.status = operator.status /\ r.secret = operator.secret
      /\ r.lockedUntil = operator.lockedUntil
  BY RowRead DEF OperatorsTyped
<1> HIDE DEF r
<1>2. PICK typed \in {0, operator.secret} :
          login' = [login EXCEPT ![p] = [at |-> "verify", typed |-> typed, row |-> r,
                                         began |-> clock, now |-> 0]]
  BY DEF FindOperator, r
<1> DEFINE l == [at |-> "verify", typed |-> typed, row |-> r, began |-> clock, now |-> 0]
<1>3. typed \in 0 .. MaxSecret /\ clock \in 0 .. MaxClock
  BY Numbers, RowFields DEF OperatorsTyped
<1>4. /\ l \in LoginStates /\ l.at = "verify" /\ l.typed = typed /\ l.row = r
      /\ l.began = clock /\ l.now = 0
  BY <1>1, <1>3, Numbers DEF LoginStates
<1> HIDE DEF l
<1>5. login' = [login EXCEPT ![p] = l]
  BY <1>2 DEF l
<1>6. login' \in [Logins -> LoginStates] /\ login'[p] = l
      /\ \A q \in Logins : q # p => login'[q] = login[q]
  BY <1>4, <1>5, LoginSet DEF OperatorsTyped
<1> QED
  BY <1>1, <1>2, <1>4, <1>6

\* The comparison lets a login go on, or fails it, or answers it.
LEMMA Verifies ==
  ASSUME OperatorsTyped, NEW p \in Logins, VerifyPassword(p)
  PROVE  /\ login' \in [Logins -> LoginStates]
         /\ login[p].at = "verify"
         /\ \A q \in Logins : q # p => login'[q] = login[q]
         /\ \/ login'[p] = NoLogin
            \/ /\ login[p].row.status # "ABSENT" /\ login[p].typed = login[p].row.secret
               /\ login'[p].at = "release" /\ login'[p].typed = login[p].typed
               /\ login'[p].began = login[p].began /\ login'[p].now = clock
            \/ /\ login[p].row.status # "ABSENT"
               /\ login'[p].at = "failed" /\ login'[p].began = 0 /\ login'[p].now = clock
<1> USE DEF OperatorsTyped
<1>1. CASE Answered(p)
  BY <1>1, Leaves DEF VerifyPassword
<1>2. CASE /\ login[p].row.status = "ACTIVE" /\ login[p].typed = login[p].row.secret
           /\ login' = [login EXCEPT ![p].at = "release", ![p].now = clock,
                                     ![p].row = NoOperator]
  <2> DEFINE l == [login[p] EXCEPT !.at = "release", !.now = clock, !.row = NoOperator]
  <2>1. login[p] \in LoginStates /\ clock \in 0 .. MaxClock
    BY Numbers
  <2>2. /\ l \in LoginStates /\ l.at = "release" /\ l.typed = login[p].typed
        /\ l.began = login[p].began /\ l.now = clock
    BY <2>1, Blanks DEF LoginStates
  <2>3. login' = [login EXCEPT ![p] = l]
    BY <1>2
  <2> HIDE DEF l
  <2>4. login' \in [Logins -> LoginStates] /\ login'[p] = l
        /\ \A q \in Logins : q # p => login'[q] = login[q]
    BY <2>2, <2>3, LoginSet
  <2> QED
    BY <1>2, <2>2, <2>4 DEF VerifyPassword
<1>3. CASE /\ login[p].row.status = "ACTIVE"
           /\ login' = [login EXCEPT ![p] = [NoLogin EXCEPT !.at = "failed", !.now = clock]]
  <2> DEFINE l == [NoLogin EXCEPT !.at = "failed", !.now = clock]
  <2>1. /\ l \in LoginStates /\ l.at = "failed" /\ l.began = 0 /\ l.now = clock
    BY Ranges, Blanks DEF LoginStates, NoLogin, OperatorsTyped
  <2> HIDE DEF l
  <2>2. login' = [login EXCEPT ![p] = l]
    BY <1>3 DEF l
  <2>3. login' \in [Logins -> LoginStates] /\ login'[p] = l
        /\ \A q \in Logins : q # p => login'[q] = login[q]
    BY <2>1, <2>2, LoginSet
  <2> QED
    BY <1>3, <2>1, <2>3 DEF VerifyPassword
<1> QED
  BY <1>1, <1>2, <1>3 DEF VerifyPassword

LEMMA CommandFields ==
  ASSUME OperatorsTyped, NEW a \in Admins
  PROVE  /\ command[a].at \in {"idle", "add", "adding", "reset", "resetting", "disable"}
         /\ command[a].now \in 0 .. MaxClock
  BY DEF OperatorsTyped, Commanded

\* A command that has begun its transaction keeps the time, one that is over nothing.
LEMMA CommandBegins ==
  ASSUME OperatorsTyped, NEW a \in Admins, BeginTransaction(a)
  PROVE  /\ command' \in [Admins -> Commanded]
         /\ command[a].at \in {"add", "reset"} /\ command'[a].now = clock
         /\ command[a].at = "add" => command'[a].at = "adding"
         /\ \A b \in Admins : b # a => command'[b] = command[b]
  BY Numbers DEF BeginTransaction, OperatorsTyped, Commanded

LEMMA CommandEnds ==
  ASSUME OperatorsTyped, NEW a \in Admins, Finished(a)
  PROVE  /\ command' \in [Admins -> Commanded]
         /\ command'[a].at = "idle" /\ command'[a].now = 0
         /\ \A b \in Admins : b # a => command'[b] = command[b]
  BY Blanks DEF Finished, OperatorsTyped, NoCommand

LEMMA CommandFinds ==
  ASSUME OperatorsTyped, NEW a \in Admins, FindAccount(a)
  PROVE  /\ command' \in [Admins -> Commanded]
         /\ command'[a].now = command[a].now
         /\ operator.status = "ABSENT" => command'[a].at = "add"
         /\ \A b \in Admins : b # a => command'[b] = command[b]
<1>1. PICK label \in {"add", "reset", "disable"} :
        /\ command' = [command EXCEPT ![a].at = label]
        /\ operator.status = "ABSENT" => label = "add"
  BY DEF FindAccount
<1> DEFINE c == [command[a] EXCEPT !.at = label]
<1>2. command[a] \in Commanded
  BY DEF OperatorsTyped
<1>3. c \in Commanded /\ c.at = label /\ c.now = command[a].now
  BY <1>2 DEF Commanded
<1>4. command' = [command EXCEPT ![a] = c]
  BY <1>1
<1> HIDE DEF c
<1>5. command' \in [Admins -> Commanded] /\ command'[a] = c
      /\ \A b \in Admins : b # a => command'[b] = command[b]
  BY <1>3, <1>4 DEF OperatorsTyped
<1> QED
  BY <1>1, <1>3, <1>5

\* What one statement of a login does to the row: nothing, or the count and
\* the lock change and the password stays.
LEMMA LoginLeavesPassword ==
  ASSUME OperatorsTyped, NEW p \in Logins, LoginNext(p)
  PROVE  /\ operator' \in Accounts
         /\ operator'.status = operator.status /\ operator'.secret = operator.secret
         /\ operator'.changedAt = operator.changedAt
         /\ operator'.inForceSince = operator.inForceSince
         /\ clock' = clock /\ command' = command
<1> USE DEF OperatorsTyped
<1>1. CASE FindOperator(p) \/ VerifyPassword(p) \/ SignSession(p) \/ LoginLost(p)
  BY <1>1 DEF FindOperator, VerifyPassword, SignSession, LoginLost
<1>2. CASE RestartCount(p)
  <2>1. CASE operator' = operator
    BY <1>2, <2>1 DEF RestartCount
  <2>2. CASE operator' = [operator EXCEPT !.failures = 1, !.lockedUntil = 0]
    BY <1>2, <2>2, CountSet DEF RestartCount
  <2> QED
    BY <1>2, <2>1, <2>2 DEF RestartCount
<1>3. CASE IncrementCount(p)
  BY <1>3, CountRaised DEF IncrementCount
<1>4. CASE SetLock(p)
  <2>1. login[p].now \in 0 .. MaxClock
    BY LoginFields
  <2> QED
    BY <1>4, <2>1, LockPut DEF SetLock
<1>5. CASE Release(p)
  <2>1. CASE operator' = operator
    BY <1>5, <2>1 DEF Release
  <2>2. CASE operator' = [operator EXCEPT !.failures = 0, !.lockedUntil = 0]
    BY <1>5, <2>2, CountSet DEF Release
  <2> QED
    BY <1>5, <2>1, <2>2 DEF Release
<1> QED
  BY <1>1, <1>2, <1>3, <1>4, <1>5 DEF LoginNext

-----------------------------------------------------------------------------
(* Types *)

LEMMA OperatorsTypedInit == OperatorsInit => OperatorsTyped
<1> SUFFICES ASSUME OperatorsInit PROVE OperatorsTyped
  OBVIOUS
<1>1. operator \in Accounts /\ login \in [Logins -> LoginStates]
      /\ command \in [Admins -> Commanded]
  BY Blanks DEF OperatorsInit
<1>2. session \in [iat : 0 .. MaxClock, secret : 0 .. MaxSecret, began : 0 .. MaxClock]
  BY Ranges DEF OperatorsInit, NoSession
<1>3. clock \in 1 .. MaxClock /\ guesses \in Nat
  BY Numbers DEF OperatorsInit
<1> QED
  BY <1>1, <1>2, <1>3 DEF OperatorsInit, OperatorsTyped

LEMMA OperatorsTypedStep ==
  ASSUME OperatorsTyped, [OperatorsNext]_operatorVars PROVE OperatorsTyped'
<1> USE Numbers DEF OperatorsTyped, history
<1>FindOperator. ASSUME NEW p \in Logins, FindOperator(p) PROVE OperatorsTyped'
  BY <1>FindOperator, Finds DEF FindOperator
<1>VerifyPassword. ASSUME NEW p \in Logins, VerifyPassword(p) PROVE OperatorsTyped'
  BY <1>VerifyPassword, Verifies DEF VerifyPassword
<1>RestartCount. ASSUME NEW p \in Logins, RestartCount(p) PROVE OperatorsTyped'
  <2>1. operator' \in Accounts
    BY <1>RestartCount, LoginLeavesPassword DEF LoginNext
  <2>2. login' \in [Logins -> LoginStates]
    BY <1>RestartCount, LoginMoves, Leaves DEF RestartCount
  <2>3. guesses' \in Nat
    BY <1>RestartCount DEF RestartCount
  <2>4. dropped' = FALSE \/ dropped' = dropped
    BY <1>RestartCount DEF RestartCount
  <2> QED
    BY <1>RestartCount, <2>1, <2>2, <2>3, <2>4 DEF RestartCount
<1>IncrementCount. ASSUME NEW p \in Logins, IncrementCount(p) PROVE OperatorsTyped'
  <2>1. operator' \in Accounts
    BY <1>IncrementCount, LoginLeavesPassword DEF LoginNext
  <2>2. login' \in [Logins -> LoginStates]
    BY <1>IncrementCount, LoginMoves, Leaves DEF IncrementCount
  <2>3. guesses' \in Nat
    BY <1>IncrementCount DEF IncrementCount
  <2>4. dropped' = FALSE \/ dropped' = dropped
    BY <1>IncrementCount DEF IncrementCount
  <2> QED
    BY <1>IncrementCount, <2>1, <2>2, <2>3, <2>4 DEF IncrementCount
<1>SetLock. ASSUME NEW p \in Logins, SetLock(p) PROVE OperatorsTyped'
  BY <1>SetLock, Leaves, LoginLeavesPassword DEF LoginNext, SetLock
<1>Release. ASSUME NEW p \in Logins, Release(p) PROVE OperatorsTyped'
  <2>1. operator' \in Accounts
    BY <1>Release, LoginLeavesPassword DEF LoginNext
  <2>2. login' \in [Logins -> LoginStates]
    BY <1>Release, LoginMoves, Leaves DEF Release
  <2>3. guesses' \in Nat
    BY <1>Release DEF Release
  <2>4. dropped' = FALSE \/ dropped' = dropped
    BY <1>Release DEF Release
  <2> QED
    BY <1>Release, <2>1, <2>2, <2>3, <2>4 DEF Release
<1>SignSession. ASSUME NEW p \in Logins, SignSession(p) PROVE OperatorsTyped'
  <2>1. login[p].typed \in 0 .. MaxSecret /\ login[p].began \in 0 .. MaxClock
    BY LoginFields
  <2> QED
    BY <1>SignSession, <2>1, Leaves DEF SignSession
<1>LoginLost. ASSUME NEW p \in Logins, LoginLost(p) PROVE OperatorsTyped'
  BY <1>LoginLost, Leaves DEF LoginLost
<1>FindAccount. ASSUME NEW a \in Admins, FindAccount(a) PROVE OperatorsTyped'
  BY <1>FindAccount, CommandFinds DEF FindAccount
<1>BeginTransaction. ASSUME NEW a \in Admins, BeginTransaction(a) PROVE OperatorsTyped'
  BY <1>BeginTransaction, CommandBegins DEF BeginTransaction
<1>EndsEarly. ASSUME NEW a \in Admins, EndsEarly(a) PROVE OperatorsTyped'
  BY <1>EndsEarly, CommandEnds DEF EndsEarly
<1>add. ASSUME NEW a \in Admins, add(a) PROVE OperatorsTyped'
  <2>1. command[a].now \in 0 .. MaxClock
    BY CommandFields
  <2>2. \/ operator' = operator
        \/ operator' = [NoOperator EXCEPT !.status = "ACTIVE", !.secret = 1,
                                          !.changedAt = command[a].now,
                                          !.inForceSince = clock]
    BY <1>add DEF add
  <2>3. operator' \in Accounts
    BY <2>1, <2>2, RowAdded
  <2> QED
    BY <1>add, <2>3, CommandEnds DEF add
<1>reset. ASSUME NEW a \in Admins, reset(a) PROVE OperatorsTyped'
  <2>1. command[a].now \in 0 .. MaxClock
    BY CommandFields
  <2>2. operator' \in Accounts
    BY <1>reset, <2>1, PasswordReset DEF reset
  <2> QED
    BY <1>reset, <2>2, CommandEnds DEF reset
<1>disable. ASSUME NEW a \in Admins, disable(a) PROVE OperatorsTyped'
  BY <1>disable, RowDisabled, CommandEnds DEF disable
<1>Tick. CASE Tick
  BY <1>Tick DEF Tick
<1>unchanged. CASE UNCHANGED operatorVars
  BY <1>unchanged DEF operatorVars
<1> QED
  BY <1>FindOperator, <1>VerifyPassword, <1>RestartCount, <1>IncrementCount, <1>SetLock,
     <1>Release, <1>SignSession, <1>FindAccount, <1>LoginLost, <1>BeginTransaction,
     <1>EndsEarly, <1>add, <1>reset, <1>disable, <1>Tick, <1>unchanged
  DEF OperatorsNext, LoginNext, CommandNext

-----------------------------------------------------------------------------
(* The parts of the invariant *)

LEMMA BeforeStep ==
  ASSUME OperatorsTyped, NothingBeforeTheAccount, [OperatorsNext]_operatorVars
  PROVE  NothingBeforeTheAccount'
<1> USE Numbers DEF OperatorsTyped, NothingBeforeTheAccount
<1>FindOperator. ASSUME NEW p \in Logins, FindOperator(p) PROVE NothingBeforeTheAccount'
  <2>1. operator' = operator /\ session' = session /\ command' = command
    BY <1>FindOperator DEF FindOperator
  <2>2. login'[p].at = "verify" /\ login'[p].row.status = operator.status
        /\ \A q \in Logins : q # p => login'[q] = login[q]
    BY <1>FindOperator, Finds
  <2> QED
    BY <2>1, <2>2
<1>VerifyPassword. ASSUME NEW p \in Logins, VerifyPassword(p)
      PROVE NothingBeforeTheAccount'
  <2>1. CASE login[p].row.status = "ABSENT"
    <3>1. login'[p] = NoLogin /\ \A q \in Logins : q # p => login'[q] = login[q]
      BY <1>VerifyPassword, <2>1, Verifies
    <3> QED
      BY <1>VerifyPassword, <3>1 DEF VerifyPassword, NoLogin
  <2>2. CASE login[p].row.status # "ABSENT"
    BY <1>VerifyPassword, <2>2 DEF VerifyPassword
  <2> QED
    BY <2>1, <2>2
<1>RestartCount. ASSUME NEW p \in Logins, RestartCount(p) PROVE NothingBeforeTheAccount'
  <2>1. operator.status # "ABSENT"
    BY <1>RestartCount DEF RestartCount
  <2> QED
    BY <1>RestartCount, <2>1, LoginLeavesPassword DEF LoginNext
<1>IncrementCount. ASSUME NEW p \in Logins, IncrementCount(p)
      PROVE NothingBeforeTheAccount'
  <2>1. operator.status # "ABSENT"
    BY <1>IncrementCount DEF IncrementCount
  <2> QED
    BY <1>IncrementCount, <2>1, LoginLeavesPassword DEF LoginNext
<1>SetLock. ASSUME NEW p \in Logins, SetLock(p) PROVE NothingBeforeTheAccount'
  <2>1. operator.status # "ABSENT"
    BY <1>SetLock DEF SetLock
  <2> QED
    BY <1>SetLock, <2>1, LoginLeavesPassword DEF LoginNext
<1>Release. ASSUME NEW p \in Logins, Release(p) PROVE NothingBeforeTheAccount'
  <2>1. operator.status # "ABSENT"
    BY <1>Release DEF Release
  <2> QED
    BY <1>Release, <2>1, LoginLeavesPassword DEF LoginNext
<1>SignSession. ASSUME NEW p \in Logins, SignSession(p) PROVE NothingBeforeTheAccount'
  <2>1. operator.status # "ABSENT"
    BY <1>SignSession DEF SignSession
  <2> QED
    BY <1>SignSession, <2>1, LoginLeavesPassword DEF LoginNext
<1>LoginLost. ASSUME NEW p \in Logins, LoginLost(p) PROVE NothingBeforeTheAccount'
  <2>1. operator' = operator /\ session' = session /\ command' = command
    BY <1>LoginLost DEF LoginLost
  <2>2. login'[p].at = "idle" /\ \A q \in Logins : q # p => login'[q] = login[q]
    BY <1>LoginLost, Leaves DEF LoginLost
  <2> QED
    BY <2>1, <2>2
<1>FindAccount. ASSUME NEW a \in Admins, FindAccount(a) PROVE NothingBeforeTheAccount'
  BY <1>FindAccount, CommandFinds DEF FindAccount
<1>BeginTransaction. ASSUME NEW a \in Admins, BeginTransaction(a)
      PROVE NothingBeforeTheAccount'
  BY <1>BeginTransaction, CommandBegins DEF BeginTransaction
<1>EndsEarly. ASSUME NEW a \in Admins, EndsEarly(a) PROVE NothingBeforeTheAccount'
  BY <1>EndsEarly, CommandEnds DEF EndsEarly
<1>add. ASSUME NEW a \in Admins, add(a) PROVE NothingBeforeTheAccount'
  <2>1. CASE operator.status # "ABSENT"
    BY <1>add, <2>1 DEF add
  <2>2. CASE operator.status = "ABSENT"
    <3>1. operator'.status = "ACTIVE" /\ operator'.secret = 1
      BY <1>add, <2>2, CommandFields, RowAdded DEF add
    <3> QED
      BY <3>1
  <2> QED
    BY <2>1, <2>2
<1>reset. ASSUME NEW a \in Admins, reset(a) PROVE NothingBeforeTheAccount'
  <2>1. operator.status # "ABSENT"
    BY <1>reset DEF reset
  <2>2. operator'.status = operator.status /\ operator'.secret = operator.secret + 1
    BY <1>reset, CommandFields, PasswordReset DEF reset
  <2>3. operator.secret \in 0 .. MaxSecret
    BY RowFields
  <2> QED
    BY <2>1, <2>2, <2>3
<1>disable. ASSUME NEW a \in Admins, disable(a) PROVE NothingBeforeTheAccount'
  BY <1>disable, RowDisabled DEF disable, Finished
<1>Tick. CASE Tick
  BY <1>Tick DEF Tick
<1>unchanged. CASE UNCHANGED operatorVars
  BY <1>unchanged DEF operatorVars
<1> QED
  BY <1>FindOperator, <1>VerifyPassword, <1>RestartCount, <1>IncrementCount, <1>SetLock,
     <1>Release, <1>SignSession, <1>FindAccount, <1>LoginLost, <1>BeginTransaction,
     <1>EndsEarly, <1>add, <1>reset, <1>disable, <1>Tick, <1>unchanged
  DEF OperatorsNext, LoginNext, CommandNext

LEMMA TimesStep ==
  ASSUME OperatorsTyped, TimesArePast, [OperatorsNext]_operatorVars PROVE TimesArePast'
<1> USE Numbers DEF OperatorsTyped, TimesArePast
<1>FindOperator. ASSUME NEW p \in Logins, FindOperator(p) PROVE TimesArePast'
  BY <1>FindOperator, Finds DEF FindOperator
<1>VerifyPassword. ASSUME NEW p \in Logins, VerifyPassword(p) PROVE TimesArePast'
  <2>1. operator' = operator /\ clock' = clock /\ session' = session /\ command' = command
    BY <1>VerifyPassword DEF VerifyPassword
  <2>2. login'[p].began <= clock /\ login'[p].now <= clock
    BY <1>VerifyPassword, Verifies DEF NoLogin
  <2>3. \A q \in Logins : q # p => login'[q] = login[q]
    BY <1>VerifyPassword, Verifies
  <2> QED
    BY <2>1, <2>2, <2>3
<1>RestartCount. ASSUME NEW p \in Logins, RestartCount(p) PROVE TimesArePast'
  <2>1. operator'.changedAt = operator.changedAt /\ clock' = clock
        /\ operator'.inForceSince = operator.inForceSince
        /\ session' = session /\ command' = command
    BY <1>RestartCount, LoginLeavesPassword DEF LoginNext, RestartCount
  <2>2. \A q \in Logins : login'[q].began <= clock /\ login'[q].now <= clock
    BY <1>RestartCount, LoginMoves, Leaves DEF RestartCount
  <2> QED
    BY <2>1, <2>2
<1>IncrementCount. ASSUME NEW p \in Logins, IncrementCount(p) PROVE TimesArePast'
  <2>1. operator'.changedAt = operator.changedAt /\ clock' = clock
        /\ operator'.inForceSince = operator.inForceSince
        /\ session' = session /\ command' = command
    BY <1>IncrementCount, LoginLeavesPassword DEF LoginNext, IncrementCount
  <2>2. \A q \in Logins : login'[q].began <= clock /\ login'[q].now <= clock
    BY <1>IncrementCount, LoginMoves, Leaves DEF IncrementCount
  <2> QED
    BY <2>1, <2>2
<1>SetLock. ASSUME NEW p \in Logins, SetLock(p) PROVE TimesArePast'
  <2>1. operator'.changedAt = operator.changedAt
        /\ operator'.inForceSince = operator.inForceSince
    BY <1>SetLock, LoginLeavesPassword DEF LoginNext
  <2> QED
    BY <1>SetLock, <2>1, Leaves DEF SetLock
<1>Release. ASSUME NEW p \in Logins, Release(p) PROVE TimesArePast'
  <2>1. operator'.changedAt = operator.changedAt /\ clock' = clock
        /\ operator'.inForceSince = operator.inForceSince
        /\ session' = session /\ command' = command
    BY <1>Release, LoginLeavesPassword DEF LoginNext, Release
  <2>2. \A q \in Logins : login'[q].began <= clock /\ login'[q].now <= clock
    BY <1>Release, LoginMoves, Leaves DEF Release
  <2> QED
    BY <2>1, <2>2
<1>SignSession. ASSUME NEW p \in Logins, SignSession(p) PROVE TimesArePast'
  BY <1>SignSession, Leaves DEF SignSession
<1>LoginLost. ASSUME NEW p \in Logins, LoginLost(p) PROVE TimesArePast'
  BY <1>LoginLost, Leaves DEF LoginLost
<1>FindAccount. ASSUME NEW a \in Admins, FindAccount(a) PROVE TimesArePast'
  <2>1. \A b \in Admins : command'[b].now <= clock
    BY <1>FindAccount, CommandFinds
  <2> QED
    BY <1>FindAccount, <2>1 DEF FindAccount
<1>BeginTransaction. ASSUME NEW a \in Admins, BeginTransaction(a) PROVE TimesArePast'
  <2>1. \A b \in Admins : command'[b].now <= clock
    BY <1>BeginTransaction, CommandBegins
  <2> QED
    BY <1>BeginTransaction, <2>1 DEF BeginTransaction
<1>finished. ASSUME NEW a \in Admins, Finished(a)
      PROVE \A b \in Admins : command'[b].now <= clock
  BY <1>finished, CommandEnds
<1>EndsEarly. ASSUME NEW a \in Admins, EndsEarly(a) PROVE TimesArePast'
  BY <1>EndsEarly, <1>finished DEF EndsEarly
<1>add. ASSUME NEW a \in Admins, add(a) PROVE TimesArePast'
  <2>1. command[a].now \in 0 .. MaxClock /\ command[a].now <= clock
    BY CommandFields
  <2>2. operator'.changedAt <= clock /\ operator'.inForceSince <= clock
    <3>1. CASE operator' = operator
      BY <3>1
    <3>2. CASE operator' = [NoOperator EXCEPT !.status = "ACTIVE", !.secret = 1,
                                             !.changedAt = command[a].now,
                                             !.inForceSince = clock]
      <4>1. operator'.changedAt = command[a].now /\ operator'.inForceSince = clock
        BY <2>1, <3>2, RowAdded
      <4> QED
        BY <2>1, <4>1
    <3> QED
      BY <1>add, <3>1, <3>2 DEF add
  <2> QED
    BY <1>add, <2>2, <1>finished DEF add
<1>reset. ASSUME NEW a \in Admins, reset(a) PROVE TimesArePast'
  <2>1. command[a].now \in 0 .. MaxClock /\ command[a].now <= clock
    BY CommandFields
  <2>2. operator'.changedAt = command[a].now /\ operator'.inForceSince = clock
    BY <1>reset, <2>1, PasswordReset DEF reset
  <2> QED
    BY <1>reset, <2>1, <2>2, <1>finished DEF reset
<1>disable. ASSUME NEW a \in Admins, disable(a) PROVE TimesArePast'
  <2>1. operator'.changedAt <= clock /\ operator'.inForceSince <= clock
    BY <1>disable, RowDisabled DEF disable
  <2> QED
    BY <1>disable, <2>1, <1>finished DEF disable
<1>Tick. CASE Tick
  <2>1. clock \in Nat /\ clock' = clock + 1
    BY <1>Tick DEF Tick
  <2>2. operator.changedAt \in Nat /\ operator.inForceSince \in Nat
        /\ session.began \in Nat /\ session.iat \in Nat
    BY RowFields
  <2>3. \A q \in Logins : login[q].began \in Nat /\ login[q].now \in Nat
    BY LoginFields
  <2>4. \A b \in Admins : command[b].now \in Nat
    BY CommandFields
  <2> QED
    BY <1>Tick, <2>1, <2>2, <2>3, <2>4 DEF Tick
<1>unchanged. CASE UNCHANGED operatorVars
  BY <1>unchanged DEF operatorVars
<1> QED
  BY <1>FindOperator, <1>VerifyPassword, <1>RestartCount, <1>IncrementCount, <1>SetLock,
     <1>Release, <1>SignSession, <1>FindAccount, <1>LoginLost, <1>BeginTransaction,
     <1>EndsEarly, <1>add, <1>reset, <1>disable, <1>Tick, <1>unchanged
  DEF OperatorsNext, LoginNext, CommandNext

LEMMA PasswordsStep ==
  ASSUME OperatorsTyped, NothingBeforeTheAccount, TimesArePast, PasswordsFollowTheRow,
         [OperatorsNext]_operatorVars
  PROVE  PasswordsFollowTheRow'
<1> USE Numbers DEF OperatorsTyped, PasswordsFollowTheRow
<1>FindOperator. ASSUME NEW p \in Logins, FindOperator(p) PROVE PasswordsFollowTheRow'
  <2>1. operator' = operator /\ session' = session
    BY <1>FindOperator DEF FindOperator
  <2> QED
    BY <1>FindOperator, <2>1, Finds, RowFields DEF NothingBeforeTheAccount
<1>VerifyPassword. ASSUME NEW p \in Logins, VerifyPassword(p)
      PROVE PasswordsFollowTheRow'
  <2>1. operator' = operator /\ session' = session
    BY <1>VerifyPassword DEF VerifyPassword
  <2> QED
    BY <1>VerifyPassword, <2>1, Verifies DEF NoLogin
<1>RestartCount. ASSUME NEW p \in Logins, RestartCount(p) PROVE PasswordsFollowTheRow'
  <2>1. operator'.secret = operator.secret /\ operator'.changedAt = operator.changedAt
        /\ operator'.inForceSince = operator.inForceSince
    BY <1>RestartCount, LoginLeavesPassword DEF LoginNext
  <2>2. session' = session
    BY <1>RestartCount DEF RestartCount
  <2> QED
    BY <1>RestartCount, <2>1, <2>2, LoginMoves, Leaves DEF RestartCount
<1>IncrementCount. ASSUME NEW p \in Logins, IncrementCount(p)
      PROVE PasswordsFollowTheRow'
  <2>1. operator'.secret = operator.secret /\ operator'.changedAt = operator.changedAt
        /\ operator'.inForceSince = operator.inForceSince
    BY <1>IncrementCount, LoginLeavesPassword DEF LoginNext
  <2>2. session' = session
    BY <1>IncrementCount DEF IncrementCount
  <2> QED
    BY <1>IncrementCount, <2>1, <2>2, LoginMoves, Leaves DEF IncrementCount
<1>SetLock. ASSUME NEW p \in Logins, SetLock(p) PROVE PasswordsFollowTheRow'
  <2>1. operator'.secret = operator.secret /\ operator'.changedAt = operator.changedAt
        /\ operator'.inForceSince = operator.inForceSince
    BY <1>SetLock, LoginLeavesPassword DEF LoginNext
  <2> QED
    BY <1>SetLock, <2>1, Leaves DEF SetLock
<1>Release. ASSUME NEW p \in Logins, Release(p) PROVE PasswordsFollowTheRow'
  <2>1. operator'.secret = operator.secret /\ operator'.changedAt = operator.changedAt
        /\ operator'.inForceSince = operator.inForceSince
    BY <1>Release, LoginLeavesPassword DEF LoginNext
  <2>2. session' = session
    BY <1>Release DEF Release
  <2> QED
    BY <1>Release, <2>1, <2>2, LoginMoves, Leaves DEF Release
<1>SignSession. ASSUME NEW p \in Logins, SignSession(p) PROVE PasswordsFollowTheRow'
  <2>1. operator' = operator
    BY <1>SignSession DEF SignSession
  <2> QED
    BY <1>SignSession, <2>1, Leaves DEF SignSession, TimesArePast
<1>LoginLost. ASSUME NEW p \in Logins, LoginLost(p) PROVE PasswordsFollowTheRow'
  <2>1. operator' = operator /\ session' = session
    BY <1>LoginLost DEF LoginLost
  <2> QED
    BY <1>LoginLost, <2>1, Leaves DEF LoginLost
<1>FindAccount. ASSUME NEW a \in Admins, FindAccount(a) PROVE PasswordsFollowTheRow'
  BY <1>FindAccount DEF FindAccount
<1>BeginTransaction. ASSUME NEW a \in Admins, BeginTransaction(a)
      PROVE PasswordsFollowTheRow'
  BY <1>BeginTransaction DEF BeginTransaction
<1>EndsEarly. ASSUME NEW a \in Admins, EndsEarly(a) PROVE PasswordsFollowTheRow'
  BY <1>EndsEarly DEF EndsEarly
<1>add. ASSUME NEW a \in Admins, add(a) PROVE PasswordsFollowTheRow'
  <2>1. CASE operator.status # "ABSENT"
    BY <1>add, <2>1 DEF add
  <2>2. CASE operator.status = "ABSENT"
    <3>1. operator.secret = 0 /\ session = NoSession
      BY <2>2 DEF NothingBeforeTheAccount, NoOperator
    <3>2. operator'.secret = 1 /\ login' = login /\ session' = session
      BY <1>add, <2>2, CommandFields, RowAdded DEF add
    <3>3. \A q \in Logins : login[q].at = "idle"
                           \/ (login[q].at = "verify" /\ login[q].row.status = "ABSENT")
      BY <2>2 DEF NothingBeforeTheAccount
    <3>4. \A q \in Logins : login[q].at = "verify" =>
               login[q].row.secret <= 1 /\ login[q].typed \in {0, login[q].row.secret}
      BY <3>1, LoginFields, RowFields
    <3> QED
      BY <3>1, <3>2, <3>3, <3>4
  <2> QED
    BY <2>1, <2>2
<1>reset. ASSUME NEW a \in Admins, reset(a) PROVE PasswordsFollowTheRow'
  <2>1. operator'.secret = operator.secret + 1 /\ operator'.inForceSince = clock
    BY <1>reset, CommandFields, PasswordReset DEF reset
  <2>2. login' = login /\ session' = session /\ operator.secret \in Nat
    BY <1>reset, RowFields DEF reset
  <2>3. session.secret \in Nat /\ clock \in Nat
    OBVIOUS
  <2>4. \A q \in Logins : login[q].typed \in Nat /\ login[q].row.secret \in Nat
    BY LoginFields, RowFields
  <2> QED
    BY <2>1, <2>2, <2>3, <2>4 DEF TimesArePast
<1>disable. ASSUME NEW a \in Admins, disable(a) PROVE PasswordsFollowTheRow'
  <2>1. operator'.secret = operator.secret /\ operator'.changedAt = operator.changedAt
        /\ operator'.inForceSince = operator.inForceSince
    BY <1>disable, RowDisabled DEF disable
  <2> QED
    BY <1>disable, <2>1 DEF disable
<1>Tick. CASE Tick
  BY <1>Tick DEF Tick
<1>unchanged. CASE UNCHANGED operatorVars
  BY <1>unchanged DEF operatorVars
<1> QED
  BY <1>FindOperator, <1>VerifyPassword, <1>RestartCount, <1>IncrementCount, <1>SetLock,
     <1>Release, <1>SignSession, <1>FindAccount, <1>LoginLost, <1>BeginTransaction,
     <1>EndsEarly, <1>add, <1>reset, <1>disable, <1>Tick, <1>unchanged
  DEF OperatorsNext, LoginNext, CommandNext

\* The history variable says what the count says.
LEMMA CountStep ==
  ASSUME OperatorsTyped, NothingBeforeTheAccount, guesses = operator.failures,
         [OperatorsNext]_operatorVars
  PROVE  guesses' = operator'.failures
<1> USE Numbers DEF OperatorsTyped, history
<1>FindOperator. ASSUME NEW p \in Logins, FindOperator(p)
      PROVE guesses' = operator'.failures
  BY <1>FindOperator DEF FindOperator, NothingBeforeTheAccount, NoOperator, Accounts
<1>VerifyPassword. ASSUME NEW p \in Logins, VerifyPassword(p)
      PROVE guesses' = operator'.failures
  BY <1>VerifyPassword DEF VerifyPassword, Answered, NothingBeforeTheAccount,
     NoOperator, Accounts
<1>RestartCount. ASSUME NEW p \in Logins, RestartCount(p)
      PROVE guesses' = operator'.failures
  BY <1>RestartCount DEF RestartCount, LockExpired, Answered, Reaches,
     NothingBeforeTheAccount, NoOperator, Accounts
<1>IncrementCount. ASSUME NEW p \in Logins, IncrementCount(p)
      PROVE guesses' = operator'.failures
  BY <1>IncrementCount DEF IncrementCount, BelowLimit, Answered, Reaches,
     NothingBeforeTheAccount, NoOperator, Accounts
<1>SetLock. ASSUME NEW p \in Logins, SetLock(p) PROVE guesses' = operator'.failures
  BY <1>SetLock DEF SetLock, Unlocked, Answered, NothingBeforeTheAccount, NoOperator,
     Accounts
<1>Release. ASSUME NEW p \in Logins, Release(p) PROVE guesses' = operator'.failures
  BY <1>Release DEF Release, Unlocked, Answered, Reaches, NothingBeforeTheAccount,
     NoOperator, Accounts
<1>SignSession. ASSUME NEW p \in Logins, SignSession(p)
      PROVE guesses' = operator'.failures
  BY <1>SignSession DEF SignSession, Answered, NothingBeforeTheAccount, NoOperator,
     Accounts
<1>FindAccount. ASSUME NEW a \in Admins, FindAccount(a)
      PROVE guesses' = operator'.failures
  BY <1>FindAccount DEF FindAccount, NothingBeforeTheAccount, NoOperator, Accounts
<1>LoginLost. ASSUME NEW p \in Logins, LoginLost(p) PROVE guesses' = operator'.failures
  BY <1>LoginLost DEF LoginLost
<1>BeginTransaction. ASSUME NEW a \in Admins, BeginTransaction(a)
      PROVE guesses' = operator'.failures
  BY <1>BeginTransaction DEF BeginTransaction
<1>EndsEarly. ASSUME NEW a \in Admins, EndsEarly(a) PROVE guesses' = operator'.failures
  BY <1>EndsEarly DEF EndsEarly
<1>add. ASSUME NEW a \in Admins, add(a) PROVE guesses' = operator'.failures
  BY <1>add DEF add, Finished, NothingBeforeTheAccount, NoOperator, Accounts
<1>reset. ASSUME NEW a \in Admins, reset(a) PROVE guesses' = operator'.failures
  BY <1>reset DEF reset, Finished, NothingBeforeTheAccount, NoOperator, Accounts
<1>disable. ASSUME NEW a \in Admins, disable(a) PROVE guesses' = operator'.failures
  BY <1>disable DEF disable, Finished, NothingBeforeTheAccount, NoOperator, Accounts
<1>Tick. CASE Tick
  BY <1>Tick DEF Tick, NothingBeforeTheAccount, NoOperator, Accounts
<1>unchanged. CASE UNCHANGED operatorVars
  BY <1>unchanged DEF operatorVars
<1> QED
  BY <1>FindOperator, <1>VerifyPassword, <1>RestartCount, <1>IncrementCount, <1>SetLock,
     <1>Release, <1>SignSession, <1>FindAccount, <1>LoginLost, <1>BeginTransaction,
     <1>EndsEarly, <1>add, <1>reset, <1>disable, <1>Tick, <1>unchanged
  DEF OperatorsNext, LoginNext, CommandNext

LEMMA FifthStep ==
  ASSUME OperatorsTyped, NothingBeforeTheAccount, guesses = operator.failures,
         FifthFailureLocks, [OperatorsNext]_operatorVars
  PROVE  FifthFailureLocks'
<1> USE Numbers DEF OperatorsTyped, FifthFailureLocks, history
<1>FindOperator. ASSUME NEW p \in Logins, FindOperator(p) PROVE FifthFailureLocks'
  BY <1>FindOperator DEF FindOperator, NothingBeforeTheAccount, NoOperator, NoLogin,
     Accounts, LoginStates
<1>VerifyPassword. ASSUME NEW p \in Logins, VerifyPassword(p) PROVE FifthFailureLocks'
  BY <1>VerifyPassword DEF VerifyPassword, Answered, NothingBeforeTheAccount,
     NoOperator, NoLogin, Accounts, LoginStates
<1>RestartCount. ASSUME NEW p \in Logins, RestartCount(p) PROVE FifthFailureLocks'
  BY <1>RestartCount DEF RestartCount, LockExpired, Answered, Reaches,
     NothingBeforeTheAccount, NoOperator, NoLogin, Accounts, LoginStates
<1>IncrementCount. ASSUME NEW p \in Logins, IncrementCount(p) PROVE FifthFailureLocks'
  BY <1>IncrementCount DEF IncrementCount, BelowLimit, Answered, Reaches,
     NothingBeforeTheAccount, NoOperator, NoLogin, Accounts, LoginStates
<1>SetLock. ASSUME NEW p \in Logins, SetLock(p) PROVE FifthFailureLocks'
  BY <1>SetLock DEF SetLock, Unlocked, Answered, NothingBeforeTheAccount, NoOperator,
     NoLogin, Accounts, LoginStates
<1>Release. ASSUME NEW p \in Logins, Release(p) PROVE FifthFailureLocks'
  BY <1>Release DEF Release, Unlocked, Answered, Reaches, NothingBeforeTheAccount,
     NoOperator, NoLogin, Accounts, LoginStates
<1>SignSession. ASSUME NEW p \in Logins, SignSession(p) PROVE FifthFailureLocks'
  BY <1>SignSession DEF SignSession, Answered, NothingBeforeTheAccount, NoOperator,
     NoLogin, Accounts, LoginStates
<1>FindAccount. ASSUME NEW a \in Admins, FindAccount(a) PROVE FifthFailureLocks'
  BY <1>FindAccount DEF FindAccount, NothingBeforeTheAccount, NoOperator, NoLogin,
     Accounts, LoginStates
<1>LoginLost. ASSUME NEW p \in Logins, LoginLost(p) PROVE FifthFailureLocks'
  <2>1. CASE login[p].at = "lock"
    BY <1>LoginLost, <2>1 DEF LoginLost
  <2>2. CASE login[p].at # "lock"
    <3>1. \A q \in Logins : q # p => login'[q] = login[q]
      BY <1>LoginLost, Leaves DEF LoginLost
    <3>2. guesses' = guesses /\ operator' = operator /\ dropped' = dropped
      BY <1>LoginLost, <2>2 DEF LoginLost
    <3> QED
      BY <2>2, <3>1, <3>2
  <2> QED
    BY <2>1, <2>2
<1>BeginTransaction. ASSUME NEW a \in Admins, BeginTransaction(a)
      PROVE FifthFailureLocks'
  BY <1>BeginTransaction DEF BeginTransaction
<1>EndsEarly. ASSUME NEW a \in Admins, EndsEarly(a) PROVE FifthFailureLocks'
  BY <1>EndsEarly DEF EndsEarly
<1>add. ASSUME NEW a \in Admins, add(a) PROVE FifthFailureLocks'
  BY <1>add DEF add, Finished, NothingBeforeTheAccount, NoOperator, NoLogin, Accounts,
     LoginStates
<1>reset. ASSUME NEW a \in Admins, reset(a) PROVE FifthFailureLocks'
  BY <1>reset DEF reset, Finished, NothingBeforeTheAccount, NoOperator, NoLogin,
     Accounts, LoginStates
<1>disable. ASSUME NEW a \in Admins, disable(a) PROVE FifthFailureLocks'
  BY <1>disable DEF disable, Finished, NothingBeforeTheAccount, NoOperator, NoLogin,
     Accounts, LoginStates
<1>Tick. CASE Tick
  BY <1>Tick DEF Tick, NothingBeforeTheAccount, NoOperator, NoLogin, Accounts,
     LoginStates
<1>unchanged. CASE UNCHANGED operatorVars
  BY <1>unchanged DEF operatorVars
<1> QED
  BY <1>FindOperator, <1>VerifyPassword, <1>RestartCount, <1>IncrementCount, <1>SetLock,
     <1>Release, <1>SignSession, <1>FindAccount, <1>LoginLost, <1>BeginTransaction,
     <1>EndsEarly, <1>add, <1>reset, <1>disable, <1>Tick, <1>unchanged
  DEF OperatorsNext, LoginNext, CommandNext

LEMMA OperatorsInvInit == OperatorsInit => OperatorsInv
<1> SUFFICES ASSUME OperatorsInit PROVE OperatorsInv
  OBVIOUS
<1>1. OperatorsTyped
  BY OperatorsTypedInit
<1>2. NothingBeforeTheAccount /\ PasswordsFollowTheRow
  BY DEF OperatorsInit, NothingBeforeTheAccount, PasswordsFollowTheRow, NoOperator,
     NoLogin, NoSession, NoCommand
<1>3. TimesArePast
  BY DEF OperatorsInit, TimesArePast, NoOperator, NoLogin, NoSession, NoCommand
<1>4. guesses = operator.failures /\ FifthFailureLocks
  BY Numbers DEF OperatorsInit, FifthFailureLocks, NoOperator
<1> QED
  BY <1>1, <1>2, <1>3, <1>4 DEF OperatorsInv

LEMMA OperatorsInvStep == OperatorsInv /\ [OperatorsNext]_operatorVars => OperatorsInv'
  BY OperatorsTypedStep, BeforeStep, TimesStep, PasswordsStep, CountStep,
     FifthStep DEF OperatorsInv

-----------------------------------------------------------------------------
(* Theorems about operator accounts *)

\* The invariant: types, the order of events, and the two counts.
THEOREM OperatorsInvHolds == OperatorsSpec => []OperatorsInv
  BY OperatorsInvInit, OperatorsInvStep, PTL DEF OperatorsSpec

\* The row, the clock and the labels keep their types.
THEOREM OperatorsTyping == OperatorsSpec => []OperatorsTypeOK
<1>1. OperatorsInv => OperatorsTypeOK
  BY LoginFields, CommandFields DEF OperatorsInv, OperatorsTyped, OperatorsTypeOK, Accounts
<1> QED
  BY <1>1, OperatorsInvHolds, PTL

\* MAX_FAILED_LOGINS wrong passwords lock the account, or one login is about
\* to lock it, however many verify passwords at once.
THEOREM FailuresLock == OperatorsSpec => []FifthFailureLocks
<1>1. OperatorsInv => FifthFailureLocks
  BY DEF OperatorsInv
<1> QED
  BY <1>1, OperatorsInvHolds, PTL

\* A password reset leaves no session opened with an old password, but for one
\* whose login was under way at the reset or over earlier in the second in which
\* the reset's transaction began; and it ends none opened with the new password.
THEOREM ResetEndsSessions == OperatorsSpec => []SessionsFollowThePassword
<1>1. ASSUME OperatorsInv PROVE SessionsFollowThePassword
  <2>1. operator.changedAt \in Nat /\ session.iat \in Nat
    BY <1>1, RowFields DEF OperatorsInv, OperatorsTyped
  <2> QED
    BY <1>1, <2>1
    DEF OperatorsInv, PasswordsFollowTheRow, SessionsFollowThePassword, Admitted,
        IssuedBeforePasswordChange
<1> QED
  BY <1>1, OperatorsInvHolds, PTL

\* A lock in force is not lifted or moved by any login; a reset, which gives
\* another password, lifts it.
THEOREM LocksStand == OperatorsSpec => LockHolds
<1>1. ASSUME OperatorsInv, [OperatorsNext]_operatorVars, operator.lockedUntil > clock
      PROVE  operator'.lockedUntil = operator.lockedUntil \/ operator'.secret # operator.secret
  <2> USE <1>1, Numbers DEF OperatorsInv, OperatorsTyped
  <2>1. \A p \in Logins : login[p].now \in Nat /\ login[p].now <= clock
    BY LoginFields DEF TimesArePast
  <2>2. operator.lockedUntil \in Nat /\ clock \in Nat /\ operator.secret \in Nat
    BY RowFields
  <2>3. ASSUME NEW p \in Logins, LoginNext(p)
      PROVE operator'.lockedUntil = operator.lockedUntil
    <3>1. CASE FindOperator(p) \/ VerifyPassword(p) \/ SignSession(p) \/ LoginLost(p)
      BY <3>1 DEF FindOperator, VerifyPassword, SignSession, LoginLost
    <3>2. CASE RestartCount(p)
      BY <2>1, <2>2, <3>2 DEF RestartCount, LockExpired
    <3>3. CASE IncrementCount(p)
      BY <3>3, CountRaised DEF IncrementCount
    <3>4. CASE SetLock(p)
      BY <2>1, <2>2, <3>4 DEF SetLock, Unlocked
    <3>5. CASE Release(p)
      BY <2>1, <2>2, <3>5 DEF Release, Unlocked
    <3> QED
      BY <2>3, <3>1, <3>2, <3>3, <3>4, <3>5 DEF LoginNext
  <2>4. ASSUME NEW a \in Admins, CommandNext(a)
        PROVE  operator'.lockedUntil = operator.lockedUntil \/ operator'.secret # operator.secret
    <3>1. CASE FindAccount(a) \/ BeginTransaction(a) \/ EndsEarly(a)
      BY <3>1 DEF FindAccount, BeginTransaction, EndsEarly
    <3>2. CASE add(a)
      <4>1. operator.status # "ABSENT"
        BY <2>2 DEF NothingBeforeTheAccount, NoOperator
      <4> QED
        BY <3>2, <4>1 DEF add
    <3>3. CASE reset(a)
      <4>1. command[a].now \in 0 .. MaxClock
        BY CommandFields
      <4>2. operator'.secret = operator.secret + 1
        BY <3>3, <4>1, PasswordReset DEF reset
      <4> QED
        BY <2>2, <4>2
    <3>4. CASE disable(a)
      BY <3>4, RowDisabled DEF disable
    <3> QED
      BY <2>4, <3>1, <3>2, <3>3, <3>4 DEF CommandNext
  <2>5. CASE Tick \/ UNCHANGED operatorVars
    BY <2>5 DEF Tick, operatorVars
  <2> QED
    BY <2>3, <2>4, <2>5 DEF OperatorsNext
<1> QED
  BY <1>1, OperatorsInvHolds, PTL DEF OperatorsSpec, LockHolds

-----------------------------------------------------------------------------
(* Learner sessions: what a step does to the request that takes it *)

\* The request's record is replaced, the others stay.
LEMMA TurnsTo ==
  ASSUME NEW m \in Nat, NEW n \in Nat, RowsNumbered(m, n), NEW p \in Handlers,
         NEW label \in HandlerLabels, NEW t \in 0 .. n, NEW i \in Nat, NEW d \in 0 .. n,
         Turns(p, [at |-> label, token |-> t, invitation |-> i, issued |-> d])
  PROVE  /\ handler' \in [Handlers ->
               [at : HandlerLabels, token : 0 .. n, invitation : Nat, issued : 0 .. n]]
         /\ handler'[p].at = label /\ handler'[p].token = t /\ handler'[p].issued = d
         /\ \A q \in Handlers : q # p => handler'[q] = handler[q]
<1> DEFINE l == [at |-> label, token |-> t, invitation |-> i, issued |-> d]
<1>1. /\ l \in [at : HandlerLabels, token : 0 .. n, invitation : Nat, issued : 0 .. n]
      /\ l.at = label /\ l.token = t /\ l.issued = d
  OBVIOUS
<1>2. handler' = [handler EXCEPT ![p] = l]
  BY DEF Turns
<1> HIDE DEF l
<1>3. handler'[p] = l /\ \A q \in Handlers : q # p => handler'[q] = handler[q]
  BY <1>2 DEF RowsNumbered
<1> QED
  BY <1>1, <1>2, <1>3 DEF RowsNumbered

LEMMA RequestFields ==
  ASSUME NEW m \in Nat, NEW n \in Nat, RowsNumbered(m, n), NEW p \in Handlers
  PROVE  /\ handler[p].at \in HandlerLabels /\ handler[p].token \in 0 .. n
         /\ handler[p].invitation \in Nat /\ handler[p].issued \in 0 .. n
  BY DEF RowsNumbered

LEMMA TokenFields ==
  ASSUME NEW m \in Nat, NEW n \in Nat, RowsNumbered(m, n)
  PROVE  /\ Tokens = 1 .. n /\ DOMAIN invitations = 1 .. m
         /\ NextId = n + 1 /\ Cardinality(DOMAIN invitations) + 1 = m + 1
         /\ \A t \in 1 .. n : /\ tokens[t].revoked \in BOOLEAN /\ tokens[t].signIn \in 1 .. n
                              /\ tokens[t].replacedBy \in 0 .. n
         /\ NextId \notin Tokens
<1>1. Tokens = 1 .. n /\ DOMAIN invitations = 1 .. m
  BY DEF RowsNumbered, Tokens
<1>2. Cardinality(1 .. n) = n /\ Cardinality(1 .. m) = m
  BY FS_Interval
<1>3. NextId = n + 1 /\ NextId \notin 1 .. n
  BY <1>1, <1>2 DEF NextId
<1>4. \A t \in 1 .. n : /\ tokens[t].revoked \in BOOLEAN /\ tokens[t].signIn \in 1 .. n
                        /\ tokens[t].replacedBy \in 0 .. n
  BY DEF RowsNumbered
<1> QED
  BY <1>1, <1>2, <1>3, <1>4

\* The records the steps write, field by field.
LEMMA WithToken ==
  ASSUME NEW label, NEW t
  PROVE  [Free EXCEPT !.at = label, !.token = t]
            = [at |-> label, token |-> t, invitation |-> 0, issued |-> 0]
<1>1. [Free EXCEPT !.at = label] = [at |-> label, token |-> 0, invitation |-> 0, issued |-> 0]
  BY DEF Free
<1>2. [[at |-> label, token |-> 0, invitation |-> 0, issued |-> 0] EXCEPT !.token = t]
         = [at |-> label, token |-> t, invitation |-> 0, issued |-> 0]
  OBVIOUS
<1>3. [Free EXCEPT !.at = label, !.token = t] = [[Free EXCEPT !.at = label] EXCEPT !.token = t]
  OBVIOUS
<1> QED
  BY <1>1, <1>2, <1>3

LEMMA WithInvitation ==
  ASSUME NEW label, NEW i
  PROVE  [Free EXCEPT !.at = label, !.invitation = i]
            = [at |-> label, token |-> 0, invitation |-> i, issued |-> 0]
<1>1. [Free EXCEPT !.at = label] = [at |-> label, token |-> 0, invitation |-> 0, issued |-> 0]
  BY DEF Free
<1>2. [[at |-> label, token |-> 0, invitation |-> 0, issued |-> 0] EXCEPT !.invitation = i]
         = [at |-> label, token |-> 0, invitation |-> i, issued |-> 0]
  OBVIOUS
<1>3. [Free EXCEPT !.at = label, !.invitation = i]
         = [[Free EXCEPT !.at = label] EXCEPT !.invitation = i]
  OBVIOUS
<1> QED
  BY <1>1, <1>2, <1>3

LEMMA Labels ==
  {"free", "invite", "password", "accept", "issue", "family", "rotate", "logout"} = HandlerLabels
  BY DEF HandlerLabels

\* A request that has ended holds no token.
LEMMA HandlerEnds ==
  ASSUME NEW m \in Nat, NEW n \in Nat, RowsNumbered(m, n), NEW p \in Handlers, Frees(p)
  PROVE  /\ handler' \in [Handlers ->
               [at : HandlerLabels, token : 0 .. n, invitation : Nat, issued : 0 .. n]]
         /\ handler'[p].at = "free" /\ handler'[p].token = 0 /\ handler'[p].issued = 0
         /\ \A q \in Handlers : q # p => handler'[q] = handler[q]
<1>1. "free" \in HandlerLabels /\ 0 \in 0 .. n /\ 0 \in Nat
  BY Labels
<1>2. Turns(p, [at |-> "free", token |-> 0, invitation |-> 0, issued |-> 0])
  BY DEF Frees, Free
<1> QED
  BY <1>1, <1>2, TurnsTo

LEMMA UpsertUserTurns ==
  ASSUME NEW m \in Nat, NEW n \in Nat, RowsNumbered(m, n), NEW p \in Handlers, UpsertUser(p)
  PROVE  /\ handler' \in [Handlers ->
               [at : HandlerLabels, token : 0 .. n, invitation : Nat, issued : 0 .. n]]
         /\ handler'[p].at = "invite" /\ handler'[p].token = 0
         /\ \A q \in Handlers : q # p => handler'[q] = handler[q]
<1>1. "invite" \in HandlerLabels /\ 0 \in 0 .. n /\ 0 \in Nat
  BY Labels
<1>2. Turns(p, [at |-> "invite", token |-> 0, invitation |-> 0, issued |-> 0])
  BY DEF UpsertUser, Free
<1> QED
  BY <1>1, <1>2, TurnsTo

LEMMA MarkAcceptedTurns ==
  ASSUME NEW m \in Nat, NEW n \in Nat, RowsNumbered(m, n), NEW p \in Handlers, MarkAccepted(p)
  PROVE  /\ handler' \in [Handlers ->
               [at : HandlerLabels, token : 0 .. n, invitation : Nat, issued : 0 .. n]]
         /\ handler'[p].at = "issue" /\ handler'[p].token = 0
         /\ \A q \in Handlers : q # p => handler'[q] = handler[q]
<1>1. "issue" \in HandlerLabels /\ 0 \in 0 .. n /\ 0 \in Nat
  BY Labels
<1>2. Turns(p, [at |-> "issue", token |-> 0, invitation |-> 0, issued |-> 0])
  BY DEF MarkAccepted, Free
<1> QED
  BY <1>1, <1>2, TurnsTo

LEMMA CheckPasswordTurns ==
  ASSUME NEW m \in Nat, NEW n \in Nat, RowsNumbered(m, n), NEW p \in Handlers, CheckPassword(p)
  PROVE  /\ handler' \in [Handlers ->
               [at : HandlerLabels, token : 0 .. n, invitation : Nat, issued : 0 .. n]]
         /\ handler'[p].at = "issue" /\ handler'[p].token = 0
         /\ \A q \in Handlers : q # p => handler'[q] = handler[q]
<1>1. "issue" \in HandlerLabels /\ 0 \in 0 .. n /\ 0 \in Nat
  BY Labels
<1>2. Turns(p, [at |-> "issue", token |-> 0, invitation |-> 0, issued |-> 0])
  BY DEF CheckPassword, Free
<1> QED
  BY <1>1, <1>2, TurnsTo

LEMMA FindInvitationTurns ==
  ASSUME NEW m \in Nat, NEW n \in Nat, RowsNumbered(m, n), NEW p \in Handlers, FindInvitation(p)
  PROVE  /\ handler' \in [Handlers ->
               [at : HandlerLabels, token : 0 .. n, invitation : Nat, issued : 0 .. n]]
         /\ handler'[p].at = "password" /\ handler'[p].token = 0
         /\ \A q \in Handlers : q # p => handler'[q] = handler[q]
<1>1. PICK i \in DOMAIN invitations : Turns(p, [Free EXCEPT !.at = "password", !.invitation = i])
  BY DEF FindInvitation
<1>2. "password" \in HandlerLabels /\ 0 \in 0 .. n /\ i \in Nat
  BY Labels, TokenFields
<1>3. Turns(p, [at |-> "password", token |-> 0, invitation |-> i, issued |-> 0])
  BY <1>1, WithInvitation
<1> QED
  BY <1>2, <1>3, TurnsTo

LEMMA SetPasswordTurns ==
  ASSUME NEW m \in Nat, NEW n \in Nat, RowsNumbered(m, n), NEW p \in Handlers, SetPassword(p)
  PROVE  /\ handler' \in [Handlers ->
               [at : HandlerLabels, token : 0 .. n, invitation : Nat, issued : 0 .. n]]
         /\ handler'[p].at = "accept" /\ handler'[p].token = handler[p].token
         /\ \A q \in Handlers : q # p => handler'[q] = handler[q]
<1> DEFINE h == handler[p]
<1>1. /\ "accept" \in HandlerLabels /\ h.token \in 0 .. n
      /\ h.invitation \in Nat /\ h.issued \in 0 .. n
  BY Labels, RequestFields
<1>2. Turns(p, [at |-> "accept", token |-> h.token, invitation |-> h.invitation,
                issued |-> h.issued])
  <2>1. h \in [at : HandlerLabels, token : 0 .. n, invitation : Nat, issued : 0 .. n]
    BY DEF RowsNumbered
  <2>2. [h EXCEPT !.at = "accept"]
          = [at |-> "accept", token |-> h.token, invitation |-> h.invitation, issued |-> h.issued]
    BY <2>1
  <2> QED
    BY <2>2 DEF SetPassword
<1> QED
  BY <1>1, <1>2, TurnsTo

\* What a refresh finds: a spent token, an expired one, or one to rotate.
LEMMA FindTokenTurns ==
  ASSUME NEW m \in Nat, NEW n \in Nat, RowsNumbered(m, n), NEW p \in Handlers, FindToken(p)
  PROVE  \E t \in Tokens :
         /\ handler' \in [Handlers ->
               [at : HandlerLabels, token : 0 .. n, invitation : Nat, issued : 0 .. n]]
         /\ \A q \in Handlers : q # p => handler'[q] = handler[q]
         /\ On(p, "free") /\ SentOut(t)
         /\ \/ handler'[p].at = "family" /\ handler'[p].token = t
            \/ handler'[p].at = "free" /\ handler'[p].token = 0
            \/ ~Spent(t) /\ handler'[p].at = "issue" /\ handler'[p].token = t
         /\ overlapped' = IF RefreshesOf(t) = {} THEN overlapped
                          ELSE overlapped \cup {tokens[t].signIn}
         /\ UNCHANGED <<user, invitations, tokens, stranded, ended>>
<1>1. PICK t \in Tokens :
        /\ On(p, "free") /\ SentOut(t)
        /\ \/ Spent(t) /\ Turns(p, [Free EXCEPT !.at = "family", !.token = t])
           \/ ~Spent(t) /\ Frees(p)
           \/ ~Spent(t) /\ Turns(p, [Free EXCEPT !.at = "issue", !.token = t])
        /\ overlapped' = IF RefreshesOf(t) = {} THEN overlapped
                         ELSE overlapped \cup {tokens[t].signIn}
        /\ UNCHANGED <<user, invitations, tokens, stranded, ended>>
  BY DEF FindToken
<1> HIDE DEF Spent, SentOut, On, RefreshesOf
<1>2. {"family", "issue"} \subseteq HandlerLabels /\ 0 \in 0 .. n /\ 0 \in Nat /\ t \in 0 .. n
  BY Labels, TokenFields
<1>3. CASE Turns(p, [Free EXCEPT !.at = "family", !.token = t])
  <2>1. Turns(p, [at |-> "family", token |-> t, invitation |-> 0, issued |-> 0])
    BY <1>3, WithToken
  <2>2. /\ handler' \in [Handlers ->
              [at : HandlerLabels, token : 0 .. n, invitation : Nat, issued : 0 .. n]]
        /\ handler'[p].at = "family" /\ handler'[p].token = t
        /\ \A q \in Handlers : q # p => handler'[q] = handler[q]
    BY <1>2, <2>1, TurnsTo
  <2> QED
    BY <1>1, <2>2
<1>4. CASE Frees(p)
  BY <1>1, <1>4, HandlerEnds
<1>5. CASE ~Spent(t) /\ Turns(p, [Free EXCEPT !.at = "issue", !.token = t])
  <2>1. Turns(p, [at |-> "issue", token |-> t, invitation |-> 0, issued |-> 0])
    BY <1>5, WithToken
  <2>2. /\ handler' \in [Handlers ->
              [at : HandlerLabels, token : 0 .. n, invitation : Nat, issued : 0 .. n]]
        /\ handler'[p].at = "issue" /\ handler'[p].token = t
        /\ \A q \in Handlers : q # p => handler'[q] = handler[q]
    BY <1>2, <2>1, TurnsTo
  <2> QED
    BY <1>1, <1>5, <2>2
<1> QED
  BY <1>1, <1>3, <1>4, <1>5

LEMMA FindTokenForLogoutTurns ==
  ASSUME NEW m \in Nat, NEW n \in Nat, RowsNumbered(m, n), NEW p \in Handlers,
         FindTokenForLogout(p)
  PROVE  \E t \in Tokens :
         /\ handler' \in [Handlers ->
               [at : HandlerLabels, token : 0 .. n, invitation : Nat, issued : 0 .. n]]
         /\ \A q \in Handlers : q # p => handler'[q] = handler[q]
         /\ On(p, "free")
         /\ \/ handler'[p].at = "free" /\ handler'[p].token = 0
            \/ handler'[p].at = "logout" /\ handler'[p].token = t
         /\ UNCHANGED <<user, invitations, tokens, overlapped, stranded, ended>>
<1>1. PICK t \in Tokens :
        /\ On(p, "free")
        /\ Frees(p) \/ Turns(p, [Free EXCEPT !.at = "logout", !.token = t])
        /\ UNCHANGED <<user, invitations, tokens, overlapped, stranded, ended>>
  BY DEF FindTokenForLogout, sessionHistory
<1>2. "logout" \in HandlerLabels /\ 0 \in 0 .. n /\ 0 \in Nat /\ t \in 0 .. n
  BY Labels, TokenFields
<1>3. CASE Frees(p)
  BY <1>1, <1>3, HandlerEnds
<1>4. CASE Turns(p, [Free EXCEPT !.at = "logout", !.token = t])
  <2>1. Turns(p, [at |-> "logout", token |-> t, invitation |-> 0, issued |-> 0])
    BY <1>4, WithToken
  <2>2. /\ handler' \in [Handlers ->
              [at : HandlerLabels, token : 0 .. n, invitation : Nat, issued : 0 .. n]]
        /\ handler'[p].at = "logout" /\ handler'[p].token = t
        /\ \A q \in Handlers : q # p => handler'[q] = handler[q]
    BY <1>2, <2>1, TurnsTo
  <2> QED
    BY <1>1, <2>2
<1> QED
  BY <1>1, <1>3, <1>4

\* The token issued continues the sign-in of the one it replaces, or starts one.
LEMMA TokenIssued ==
  ASSUME NEW m \in Nat, NEW n \in Nat, RowsNumbered(m, n), NEW p \in Handlers,
         issueTokensWithId(p)
  PROVE  /\ tokens' \in [1 .. n + 1 ->
               [revoked : BOOLEAN, replacedBy : 0 .. n + 1, signIn : 1 .. n + 1]]
         /\ handler' \in [Handlers ->
               [at : HandlerLabels, token : 0 .. n + 1, invitation : Nat, issued : 0 .. n + 1]]
         /\ tokens'[n + 1].revoked = FALSE
         /\ tokens'[n + 1].signIn =
               (IF handler[p].token = 0 THEN n + 1 ELSE tokens[handler[p].token].signIn)
         /\ \A t \in 1 .. n : tokens'[t] = tokens[t]
         /\ \A q \in Handlers : q # p => handler'[q] = handler[q]
         /\ IF handler[p].token = 0 THEN handler'[p].at = "free" /\ handler'[p].token = 0
            ELSE /\ handler'[p].at = "rotate" /\ handler'[p].token = handler[p].token
                 /\ handler'[p].issued = n + 1
         /\ UNCHANGED <<user, invitations, overlapped, stranded, ended>>
<1> DEFINE old == handler[p].token
           signIn == IF old = 0 THEN n + 1 ELSE tokens[old].signIn
           row == [revoked |-> FALSE, replacedBy |-> 0, signIn |-> signIn]
           S == [revoked : BOOLEAN, replacedBy : 0 .. n + 1, signIn : 1 .. n + 1]
           H == [at : HandlerLabels, token : 0 .. n + 1, invitation : Nat, issued : 0 .. n + 1]
<1>1. /\ tokens' = With(tokens, n + 1, row)
      /\ UNCHANGED <<user, invitations, overlapped, stranded, ended>>
      /\ IF old = 0 THEN Frees(p) ELSE Turns(p, [handler[p] EXCEPT !.at = "rotate",
                                                                   !.issued = n + 1])
  BY TokenFields DEF issueTokensWithId, NewToken, sessionHistory
<1>2. old \in 0 .. n
  BY RequestFields
<1>3. signIn \in 1 .. n + 1
  BY <1>2, TokenFields
<1>4. row \in S /\ row.revoked = FALSE /\ row.signIn = signIn
  BY <1>3
<1>5. \A t \in 1 .. n : tokens[t] \in S
  <2> TAKE t \in 1 .. n
  <2>1. tokens[t] \in [revoked : BOOLEAN, replacedBy : 0 .. n, signIn : 1 .. n]
    BY DEF RowsNumbered
  <2> QED
    BY <2>1
<1> HIDE DEF row, S
<1>6. tokens' = [k \in 1 .. n + 1 |-> IF k = n + 1 THEN row ELSE tokens[k]]
  <2>1. DOMAIN tokens \cup {n + 1} = 1 .. n + 1
    BY TokenFields DEF Tokens
  <2> QED
    BY <1>1, <2>1 DEF With
<1>7. /\ tokens' \in [1 .. n + 1 -> S] /\ tokens'[n + 1] = row
      /\ \A t \in 1 .. n : tokens'[t] = tokens[t]
  <2>1. /\ n + 1 \in 1 .. n + 1 /\ n + 1 \notin 1 .. n
        /\ \A k \in 1 .. n + 1 : k # n + 1 => k \in 1 .. n
        /\ \A k \in 1 .. n : k \in 1 .. n + 1
    OBVIOUS
  <2> QED
    BY <1>4, <1>5, <1>6, <2>1
<1>8. /\ handler' \in [Handlers -> H]
      /\ \A q \in Handlers : q # p => handler'[q] = handler[q]
      /\ IF old = 0 THEN handler'[p].at = "free" /\ handler'[p].token = 0
         ELSE handler'[p].at = "rotate" /\ handler'[p].token = old /\ handler'[p].issued = n + 1
  <2>1. \A q \in Handlers : handler[q] \in H
    <3> TAKE q \in Handlers
    <3>1. handler[q] \in [at : HandlerLabels, token : 0 .. n, invitation : Nat, issued : 0 .. n]
      BY DEF RowsNumbered
    <3> QED
      BY <3>1
  <2>2. CASE old = 0
    <3>1. Free \in H /\ Free.at = "free" /\ Free.token = 0
      BY Labels DEF Free
    <3>2. handler' = [handler EXCEPT ![p] = Free]
      BY <1>1, <2>2 DEF Frees, Turns
    <3>3. handler \in [Handlers -> H]
      BY <2>1 DEF RowsNumbered
    <3> HIDE DEF H
    <3> QED
      BY <2>2, <3>1, <3>2, <3>3
  <2>3. CASE old # 0
    <3> DEFINE h == [handler[p] EXCEPT !.at = "rotate", !.issued = n + 1]
    <3>1. h \in H /\ h.at = "rotate" /\ h.token = old /\ h.issued = n + 1
      <4>1. handler[p] \in H /\ "rotate" \in HandlerLabels /\ n + 1 \in 0 .. n + 1
        BY <2>1, Labels
      <4> QED
        BY <4>1
    <3>2. handler' = [handler EXCEPT ![p] = h]
      BY <1>1, <2>3 DEF Turns
    <3>3. handler \in [Handlers -> H]
      BY <2>1 DEF RowsNumbered
    <3> HIDE DEF H, h
    <3> QED
      BY <2>3, <3>1, <3>2, <3>3
  <2> QED
    BY <2>2, <2>3
<1> QED
  BY <1>1, <1>4, <1>7, <1>8 DEF S

\* A rotation and a logout have found a token, and so has a replay; a rotation
\* has issued one too.
LEMMA Working ==
  ASSUME IssuedToTheActive, NEW p \in Handlers
  PROVE  /\ RevokeFamily(p) \/ Rotate(p) \/ RevokeForLogout(p) => handler[p].token \in Tokens
         /\ On(p, "rotate") => handler[p].token \in Tokens /\ handler[p].issued \in Tokens
  BY DEF IssuedToTheActive, RevokeFamily, Rotate, RevokeForLogout, On

\* A revocation leaves the rest of the rows as they are.
LEMMA Revokes ==
  ASSUME NEW m \in Nat, NEW n \in Nat, RowsNumbered(m, n), IssuedToTheActive,
         NEW p \in Handlers, RevokeFamily(p) \/ Rotate(p) \/ RevokeForLogout(p)
  PROVE  /\ tokens' \in [1 .. n -> [revoked : BOOLEAN, replacedBy : 0 .. n, signIn : 1 .. n]]
         /\ \A t \in Tokens : /\ tokens'[t].signIn = tokens[t].signIn
                              /\ tokens'[t].revoked =
                                    (tokens[t].revoked \/ t = handler[p].token \/ RevokeFamily(p))
         /\ handler' \in [Handlers ->
               [at : HandlerLabels, token : 0 .. n, invitation : Nat, issued : 0 .. n]]
         /\ handler'[p].at = "free" /\ handler'[p].token = 0
         /\ \A q \in Handlers : q # p => handler'[q] = handler[q]
         /\ UNCHANGED <<user, invitations, overlapped, stranded>>
         /\ ended' = IF RevokeFamily(p) THEN ended \cup Endable ELSE ended
<1> DEFINE S == [revoked : BOOLEAN, replacedBy : 0 .. n, signIn : 1 .. n]
           u == handler[p].token
<1>1. Frees(p) /\ UNCHANGED <<user, invitations, overlapped, stranded>>
  BY DEF RevokeFamily, Rotate, RevokeForLogout, sessionHistory
<1>2. /\ handler' \in [Handlers ->
              [at : HandlerLabels, token : 0 .. n, invitation : Nat, issued : 0 .. n]]
      /\ handler'[p].at = "free" /\ handler'[p].token = 0
      /\ \A q \in Handlers : q # p => handler'[q] = handler[q]
  BY <1>1, HandlerEnds
<1>3. tokens \in [1 .. n -> S] /\ Tokens = 1 .. n /\ u \in Tokens /\ handler[p].issued \in 0 .. n
  BY TokenFields, RequestFields, Working DEF RowsNumbered
<1>4. \A t \in Tokens : /\ tokens[t] \in S
                        /\ [tokens[t] EXCEPT !.revoked = TRUE] \in S
                        /\ [tokens[t] EXCEPT !.revoked = TRUE].signIn = tokens[t].signIn
                        /\ [tokens[t] EXCEPT !.revoked = TRUE].revoked = TRUE
                        /\ tokens[t].revoked \in BOOLEAN
  <2> TAKE t \in Tokens
  <2>1. tokens[t] \in S
    BY <1>3
  <2> QED
    BY <2>1
<1>5. CASE RevokeFamily(p)
  <2>1. tokens' = [t \in Tokens |-> [tokens[t] EXCEPT !.revoked = TRUE]]
    BY <1>5 DEF RevokeFamily, Family
  <2>2. tokens' \in [1 .. n -> S]
    BY <1>3, <1>4, <2>1
  <2>3. \A t \in Tokens : tokens'[t] = [tokens[t] EXCEPT !.revoked = TRUE]
    BY <2>1
  <2>4. ended' = ended \cup Endable
    BY <1>5 DEF RevokeFamily
  <2> QED
    BY <1>1, <1>2, <1>4, <1>5, <2>2, <2>3, <2>4
<1>6. CASE ~RevokeFamily(p)
  <2>1. PICK new \in S :
          /\ new.signIn = tokens[u].signIn /\ new.revoked = TRUE
          /\ tokens' = [tokens EXCEPT ![u] = new]
    <3>1. CASE Rotate(p)
      <4> DEFINE r == [[tokens[u] EXCEPT !.revoked = TRUE] EXCEPT !.replacedBy = handler[p].issued]
      <4>1. r \in S /\ r.signIn = tokens[u].signIn /\ r.revoked = TRUE
        BY <1>3, <1>4
      <4>2. tokens' = [tokens EXCEPT ![u] = r]
        BY <1>3, <3>1 DEF Rotate
      <4> HIDE DEF r
      <4> QED
        BY <4>1, <4>2
    <3>2. CASE RevokeForLogout(p)
      <4>1. tokens' = [tokens EXCEPT ![u] = [tokens[u] EXCEPT !.revoked = TRUE]]
        BY <3>2 DEF RevokeForLogout
      <4> QED
        BY <1>3, <1>4, <4>1
    <3> QED
      BY <1>6, <3>1, <3>2
  <2>2. tokens' \in [1 .. n -> S] /\ \A t \in Tokens : tokens'[t] = IF t = u THEN new ELSE tokens[t]
    BY <1>3, <2>1
  <2>3. ended' = ended
    BY <1>6 DEF Rotate, RevokeForLogout, sessionHistory
  <2>4. \A t \in Tokens : /\ tokens'[t].signIn = tokens[t].signIn
                           /\ tokens'[t].revoked = (tokens[t].revoked \/ t = u)
    <3> TAKE t \in Tokens
    <3>1. CASE t = u
      BY <2>1, <2>2, <3>1
    <3>2. CASE t # u
      BY <1>4, <2>2, <3>2
    <3> QED
      BY <3>1, <3>2
  <2> QED
    BY <1>1, <1>2, <1>6, <2>2, <2>3, <2>4
<1> QED
  BY <1>5, <1>6

\* The other requests: they touch no token and hold none to replace.
LEMMA Quiet ==
  ASSUME NEW m \in Nat, NEW n \in Nat, RowsNumbered(m, n), NEW p \in Handlers,
         \/ UpsertUser(p) \/ CreateInvitation(p) \/ FindInvitation(p) \/ SetPassword(p)
         \/ MarkAccepted(p) \/ CheckPassword(p) \/ FindTokenForLogout(p)
  PROVE  /\ UNCHANGED <<tokens, overlapped, stranded, ended>> /\ Tokens' = Tokens
         /\ handler[p].at # "rotate"
         /\ handler'[p].at # "rotate" /\ (handler'[p].at # "issue" \/ handler'[p].token = 0)
         /\ handler' \in [Handlers ->
               [at : HandlerLabels, token : 0 .. n, invitation : Nat, issued : 0 .. n]]
         /\ \A q \in Handlers : q # p => handler'[q] = handler[q]
<1> USE DEF On, Tokens, sessionHistory
<1>1. CASE UpsertUser(p)
  BY <1>1, UpsertUserTurns DEF UpsertUser
<1>2. CASE CreateInvitation(p)
  BY <1>2, HandlerEnds DEF CreateInvitation
<1>3. CASE FindInvitation(p)
  BY <1>3, FindInvitationTurns DEF FindInvitation
<1>4. CASE SetPassword(p)
  BY <1>4, SetPasswordTurns DEF SetPassword
<1>5. CASE MarkAccepted(p)
  BY <1>5, MarkAcceptedTurns DEF MarkAccepted
<1>6. CASE CheckPassword(p)
  BY <1>6, CheckPasswordTurns DEF CheckPassword
<1>7. CASE FindTokenForLogout(p)
  BY <1>7, FindTokenForLogoutTurns
<1> QED
  BY <1>1, <1>2, <1>3, <1>4, <1>5, <1>6, <1>7

\* A request that is lost strands the token it had issued, if it had.
LEMMA Strands ==
  ASSUME NEW m \in Nat, NEW n \in Nat, RowsNumbered(m, n), IssuedToTheActive,
         NEW p \in Handlers, HandlerLost(p)
  PROVE  /\ UNCHANGED <<user, invitations, tokens, overlapped, ended>> /\ Tokens' = Tokens
         /\ handler' \in [Handlers ->
               [at : HandlerLabels, token : 0 .. n, invitation : Nat, issued : 0 .. n]]
         /\ handler'[p].at = "free"
         /\ \A q \in Handlers : q # p => handler'[q] = handler[q]
         /\ stranded \subseteq stranded' /\ stranded' \subseteq 1 .. n
         /\ On(p, "rotate") => handler[p].issued \in stranded'
<1>1. UNCHANGED <<user, invitations, tokens, overlapped, ended>> /\ Frees(p)
      /\ stranded' = stranded \cup IF On(p, "rotate") THEN {handler[p].issued} ELSE {}
  BY DEF HandlerLost
<1>2. Tokens = 1 .. n /\ stranded \subseteq 1 .. n
      /\ (On(p, "rotate") => handler[p].issued \in Tokens)
  BY TokenFields, Working DEF RowsNumbered
<1>3. /\ handler' \in [Handlers ->
               [at : HandlerLabels, token : 0 .. n, invitation : Nat, issued : 0 .. n]]
      /\ handler'[p].at = "free"
      /\ \A q \in Handlers : q # p => handler'[q] = handler[q]
  BY <1>1, HandlerEnds
<1>4. Tokens' = Tokens
  BY <1>1 DEF Tokens
<1> QED
  BY <1>1, <1>2, <1>3, <1>4

-----------------------------------------------------------------------------
(* Types *)

LEMMA SessionsTypedInit == SessionsInit => SessionsTyped
<1> SUFFICES ASSUME SessionsInit PROVE RowsNumbered(0, 0)
  BY DEF SessionsInit, SessionsTyped, RowsAreNumbered
<1>1. 1 .. 0 = {}
  OBVIOUS
<1>2. Free \in [at : HandlerLabels, token : 0 .. 0, invitation : Nat, issued : 0 .. 0]
  BY Labels DEF Free
<1> QED
  BY <1>1, <1>2 DEF SessionsInit, RowsNumbered

\* Each step leaves the rows numbered; only issuing adds a token.
LEMMA RowsStep ==
  ASSUME NEW m \in Nat, NEW n \in Nat, RowsNumbered(m, n), IssuedToTheActive,
         [SessionsNext]_sessionVars
  PROVE  RowsAreNumbered'
<1> DEFINE H == [Handlers ->
               [at : HandlerLabels, token : 0 .. n, invitation : Nat, issued : 0 .. n]]
<1>0. /\ invitations \in [1 .. m -> BOOLEAN] /\ stranded \subseteq 1 .. n /\ ended \subseteq 1 .. n
      /\ tokens \in [1 .. n -> [revoked : BOOLEAN, replacedBy : 0 .. n, signIn : 1 .. n]]
  BY DEF RowsNumbered
<1>1. RowsNumbered(m, n)' => RowsAreNumbered'
  BY DEF RowsAreNumbered
<1>quiet. ASSUME NEW p \in Handlers,
                 \/ UpsertUser(p) \/ CreateInvitation(p) \/ FindInvitation(p) \/ SetPassword(p)
                 \/ MarkAccepted(p) \/ CheckPassword(p) \/ FindTokenForLogout(p)
      PROVE RowsAreNumbered'
  <2>1. UNCHANGED <<tokens, stranded, ended>> /\ handler' \in H
    BY <1>quiet, Quiet
  <2>2. PICK l \in Nat : invitations' \in [1 .. l -> BOOLEAN]
    <3>1. CASE CreateInvitation(p)
      <4>1. invitations' = With(invitations, m + 1, FALSE) /\ DOMAIN invitations = 1 .. m
        BY <3>1, TokenFields DEF CreateInvitation
      <4>2. invitations' = [k \in 1 .. m + 1 |-> IF k = m + 1 THEN FALSE ELSE invitations[k]]
        <5>1. 1 .. m \cup {m + 1} = 1 .. m + 1
          OBVIOUS
        <5> QED
          BY <4>1, <5>1 DEF With
      <4>3. \A k \in 1 .. m + 1 : k # m + 1 => invitations[k] \in BOOLEAN
        BY <1>0
      <4>4. \A k \in 1 .. m + 1 : (IF k = m + 1 THEN FALSE ELSE invitations[k]) \in BOOLEAN
        BY <4>3
      <4>5. invitations' \in [1 .. m + 1 -> BOOLEAN]
        BY <4>2, <4>4, Zenon
      <4>6. m + 1 \in Nat
        OBVIOUS
      <4> QED
        BY <4>5, <4>6
    <3>2. CASE MarkAccepted(p)
      <4>1. invitations' \in [1 .. m -> BOOLEAN]
        BY <1>0, <3>2 DEF MarkAccepted
      <4> QED
        BY <4>1
    <3>3. CASE UpsertUser(p) \/ FindInvitation(p) \/ SetPassword(p) \/ CheckPassword(p)
                \/ FindTokenForLogout(p)
      <4>1. invitations' = invitations
        BY <3>3 DEF UpsertUser, FindInvitation, SetPassword, CheckPassword, FindTokenForLogout
      <4> QED
        BY <1>0, <4>1
    <3> QED
      BY <1>quiet, <3>1, <3>2, <3>3
  <2>3. RowsNumbered(l, n)'
    BY <1>0, <2>1, <2>2 DEF RowsNumbered
  <2> QED
    BY <2>3 DEF RowsAreNumbered
<1>FindToken. ASSUME NEW p \in Handlers, FindToken(p) PROVE RowsAreNumbered'
  <2>1. handler' \in H /\ UNCHANGED <<invitations, tokens, stranded, ended>>
    BY <1>FindToken, FindTokenTurns
  <2>2. RowsNumbered(m, n)'
    BY <1>0, <2>1 DEF RowsNumbered
  <2> QED
    BY <1>1, <2>2
<1>revokes. ASSUME NEW p \in Handlers, RevokeFamily(p) \/ Rotate(p) \/ RevokeForLogout(p)
      PROVE RowsAreNumbered'
  <2>1. /\ tokens' \in [1 .. n -> [revoked : BOOLEAN, replacedBy : 0 .. n, signIn : 1 .. n]]
        /\ handler' \in H /\ UNCHANGED <<invitations, stranded>>
        /\ ended' = IF RevokeFamily(p) THEN ended \cup Endable ELSE ended
    BY <1>revokes, Revokes
  <2>2. Endable \subseteq 1 .. n
    BY TokenFields DEF Endable
  <2>3. RowsNumbered(m, n)'
    BY <1>0, <2>1, <2>2 DEF RowsNumbered
  <2> QED
    BY <1>1, <2>3
<1>issueTokensWithId. ASSUME NEW p \in Handlers, issueTokensWithId(p)
      PROVE RowsAreNumbered'
  <2>1. 1 .. n \subseteq 1 .. n + 1
    OBVIOUS
  <2>2. RowsNumbered(m, n + 1)'
    BY <1>0, <1>issueTokensWithId, <2>1, TokenIssued DEF RowsNumbered
  <2> QED
    BY <2>2 DEF RowsAreNumbered
<1>HandlerLost. ASSUME NEW p \in Handlers, HandlerLost(p) PROVE RowsAreNumbered'
  <2>1. RowsNumbered(m, n)'
    BY <1>0, <1>HandlerLost, Strands DEF RowsNumbered
  <2> QED
    BY <1>1, <2>1
<1>unchanged. CASE UNCHANGED sessionVars
  BY <1>0, <1>1, <1>unchanged DEF sessionVars, RowsNumbered
<1> QED
  BY <1>quiet, <1>FindToken, <1>revokes, <1>issueTokensWithId, <1>HandlerLost, <1>unchanged
  DEF SessionsNext

\* The user's status is one of three, and active stays active.
LEMMA UserStep ==
  ASSUME user \in {"ABSENT", "INVITED", "ACTIVE"}, [SessionsNext]_sessionVars
  PROVE  /\ user' \in {"ABSENT", "INVITED", "ACTIVE"}
         /\ user = "ACTIVE" => user' = "ACTIVE"
<1>1. ASSUME NEW p \in Handlers, UpsertUser(p)
      PROVE  /\ user' \in {"ABSENT", "INVITED", "ACTIVE"}
             /\ user = "ACTIVE" => user' = "ACTIVE"
  BY <1>1 DEF UpsertUser
<1>2. ASSUME NEW p \in Handlers, SetPassword(p) PROVE user' = "ACTIVE"
  BY <1>2 DEF SetPassword
<1>3. ASSUME NEW p \in Handlers,
             \/ CreateInvitation(p) \/ FindInvitation(p) \/ MarkAccepted(p) \/ CheckPassword(p)
             \/ FindToken(p) \/ RevokeFamily(p) \/ issueTokensWithId(p) \/ Rotate(p)
             \/ FindTokenForLogout(p) \/ RevokeForLogout(p) \/ HandlerLost(p)
      PROVE  user' = user
  BY <1>3 DEF CreateInvitation, FindInvitation, MarkAccepted, CheckPassword, FindToken,
     RevokeFamily, issueTokensWithId, Rotate, FindTokenForLogout, RevokeForLogout, HandlerLost
<1>4. CASE UNCHANGED sessionVars
  BY <1>4 DEF sessionVars
<1> QED
  BY <1>1, <1>2, <1>3, <1>4 DEF SessionsNext

LEMMA SessionsTypedStep ==
  ASSUME SessionsTyped, IssuedToTheActive, [SessionsNext]_sessionVars PROVE SessionsTyped'
<1>1. PICK m, n \in Nat : RowsNumbered(m, n)
  BY DEF SessionsTyped, RowsAreNumbered
<1>2. RowsAreNumbered'
  BY <1>1, RowsStep
<1> QED
  BY <1>2, UserStep DEF SessionsTyped

-----------------------------------------------------------------------------
(* Who is issued a token *)

LEMMA ActiveStep ==
  ASSUME SessionsTyped, IssuedToTheActive, [SessionsNext]_sessionVars PROVE IssuedToTheActive'
<1> USE DEF IssuedToTheActive, On
<1>0. PICK m, n \in Nat : RowsNumbered(m, n)
  BY DEF SessionsTyped, RowsAreNumbered
<1>1. user = "ACTIVE" => user' = "ACTIVE"
  BY UserStep DEF SessionsTyped
<1>UpsertUser. ASSUME NEW p \in Handlers, UpsertUser(p) PROVE IssuedToTheActive'
  <2>1. Tokens' = Tokens
    BY <1>UpsertUser DEF UpsertUser, Tokens
  <2> QED
    BY <1>0, <1>1, <1>UpsertUser, <2>1, UpsertUserTurns DEF UpsertUser
<1>CreateInvitation. ASSUME NEW p \in Handlers, CreateInvitation(p)
      PROVE IssuedToTheActive'
  <2>1. Tokens' = Tokens
    BY <1>CreateInvitation DEF CreateInvitation, Tokens
  <2> QED
    BY <1>0, <1>1, <1>CreateInvitation, <2>1, HandlerEnds DEF CreateInvitation
<1>FindInvitation. ASSUME NEW p \in Handlers, FindInvitation(p) PROVE IssuedToTheActive'
  <2>1. Tokens' = Tokens
    BY <1>FindInvitation DEF FindInvitation, Tokens
  <2> QED
    BY <1>0, <1>1, <1>FindInvitation, <2>1, FindInvitationTurns DEF FindInvitation
<1>SetPassword. ASSUME NEW p \in Handlers, SetPassword(p) PROVE IssuedToTheActive'
  <2>1. Tokens' = Tokens
    BY <1>SetPassword DEF SetPassword, Tokens
  <2> QED
    BY <1>0, <1>1, <1>SetPassword, <2>1, SetPasswordTurns DEF SetPassword
<1>MarkAccepted. ASSUME NEW p \in Handlers, MarkAccepted(p) PROVE IssuedToTheActive'
  <2>1. Tokens' = Tokens
    BY <1>MarkAccepted DEF MarkAccepted, Tokens
  <2> QED
    BY <1>0, <1>1, <1>MarkAccepted, <2>1, MarkAcceptedTurns DEF MarkAccepted
<1>CheckPassword. ASSUME NEW p \in Handlers, CheckPassword(p) PROVE IssuedToTheActive'
  <2>1. Tokens' = Tokens
    BY <1>CheckPassword DEF CheckPassword, Tokens
  <2> QED
    BY <1>0, <1>1, <1>CheckPassword, <2>1, CheckPasswordTurns DEF CheckPassword
<1>FindToken. ASSUME NEW p \in Handlers, FindToken(p) PROVE IssuedToTheActive'
  <2>1. PICK t \in Tokens :
          /\ \/ handler'[p].at = "family" /\ handler'[p].token = t
             \/ handler'[p].at \in {"free", "issue"}
          /\ \A q \in Handlers : q # p => handler'[q] = handler[q]
          /\ UNCHANGED <<user, tokens>>
    BY <1>0, <1>FindToken, FindTokenTurns
  <2>2. Tokens' = Tokens
    BY <2>1 DEF Tokens
  <2>3. user = "ACTIVE"
    BY <2>1
  <2> QED
    BY <2>1, <2>2, <2>3
<1>revokes. ASSUME NEW p \in Handlers, RevokeFamily(p) \/ Rotate(p) \/ RevokeForLogout(p)
      PROVE IssuedToTheActive'
  <2>1. /\ tokens' \in [1 .. n -> [revoked : BOOLEAN, replacedBy : 0 .. n, signIn : 1 .. n]]
        /\ handler'[p].at = "free" /\ user' = user
        /\ \A q \in Handlers : q # p => handler'[q] = handler[q]
    BY <1>0, <1>revokes, Revokes
  <2>2. Tokens' = Tokens
    BY <1>0, <2>1, TokenFields DEF Tokens
  <2> QED
    BY <2>1, <2>2
<1>issueTokensWithId. ASSUME NEW p \in Handlers, issueTokensWithId(p)
      PROVE IssuedToTheActive'
  <2>1. Tokens = 1 .. n /\ Tokens' = 1 .. n + 1
    BY <1>0, <1>issueTokensWithId, TokenIssued, TokenFields DEF Tokens
  <2>2. user = "ACTIVE" /\ user' = "ACTIVE"
    BY <1>1, <1>issueTokensWithId DEF issueTokensWithId
  <2>3. \A q \in Handlers : q # p => handler'[q] = handler[q]
    BY <1>0, <1>issueTokensWithId, TokenIssued
  <2>4. handler[p].token \in 0 .. n
    BY <1>0, RequestFields
  <2>5. CASE handler[p].token = 0
    <3>1. handler'[p].at = "free"
      BY <1>0, <1>issueTokensWithId, <2>5, TokenIssued
    <3> QED
      BY <2>1, <2>2, <2>3, <3>1
  <2>6. CASE handler[p].token # 0
    <3>1. handler'[p].at = "rotate" /\ handler'[p].token = handler[p].token
          /\ handler'[p].issued = n + 1
      BY <1>0, <1>issueTokensWithId, <2>6, TokenIssued
    <3>2. handler'[p].token \in Tokens' /\ handler'[p].issued \in Tokens'
      BY <2>1, <2>4, <2>6, <3>1
    <3> QED
      BY <2>1, <2>2, <2>3, <3>1, <3>2
  <2> QED
    BY <2>5, <2>6
<1>FindTokenForLogout. ASSUME NEW p \in Handlers, FindTokenForLogout(p)
      PROVE IssuedToTheActive'
  <2>1. PICK t \in Tokens :
          /\ handler'[p].at = "free" \/ (handler'[p].at = "logout" /\ handler'[p].token = t)
          /\ \A q \in Handlers : q # p => handler'[q] = handler[q]
          /\ UNCHANGED <<user, tokens>>
    BY <1>0, <1>FindTokenForLogout, FindTokenForLogoutTurns
  <2>2. Tokens' = Tokens
    BY <2>1 DEF Tokens
  <2> QED
    BY <2>1, <2>2
<1>HandlerLost. ASSUME NEW p \in Handlers, HandlerLost(p) PROVE IssuedToTheActive'
  <2>1. /\ handler'[p].at = "free" /\ user' = user /\ Tokens' = Tokens
        /\ \A q \in Handlers : q # p => handler'[q] = handler[q]
    BY <1>0, <1>HandlerLost, Strands
  <2> QED
    BY <2>1
<1>unchanged. CASE UNCHANGED sessionVars
  BY <1>unchanged DEF sessionVars, Tokens
<1> QED
  BY <1>UpsertUser, <1>CreateInvitation, <1>FindInvitation, <1>SetPassword, <1>MarkAccepted,
     <1>CheckPassword, <1>FindToken, <1>revokes, <1>issueTokensWithId, <1>FindTokenForLogout,
     <1>HandlerLost, <1>unchanged
  DEF SessionsNext

-----------------------------------------------------------------------------
(* One live token for each sign-in *)

\* What revokes, ends or adds nothing to a sign-in keeps it in order.
LEMMA Shrinks ==
  ASSUME OneAtATime, Tokens' = Tokens, overlapped \subseteq overlapped',
         \A s \in Tokens \ overlapped' : LastOf(s)' \subseteq LastOf(s),
         \A s \in Tokens \ overlapped' : \A q \in Handlers :
             /\ WorkingFor(q, s)' => handler'[q] = handler[q]
             /\ Refreshing(q, s)' => Refreshing(q, s)
             /\ Rotating(q, s)' => Rotating(q, s)
  PROVE  OneAtATime'
<1> SUFFICES ASSUME NEW s \in Tokens \ overlapped'
             PROVE  /\ \A t, u \in LastOf(s)' : t = u
                    /\ \A p \in Handlers :
                          /\ Refreshing(p, s)' => LastOf(s)' \subseteq {handler'[p].token}
                          /\ Rotating(p, s)' => LastOf(s)' \subseteq {handler'[p].issued}
                          /\ WorkingFor(p, s)' =>
                                \A q \in Handlers : WorkingFor(q, s)' => q = p
  BY DEF OneAtATime
<1>1. s \in Tokens \ overlapped /\ LastOf(s)' \subseteq LastOf(s)
  OBVIOUS
<1>2. /\ \A t, u \in LastOf(s) : t = u
      /\ \A p \in Handlers :
            /\ Refreshing(p, s) => LastOf(s) \subseteq {handler[p].token}
            /\ Rotating(p, s) => LastOf(s) \subseteq {handler[p].issued}
            /\ WorkingFor(p, s) => \A q \in Handlers : WorkingFor(q, s) => q = p
  BY <1>1 DEF OneAtATime
<1> HIDE DEF LastOf, Refreshing, Rotating
<1>3. ASSUME NEW p \in Handlers
      PROVE  /\ Refreshing(p, s)' => Refreshing(p, s) /\ handler'[p] = handler[p]
             /\ Rotating(p, s)' => Rotating(p, s) /\ handler'[p] = handler[p]
             /\ WorkingFor(p, s)' => WorkingFor(p, s)
  BY DEF WorkingFor
<1> HIDE DEF WorkingFor
<1> QED
  BY <1>1, <1>2, <1>3

\* The same, when one request moves that is neither about to issue a token nor
\* about to revoke a live one.
LEMMA Passes ==
  ASSUME NEW m \in Nat, NEW n \in Nat, RowsNumbered(m, n), OneAtATime, IssuedToTheActive,
         NEW p \in Handlers, Tokens' = Tokens, overlapped \subseteq overlapped',
         stranded \subseteq stranded',
         \A t \in Tokens : /\ tokens'[t].signIn = tokens[t].signIn
                           /\ tokens[t].revoked => tokens'[t].revoked,
         \A q \in Handlers : q # p => handler'[q] = handler[q],
         handler'[p].at # "issue" \/ handler'[p].token = 0, handler'[p].at # "rotate",
         handler[p].at = "rotate" => tokens'[handler[p].token].revoked
  PROVE  OneAtATime'
<1>1. \A q \in Handlers : /\ handler[q].token \in Tokens \cup {0}
                          /\ handler[q].at = "rotate" => handler[q].token \in Tokens
  BY RequestFields, TokenFields DEF IssuedToTheActive
<1>2. ASSUME NEW s \in Tokens \ overlapped', NEW t \in LastOf(s)' PROVE t \in LastOf(s)
  <2>1. t \in Tokens /\ ~tokens'[t].revoked /\ tokens'[t].signIn = s /\ t \notin stranded'
        /\ \A q \in Handlers : handler'[q].at = "rotate" => handler'[q].token # t
    BY <1>2 DEF LastOf, Live, On
  <2>2. \A q \in Handlers : handler[q].at = "rotate" => handler[q].token # t
    BY <2>1
  <2> QED
    BY <2>1, <2>2 DEF LastOf, Live, On
<1>3. ASSUME NEW s \in Tokens \ overlapped', NEW q \in Handlers
      PROVE  /\ WorkingFor(q, s)' => handler'[q] = handler[q]
             /\ Refreshing(q, s)' => Refreshing(q, s)
             /\ Rotating(q, s)' => Rotating(q, s)
  <2>1. CASE q = p
    BY <2>1 DEF WorkingFor, Refreshing, Rotating, On
  <2>2. CASE q # p
    BY <1>1, <2>2 DEF WorkingFor, Refreshing, Rotating, On
  <2> QED
    BY <2>1, <2>2
<1> QED
  BY <1>2, <1>3, Shrinks

\* A refresh that has found a live token somebody was sent: if none is at work
\* with it, it is the last of its sign-in.
LEMMA RefreshBegins ==
  ASSUME NEW m \in Nat, NEW n \in Nat, RowsNumbered(m, n), OneAtATime, IssuedToTheActive,
         NEW p \in Handlers, NEW t \in Tokens, ~Spent(t), SentOut(t), On(p, "free"),
         handler'[p].at = "issue", handler'[p].token = t,
         UNCHANGED <<tokens, stranded>>,
         \A q \in Handlers : q # p => handler'[q] = handler[q],
         overlapped' = IF RefreshesOf(t) = {} THEN overlapped
                       ELSE overlapped \cup {tokens[t].signIn}
  PROVE  OneAtATime'
<1>0. Tokens = 1 .. n /\ \A q \in Handlers : handler[q].token \in 0 .. n
  BY RequestFields, TokenFields
<1>1. Tokens' = Tokens /\ t # 0 /\ \A q \in Handlers : handler[q].token \in Tokens \cup {0}
  <2>1. Tokens' = Tokens
    BY DEF Tokens
  <2> QED
    BY <1>0, <2>1
<1>2. ASSUME NEW s \in Tokens \ overlapped' PROVE LastOf(s)' \subseteq LastOf(s)
  <2> SUFFICES ASSUME NEW u \in LastOf(s)' PROVE u \in LastOf(s)
    OBVIOUS
  <2>1. u \in Tokens /\ ~tokens[u].revoked /\ tokens[u].signIn = s /\ u \notin stranded
        /\ \A q \in Handlers : handler'[q].at = "rotate" => handler'[q].token # u
    BY <1>1 DEF LastOf, Live, On
  <2>2. \A q \in Handlers : handler[q].at = "rotate" => handler[q].token # u
    BY <2>1 DEF On
  <2> QED
    BY <2>1, <2>2 DEF LastOf, Live, On
<1>3. ASSUME NEW s, NEW q \in Handlers, q # p
      PROVE  /\ handler'[q] = handler[q]
             /\ Refreshing(q, s)' = Refreshing(q, s) /\ Rotating(q, s)' = Rotating(q, s)
             /\ WorkingFor(q, s)' = WorkingFor(q, s)
  BY <1>3 DEF WorkingFor, Refreshing, Rotating, On
<1>4. \A s : ~Rotating(p, s)' /\ (WorkingFor(p, s)' => tokens[t].signIn = s)
  BY DEF WorkingFor, Refreshing, Rotating, On
<1> SUFFICES ASSUME NEW s \in Tokens \ overlapped'
             PROVE  /\ \A u, v \in LastOf(s)' : u = v
                    /\ \A r \in Handlers :
                          /\ Refreshing(r, s)' => LastOf(s)' \subseteq {handler'[r].token}
                          /\ Rotating(r, s)' => LastOf(s)' \subseteq {handler'[r].issued}
                          /\ WorkingFor(r, s)' =>
                                \A q \in Handlers : WorkingFor(q, s)' => q = r
  BY <1>1 DEF OneAtATime
<1>5. s \in Tokens \ overlapped
  OBVIOUS
<1>6. /\ \A u, v \in LastOf(s) : u = v
      /\ \A r \in Handlers :
            /\ Refreshing(r, s) => LastOf(s) \subseteq {handler[r].token}
            /\ Rotating(r, s) => LastOf(s) \subseteq {handler[r].issued}
            /\ WorkingFor(r, s) => \A q \in Handlers : WorkingFor(q, s) => q = r
  BY <1>5 DEF OneAtATime
<1>7. CASE tokens[t].signIn # s
  <2>1. ~WorkingFor(p, s)' /\ ~Refreshing(p, s)' /\ ~Rotating(p, s)'
    BY <1>4, <1>7 DEF WorkingFor
  <2> HIDE DEF LastOf, Refreshing, Rotating, WorkingFor
  <2>2. \A r \in Handlers : Refreshing(r, s)' \/ Rotating(r, s)' \/ WorkingFor(r, s)' => r # p
    BY <2>1
  <2> QED
    BY <1>2, <1>3, <1>6, <2>2
<1>8. CASE tokens[t].signIn = s
  <2>1. RefreshesOf(t) = {}
    BY <1>8
  <2>2. t \in LastOf(s)
    BY <1>8, <2>1 DEF LastOf, Live, RefreshesOf, On, Spent, SentOut
  <2>3. LastOf(s)' \subseteq {t}
    BY <1>2, <1>6, <2>2
  <2>4. \A q \in Handlers : ~WorkingFor(q, s)
    <3> SUFFICES ASSUME NEW q \in Handlers, WorkingFor(q, s) PROVE FALSE
      OBVIOUS
    <3>1. CASE Refreshing(q, s)
      <4>1. handler[q].token = t
        BY <1>6, <2>2, <3>1
      <4>2. q \in RefreshesOf(t)
        BY <3>1, <4>1 DEF Refreshing, RefreshesOf, On
      <4> QED
        BY <2>1, <4>2
    <3>2. CASE Rotating(q, s)
      <4>1. handler[q].issued = t
        BY <1>6, <2>2, <3>2
      <4> QED
        BY <3>2, <4>1 DEF Rotating, SentOut
    <3> QED
      BY <3>1, <3>2 DEF WorkingFor
  <2>5. \A q \in Handlers : q # p => ~WorkingFor(q, s)' /\ ~Refreshing(q, s)' /\ ~Rotating(q, s)'
    BY <1>3, <2>4 DEF WorkingFor
  <2> HIDE DEF LastOf, Refreshing, Rotating, WorkingFor
  <2>6. \A u, v \in LastOf(s)' : u = v
    BY <2>3
  <2>7. ASSUME NEW r \in Handlers
        PROVE  /\ Refreshing(r, s)' => LastOf(s)' \subseteq {handler'[r].token}
               /\ Rotating(r, s)' => LastOf(s)' \subseteq {handler'[r].issued}
               /\ WorkingFor(r, s)' => \A q \in Handlers : WorkingFor(q, s)' => q = r
    BY <1>4, <2>3, <2>5
  <2> QED
    BY <2>6, <2>7
<1> QED
  BY <1>7, <1>8

\* A token that is issued is the last of its sign-in.
LEMMA IssueIsLast ==
  ASSUME NEW m \in Nat, NEW n \in Nat, RowsNumbered(m, n), OneAtATime, IssuedToTheActive,
         NEW p \in Handlers, issueTokensWithId(p)
  PROVE  OneAtATime'
<1> DEFINE old == handler[p].token
<1>1. /\ Tokens = 1 .. n /\ Tokens' = 1 .. n + 1
      /\ overlapped' = overlapped /\ stranded' = stranded
      /\ tokens'[n + 1].signIn = (IF old = 0 THEN n + 1 ELSE tokens[old].signIn)
      /\ \A t \in 1 .. n : tokens'[t] = tokens[t]
      /\ \A q \in Handlers : q # p => handler'[q] = handler[q]
  BY TokenIssued, TokenFields DEF Tokens
<1>2. IF old = 0 THEN handler'[p].at = "free" /\ handler'[p].token = 0
      ELSE handler'[p].at = "rotate" /\ handler'[p].token = old /\ handler'[p].issued = n + 1
  BY TokenIssued
<1>3. /\ \A q \in Handlers : /\ handler[q].token \in 0 .. n
                             /\ handler[q].at = "rotate" => handler[q].token \in 1 .. n
      /\ \A t \in 1 .. n : tokens[t].signIn \in 1 .. n
      /\ handler[p].at = "issue"
  BY <1>1, RequestFields, TokenFields DEF issueTokensWithId, On, IssuedToTheActive
<1>4. ASSUME NEW s, NEW q \in Handlers, q # p
      PROVE  /\ handler'[q] = handler[q]
             /\ Refreshing(q, s)' => Refreshing(q, s)
             /\ Rotating(q, s)' => Rotating(q, s)
             /\ WorkingFor(q, s)' => WorkingFor(q, s)
  BY <1>1, <1>3, <1>4 DEF WorkingFor, Refreshing, Rotating, On
<1>5. \A s : /\ ~Refreshing(p, s)'
             /\ WorkingFor(p, s)' => old # 0 /\ tokens[old].signIn = s
  BY <1>1, <1>2, <1>3 DEF WorkingFor, Refreshing, Rotating, On
<1>6. \A s \in 1 .. n : \A t \in LastOf(s)' : t = n + 1 \/ t \in LastOf(s) \ {old}
  <2> SUFFICES ASSUME NEW s \in 1 .. n, NEW t \in LastOf(s)', t # n + 1
               PROVE  t \in LastOf(s) \ {old}
    OBVIOUS
  <2>1. t \in 1 .. n /\ ~tokens[t].revoked /\ tokens[t].signIn = s /\ t \notin stranded
        /\ \A q \in Handlers : handler'[q].at = "rotate" => handler'[q].token # t
    BY <1>1 DEF LastOf, Live, On
  <2>2. t # old /\ \A q \in Handlers : handler[q].at = "rotate" => handler[q].token # t
    BY <1>1, <1>2, <1>3, <2>1
  <2> QED
    BY <1>1, <2>1, <2>2 DEF LastOf, Live, On
<1>7. \A s \in 1 .. n : n + 1 \in LastOf(s)' => old # 0 /\ tokens[old].signIn = s
  BY <1>1 DEF LastOf, Live
<1> SUFFICES ASSUME NEW s \in (1 .. n + 1) \ overlapped
             PROVE  /\ \A t, u \in LastOf(s)' : t = u
                    /\ \A r \in Handlers :
                          /\ Refreshing(r, s)' => LastOf(s)' \subseteq {handler'[r].token}
                          /\ Rotating(r, s)' => LastOf(s)' \subseteq {handler'[r].issued}
                          /\ WorkingFor(r, s)' =>
                                \A q \in Handlers : WorkingFor(q, s)' => q = r
  BY <1>1 DEF OneAtATime
<1>8. CASE s = n + 1
  <2>1. \A t \in LastOf(s)' : t = n + 1
    BY <1>1, <1>3, <1>8 DEF LastOf, Live
  <2>2. \A q \in Handlers : ~WorkingFor(q, s)
    BY <1>3, <1>8 DEF WorkingFor, Refreshing, Rotating, On
  <2>3. ~WorkingFor(p, s)'
    BY <1>3, <1>5, <1>8
  <2>4. \A q \in Handlers : ~WorkingFor(q, s)' /\ ~Refreshing(q, s)' /\ ~Rotating(q, s)'
    BY <1>4, <2>2, <2>3 DEF WorkingFor
  <2> QED
    BY <2>1, <2>4
<1>9. ASSUME s \in 1 .. n
      PROVE  /\ \A t, u \in LastOf(s) : t = u
             /\ \A r \in Handlers :
                   /\ Refreshing(r, s) => LastOf(s) \subseteq {handler[r].token}
                   /\ Rotating(r, s) => LastOf(s) \subseteq {handler[r].issued}
                   /\ WorkingFor(r, s) => \A q \in Handlers : WorkingFor(q, s) => q = r
  <2>1. s \in Tokens \ overlapped
    BY <1>1, <1>9
  <2> QED
    BY <2>1 DEF OneAtATime
<1>10. CASE s \in 1 .. n /\ old # 0 /\ tokens[old].signIn = s
  <2>1. Refreshing(p, s)
    BY <1>3, <1>10 DEF Refreshing, On
  <2>2. LastOf(s) \subseteq {old} /\ \A q \in Handlers : WorkingFor(q, s) => q = p
    BY <1>9, <1>10, <2>1 DEF WorkingFor
  <2>3. \A t \in LastOf(s)' : t = n + 1
    BY <1>6, <1>10, <2>2
  <2>4. \A q \in Handlers : WorkingFor(q, s)' \/ Refreshing(q, s)' \/ Rotating(q, s)' => q = p
    BY <1>4, <2>2 DEF WorkingFor
  <2>5. ~Refreshing(p, s)' /\ handler'[p].issued = n + 1
    BY <1>2, <1>5, <1>10
  <2> HIDE DEF LastOf, Refreshing, Rotating, WorkingFor
  <2> QED
    BY <2>3, <2>4, <2>5
<1>11. CASE s \in 1 .. n /\ ~(old # 0 /\ tokens[old].signIn = s)
  <2>1. LastOf(s)' \subseteq LastOf(s)
    BY <1>6, <1>7, <1>11
  <2>2. \A q \in Handlers : WorkingFor(q, s)' \/ Refreshing(q, s)' \/ Rotating(q, s)' => q # p
    BY <1>5, <1>11 DEF WorkingFor
  <2> HIDE DEF LastOf, Refreshing, Rotating, WorkingFor
  <2> QED
    BY <1>4, <1>9, <1>11, <2>1, <2>2
<1> QED
  BY <1>8, <1>10, <1>11

\* A refresh that is lost after it issued a token: the token it worked with is
\* the last of the sign-in again.
LEMMA LostIsNoMore ==
  ASSUME NEW m \in Nat, NEW n \in Nat, RowsNumbered(m, n), OneAtATime, IssuedToTheActive,
         NEW p \in Handlers, HandlerLost(p), On(p, "rotate")
  PROVE  OneAtATime'
<1> DEFINE old == handler[p].token
<1>1. /\ UNCHANGED <<tokens, overlapped>> /\ Tokens' = Tokens /\ handler'[p].at = "free"
      /\ \A q \in Handlers : q # p => handler'[q] = handler[q]
      /\ stranded \subseteq stranded' /\ handler[p].issued \in stranded'
  BY Strands
<1>2. ASSUME NEW s, NEW q \in Handlers
      PROVE  /\ ~WorkingFor(p, s)'
             /\ WorkingFor(q, s)' => handler'[q] = handler[q]
             /\ Refreshing(q, s)' => Refreshing(q, s)
             /\ Rotating(q, s)' => Rotating(q, s)
  BY <1>1 DEF WorkingFor, Refreshing, Rotating, On
<1>3. ASSUME NEW s, NEW t \in LastOf(s)'
      PROVE  /\ t \in LastOf(s) \/ (t = old /\ tokens[t].signIn = s)
             /\ t # handler[p].issued
  <2>1. t \in Tokens /\ ~tokens[t].revoked /\ tokens[t].signIn = s /\ t \notin stranded'
        /\ \A q \in Handlers : handler'[q].at = "rotate" => handler'[q].token # t
    BY <1>1, <1>3 DEF LastOf, Live, On
  <2>2. t # old => \A q \in Handlers : handler[q].at = "rotate" => handler[q].token # t
    BY <1>1, <2>1
  <2> QED
    BY <1>1, <2>1, <2>2 DEF LastOf, Live, On
<1> SUFFICES ASSUME NEW s \in Tokens \ overlapped
             PROVE  /\ \A t, u \in LastOf(s)' : t = u
                    /\ \A r \in Handlers :
                          /\ Refreshing(r, s)' => LastOf(s)' \subseteq {handler'[r].token}
                          /\ Rotating(r, s)' => LastOf(s)' \subseteq {handler'[r].issued}
                          /\ WorkingFor(r, s)' =>
                                \A q \in Handlers : WorkingFor(q, s)' => q = r
  BY <1>1 DEF OneAtATime
<1>4. /\ \A t, u \in LastOf(s) : t = u
      /\ \A r \in Handlers :
            /\ Refreshing(r, s) => LastOf(s) \subseteq {handler[r].token}
            /\ Rotating(r, s) => LastOf(s) \subseteq {handler[r].issued}
            /\ WorkingFor(r, s) => \A q \in Handlers : WorkingFor(q, s) => q = r
  BY DEF OneAtATime
<1>5. CASE tokens[old].signIn = s
  <2>1. Rotating(p, s)
    BY <1>5 DEF Rotating
  <2>2. LastOf(s) \subseteq {handler[p].issued}
        /\ \A q \in Handlers : WorkingFor(q, s) => q = p
    BY <1>4, <2>1 DEF WorkingFor
  <2>3. \A t \in LastOf(s)' : t = old
    BY <1>3, <2>2
  <2>4. \A q \in Handlers : ~WorkingFor(q, s)' /\ ~Refreshing(q, s)' /\ ~Rotating(q, s)'
    BY <1>2, <2>2 DEF WorkingFor
  <2> HIDE DEF LastOf, Refreshing, Rotating, WorkingFor
  <2> QED
    BY <2>3, <2>4
<1>6. CASE tokens[old].signIn # s
  <2>1. LastOf(s)' \subseteq LastOf(s)
    BY <1>3, <1>6
  <2>2. \A q \in Handlers : /\ WorkingFor(q, s)' => WorkingFor(q, s)
                            /\ Refreshing(q, s)' => WorkingFor(q, s)'
                            /\ Rotating(q, s)' => WorkingFor(q, s)'
    BY <1>2 DEF WorkingFor
  <2> HIDE DEF LastOf, Refreshing, Rotating, WorkingFor
  <2> QED
    BY <1>2, <1>4, <2>1, <2>2
<1> QED
  BY <1>5, <1>6

LEMMA OneStep ==
  ASSUME SessionsTyped, IssuedToTheActive, OneAtATime, [SessionsNext]_sessionVars
  PROVE  OneAtATime'
<1>0. PICK m, n \in Nat : RowsNumbered(m, n)
  BY DEF SessionsTyped, RowsAreNumbered
<1>quiet. ASSUME NEW p \in Handlers,
                 \/ UpsertUser(p) \/ CreateInvitation(p) \/ FindInvitation(p) \/ SetPassword(p)
                 \/ MarkAccepted(p) \/ CheckPassword(p) \/ FindTokenForLogout(p)
      PROVE OneAtATime'
  <2>1. /\ UNCHANGED <<tokens, overlapped, stranded>> /\ Tokens' = Tokens
        /\ handler[p].at # "rotate"
        /\ handler'[p].at # "rotate" /\ (handler'[p].at # "issue" \/ handler'[p].token = 0)
        /\ \A q \in Handlers : q # p => handler'[q] = handler[q]
    BY <1>0, <1>quiet, Quiet
  <2> QED
    BY <1>0, <2>1, Passes
<1>FindToken. ASSUME NEW p \in Handlers, FindToken(p) PROVE OneAtATime'
  <2>1. PICK t \in Tokens :
          /\ \A q \in Handlers : q # p => handler'[q] = handler[q]
          /\ On(p, "free") /\ SentOut(t) /\ UNCHANGED <<tokens, stranded>>
          /\ \/ handler'[p].at \in {"family", "free"}
             \/ ~Spent(t) /\ handler'[p].at = "issue" /\ handler'[p].token = t
          /\ overlapped' = IF RefreshesOf(t) = {} THEN overlapped
                           ELSE overlapped \cup {tokens[t].signIn}
    BY <1>0, <1>FindToken, FindTokenTurns
  <2>2. Tokens' = Tokens /\ overlapped \subseteq overlapped' /\ handler[p].at # "rotate"
    BY <2>1 DEF Tokens, On
  <2>3. CASE handler'[p].at \in {"family", "free"}
    <3>1. handler'[p].at # "issue" /\ handler'[p].at # "rotate"
      BY <2>3
    <3> QED
      BY <1>0, <2>1, <2>2, <3>1, Passes
  <2>4. CASE ~Spent(t) /\ handler'[p].at = "issue" /\ handler'[p].token = t
    BY <1>0, <2>1, <2>4, RefreshBegins
  <2> QED
    BY <2>1, <2>3, <2>4
<1>revokes. ASSUME NEW p \in Handlers, RevokeFamily(p) \/ Rotate(p) \/ RevokeForLogout(p)
      PROVE OneAtATime'
  <2>1. /\ \A t \in Tokens : /\ tokens'[t].signIn = tokens[t].signIn
                             /\ tokens'[t].revoked =
                                   (tokens[t].revoked \/ t = handler[p].token \/ RevokeFamily(p))
        /\ handler'[p].at = "free" /\ UNCHANGED <<overlapped, stranded>>
        /\ \A q \in Handlers : q # p => handler'[q] = handler[q]
        /\ tokens' \in [1 .. n -> [revoked : BOOLEAN, replacedBy : 0 .. n, signIn : 1 .. n]]
    BY <1>0, <1>revokes, Revokes
  <2>2. Tokens' = Tokens /\ handler[p].token \in Tokens
    BY <1>0, <1>revokes, <2>1, TokenFields, Working DEF Tokens
  <2>3. /\ \A t \in Tokens : tokens[t].revoked => tokens'[t].revoked
        /\ tokens'[handler[p].token].revoked
    BY <2>1, <2>2
  <2>4. handler'[p].at # "issue" /\ handler'[p].at # "rotate"
    BY <2>1
  <2> QED
    BY <1>0, <2>1, <2>2, <2>3, <2>4, Passes
<1>issueTokensWithId. ASSUME NEW p \in Handlers, issueTokensWithId(p) PROVE OneAtATime'
  BY <1>0, <1>issueTokensWithId, IssueIsLast
<1>HandlerLost. ASSUME NEW p \in Handlers, HandlerLost(p) PROVE OneAtATime'
  <2>1. CASE On(p, "rotate")
    BY <1>0, <1>HandlerLost, <2>1, LostIsNoMore
  <2>2. CASE ~On(p, "rotate")
    <3>1. /\ UNCHANGED <<tokens, overlapped>> /\ Tokens' = Tokens /\ stranded \subseteq stranded'
          /\ handler'[p].at # "issue" /\ handler'[p].at # "rotate"
          /\ \A q \in Handlers : q # p => handler'[q] = handler[q]
      BY <1>0, <1>HandlerLost, Strands
    <3>2. handler[p].at # "rotate"
      BY <2>2 DEF On
    <3> QED
      BY <1>0, <3>1, <3>2, Passes
  <2> QED
    BY <2>1, <2>2
<1>unchanged. CASE UNCHANGED sessionVars
  BY <1>unchanged DEF sessionVars, OneAtATime, LastOf, WorkingFor, Refreshing, Rotating, Live,
     On, Tokens
<1> QED
  BY <1>quiet, <1>FindToken, <1>revokes, <1>issueTokensWithId, <1>HandlerLost, <1>unchanged
  DEF SessionsNext

-----------------------------------------------------------------------------
(* A replay ends the family *)

\* No token turns live and no refresh of an ended sign-in begins.
LEMMA StaysEnded ==
  ASSUME ReplayEndsFamily, EndedForGood, Tokens' = Tokens, ended' = ended, NEW p \in Handlers,
         \A t \in Tokens : /\ tokens'[t].signIn = tokens[t].signIn
                           /\ tokens[t].revoked => tokens'[t].revoked,
         \A q \in Handlers : handler[q].token \in Tokens \cup {0}, 0 \notin Tokens,
         \A q \in Handlers : q # p => handler'[q] = handler[q],
         handler'[p].at # "issue" \/ handler'[p].token = 0
  PROVE  ReplayEndsFamily' /\ EndedForGood'
<1>1. ReplayEndsFamily'
  BY DEF ReplayEndsFamily, Live
<1>2. ASSUME NEW s \in ended, NEW q \in Handlers, Refreshing(q, s)' PROVE FALSE
  <2>1. q # p
    BY <1>2 DEF Refreshing, On
  <2>2. Refreshing(q, s)
    BY <1>2, <2>1 DEF Refreshing, On
  <2> QED
    BY <2>2 DEF EndedForGood
<1> QED
  BY <1>1, <1>2 DEF EndedForGood

LEMMA EndsStep ==
  ASSUME SessionsTyped, IssuedToTheActive, ReplayEndsFamily, EndedForGood,
         [SessionsNext]_sessionVars
  PROVE  ReplayEndsFamily' /\ EndedForGood'
<1>0. PICK m, n \in Nat : RowsNumbered(m, n)
  BY DEF SessionsTyped, RowsAreNumbered
<1>1. Tokens = 1 .. n /\ 0 \notin Tokens /\ ended \subseteq 1 .. n
      /\ \A q \in Handlers : handler[q].token \in Tokens \cup {0}
  <2>1. Tokens = 1 .. n /\ \A q \in Handlers : handler[q].token \in 0 .. n
    BY <1>0, TokenFields, RequestFields
  <2>2. ended \subseteq 1 .. n
    BY <1>0 DEF RowsNumbered
  <2> QED
    BY <2>1, <2>2
<1>quiet. ASSUME NEW p \in Handlers,
                 \/ UpsertUser(p) \/ CreateInvitation(p) \/ FindInvitation(p) \/ SetPassword(p)
                 \/ MarkAccepted(p) \/ CheckPassword(p) \/ FindTokenForLogout(p)
      PROVE ReplayEndsFamily' /\ EndedForGood'
  <2>1. /\ UNCHANGED <<tokens, ended>> /\ Tokens' = Tokens
        /\ handler'[p].at # "issue" \/ handler'[p].token = 0
        /\ \A q \in Handlers : q # p => handler'[q] = handler[q]
    BY <1>0, <1>quiet, Quiet
  <2> QED
    BY <1>1, <2>1, StaysEnded
<1>FindToken. ASSUME NEW p \in Handlers, FindToken(p)
      PROVE ReplayEndsFamily' /\ EndedForGood'
  <2>1. PICK t \in Tokens :
          /\ \A q \in Handlers : q # p => handler'[q] = handler[q]
          /\ UNCHANGED <<tokens, ended>>
          /\ \/ handler'[p].at \in {"family", "free"}
             \/ ~Spent(t) /\ handler'[p].at = "issue" /\ handler'[p].token = t
    BY <1>0, <1>FindToken, FindTokenTurns
  <2>2. Tokens' = Tokens
    BY <2>1 DEF Tokens
  <2>3. CASE handler'[p].at \in {"family", "free"}
    <3>1. handler'[p].at # "issue"
      BY <2>3
    <3> QED
      BY <1>1, <2>1, <2>2, <3>1, StaysEnded
  <2>4. CASE ~Spent(t) /\ handler'[p].at = "issue" /\ handler'[p].token = t
    <3>1. ReplayEndsFamily'
      BY <2>1, <2>2 DEF ReplayEndsFamily, Live
    <3>2. tokens[t].signIn \notin ended
      BY <2>4 DEF ReplayEndsFamily, Live, Spent
    <3>3. ASSUME NEW s \in ended, NEW q \in Handlers, Refreshing(q, s)' PROVE FALSE
      <4>1. q # p
        BY <2>1, <2>4, <3>2, <3>3 DEF Refreshing, On
      <4>2. Refreshing(q, s)
        BY <2>1, <3>3, <4>1 DEF Refreshing, On
      <4> QED
        BY <4>2 DEF EndedForGood
    <3> QED
      BY <2>1, <3>1, <3>3 DEF EndedForGood
  <2> QED
    BY <2>1, <2>3, <2>4
<1>RevokeFamily. ASSUME NEW p \in Handlers, RevokeFamily(p)
      PROVE ReplayEndsFamily' /\ EndedForGood'
  <2>1. /\ tokens' \in [1 .. n -> [revoked : BOOLEAN, replacedBy : 0 .. n, signIn : 1 .. n]]
        /\ \A t \in Tokens : tokens'[t].signIn = tokens[t].signIn /\ tokens'[t].revoked
        /\ handler'[p].at = "free" /\ ended' = ended \cup Endable
        /\ \A q \in Handlers : q # p => handler'[q] = handler[q]
    BY <1>0, <1>RevokeFamily, Revokes
  <2>2. Tokens' = Tokens
    BY <1>1, <2>1 DEF Tokens
  <2>3. ReplayEndsFamily'
    BY <2>1, <2>2 DEF ReplayEndsFamily, Live
  <2>4. ASSUME NEW s \in ended', NEW q \in Handlers, Refreshing(q, s)' PROVE FALSE
    <3>1. Refreshing(q, s)
      <4>1. q # p
        BY <2>1, <2>4 DEF Refreshing, On
      <4>2. handler[q].token # 0 => tokens'[handler[q].token].signIn = tokens[handler[q].token].signIn
        BY <1>1, <2>1
      <4> QED
        BY <2>1, <2>4, <4>1, <4>2 DEF Refreshing, On
    <3> QED
      BY <2>1, <3>1 DEF EndedForGood, Endable
  <2> QED
    BY <2>3, <2>4 DEF EndedForGood
<1>revokes. ASSUME NEW p \in Handlers, Rotate(p) \/ RevokeForLogout(p), ~RevokeFamily(p)
      PROVE ReplayEndsFamily' /\ EndedForGood'
  <2>1. /\ tokens' \in [1 .. n -> [revoked : BOOLEAN, replacedBy : 0 .. n, signIn : 1 .. n]]
        /\ \A t \in Tokens : /\ tokens'[t].signIn = tokens[t].signIn
                             /\ tokens[t].revoked => tokens'[t].revoked
        /\ handler'[p].at # "issue" /\ ended' = ended
        /\ \A q \in Handlers : q # p => handler'[q] = handler[q]
    BY <1>0, <1>revokes, Revokes
  <2>2. Tokens' = Tokens
    BY <1>1, <2>1 DEF Tokens
  <2> QED
    BY <1>1, <2>1, <2>2, StaysEnded
<1>issueTokensWithId. ASSUME NEW p \in Handlers, issueTokensWithId(p)
      PROVE ReplayEndsFamily' /\ EndedForGood'
  <2> DEFINE old == handler[p].token
  <2>1. /\ Tokens' = 1 .. n + 1 /\ ended' = ended
        /\ tokens'[n + 1].signIn = (IF old = 0 THEN n + 1 ELSE tokens[old].signIn)
        /\ \A t \in 1 .. n : tokens'[t] = tokens[t]
        /\ \A q \in Handlers : q # p => handler'[q] = handler[q]
    BY <1>0, <1>issueTokensWithId, TokenIssued DEF Tokens
  <2>2. handler'[p].at # "issue"
    BY <1>0, <1>issueTokensWithId, TokenIssued
  <2>3. tokens'[n + 1].signIn \notin ended
    <3>1. CASE old = 0
      BY <1>1, <2>1, <3>1
    <3>2. CASE old # 0
      <4>1. Refreshing(p, tokens[old].signIn)
        BY <1>issueTokensWithId, <3>2 DEF Refreshing, issueTokensWithId
      <4> QED
        BY <2>1, <3>2, <4>1 DEF EndedForGood
    <3> QED
      BY <3>1, <3>2
  <2>4. ReplayEndsFamily'
    <3> SUFFICES ASSUME NEW t \in 1 .. n + 1, ~tokens'[t].revoked
                 PROVE  tokens'[t].signIn \notin ended
      BY <2>1 DEF ReplayEndsFamily, Live
    <3>1. CASE t = n + 1
      BY <2>3, <3>1
    <3>2. CASE t \in 1 .. n
      BY <1>1, <2>1, <3>2 DEF ReplayEndsFamily, Live
    <3> QED
      BY <3>1, <3>2
  <2>5. ASSUME NEW s \in ended, NEW q \in Handlers, Refreshing(q, s)' PROVE FALSE
    <3>1. q # p
      BY <2>2, <2>5 DEF Refreshing, On
    <3>2. Refreshing(q, s)
      BY <1>1, <2>1, <2>5, <3>1 DEF Refreshing, On
    <3> QED
      BY <3>2 DEF EndedForGood
  <2> QED
    BY <2>1, <2>4, <2>5 DEF EndedForGood
<1>HandlerLost. ASSUME NEW p \in Handlers, HandlerLost(p)
      PROVE ReplayEndsFamily' /\ EndedForGood'
  <2>1. /\ UNCHANGED <<tokens, ended>> /\ Tokens' = Tokens /\ handler'[p].at # "issue"
        /\ \A q \in Handlers : q # p => handler'[q] = handler[q]
    BY <1>0, <1>HandlerLost, Strands
  <2> QED
    BY <1>1, <2>1, StaysEnded
<1>unchanged. CASE UNCHANGED sessionVars
  BY <1>unchanged DEF sessionVars, ReplayEndsFamily, EndedForGood, Refreshing, Live, On, Tokens
<1> QED
  BY <1>quiet, <1>FindToken, <1>RevokeFamily, <1>revokes, <1>issueTokensWithId, <1>HandlerLost,
     <1>unchanged
  DEF SessionsNext

-----------------------------------------------------------------------------
(* Theorems about learner sessions *)

LEMMA SessionsInvInit == SessionsInit => SessionsInv
<1> SUFFICES ASSUME SessionsInit PROVE SessionsInv
  OBVIOUS
<1>1. SessionsTyped
  BY SessionsTypedInit
<1>2. Tokens = {} /\ ended = {}
      /\ \A p \in Handlers : handler[p].at = "free" /\ handler[p].token = 0
  BY DEF SessionsInit, Tokens, Free
<1>3. IssuedToTheActive /\ OneAtATime
  BY <1>2 DEF IssuedToTheActive, OneAtATime
<1>4. ReplayEndsFamily /\ EndedForGood
  BY <1>2 DEF ReplayEndsFamily, EndedForGood, Live
<1> QED
  BY <1>1, <1>3, <1>4 DEF SessionsInv

LEMMA SessionsInvStep == SessionsInv /\ [SessionsNext]_sessionVars => SessionsInv'
  BY SessionsTypedStep, ActiveStep, OneStep, EndsStep DEF SessionsInv

\* The invariant: types, who is issued a token, one live token for each sign-in,
\* and no token of an ended one.
THEOREM SessionsInvHolds == SessionsSpec => []SessionsInv
  BY SessionsInvInit, SessionsInvStep, PTL DEF SessionsSpec

\* Tokens, handlers and users keep their types, and only the active have tokens.
THEOREM SessionsTyping == SessionsSpec => []SessionsTypeOK
<1>1. ASSUME SessionsInv PROVE SessionsTypeOK
  <2>1. PICK m, n \in Nat : RowsNumbered(m, n)
    BY <1>1 DEF SessionsInv, SessionsTyped, RowsAreNumbered
  <2>2. \A i \in DOMAIN invitations : invitations[i] \in BOOLEAN
    BY <2>1 DEF RowsNumbered
  <2>3. \A t \in Tokens : tokens[t].signIn \in Tokens /\ tokens[t].replacedBy \in Tokens \cup {0}
    BY <2>1, TokenFields
  <2>4. \A p \in Handlers : handler[p].token \in Tokens \cup {0}
    BY <2>1, TokenFields, RequestFields
  <2> QED
    BY <1>1, <2>2, <2>3, <2>4 DEF SessionsInv, SessionsTyped, IssuedToTheActive,
       SessionsTypeOK
<1> QED
  BY <1>1, SessionsInvHolds, PTL

\* A replayed token ends the family: no sign-in that was there gets a live token
\* again, but for one whose refresh had its next token still to issue.
THEOREM FamilyEnds == SessionsSpec => []ReplayEndsFamily
<1>1. SessionsInv => ReplayEndsFamily
  BY DEF SessionsInv
<1> QED
  BY <1>1, SessionsInvHolds, PTL

\* At most one element: at most one in number.
LEMMA AtMostOne ==
  ASSUME NEW S, \A t, u \in S : t = u
  PROVE  IsFiniteSet(S) /\ Cardinality(S) \in Nat /\ Cardinality(S) <= 1
<1>1. CASE S = {}
  BY <1>1, FS_EmptySet
<1>2. CASE S # {}
  <2>1. PICK t \in S : TRUE
    BY <1>2
  <2>2. S = {t}
    BY <2>1
  <2> QED
    BY <2>2, FS_Singleton
<1> QED
  BY <1>1, <1>2

LEMMA Counted ==
  ASSUME SessionsAssumption, OneAtATime PROVE OneLiveTokenPerSignIn
<1> SUFFICES ASSUME NEW s \in Tokens \ overlapped
             PROVE  Cardinality({t \in Live \ stranded : tokens[t].signIn = s})
                      <= 1 + Cardinality({p \in Handlers :
                                 On(p, "rotate") /\ tokens[handler[p].token].signIn = s})
  BY DEF OneLiveTokenPerSignIn
<1> DEFINE live == {t \in Live \ stranded : tokens[t].signIn = s}
           rotating == {p \in Handlers : On(p, "rotate") /\ tokens[handler[p].token].signIn = s}
           f == [p \in rotating |-> handler[p].token]
           given == {handler[p].token : p \in rotating}
<1>1. IsFiniteSet(rotating) /\ Cardinality(rotating) \in Nat
  BY FS_Subset, FS_CardinalityType DEF SessionsAssumption
<1>2. f \in Surjection(rotating, given)
  BY DEF Surjection
<1>3. IsFiniteSet(given) /\ Cardinality(given) <= Cardinality(rotating)
  <2> HIDE DEF f, given, rotating
  <2> QED
    BY <1>1, <1>2, FS_Surjection
<1>4. Cardinality(given) \in Nat
  BY <1>3, FS_CardinalityType
<1>5. IsFiniteSet(LastOf(s)) /\ Cardinality(LastOf(s)) \in Nat /\ Cardinality(LastOf(s)) <= 1
  BY AtMostOne DEF OneAtATime
<1>6. live \subseteq LastOf(s) \cup given
  BY DEF LastOf
<1>7. /\ IsFiniteSet(LastOf(s) \cup given)
      /\ Cardinality(LastOf(s) \cup given)
           = Cardinality(LastOf(s)) + Cardinality(given) - Cardinality(LastOf(s) \cap given)
      /\ Cardinality(LastOf(s) \cap given) \in Nat
  <2>1. IsFiniteSet(LastOf(s) \cap given)
    BY <1>3, FS_Subset
  <2> QED
    BY <1>3, <1>5, <2>1, FS_Union, FS_CardinalityType
<1>8. Cardinality(live) <= Cardinality(LastOf(s) \cup given) /\ Cardinality(live) \in Nat
  <2> HIDE DEF live, given
  <2> QED
    BY <1>6, <1>7, FS_Subset, FS_CardinalityType
<1> HIDE DEF live, given, rotating
<1>9. Cardinality(live) <= 1 + Cardinality(rotating)
  BY <1>1, <1>3, <1>4, <1>5, <1>7, <1>8
<1> QED
  BY <1>9 DEF live, rotating

\* Of the tokens that were answered or are about to be, a sign-in has one live
\* one, and one more for each rotation under way, unless two refreshes of one
\* token overlapped; a refresh lost before it revokes strands the token it issued.
THEOREM OneLiveToken == SessionsSpec => []OneLiveTokenPerSignIn
<1>1. SessionsInv => OneLiveTokenPerSignIn
  BY Counted, SessionsAssumption DEF SessionsInv
<1> QED
  BY <1>1, SessionsInvHolds, PTL

-----------------------------------------------------------------------------
(* Both, as AccountsSpec runs them *)

\* The rows of operators and learners keep their types in every behaviour of
\* the composition, whichever part moves.
THEOREM AccountsTyping == AccountsSpec => []AccountsTypeOK
<1>1. AccountsSpec => OperatorsSpec
  <2>1. AccountsInit => OperatorsInit
    BY DEF AccountsInit
  <2>2. [AccountsNext]_accountsVars => [OperatorsNext]_operatorVars
    BY DEF AccountsNext, accountsVars
  <2> QED
    BY <2>1, <2>2, PTL DEF AccountsSpec, OperatorsSpec
<1>2. AccountsSpec => SessionsSpec
  <2>1. AccountsInit => SessionsInit
    BY DEF AccountsInit
  <2>2. [AccountsNext]_accountsVars => [SessionsNext]_sessionVars
    BY DEF AccountsNext, accountsVars
  <2> QED
    BY <2>1, <2>2, PTL DEF AccountsSpec, SessionsSpec
<1>3. OperatorsTypeOK /\ SessionsTypeOK => AccountsTypeOK
  BY DEF AccountsTypeOK
<1> QED
  BY <1>1, <1>2, <1>3, OperatorsTyping, SessionsTyping, PTL
=============================================================================
