---------------------------------- MODULE Chat ----------------------------------
(***************************************************************************)
(* Questions to the tutor, the replies, and what the replies cost: the     *)
(* quota check before a question, the transaction that accepts it, the     *)
(* call to the Agent, the transaction that saves the reply, and the        *)
(* restart of an enrollment that settles its usage and deletes its         *)
(* conversations.  Source: apps/api/src/chat, apps/api/src/token-usage and *)
(* restart() of apps/api/src/enrollments/enrollments.service.ts.           *)
(*                                                                         *)
(* One user.  A process is one HTTP request.  sendMessage() and            *)
(* streamMessage() make the same changes and are one.                      *)
(*                                                                         *)
(* A table is known by what its readers make of it: the usage columns of   *)
(* an enrollment's Conversation rows by their weighted sum, metered, in    *)
(* fractions of a token (Scale of them make one), and the QuotaLedger rows *)
(* by their sums.                                                          *)
(***************************************************************************)
EXTENDS Integers, FiniteSets, Functions

CONSTANTS
    Posts,            \* POST requests in flight: questions and restarts
    Enrollments,
    RequestIds,       \* of questions
    Costs,            \* weighted usage of a reply, 0 when Labs reports none
    Scale,            \* fractions of a token in a token
    Granted,          \* tokens granted to the user
    MaxGeneration     \* bound: Enrollment.generation

ASSUME ChatAssumption ==
    /\ Enrollments # {} /\ IsFiniteSet(Enrollments) /\ RequestIds # {}
    /\ Costs \subseteq Nat
    /\ Scale \in Nat \ {0}
    /\ Granted \in Nat
    /\ MaxGeneration \in Nat

VARIABLES
    generation,       \* Enrollment.generation
    active,           \* Enrollment.active
    conversations,    \* the Conversation rows
    metered,          \* per enrollment: the sum of their weighted usage
    charged,          \* per enrollment: what its QuotaLedger rows take, in tokens
    staleRows,        \* keys of the QuotaLedger rows of replies that came too late
    pc,               \* where each request is
    job,              \* the question or the enrollment it is about, and a usage
    reading,          \* what its quota check has read
    called,           \* history: keys of the questions put to the Agent
    spent,            \* history: per enrollment, usage of the replies dealt with
    settlements       \* history: per enrollment, how many QuotaLedger rows

accounts == <<metered, charged, staleRows, spent, settlements>>
vars == <<generation, active, conversations, accounts, pc, job, reading, called>>

-----------------------------------------------------------------------------
(* Data *)

Generations == 0 .. MaxGeneration

\* requestId is unique for an enrollment, a generation and a role
Keys == Enrollments \X Generations \X RequestIds
MessageRows == Keys \X {"USER", "ASSISTANT"}
Question(k) == <<k, "USER">>
Reply(k) == <<k, "ASSISTANT">>

\* usage: of the answer, or the sum that a restart has read.
Jobs == [key: Keys, usage: Nat]

\* balance, epoch: history, the balance and the generations at the first read.
Readings == [granted: Int, used: Nat, balance: Int, epoch: [Enrollments -> Generations]]

Labels == {"idle", "check", "ledgerRead", "usageRead", "verdict", "prepare",
           "agent", "save", "charge", "fallback", "restart"}

\* Mutant of RoundedUp: consumption with the sign of a grant.
GivenBack(x) == -((x + Scale - 1) \div Scale)
\* weightedConsumption(): up, to whole tokens
RoundedUp(x) == (x + Scale - 1) \div Scale

sumGrantedTokens == Granted - SumFunction(charged)
sumUsage == SumFunction(metered)
Balance == sumGrantedTokens - RoundedUp(sumUsage)

NoJob == [key |-> CHOOSE k \in Keys : TRUE, usage |-> 0]
NoReading == [granted |-> 0, used |-> 0, balance |-> 0,
              epoch |-> [e \in Enrollments |-> 0]]

Init ==
    /\ generation = [e \in Enrollments |-> 0]
    /\ active \in [Enrollments -> BOOLEAN]
    /\ \A d, e \in Enrollments : active[d] /\ active[e] => d = e
    /\ conversations = {}
    /\ metered = [e \in Enrollments |-> 0]
    /\ charged = [e \in Enrollments |-> 0]
    /\ staleRows = {}
    /\ pc = [p \in Posts |-> "idle"]
    /\ job = [p \in Posts |-> NoJob]
    /\ reading = [p \in Posts |-> NoReading]
    /\ called = {}
    /\ spent = [e \in Enrollments |-> 0]
    /\ settlements = [e \in Enrollments |-> 0]

-----------------------------------------------------------------------------
(* Process steps and row locks *)

At(p, label) == pc[p] = label
Goto(p, label) == pc' = [pc EXCEPT ![p] = label]
Hold(p, j) == job' = [job EXCEPT ![p] = j]
Note(p, n) == reading' = [reading EXCEPT ![p] = n]
Return(p) == Goto(p, "idle") /\ Hold(p, NoJob) /\ Note(p, NoReading)

Key(p) == job[p].key
EnrollmentOf(p) == Key(p)[1]
Plus(f, e, n) == [f EXCEPT ![e] = @ + n]

\* restart() has the User row and the row of every active Enrollment.
NoRestart == \A q \in Posts : ~At(q, "restart")

Current(k) == active[k[1]] /\ generation[k[1]] = k[2]

\* Mutant of assertCurrentEnrollment: a plain read asserts it and locks nothing.
OnlyLooks(k) == Current(k)
\* Mutant of assertCurrentEnrollment: whatever the generation.
AnyGeneration(k) == active[k[1]] /\ NoRestart
\* The update that asserts it waits for a restart to commit and looks again.
assertCurrentEnrollment(k) == Current(k) /\ NoRestart

-----------------------------------------------------------------------------
(* TokenQuotaGuard *)

\* A request comes from a page that shows some generation, perhaps an old one;
\* one with a request id already used is a repetition.
Ask(p, k) ==
    /\ At(p, "idle")
    /\ k[2] <= generation[k[1]]
    /\ Goto(p, "check")
    /\ Hold(p, [key |-> k, usage |-> 0])
    /\ UNCHANGED <<generation, active, conversations, accounts, reading, called>>

\* The two sums are read in parallel, by two statements.
Begun(p) == IF At(p, "check")
            THEN [reading[p] EXCEPT !.balance = Balance, !.epoch = generation]
            ELSE reading[p]

ReadLedger(p) ==
    /\ \/ At(p, "check") /\ Goto(p, "ledgerRead")
       \/ At(p, "usageRead") /\ Goto(p, "verdict")
    /\ Note(p, [Begun(p) EXCEPT !.granted = sumGrantedTokens])
    /\ UNCHANGED <<generation, active, conversations, accounts, job, called>>

ReadUsage(p) ==
    /\ \/ At(p, "check") /\ Goto(p, "usageRead")
       \/ At(p, "ledgerRead") /\ Goto(p, "verdict")
    /\ Note(p, [Begun(p) EXCEPT !.used = sumUsage])
    /\ UNCHANGED <<generation, active, conversations, accounts, job, called>>

\* Mutant of Exhausted: a balance of nothing is still a balance.
ExhaustedBelowZero(p) == reading[p].granted - RoundedUp(reading[p].used) < 0
\* evaluateTokenQuota()
Exhausted(p) == reading[p].granted - RoundedUp(reading[p].used) <= 0

\* 429
Refuse(p) ==
    /\ At(p, "verdict") /\ Exhausted(p)
    /\ Return(p)
    /\ UNCHANGED <<generation, active, conversations, accounts, called>>

Admit(p) ==
    /\ At(p, "verdict") /\ ~Exhausted(p)
    /\ Goto(p, "prepare")
    /\ Note(p, NoReading)
    /\ UNCHANGED <<generation, active, conversations, accounts, job, called>>

\* The check fails, or TOKEN_QUOTA_ENFORCED is off.
FailOpen(p) ==
    /\ pc[p] \in {"check", "ledgerRead", "usageRead"}
    /\ Goto(p, "prepare")
    /\ Note(p, NoReading)
    /\ UNCHANGED <<generation, active, conversations, accounts, job, called>>

-----------------------------------------------------------------------------
(* ChatService *)

Duplicate(k) == Question(k) \in conversations
\* prepareMessage(): the question's row, in one transaction.  With a running
\* machine the Agent is called next, without one the reply is a fallback.
Prepare(p, label) ==
    /\ At(p, "prepare")
    /\ assertCurrentEnrollment(Key(p))
    /\ ~Duplicate(Key(p))
    /\ conversations' = conversations \cup {Question(Key(p))}
    /\ Goto(p, label)
    /\ called' = IF label = "agent" THEN called \cup {Key(p)} ELSE called
    /\ UNCHANGED <<generation, active, accounts, job, reading>>

AgentAnswers(p, c) ==
    /\ At(p, "agent")
    /\ Goto(p, "save")
    /\ Hold(p, [key |-> Key(p), usage |-> c])
    /\ UNCHANGED <<generation, active, conversations, accounts, reading, called>>

AgentFails(p) ==
    /\ At(p, "agent")
    /\ Goto(p, "fallback")
    /\ UNCHANGED <<generation, active, conversations, accounts, job, reading, called>>

\* createCurrentConversation(): asserts the generation and creates the reply.
createCurrentConversation(k) ==
    /\ assertCurrentEnrollment(k)
    /\ Reply(k) \notin conversations
    /\ conversations' = conversations \cup {Reply(k)}

SaveReply(p) ==
    /\ At(p, "save")
    /\ createCurrentConversation(Key(p))
    /\ metered' = Plus(metered, EnrollmentOf(p), job[p].usage)
    /\ spent' = Plus(spent, EnrollmentOf(p), job[p].usage)
    /\ Return(p)
    /\ UNCHANGED <<generation, active, charged, staleRows, called, settlements>>

\* The reply came too late: StaleEnrollmentError.
ReplyIsStale(p) ==
    /\ At(p, "save") /\ job[p].usage > 0
    /\ ~Current(Key(p))
    /\ Goto(p, "charge")
    /\ UNCHANGED <<generation, active, conversations, accounts, job, reading, called>>

\* Its usage is charged all the same, by an upsert keyed by the question.
ChargeStale(p) ==
    /\ At(p, "charge")
    /\ LET e == EnrollmentOf(p)
           isNew == Key(p) \notin staleRows
       IN  /\ charged' = IF isNew THEN Plus(charged, e, RoundedUp(job[p].usage)) ELSE charged
           /\ settlements' = IF isNew THEN Plus(settlements, e, 1) ELSE settlements
           /\ spent' = Plus(spent, e, job[p].usage)
    /\ staleRows' = staleRows \cup {Key(p)}
    /\ Return(p)
    /\ UNCHANGED <<generation, active, conversations, called, metered>>
respondWithFallback(p) ==
    /\ At(p, "fallback")
    /\ createCurrentConversation(Key(p))
    /\ Return(p)
    /\ UNCHANGED <<generation, active, accounts, called>>

\* A transaction refuses or fails (the course has a new version, the lesson is
\* gone, the generation is over, the key is taken), or the function instance
\* disappears.  A restart rolls back.
Abort(p) ==
    /\ pc[p] \notin {"idle", "verdict"}
    /\ Return(p)
    /\ UNCHANGED <<generation, active, conversations, accounts, called>>

-----------------------------------------------------------------------------
(* EnrollmentsService *)

\* restart() has locked its rows and sums up the enrollment's usage.
RestartSum(p, e) ==
    /\ At(p, "idle")
    /\ NoRestart
    /\ generation[e] < MaxGeneration
    /\ Goto(p, "restart")
    /\ Hold(p, [key |-> <<e, generation[e], NoJob.key[3]>>, usage |-> metered[e]])
    /\ UNCHANGED <<generation, active, conversations, accounts, reading, called>>

\* It writes the sum to the ledger, deletes the rows and commits.
RestartCommit(p) ==
    LET e == EnrollmentOf(p) used == job[p].usage IN
    /\ At(p, "restart")
    /\ generation' = Plus(generation, e, 1)
    /\ active' = [x \in Enrollments |-> FALSE]
    /\ charged' = Plus(charged, e, RoundedUp(used))
    /\ settlements' = IF used > 0 THEN Plus(settlements, e, 1) ELSE settlements
    /\ conversations' = {r \in conversations : r[1][1] # e}
    /\ metered' = [metered EXCEPT ![e] = 0]
    /\ Return(p)
    /\ UNCHANGED <<staleRows, spent, called>>

\* enroll() locks the User row, so not during a restart, and leaves one course
\* active.  The admin API's enroll command locks nothing and leaves the others
\* active; the row it inserts during a restart is none of the restart's, and
\* comes after it here.
Enroll(e) ==
    /\ NoRestart
    /\ \/ active' = [x \in Enrollments |-> x = e]
       \/ active' = [active EXCEPT ![e] = TRUE]
    /\ UNCHANGED <<generation, conversations, accounts, pc, job, reading, called>>

-----------------------------------------------------------------------------

QuotaGuard(p) ==
    \/ \E k \in Keys : Ask(p, k)
    \/ ReadLedger(p) \/ ReadUsage(p) \/ FailOpen(p)
    \/ Refuse(p) \/ Admit(p)

Converse(p) ==
    \/ \E label \in {"agent", "fallback"} : Prepare(p, label)
    \/ \E c \in Costs : AgentAnswers(p, c)
    \/ AgentFails(p)
    \/ SaveReply(p) \/ ReplyIsStale(p) \/ ChargeStale(p) \/ respondWithFallback(p)

Restart(p) == (\E e \in Enrollments : RestartSum(p, e)) \/ RestartCommit(p)

Next ==
    \/ \E p \in Posts : QuotaGuard(p) \/ Converse(p) \/ Restart(p) \/ Abort(p)
    \/ \E e \in Enrollments : Enroll(e)

Spec == Init /\ [][Next]_vars

-----------------------------------------------------------------------------
(* Properties *)

\* Every variable stays in its type.
TypeOK ==
    /\ generation \in [Enrollments -> Generations]
    /\ active \in [Enrollments -> BOOLEAN]
    /\ conversations \subseteq MessageRows
    /\ metered \in [Enrollments -> Nat]
    /\ charged \in [Enrollments -> Nat]
    /\ staleRows \subseteq Keys
    /\ pc \in [Posts -> Labels]
    /\ job \in [Posts -> Jobs]
    /\ reading \in [Posts -> Readings]
    /\ called \subseteq Keys
    /\ spent \in [Enrollments -> Nat]
    /\ settlements \in [Enrollments -> Nat]

\* The transcript is of the current generation, and a reply in it answers a
\* question in it, whenever the Agent answers and however often the enrollment
\* is restarted in between.
TranscriptIsCurrent ==
    \A k \in Keys :
        /\ Question(k) \in conversations => k[2] = generation[k[1]]
        /\ Reply(k) \in conversations => Question(k) \in conversations

\* Every reply dealt with is charged once, in the conversation or in the
\* ledger: restarts and late replies neither give usage back nor charge it
\* again, but that each ledger row is rounded up to whole tokens.
ChargedOnce ==
    \A e \in Enrollments :
        LET total == Scale * charged[e] + metered[e]
        IN  /\ spent[e] <= total
            /\ total <= spent[e] + (Scale - 1) * settlements[e]

\* The Agent is called once for a question, though it is sent again, at the same
\* time or after the restart that deleted its row.
AskedOnce ==
    [][\A p \in Posts :
         At(p, "prepare") /\ pc'[p] = "agent" => Key(p) \notin called]_vars

\* But for a restart during the check, the verdict fits a balance the user had
\* while it was made, though replies are saved and late ones charged meanwhile.
VerdictFitsABalance ==
    \A p \in Posts :
        At(p, "verdict") /\ reading[p].epoch = generation =>
            IF Exhausted(p) THEN Balance <= 0 ELSE reading[p].balance > 0

-----------------------------------------------------------------------------
(* Strengthening of the invariants, for the proofs *)

\* The question of p has been accepted and p is not done with it.
InFlight(p) == pc[p] \in {"agent", "save", "charge", "fallback"}

\* A key that cannot be accepted again: its question is there, or its generation
\* is over.
Used(k) == Question(k) \in conversations \/ k[2] < generation[k[1]]

\* One request at a time, once, is about an accepted question.
KeysAreUsedOnce ==
    /\ \A k \in called \cup staleRows : Used(k)
    /\ \A p \in Posts : InFlight(p) => Used(Key(p)) /\ Key(p) \notin staleRows
    /\ \A p, q \in Posts : InFlight(p) /\ InFlight(q) /\ Key(p) = Key(q) => p = q

\* A restart is alone, and what it has read is still so.
RestartIsExclusive ==
    \A p \in Posts : At(p, "restart") =>
        /\ job[p].usage = metered[EnrollmentOf(p)]
        /\ generation[EnrollmentOf(p)] < MaxGeneration
        /\ \A q \in Posts : At(q, "restart") => p = q

ChatInv ==
    TranscriptIsCurrent /\ KeysAreUsedOnce /\ RestartIsExclusive /\ ChargedOnce

\* But for a restart, the balance only falls while a check is under way: what
\* the check has read so far lies between the balance it began with and today's.
ReadingFits(p) ==
    LET n == reading[p] IN
    /\ \A e \in Enrollments : n.epoch[e] <= generation[e]
    /\ n.epoch = generation =>
          /\ pc[p] \in {"ledgerRead", "verdict"} => n.granted >= sumGrantedTokens
          /\ pc[p] \in {"usageRead", "verdict"} => n.used <= sumUsage
          /\ At(p, "ledgerRead") => n.balance >= n.granted - RoundedUp(sumUsage)
          /\ At(p, "usageRead") => n.balance >= sumGrantedTokens - RoundedUp(n.used)
          /\ At(p, "verdict") => n.balance >= n.granted - RoundedUp(n.used)

ReadingsFit == \A p \in Posts : ReadingFits(p)

-----------------------------------------------------------------------------
(* What the documentation says and the code does not do *)

\* README.md:137 has a question refused when the balance is not positive.
\* The balance never grows, so a refused user has none left.
RefusedWhenExhausted ==
    \A p \in Posts : At(p, "verdict") /\ Exhausted(p) => Balance <= 0

\* README.md:145: a restart does not change the balance.
RestartKeepsBalance ==
    [][generation' # generation => Balance' = Balance]_vars
===============================================================================
