------------------------------- MODULE ChatProofs -------------------------------
(***************************************************************************)
(* Proofs about Chat, for any number of requests, enrollments and question *)
(* ids, any costs, any scale and any grant: the transcript, the question   *)
(* asked once, the conservation of usage, and the verdict on a question,   *)
(* which compares sums over all enrollments.  The sums are SumFunction of  *)
(* the community modules; that its recursive function exists and is what a *)
(* sum is, is proved by the smallest counterexample.                       *)
(***************************************************************************)
EXTENDS Chat, FiniteSetTheorems, WellFoundedInduction, TLAPS

\* The variables but reading, which holds sums over all enrollments and has an
\* invariant of its own.
Typed ==
    /\ generation \in [Enrollments -> Generations]
    /\ active \in [Enrollments -> BOOLEAN]
    /\ conversations \subseteq MessageRows
    /\ metered \in [Enrollments -> Nat]
    /\ charged \in [Enrollments -> Nat]
    /\ staleRows \subseteq Keys
    /\ pc \in [Posts -> Labels]
    /\ job \in [Posts -> Jobs]
    /\ called \subseteq Keys
    /\ spent \in [Enrollments -> Nat]
    /\ settlements \in [Enrollments -> Nat]

Inv == Typed /\ ChatInv

-----------------------------------------------------------------------------
(* Numbers *)

\* What rounding up to whole tokens adds.
LEMMA Rounding ==
  ASSUME NEW x \in Nat
  PROVE  /\ RoundedUp(x) \in Nat
         /\ x <= Scale * RoundedUp(x)
         /\ Scale * RoundedUp(x) <= x + (Scale - 1)
BY ChatAssumption DEF RoundedUp

LEMMA RoundingNothing ==
  RoundedUp(0) = 0
BY ChatAssumption DEF RoundedUp

LEMMA Distributes ==
  ASSUME NEW s \in Nat, NEW x \in Nat, NEW y \in Nat
  PROVE  s * (x + y) = s * x + s * y
BY SMT

-----------------------------------------------------------------------------
(* Types *)

LEMMA NoJobTyped ==
  NoJob \in Jobs /\ NoJob.key \in Keys /\ NoJob.usage = 0
<1>1. PICK e \in Enrollments, r \in RequestIds : TRUE
  BY ChatAssumption
<1>2. <<e, 0, r>> \in Keys
  BY ChatAssumption DEF Keys, Generations
<1>3. (CHOOSE k \in Keys : TRUE) \in Keys
  BY <1>2
<1> QED
  BY <1>3 DEF NoJob, Jobs

LEMMA KeyTyped ==
  ASSUME Typed, NEW p \in Posts
  PROVE  /\ Key(p) \in Keys /\ job[p].usage \in Nat
         /\ EnrollmentOf(p) \in Enrollments
         /\ Key(p)[2] \in Generations
  BY DEF Typed, Jobs, Key, EnrollmentOf, Keys

LEMMA JobTyped ==
  ASSUME NEW k \in Keys, NEW u \in Nat
  PROVE  [key |-> k, usage |-> u] \in Jobs
  BY DEF Jobs

LEMMA PlusTyped ==
  ASSUME NEW f \in [Enrollments -> Nat], NEW e \in Enrollments, NEW n \in Nat
  PROVE  /\ Plus(f, e, n) \in [Enrollments -> Nat]
         /\ Plus(f, e, n)[e] = f[e] + n
         /\ \A d \in Enrollments \ {e} : Plus(f, e, n)[d] = f[d]
  BY DEF Plus

\* A step of request p.
Step(p) == QuotaGuard(p) \/ Converse(p) \/ Restart(p) \/ Abort(p)

\* Where a step takes p, and that it takes nobody else anywhere.
LEMMA ProcessStep ==
  ASSUME Inv, NEW p \in Posts, Step(p)
  PROVE  /\ pc' \in [Posts -> Labels] /\ job' \in [Posts -> Jobs]
         /\ \A q \in Posts \ {p} : pc'[q] = pc[q] /\ job'[q] = job[q]
<1> DEFINE Goal == /\ pc' \in [Posts -> Labels] /\ job' \in [Posts -> Jobs]
                   /\ \A q \in Posts \ {p} : pc'[q] = pc[q] /\ job'[q] = job[q]
<1> SUFFICES Goal
  OBVIOUS
<1>a. pc \in [Posts -> Labels] /\ job \in [Posts -> Jobs]
  BY DEF Inv, Typed
<1>b. \A k \in Keys : \A u \in Nat : [key |-> k, usage |-> u] \in Jobs
  BY JobTyped
<1>c. NoJob \in Jobs /\ NoJob.key[3] \in RequestIds
  BY NoJobTyped DEF Keys
<1>d. Key(p) \in Keys /\ EnrollmentOf(p) \in Enrollments /\ Costs \subseteq Nat
  BY KeyTyped, ChatAssumption DEF Inv
<1>e. ASSUME NEW label \in Labels, Goto(p, label)
      PROVE  pc' \in [Posts -> Labels] /\ \A q \in Posts \ {p} : pc'[q] = pc[q]
  BY <1>a, <1>e DEF Goto
<1>f. ASSUME NEW j \in Jobs, Hold(p, j)
      PROVE  job' \in [Posts -> Jobs] /\ \A q \in Posts \ {p} : job'[q] = job[q]
  BY <1>a, <1>f DEF Hold
<1>g. Return(p) => Goal
  BY <1>c, <1>e, <1>f DEF Return, Labels
<1>h. ASSUME NEW label \in Labels, Goto(p, label), UNCHANGED job
      PROVE  Goal
  BY <1>a, <1>e, <1>h
<1>i. ASSUME NEW label \in Labels, Goto(p, label), NEW j \in Jobs, Hold(p, j)
      PROVE  Goal
  BY <1>e, <1>f, <1>i
<1> HIDE DEF Goal
<1>1. ASSUME NEW k \in Keys, Ask(p, k)
     PROVE  Goal
  BY <1>1, <1>b, <1>i DEF Ask, Labels
<1>2. CASE ReadLedger(p)
  BY <1>2, <1>h DEF ReadLedger, Labels
<1>3. CASE ReadUsage(p)
  BY <1>3, <1>h DEF ReadUsage, Labels
<1>4. CASE FailOpen(p)
  BY <1>4, <1>h DEF FailOpen, Labels
<1>5. CASE Refuse(p)
  BY <1>5, <1>g DEF Refuse
<1>6. CASE Admit(p)
  BY <1>6, <1>h DEF Admit, Labels
<1>7. ASSUME NEW label \in {"agent", "fallback"}, Prepare(p, label)
     PROVE  Goal
  BY <1>7, <1>h DEF Prepare, Labels
<1>8. ASSUME NEW c \in Costs, AgentAnswers(p, c)
     PROVE  Goal
  BY <1>8, <1>b, <1>d, <1>i DEF AgentAnswers, Labels
<1>9. CASE AgentFails(p)
  BY <1>9, <1>h DEF AgentFails, Labels
<1>10. CASE SaveReply(p)
  BY <1>10, <1>g DEF SaveReply
<1>11. CASE ReplyIsStale(p)
  BY <1>11, <1>h DEF ReplyIsStale, Labels
<1>12. CASE ChargeStale(p)
  BY <1>12, <1>g DEF ChargeStale
<1>13. CASE respondWithFallback(p)
  BY <1>13, <1>g DEF respondWithFallback
<1>14. ASSUME NEW e \in Enrollments, RestartSum(p, e)
     PROVE  Goal
  <2>1. generation[e] \in Generations /\ metered[e] \in Nat
    BY DEF Inv, Typed
  <2>2. <<e, generation[e], NoJob.key[3]>> \in Keys
    BY <1>c, <2>1 DEF Keys
  <2>3. [key |-> <<e, generation[e], NoJob.key[3]>>, usage |-> metered[e]] \in Jobs
    BY <1>b, <2>1, <2>2
  <2> QED
    BY <1>14, <1>i, <2>3 DEF RestartSum, Labels
<1>15. CASE RestartCommit(p)
  BY <1>15, <1>g DEF RestartCommit
<1>16. CASE Abort(p)
  BY <1>16, <1>g DEF Abort
<1> QED
  BY <1>1, <1>2, <1>3, <1>4, <1>5, <1>6, <1>7, <1>8, <1>9, <1>10, <1>11, <1>12, <1>13,
     <1>14, <1>15, <1>16
     DEF Step, QuotaGuard, Converse, Restart

\* The steps that write a table.
Writes(p) ==
    \/ \E label \in {"agent", "fallback"} : Prepare(p, label)
    \/ SaveReply(p) \/ ChargeStale(p) \/ respondWithFallback(p) \/ RestartCommit(p)

tables == <<generation, active, conversations, accounts, called>>

LEMMA OthersWriteNothing ==
  ASSUME NEW p \in Posts, Step(p), ~Writes(p)
  PROVE  UNCHANGED tables
<1> DEFINE Goal == UNCHANGED tables
<1> SUFFICES Goal
  OBVIOUS
<1> HIDE DEF Goal
<1>1. ASSUME NEW k \in Keys, Ask(p, k)
     PROVE  Goal
  BY <1>1 DEF Ask, Goal, tables
<1>2. CASE ReadLedger(p)
  BY <1>2 DEF ReadLedger, Goal, tables
<1>3. CASE ReadUsage(p)
  BY <1>3 DEF ReadUsage, Goal, tables
<1>4. CASE FailOpen(p)
  BY <1>4 DEF FailOpen, Goal, tables
<1>5. CASE Refuse(p)
  BY <1>5 DEF Refuse, Goal, tables
<1>6. CASE Admit(p)
  BY <1>6 DEF Admit, Goal, tables
<1>7. ASSUME NEW label \in {"agent", "fallback"}, Prepare(p, label)
     PROVE  Goal
  BY <1>7 DEF Writes
<1>8. ASSUME NEW c \in Costs, AgentAnswers(p, c)
     PROVE  Goal
  BY <1>8 DEF AgentAnswers, Goal, tables
<1>9. CASE AgentFails(p)
  BY <1>9 DEF AgentFails, Goal, tables
<1>10. CASE SaveReply(p)
  BY <1>10 DEF Writes
<1>11. CASE ReplyIsStale(p)
  BY <1>11 DEF ReplyIsStale, Goal, tables
<1>12. CASE ChargeStale(p)
  BY <1>12 DEF Writes
<1>13. CASE respondWithFallback(p)
  BY <1>13 DEF Writes
<1>14. ASSUME NEW e \in Enrollments, RestartSum(p, e)
     PROVE  Goal
  BY <1>14 DEF RestartSum, Goal, tables
<1>15. CASE RestartCommit(p)
  BY <1>15 DEF Writes
<1>16. CASE Abort(p)
  BY <1>16 DEF Abort, Goal, tables
<1> QED
  BY <1>1, <1>2, <1>3, <1>4, <1>5, <1>6, <1>7, <1>8, <1>9, <1>10, <1>11, <1>12, <1>13,
     <1>14, <1>15, <1>16
     DEF Step, QuotaGuard, Converse, Restart

LEMMA TypedStep ==
  ASSUME Inv, NEW p \in Posts, Step(p)
  PROVE  Typed'
<1> USE DEF Typed
<1>a. pc' \in [Posts -> Labels] /\ job' \in [Posts -> Jobs]
  BY ProcessStep
<1>b. /\ Typed /\ Key(p) \in Keys /\ job[p].usage \in Nat /\ EnrollmentOf(p) \in Enrollments
      /\ RoundedUp(job[p].usage) \in Nat
  BY KeyTyped, Rounding DEF Inv
<1>c. Question(Key(p)) \in MessageRows /\ Reply(Key(p)) \in MessageRows
  BY <1>b DEF Question, Reply, MessageRows
<1>1. CASE ~Writes(p)
  BY <1>1, <1>a, <1>b, OthersWriteNothing DEF tables, accounts
<1>2. ASSUME NEW label \in {"agent", "fallback"}, Prepare(p, label)
      PROVE  Typed'
  BY <1>2, <1>a, <1>b, <1>c DEF Prepare, accounts
<1>3. CASE SaveReply(p)
  BY <1>3, <1>a, <1>b, <1>c, PlusTyped DEF SaveReply, createCurrentConversation
<1>4. CASE ChargeStale(p)
  <2>1. charged' \in [Enrollments -> Nat] /\ settlements' \in [Enrollments -> Nat]
    BY <1>4, <1>b, PlusTyped DEF ChargeStale
  <2> QED
    BY <1>4, <1>a, <1>b, <2>1, PlusTyped DEF ChargeStale
<1>5. CASE respondWithFallback(p)
  BY <1>5, <1>a, <1>b, <1>c DEF respondWithFallback, createCurrentConversation, accounts
<1>6. CASE RestartCommit(p)
  <2>1. generation[EnrollmentOf(p)] < MaxGeneration
    BY <1>6 DEF Inv, ChatInv, RestartIsExclusive, RestartCommit
  <2>2. generation' \in [Enrollments -> Generations]
    BY <1>6, <1>b, <2>1, ChatAssumption DEF RestartCommit, Plus, Generations
  <2>3. charged' \in [Enrollments -> Nat] /\ settlements' \in [Enrollments -> Nat]
    BY <1>6, <1>b, PlusTyped DEF RestartCommit
  <2>4. active' \in [Enrollments -> BOOLEAN] /\ metered' \in [Enrollments -> Nat]
    BY <1>6, <1>b DEF RestartCommit
  <2> QED
    BY <1>6, <1>a, <1>b, <2>2, <2>3, <2>4 DEF RestartCommit
<1> QED
  BY <1>1, <1>2, <1>3, <1>4, <1>5, <1>6 DEF Writes

-----------------------------------------------------------------------------
(* The transcript and the keys *)

\* The rows after each step that writes rows: only of the step's key, only
\* while its generation is current; a restart ends the generation.
LEMMA RowsStep ==
  ASSUME Inv, NEW p \in Posts, Step(p)
  PROVE  \/ UNCHANGED <<conversations, generation>>
         \/ /\ UNCHANGED generation
            /\ Current(Key(p))
            /\ \/ /\ At(p, "prepare") /\ ~Duplicate(Key(p))
                  /\ conversations' = conversations \cup {Question(Key(p))}
               \/ /\ pc[p] \in {"save", "fallback"}
                  /\ conversations' = conversations \cup {Reply(Key(p))}
         \/ /\ At(p, "restart")
            /\ generation' = [generation EXCEPT ![EnrollmentOf(p)] = @ + 1]
            /\ conversations' = {r \in conversations : r[1][1] # EnrollmentOf(p)}
<1>1. CASE ~Writes(p)
  BY <1>1, OthersWriteNothing DEF tables
<1>2. ASSUME NEW label \in {"agent", "fallback"}, Prepare(p, label)
      PROVE  /\ UNCHANGED generation /\ Current(Key(p)) /\ At(p, "prepare")
             /\ ~Duplicate(Key(p))
             /\ conversations' = conversations \cup {Question(Key(p))}
  BY <1>2 DEF Prepare, assertCurrentEnrollment
<1>3. CASE SaveReply(p)
  BY <1>3 DEF SaveReply, createCurrentConversation, assertCurrentEnrollment, At
<1>4. CASE ChargeStale(p)
  BY <1>4 DEF ChargeStale
<1>5. CASE respondWithFallback(p)
  BY <1>5 DEF respondWithFallback, createCurrentConversation, assertCurrentEnrollment,
     At
<1>6. CASE RestartCommit(p)
  BY <1>6 DEF RestartCommit, Plus
<1> QED
  BY <1>1, <1>2, <1>3, <1>4, <1>5, <1>6 DEF Writes

\* A used key stays used, and generations only grow.
LEMMA UsedStep ==
  ASSUME Inv, NEW p \in Posts, Step(p), NEW k \in Keys, Used(k)
  PROVE  Used(k)'
<1>1. /\ generation \in [Enrollments -> Generations] /\ EnrollmentOf(p) \in Enrollments
      /\ k[1] \in Enrollments /\ k[2] \in Nat /\ generation[k[1]] \in Nat
  BY KeyTyped, ChatAssumption DEF Inv, Typed, Keys, Generations
<1>2. CASE /\ At(p, "restart")
           /\ generation' = [generation EXCEPT ![EnrollmentOf(p)] = @ + 1]
           /\ conversations' = {r \in conversations : r[1][1] # EnrollmentOf(p)}
  <2>1. CASE k[1] = EnrollmentOf(p)
    <3>1. Question(k) \in conversations => k[2] = generation[k[1]]
      BY DEF Inv, ChatInv, TranscriptIsCurrent
    <3>2. k[2] <= generation[k[1]]
      BY <1>1, <3>1 DEF Used
    <3>3. generation'[k[1]] = generation[k[1]] + 1
      BY <1>1, <1>2, <2>1
    <3>4. k[2] < generation'[k[1]]
      BY <1>1, <3>2, <3>3
    <3> QED
      BY <3>4 DEF Used
  <2>2. CASE k[1] # EnrollmentOf(p)
    <3>1. generation'[k[1]] = generation[k[1]]
      BY <1>1, <1>2, <2>2
    <3>2. Question(k) \in conversations => Question(k) \in conversations'
      BY <1>2, <2>2 DEF Question
    <3> QED
      BY <3>1, <3>2 DEF Used
  <2> QED
    BY <2>1, <2>2
<1>3. CASE UNCHANGED generation /\ conversations \subseteq conversations'
  BY <1>3 DEF Used
<1> QED
  BY <1>2, <1>3, RowsStep

LEMMA TranscriptStep ==
  ASSUME Inv, NEW p \in Posts, Step(p)
  PROVE  TranscriptIsCurrent'
<1> SUFFICES ASSUME NEW k \in Keys
             PROVE  /\ Question(k) \in conversations' => k[2] = generation'[k[1]]
                    /\ Reply(k) \in conversations' => Question(k) \in conversations'
  BY DEF TranscriptIsCurrent, Question, Reply
<1>1. /\ generation \in [Enrollments -> Generations] /\ EnrollmentOf(p) \in Enrollments
      /\ k[1] \in Enrollments /\ Key(p) \in Keys
      /\ Question(k) \in conversations => k[2] = generation[k[1]]
      /\ Reply(k) \in conversations => Question(k) \in conversations
  BY KeyTyped DEF Inv, Typed, Keys, ChatInv, TranscriptIsCurrent
<1>2. /\ Question(k) # Reply(Key(p)) /\ Reply(k) # Question(Key(p))
      /\ Question(k) = Question(Key(p)) => k = Key(p)
      /\ Reply(k) = Reply(Key(p)) => k = Key(p)
  BY DEF Question, Reply
<1>3. CASE UNCHANGED <<conversations, generation>>
  BY <1>1, <1>3
<1>4. CASE /\ UNCHANGED generation /\ Current(Key(p))
           /\ conversations' = conversations \cup {Question(Key(p))}
  BY <1>1, <1>2, <1>4 DEF Current
<1>5. CASE /\ UNCHANGED generation /\ Current(Key(p)) /\ pc[p] \in {"save", "fallback"}
           /\ conversations' = conversations \cup {Reply(Key(p))}
  <2>1. Used(Key(p))
    BY <1>5 DEF Inv, ChatInv, KeysAreUsedOnce, InFlight
  <2>2. Key(p)[2] = generation[Key(p)[1]] /\ generation[Key(p)[1]] \in Nat
    BY <1>1, <1>5, ChatAssumption DEF Current, Keys, Generations
  <2>3. Question(Key(p)) \in conversations
    BY <2>1, <2>2 DEF Used
  <2> QED
    BY <1>1, <1>2, <1>5, <2>3
<1>6. CASE /\ generation' = [generation EXCEPT ![EnrollmentOf(p)] = @ + 1]
           /\ conversations' = {r \in conversations : r[1][1] # EnrollmentOf(p)}
  <2>1. k[1] # EnrollmentOf(p) => generation'[k[1]] = generation[k[1]]
    BY <1>1, <1>6
  <2>2. /\ Question(k) \in conversations' <=>
             Question(k) \in conversations /\ k[1] # EnrollmentOf(p)
        /\ Reply(k) \in conversations' <=>
             Reply(k) \in conversations /\ k[1] # EnrollmentOf(p)
    BY <1>6 DEF Question, Reply
  <2> QED
    BY <1>1, <2>1, <2>2
<1> QED
  BY <1>3, <1>4, <1>5, <1>6, RowsStep

\* p is accepting its question.
Accepts(p) ==
    /\ At(p, "prepare") /\ Current(Key(p)) /\ ~Duplicate(Key(p))
    /\ Question(Key(p)) \in conversations'
    /\ UNCHANGED <<generation, staleRows>> /\ Key(p)' = Key(p)

\* A request takes a key in flight by accepting it and in no other way.
LEMMA FlightStep ==
  ASSUME Inv, NEW p \in Posts, Step(p)
  PROVE  /\ InFlight(p)' => Key(p)' = Key(p) /\ (InFlight(p) \/ Accepts(p))
         /\ \/ called' = called
            \/ called' = called \cup {Key(p)} /\ Accepts(p)
         /\ \/ staleRows' = staleRows
            \/ staleRows' = staleRows \cup {Key(p)} /\ InFlight(p) /\ ~InFlight(p)'
<1> DEFINE Goal == /\ InFlight(p)' => Key(p)' = Key(p) /\ (InFlight(p) \/ Accepts(p))
                   /\ \/ called' = called
                      \/ called' = called \cup {Key(p)} /\ Accepts(p)
                   /\ \/ staleRows' = staleRows
                      \/ /\ staleRows' = staleRows \cup {Key(p)}
                         /\ InFlight(p) /\ ~InFlight(p)'
<1> SUFFICES Goal
  OBVIOUS
<1>a. pc \in [Posts -> Labels] /\ job \in [Posts -> Jobs]
  BY DEF Inv, Typed
<1>b. ASSUME NEW label, Goto(p, label), UNCHANGED <<called, staleRows>>,
             label \notin {"agent", "save", "charge", "fallback"}
      PROVE  Goal
  BY <1>a, <1>b DEF Goto, InFlight
<1>c. ASSUME NEW label, Goto(p, label), UNCHANGED <<called, staleRows>>,
             InFlight(p), job'[p].key = job[p].key
      PROVE  Goal
  BY <1>c DEF Key
<1>d. ASSUME Return(p)
      PROVE  ~InFlight(p)'
  BY <1>a, <1>d DEF Return, Goto, InFlight
<1> HIDE DEF Goal
<1>1. ASSUME NEW k \in Keys, Ask(p, k)
     PROVE  Goal
  BY <1>1, <1>b DEF Ask, accounts
<1>2. CASE ReadLedger(p)
  BY <1>2, <1>b DEF ReadLedger, accounts
<1>3. CASE ReadUsage(p)
  BY <1>3, <1>b DEF ReadUsage, accounts
<1>4. CASE FailOpen(p)
  BY <1>4, <1>b DEF FailOpen, accounts
<1>5. CASE Refuse(p)
  BY <1>5, <1>b DEF Refuse, accounts, Return
<1>6. CASE Admit(p)
  BY <1>6, <1>b DEF Admit, accounts
<1>7. ASSUME NEW label \in {"agent", "fallback"}, Prepare(p, label)
     PROVE  Goal
  <2>1. Accepts(p) /\ Key(p)' = Key(p)
    BY <1>7 DEF Prepare, Accepts, accounts, Key, assertCurrentEnrollment
  <2> QED
    BY <1>7, <2>1 DEF Prepare, accounts, Goal
<1>8. ASSUME NEW c \in Costs, AgentAnswers(p, c)
     PROVE  Goal
  <2>1. job'[p].key = job[p].key
    BY <1>8, <1>a DEF AgentAnswers, Hold, Key
  <2> QED
    BY <1>8, <1>c, <2>1 DEF AgentAnswers, accounts, InFlight, At
<1>9. CASE AgentFails(p)
  BY <1>9, <1>c DEF AgentFails, accounts, InFlight, At
<1>10. CASE SaveReply(p)
  BY <1>10, <1>b DEF SaveReply, accounts, Return
<1>11. CASE ReplyIsStale(p)
  BY <1>11, <1>c DEF ReplyIsStale, accounts, InFlight, At
<1>12. CASE ChargeStale(p)
  BY <1>12, <1>d DEF ChargeStale, InFlight, At, Goal
<1>13. CASE respondWithFallback(p)
  BY <1>13, <1>b DEF respondWithFallback, accounts, Return
<1>14. ASSUME NEW e \in Enrollments, RestartSum(p, e)
     PROVE  Goal
  BY <1>14, <1>b DEF RestartSum, accounts
<1>15. CASE RestartCommit(p)
  BY <1>15, <1>b DEF RestartCommit, accounts, Return
<1>16. CASE Abort(p)
  BY <1>16, <1>b DEF Abort, accounts, Return
<1> QED
  BY <1>1, <1>2, <1>3, <1>4, <1>5, <1>6, <1>7, <1>8, <1>9, <1>10, <1>11, <1>12, <1>13,
     <1>14, <1>15, <1>16
     DEF Step, QuotaGuard, Converse, Restart

LEMMA KeysStep ==
  ASSUME Inv, NEW p \in Posts, Step(p)
  PROVE  KeysAreUsedOnce'
<1>1. /\ \A k \in called \cup staleRows : Used(k)
      /\ \A q \in Posts : InFlight(q) => Used(Key(q)) /\ Key(q) \notin staleRows
      /\ \A q, r \in Posts : InFlight(q) /\ InFlight(r) /\ Key(q) = Key(r) => q = r
  BY DEF Inv, ChatInv, KeysAreUsedOnce
<1>2. /\ called \subseteq Keys /\ staleRows \subseteq Keys
      /\ \A q \in Posts : Key(q) \in Keys
  BY KeyTyped DEF Inv, Typed
<1>3. \A k \in Keys : Used(k) => Used(k)'
  BY UsedStep
<1>4. \A q \in Posts \ {p} : /\ InFlight(q)' <=> InFlight(q)
                              /\ Key(q)' = Key(q)
  BY ProcessStep DEF InFlight, Key
<1>5. ASSUME Accepts(p)
      PROVE  ~Used(Key(p)) /\ \A k \in Keys : k = Key(p) => Used(k)'
  <2>1. generation[Key(p)[1]] \in Nat
    BY <1>2, ChatAssumption DEF Inv, Typed, Keys, Generations
  <2> QED
    BY <1>5, <2>1 DEF Accepts, Used, Duplicate, Current
<1>6. \A k \in (called \cup staleRows)' : Used(k)'
  BY <1>1, <1>2, <1>3, <1>5, FlightStep
<1>7. ASSUME InFlight(p)'
      PROVE  /\ Used(Key(p))' /\ Key(p)' = Key(p)
             /\ \A q \in Posts \ {p} : InFlight(q) => Key(q) # Key(p)
             /\ Key(p) \notin staleRows
  <2>1. Key(p)' = Key(p) /\ (InFlight(p) \/ Accepts(p))
    BY <1>7, FlightStep
  <2>2. \A k \in Keys : k = Key(p) => Used(k)'
    BY <1>1, <1>3, <1>5, <2>1
  <2>3. Used(Key(p))'
    BY <1>2, <2>1, <2>2
  <2> QED
    BY <1>1, <1>5, <2>1, <2>3
<1>8. ASSUME NEW q \in Posts, InFlight(q)'
      PROVE  /\ Used(Key(q))' /\ Key(q)' \notin staleRows'
             /\ \A r \in Posts : InFlight(r)' /\ Key(q)' = Key(r)' => q = r
  <2>1. CASE q = p
    BY <1>4, <1>7, <1>8, <2>1, FlightStep
  <2>2. CASE q # p
    <3>1. InFlight(q) /\ Key(q)' = Key(q) /\ Used(Key(q))
      BY <1>1, <1>4, <1>8, <2>2
    <3>2. Used(Key(q))'
      BY <1>2, <1>3, <3>1
    <3>3. Key(q) \notin staleRows'
      BY <1>1, <2>2, <3>1, FlightStep
    <3> QED
      BY <1>1, <1>4, <1>7, <2>2, <3>1, <3>2, <3>3
  <2> QED
    BY <2>1, <2>2
<1> QED
  BY <1>6, <1>8 DEF KeysAreUsedOnce

-----------------------------------------------------------------------------
(* The accounts *)

\* A restart begins when there is none, and while there is one nothing else
\* touches what it has read.
LEMMA RestartMoves ==
  ASSUME Inv, NEW p \in Posts, Step(p)
  PROVE  /\ At(p, "restart")' =>
              /\ NoRestart /\ UNCHANGED <<metered, generation>>
              /\ job'[p].usage = metered[EnrollmentOf(p)']
              /\ generation[EnrollmentOf(p)'] < MaxGeneration
         /\ UNCHANGED <<metered, generation>> \/ NoRestart \/ (At(p, "restart") /\ ~At(p, "restart")')
<1> DEFINE Goal == /\ At(p, "restart")' =>
                        /\ NoRestart /\ UNCHANGED <<metered, generation>>
                        /\ job'[p].usage = metered[EnrollmentOf(p)']
                        /\ generation[EnrollmentOf(p)'] < MaxGeneration
                   /\ \/ UNCHANGED <<metered, generation>>
                      \/ NoRestart
                      \/ At(p, "restart") /\ ~At(p, "restart")'
<1> SUFFICES Goal
  OBVIOUS
<1>a. pc \in [Posts -> Labels] /\ job \in [Posts -> Jobs]
  BY DEF Inv, Typed
<1>b. ASSUME NEW label, Goto(p, label), label # "restart",
             UNCHANGED <<metered, generation>> \/ NoRestart \/ At(p, "restart")
      PROVE  Goal
  BY <1>a, <1>b DEF Goto, At
<1> HIDE DEF Goal
<1>1. ASSUME NEW k \in Keys, Ask(p, k)
     PROVE  Goal
  BY <1>1, <1>b DEF Ask, accounts
<1>2. CASE ReadLedger(p)
  BY <1>2, <1>b DEF ReadLedger, accounts
<1>3. CASE ReadUsage(p)
  BY <1>3, <1>b DEF ReadUsage, accounts
<1>4. CASE FailOpen(p)
  BY <1>4, <1>b DEF FailOpen, accounts
<1>5. CASE Refuse(p)
  BY <1>5, <1>b DEF Refuse, accounts, Return
<1>6. CASE Admit(p)
  BY <1>6, <1>b DEF Admit, accounts
<1>7. ASSUME NEW label \in {"agent", "fallback"}, Prepare(p, label)
     PROVE  Goal
  BY <1>7, <1>b DEF Prepare, accounts
<1>8. ASSUME NEW c \in Costs, AgentAnswers(p, c)
     PROVE  Goal
  BY <1>8, <1>b DEF AgentAnswers, accounts
<1>9. CASE AgentFails(p)
  BY <1>9, <1>b DEF AgentFails, accounts
<1>10. CASE SaveReply(p)
  BY <1>10, <1>b DEF SaveReply, Return, createCurrentConversation,
     assertCurrentEnrollment
<1>11. CASE ReplyIsStale(p)
  BY <1>11, <1>b DEF ReplyIsStale, accounts
<1>12. CASE ChargeStale(p)
  BY <1>12, <1>b DEF ChargeStale, accounts, Return
<1>13. CASE respondWithFallback(p)
  BY <1>13, <1>b DEF respondWithFallback, accounts, Return
<1>14. ASSUME NEW e \in Enrollments, RestartSum(p, e)
     PROVE  Goal
  <2>1. job'[p].usage = metered[e] /\ EnrollmentOf(p)' = e
    BY <1>14, <1>a DEF RestartSum, Hold, EnrollmentOf, Key
  <2> QED
    BY <1>14, <2>1 DEF RestartSum, accounts, Goal
<1>15. CASE RestartCommit(p)
  BY <1>15, <1>b DEF RestartCommit, accounts, Return
<1>16. CASE Abort(p)
  BY <1>16, <1>b DEF Abort, accounts, Return
<1> QED
  BY <1>1, <1>2, <1>3, <1>4, <1>5, <1>6, <1>7, <1>8, <1>9, <1>10, <1>11, <1>12, <1>13,
     <1>14, <1>15, <1>16
     DEF Step, QuotaGuard, Converse, Restart

LEMMA RestartStep ==
  ASSUME Inv, NEW p \in Posts, Step(p)
  PROVE  RestartIsExclusive'
<1> SUFFICES ASSUME NEW q \in Posts, At(q, "restart")'
             PROVE  /\ job'[q].usage = metered'[EnrollmentOf(q)']
                    /\ generation'[EnrollmentOf(q)'] < MaxGeneration
                    /\ \A r \in Posts : At(r, "restart")' => q = r
  BY DEF RestartIsExclusive
<1>1. \A r \in Posts \ {p} : /\ At(r, "restart")' <=> At(r, "restart")
                              /\ job'[r] = job[r] /\ EnrollmentOf(r)' = EnrollmentOf(r)
  BY ProcessStep DEF At, EnrollmentOf, Key
<1>2. \A r \in Posts : At(r, "restart") =>
        /\ job[r].usage = metered[EnrollmentOf(r)]
        /\ generation[EnrollmentOf(r)] < MaxGeneration
        /\ \A x \in Posts : At(x, "restart") => r = x
  BY DEF Inv, ChatInv, RestartIsExclusive
<1>3. CASE q = p
  <2>1. /\ NoRestart /\ job'[q].usage = metered[EnrollmentOf(q)']
        /\ generation[EnrollmentOf(q)'] < MaxGeneration
        /\ UNCHANGED <<metered, generation>>
    BY <1>3, RestartMoves
  <2> QED
    BY <1>1, <1>3, <2>1 DEF NoRestart
<1>4. CASE q # p
  <2>1. At(q, "restart") /\ ~At(p, "restart") /\ ~NoRestart
    BY <1>1, <1>2, <1>4 DEF NoRestart
  <2>2. UNCHANGED <<metered, generation>> /\ ~At(p, "restart")'
    BY <2>1, RestartMoves
  <2> QED
    BY <1>1, <1>2, <1>4, <2>1, <2>2
<1> QED
  BY <1>3, <1>4

\* How a step moves the accounts of the enrollment it is about: an answer is
\* saved, a late one is charged, a restart settles.
LEMMA AccountsStep ==
  ASSUME Inv, NEW p \in Posts, Step(p)
  PROVE  LET e == EnrollmentOf(p)
             u == job[p].usage
         IN  \/ UNCHANGED <<metered, charged, spent, settlements>>
             \/ /\ metered' = Plus(metered, e, u) /\ spent' = Plus(spent, e, u)
                /\ UNCHANGED <<charged, settlements>>
             \/ /\ charged' = Plus(charged, e, RoundedUp(u)) /\ spent' = Plus(spent, e, u)
                /\ settlements' = Plus(settlements, e, 1) /\ UNCHANGED metered
             \/ /\ u = metered[e]
                /\ charged' = Plus(charged, e, RoundedUp(u))
                /\ metered' = [metered EXCEPT ![e] = 0]
                /\ settlements' = IF u > 0 THEN Plus(settlements, e, 1) ELSE settlements
                /\ UNCHANGED spent
<1>1. CASE ~Writes(p)
  BY <1>1, OthersWriteNothing DEF tables, accounts
<1>2. CASE \E label \in {"agent", "fallback"} : Prepare(p, label)
  BY <1>2 DEF Prepare, accounts
<1>3. CASE SaveReply(p)
  BY <1>3 DEF SaveReply
<1>4. CASE ChargeStale(p)
  <2>1. Key(p) \notin staleRows
    BY <1>4 DEF ChargeStale, Inv, ChatInv, KeysAreUsedOnce, InFlight, At
  <2> QED
    BY <1>4, <2>1 DEF ChargeStale
<1>5. CASE respondWithFallback(p)
  BY <1>5 DEF respondWithFallback, accounts
<1>6. CASE RestartCommit(p)
  <2>1. job[p].usage = metered[EnrollmentOf(p)]
    BY <1>6 DEF RestartCommit, Inv, ChatInv, RestartIsExclusive
  <2> QED
    BY <1>6, <2>1 DEF RestartCommit
<1> QED
  BY <1>1, <1>2, <1>3, <1>4, <1>5, <1>6 DEF Writes

\* The account of one enrollment, with n the ledger rows and x what was spent.
Charges(c, m, x, n) == x <= Scale * c + m /\ Scale * c + m <= x + (Scale - 1) * n

LEMMA ChargesKept ==
  ASSUME NEW c \in Nat, NEW m \in Nat, NEW x \in Nat, NEW n \in Nat, NEW u \in Nat,
         Charges(c, m, x, n)
  PROVE  /\ Charges(c, m + u, x + u, n)
         /\ Charges(c + RoundedUp(u), m, x + u, n + 1)
         /\ u = m /\ u > 0 => Charges(c + RoundedUp(u), 0, x, n + 1)
         /\ u = m /\ u = 0 => Charges(c + RoundedUp(u), 0, x, n)
<1> DEFINE a == Scale * c
           b == Scale * RoundedUp(u)
           d == (Scale - 1) * n
<1>1. /\ Scale \in Nat /\ Scale - 1 \in Nat /\ RoundedUp(u) \in Nat
      /\ u <= b /\ b <= u + (Scale - 1)
  BY Rounding, ChatAssumption
<1>2. a \in Int /\ b \in Int /\ d \in Int
  BY <1>1
<1>3. Scale * (c + RoundedUp(u)) = a + b
  BY <1>1, Distributes
<1>4. (Scale - 1) * (n + 1) = d + (Scale - 1)
  <2>1. (Scale - 1) * (n + 1) = (Scale - 1) * n + (Scale - 1) * 1
    BY <1>1, Distributes
  <2> QED
    BY <1>1, <2>1
<1>5. x <= a + m /\ a + m <= x + d
  BY DEF Charges
<1>6. u = 0 => RoundedUp(u) = 0
  BY RoundingNothing
<1> HIDE DEF a, b, d
<1>7. x + u <= a + (m + u) /\ a + (m + u) <= x + u + d
  BY <1>2, <1>5
<1>8. x + u <= (a + b) + m /\ (a + b) + m <= x + u + (d + (Scale - 1))
  BY <1>1, <1>2, <1>5
<1>9. u = m => x <= (a + b) + 0 /\ (a + b) + 0 <= x + (d + (Scale - 1))
  BY <1>1, <1>2, <1>5
<1>10. Charges(c, m + u, x + u, n)
  BY <1>7 DEF Charges, a, d
<1>11. Charges(c + RoundedUp(u), m, x + u, n + 1)
  BY <1>3, <1>4, <1>8 DEF Charges
<1>12. u = m => Charges(c + RoundedUp(u), 0, x, n + 1)
  BY <1>3, <1>4, <1>9 DEF Charges
<1>13. ASSUME u = m, u = 0
       PROVE  Charges(c + RoundedUp(u), 0, x, n)
  <2>1. c + RoundedUp(u) = c
    BY <1>6, <1>13
  <2> QED
    BY <1>13, <2>1
<1> QED
  BY <1>10, <1>11, <1>12, <1>13

LEMMA ChargedStep ==
  ASSUME Inv, NEW p \in Posts, Step(p)
  PROVE  ChargedOnce'
<1>1. /\ metered \in [Enrollments -> Nat] /\ charged \in [Enrollments -> Nat]
      /\ spent \in [Enrollments -> Nat] /\ settlements \in [Enrollments -> Nat]
  BY DEF Inv, Typed
<1>2. PICK d \in Enrollments, u \in Nat : d = EnrollmentOf(p) /\ u = job[p].usage
  BY KeyTyped DEF Inv
<1>3. \A e \in Enrollments : Charges(charged[e], metered[e], spent[e], settlements[e])
  BY DEF Inv, ChatInv, ChargedOnce, Charges
<1>4. /\ charged[d] \in Nat /\ metered[d] \in Nat /\ spent[d] \in Nat
      /\ settlements[d] \in Nat /\ RoundedUp(u) \in Nat
  BY <1>1, Rounding
<1>5. /\ Charges(charged[d], metered[d] + u, spent[d] + u, settlements[d])
      /\ Charges(charged[d] + RoundedUp(u), metered[d], spent[d] + u, settlements[d] + 1)
      /\ u = metered[d] /\ u > 0 =>
           Charges(charged[d] + RoundedUp(u), 0, spent[d], settlements[d] + 1)
      /\ u = metered[d] /\ u = 0 =>
           Charges(charged[d] + RoundedUp(u), 0, spent[d], settlements[d])
  BY <1>3, <1>4, ChargesKept
<1>6. \A f \in [Enrollments -> Nat] : \A n \in Nat :
        /\ Plus(f, d, n)[d] = f[d] + n
        /\ \A e \in Enrollments \ {d} : Plus(f, d, n)[e] = f[e]
  BY PlusTyped
<1>7. ASSUME NEW e \in Enrollments
      PROVE  Charges(charged'[e], metered'[e], spent'[e], settlements'[e])
  <2>1. CASE UNCHANGED <<metered, charged, spent, settlements>>
    BY <1>3, <2>1
  <2>2. CASE /\ metered' = Plus(metered, d, u) /\ spent' = Plus(spent, d, u)
             /\ UNCHANGED <<charged, settlements>>
    BY <1>1, <1>3, <1>5, <1>6, <2>2
  <2>3. CASE /\ charged' = Plus(charged, d, RoundedUp(u)) /\ spent' = Plus(spent, d, u)
             /\ settlements' = Plus(settlements, d, 1) /\ UNCHANGED metered
    <3>1. CASE e # d
      <4>1. charged'[e] = charged[e] /\ spent'[e] = spent[e]
        BY <1>1, <1>4, <2>3, <3>1 DEF Plus
      <4>2. settlements'[e] = settlements[e] /\ metered'[e] = metered[e]
        BY <1>1, <2>3, <3>1 DEF Plus
      <4> QED
        BY <1>3, <4>1, <4>2
    <3>2. CASE e = d
      <4>1. charged'[e] = charged[d] + RoundedUp(u) /\ spent'[e] = spent[d] + u
        BY <1>1, <1>4, <2>3, <3>2 DEF Plus
      <4>2. settlements'[e] = settlements[d] + 1 /\ metered'[e] = metered[d]
        BY <1>1, <2>3, <3>2 DEF Plus
      <4> QED
        BY <1>5, <4>1, <4>2
    <3> QED
      BY <3>1, <3>2
  <2>4. CASE /\ u = metered[d]
             /\ charged' = Plus(charged, d, RoundedUp(u))
             /\ metered' = [metered EXCEPT ![d] = 0]
             /\ settlements' = IF u > 0 THEN Plus(settlements, d, 1) ELSE settlements
             /\ UNCHANGED spent
    <3>1. CASE e # d
      <4>1. charged'[e] = charged[e] /\ metered'[e] = metered[e] /\ spent'[e] = spent[e]
        BY <1>1, <1>4, <2>4, <3>1 DEF Plus
      <4>2. settlements'[e] = settlements[e]
        BY <1>1, <2>4, <3>1 DEF Plus
      <4> QED
        BY <1>3, <4>1, <4>2
    <3>2. CASE e = d
      <4>1. charged'[e] = charged[d] + RoundedUp(u) /\ metered'[e] = 0 /\ spent'[e] = spent[d]
        BY <1>1, <1>4, <2>4, <3>2 DEF Plus
      <4>2. settlements'[e] = IF u > 0 THEN settlements[d] + 1 ELSE settlements[d]
        BY <1>1, <2>4, <3>2 DEF Plus
      <4>3. u > 0 \/ u = 0
        OBVIOUS
      <4> QED
        BY <1>5, <2>4, <4>1, <4>2, <4>3
    <3> QED
      BY <3>1, <3>2
  <2> QED
    BY <1>2, <2>1, <2>2, <2>3, <2>4, AccountsStep
<1> QED
  BY <1>7 DEF ChargedOnce, Charges

-----------------------------------------------------------------------------
(* Theorems *)

LEMMA EnrollStep ==
  ASSUME Inv, NEW e \in Enrollments, Enroll(e)
  PROVE  Inv'
<1>1. Typed'
  BY DEF Enroll, accounts, Inv, Typed
<1>2. TranscriptIsCurrent' /\ ChargedOnce'
  BY DEF Enroll, accounts, Inv, ChatInv, TranscriptIsCurrent, ChargedOnce
<1>3. KeysAreUsedOnce'
  BY DEF Enroll, accounts, Inv, ChatInv, KeysAreUsedOnce, Used, InFlight, Key
<1>4. RestartIsExclusive'
  BY DEF Enroll, accounts, Inv, ChatInv, RestartIsExclusive, At, EnrollmentOf, Key
<1> QED
  BY <1>1, <1>2, <1>3, <1>4 DEF Inv, ChatInv

LEMMA StutterStep ==
  ASSUME Inv, UNCHANGED vars
  PROVE  Inv'
<1>1. Typed'
  BY DEF vars, accounts, Inv, Typed
<1>2. TranscriptIsCurrent' /\ ChargedOnce'
  BY DEF vars, accounts, Inv, ChatInv, TranscriptIsCurrent, ChargedOnce
<1>3. KeysAreUsedOnce'
  BY DEF vars, accounts, Inv, ChatInv, KeysAreUsedOnce, Used, InFlight, Key
<1>4. RestartIsExclusive'
  BY DEF vars, accounts, Inv, ChatInv, RestartIsExclusive, At, EnrollmentOf, Key
<1> QED
  BY <1>1, <1>2, <1>3, <1>4 DEF Inv, ChatInv

LEMMA InitInv ==
  Init => Inv
<1> SUFFICES ASSUME Init
             PROVE  Inv
  OBVIOUS
<1>1. Typed
  BY NoJobTyped, ChatAssumption DEF Init, Typed, Labels, Generations, MessageRows, Keys
<1>2. TranscriptIsCurrent /\ KeysAreUsedOnce /\ RestartIsExclusive
  BY DEF Init, TranscriptIsCurrent, KeysAreUsedOnce, RestartIsExclusive, InFlight, At
<1>3. ChargedOnce
  BY ChatAssumption DEF Init, ChargedOnce
<1> QED
  BY <1>1, <1>2, <1>3 DEF Inv, ChatInv

LEMMA InvStep == Inv /\ [Next]_vars => Inv'
<1> SUFFICES ASSUME Inv, [Next]_vars
             PROVE  Inv'
  OBVIOUS
<1>1. ASSUME NEW p \in Posts, Step(p)
      PROVE  Inv'
  BY <1>1, TypedStep, TranscriptStep, KeysStep, RestartStep, ChargedStep DEF Inv,
     ChatInv
<1>2. ASSUME NEW e \in Enrollments, Enroll(e)
      PROVE  Inv'
  BY <1>2, EnrollStep
<1>3. CASE UNCHANGED vars
  BY <1>3, StutterStep
<1> QED
  BY <1>1, <1>2, <1>3 DEF Next, Step

\* The inductive invariant: the keys in flight, the keys used and a restart's
\* reading are what the code's locks and unique keys make them.
THEOREM Invariant ==
  Spec => []Inv
  BY InvStep, InitInv, PTL DEF Spec

\* Whenever the Agent answers, the transcript holds the current generation's
\* questions and only replies to them.
THEOREM Transcript ==
  Spec => []TranscriptIsCurrent
<1>1. Inv => TranscriptIsCurrent
  BY DEF Inv, ChatInv
<1> QED
  BY <1>1, Invariant, PTL

\* No usage is given back and none charged twice, for any number of restarts,
\* late replies and repetitions, but for the rounding of each ledger row.
THEOREM Conservation ==
  Spec => []ChargedOnce
<1>1. Inv => ChargedOnce
  BY DEF Inv, ChatInv
<1> QED
  BY <1>1, Invariant, PTL

\* A question goes to the Agent once.
THEOREM OneCall ==
  Spec => AskedOnce
<1>1. Inv /\ [Next]_vars =>
        [\A p \in Posts : At(p, "prepare") /\ pc'[p] = "agent" => Key(p) \notin called]_vars
  <2> SUFFICES ASSUME Inv, Next, NEW p \in Posts, At(p, "prepare"), pc'[p] = "agent"
               PROVE  Key(p) \notin called
    OBVIOUS
  <2>1. PICK q \in Posts : Step(q)
    <3>1. ASSUME NEW e \in Enrollments, Enroll(e)
          PROVE  FALSE
      BY <3>1 DEF Enroll, At
    <3> QED
      BY <3>1 DEF Next, Step
  <2>2. q = p
    BY <2>1, ProcessStep DEF At
  <2>3. Accepts(p)
    BY <2>1, <2>2, FlightStep DEF InFlight, At
  <2>4. Key(p) \in Keys /\ generation[Key(p)[1]] \in Nat
    BY KeyTyped, ChatAssumption DEF Inv, Typed, Keys, Generations
  <2>5. ~Used(Key(p))
    BY <2>3, <2>4 DEF Accepts, Used, Duplicate, Current
  <2> QED
    BY <2>5 DEF Inv, ChatInv, KeysAreUsedOnce
<1> QED
  BY <1>1, Invariant, PTL DEF Spec, AskedOnce

-----------------------------------------------------------------------------
(* Sums: a function defined by recursion over finite sets exists, and a sum  *)
(* of naturals grows with what it sums                                       *)

Any(s) == CHOOSE x \in s : TRUE
AddAny(f, g, s) == IF s = {} THEN 0 ELSE f[Any(s)] + g[s \ {Any(s)}]
Sums(f, S) == CHOOSE g : g = [s \in SUBSET S |-> AddAny(f, g, s)]

\* SumFunction() takes the elements one by one, in an order of its own.
LEMMA SumIs ==
  ASSUME NEW f
  PROVE  SumFunction(f) = Sums(f, DOMAIN f)[DOMAIN f]
  BY DEF SumFunction, SumFunctionOnSet, FoldFunctionOnSet, MapThenFoldSet, Sums,
     AddAny, Any

LEMMA SmallestExists ==
  ASSUME NEW S \in SUBSET Nat, S # {}
  PROVE  \E x \in S : \A y \in S : x <= y
<1> DEFINE R == {ss \in Nat \X Nat : ss[1] < ss[2]}
<1>1. IsWellFoundedOn(R, Nat)
  BY NatLessThanWellFounded DEF OpToRel
<1>2. \A x, y \in Nat : y < x => <<y, x>> \in R
  OBVIOUS
<1> HIDE DEF R
<1>3. PICK x \in S : \A y \in S : ~(<<y, x>> \in R)
  BY <1>1, WFMin
<1>4. \A y \in S : ~(y < x)
  <2> SUFFICES ASSUME NEW y \in S, y < x PROVE FALSE
    OBVIOUS
  <2>1. x \in Nat /\ y \in Nat
    OBVIOUS
  <2>2. <<y, x>> \in R
    BY <1>2, <2>1
  <2> QED
    BY <1>3, <2>2, Zenon
<1>5. \A y \in S : y \in Nat /\ x \in Nat
  OBVIOUS
<1> QED
  BY <1>4, <1>5

LEMMA WithoutAny ==
  ASSUME NEW S, IsFiniteSet(S), NEW s \in SUBSET S, s # {}
  PROVE  /\ Any(s) \in s
         /\ s \ {Any(s)} \in SUBSET S
         /\ Cardinality(s) \in Nat
         /\ Cardinality(s \ {Any(s)}) = Cardinality(s) - 1
<1>1. Any(s) \in s
  BY DEF Any
<1>2. IsFiniteSet(s)
  BY FS_Subset
<1> QED
  BY <1>1, <1>2, FS_RemoveElement, FS_CardinalityType

LEMMA SumsExist ==
  ASSUME NEW f, NEW S, IsFiniteSet(S)
  PROVE  \E g : g = [s \in SUBSET S |-> AddAny(f, g, s)]
<1> DEFINE Small(n) == {s \in SUBSET S : Cardinality(s) <= n}
           Exists(n) == \E g : g = [s \in Small(n) |-> AddAny(f, g, s)]
           Bad == {n \in Nat : ~Exists(n)}
<1>1. Exists(0)
  <2> DEFINE h == [s \in Small(0) |-> 0]
  <2>1. \A s \in Small(0) : s = {}
    <3> SUFFICES ASSUME NEW s \in SUBSET S, Cardinality(s) <= 0 PROVE s = {}
      OBVIOUS
    <3>1. IsFiniteSet(s) /\ Cardinality(s) \in Nat
      BY FS_Subset, FS_CardinalityType
    <3>2. Cardinality(s) = 0
      BY <3>1
    <3> QED
      BY <3>1, <3>2, FS_EmptySet
  <2>2. h = [s \in Small(0) |-> AddAny(f, h, s)]
    BY <2>1 DEF AddAny
  <2> HIDE DEF h
  <2> QED
    BY <2>2
<1>2. ASSUME NEW m \in Nat, Exists(m)
      PROVE  Exists(m + 1)
  <2>1. PICK g : g = [s \in Small(m) |-> AddAny(f, g, s)]
    BY <1>2
  <2> DEFINE h == [s \in Small(m + 1) |-> AddAny(f, g, s)]
  <2>2. ASSUME NEW s \in Small(m + 1), s # {}
        PROVE  g[s \ {Any(s)}] = h[s \ {Any(s)}]
    <3>1. s \ {Any(s)} \in Small(m) /\ s \ {Any(s)} \in Small(m + 1)
      BY <2>2, WithoutAny
    <3> QED
      BY <2>1, <3>1
  <2>3. \A s \in Small(m + 1) : AddAny(f, g, s) = AddAny(f, h, s)
    BY <2>2 DEF AddAny
  <2>4. h = [s \in Small(m + 1) |-> AddAny(f, h, s)]
    BY <2>3
  <2> HIDE DEF h
  <2> QED
    BY <2>4
<1> HIDE DEF Exists
<1>3. \A n \in Nat : Exists(n)
  <2> SUFFICES ASSUME Bad # {} PROVE FALSE
    OBVIOUS
  <2>1. PICK m \in Bad : \A n \in Bad : m <= n
    BY SmallestExists
  <2>2. m \in Nat /\ ~Exists(m) /\ m # 0
    BY <1>1, <2>1
  <2>3. m - 1 \in Nat /\ m - 1 \notin Bad
    BY <2>1, <2>2
  <2>4. Exists((m - 1) + 1)
    BY <1>2, <2>3
  <2> QED
    BY <2>2, <2>4
<1>4. Cardinality(S) \in Nat /\ Small(Cardinality(S)) = SUBSET S
  BY FS_Subset, FS_CardinalityType
<1>5. Exists(Cardinality(S))
  BY <1>3, <1>4
<1> QED
  BY <1>4, <1>5 DEF Exists

LEMMA SumsRec ==
  ASSUME NEW f, NEW S, IsFiniteSet(S)
  PROVE  /\ Sums(f, S)[{}] = 0
         /\ \A s \in SUBSET S : s # {} =>
               Sums(f, S)[s] = f[Any(s)] + Sums(f, S)[s \ {Any(s)}]
<1> DEFINE h == Sums(f, S)
<1>1. h = [t \in SUBSET S |-> AddAny(f, h, t)]
  BY SumsExist DEF Sums
<1> HIDE DEF h
<1>2. h[{}] = 0
  BY <1>1 DEF AddAny
<1>3. \A s \in SUBSET S : s # {} => h[s] = f[Any(s)] + h[s \ {Any(s)}]
  BY <1>1 DEF AddAny
<1> QED
  BY <1>2, <1>3 DEF h

\* A sum of naturals is a natural, and grows with what it sums.
LEMMA SumsGrow ==
  ASSUME NEW S, IsFiniteSet(S), NEW f \in [S -> Nat], NEW g \in [S -> Nat],
         \A x \in S : f[x] <= g[x]
  PROVE  \A s \in SUBSET S : /\ Sums(f, S)[s] \in Nat /\ Sums(g, S)[s] \in Nat
                             /\ Sums(f, S)[s] <= Sums(g, S)[s]
<1> DEFINE Fine(s) == /\ Sums(f, S)[s] \in Nat /\ Sums(g, S)[s] \in Nat
                      /\ Sums(f, S)[s] <= Sums(g, S)[s]
           Bad == {n \in Nat : \E s \in SUBSET S : Cardinality(s) = n /\ ~Fine(s)}
<1>f. /\ Sums(f, S)[{}] = 0
      /\ \A s \in SUBSET S : s # {} =>
            Sums(f, S)[s] = f[Any(s)] + Sums(f, S)[s \ {Any(s)}]
  BY SumsRec
<1>g. /\ Sums(g, S)[{}] = 0
      /\ \A s \in SUBSET S : s # {} =>
            Sums(g, S)[s] = g[Any(s)] + Sums(g, S)[s \ {Any(s)}]
  BY SumsRec
<1>1. ASSUME NEW s \in SUBSET S, s = {} PROVE Fine(s)
  BY <1>1, <1>f, <1>g
<1>2. ASSUME NEW s \in SUBSET S, s # {}, Fine(s \ {Any(s)}) PROVE Fine(s)
  <2>1. Any(s) \in S
    BY <1>2, WithoutAny
  <2>2. /\ f[Any(s)] \in Nat /\ g[Any(s)] \in Nat /\ f[Any(s)] <= g[Any(s)]
    BY <2>1
  <2>3. /\ Sums(f, S)[s] = f[Any(s)] + Sums(f, S)[s \ {Any(s)}]
        /\ Sums(g, S)[s] = g[Any(s)] + Sums(g, S)[s \ {Any(s)}]
    BY <1>2, <1>f, <1>g
  <2> QED
    BY <1>2, <2>2, <2>3
<1> HIDE DEF Fine
<1>3. Bad = {}
  <2> SUFFICES ASSUME Bad # {} PROVE FALSE
    OBVIOUS
  <2>1. PICK m \in Bad : \A n \in Bad : m <= n
    BY SmallestExists
  <2>2. PICK s \in SUBSET S : Cardinality(s) = m /\ ~Fine(s)
    BY <2>1
  <2>3. s # {} /\ ~Fine(s \ {Any(s)})
    BY <1>1, <1>2, <2>2
  <2>4. m \in Nat /\ Cardinality(s \ {Any(s)}) = m - 1 /\ s \ {Any(s)} \in SUBSET S /\ m # 0
    <3>1. Cardinality(s \ {Any(s)}) \in Nat
      BY <2>2, FS_Subset, FS_CardinalityType
    <3> QED
      BY <2>2, <2>3, <3>1, WithoutAny
  <2>5. m - 1 \in Bad
    BY <2>3, <2>4
  <2> QED
    BY <2>1, <2>4, <2>5
<1>4. \A s \in SUBSET S : Cardinality(s) \in Nat
  BY FS_Subset, FS_CardinalityType
<1> QED
  BY <1>3, <1>4 DEF Fine

LEMMA SumGrows ==
  ASSUME NEW S, IsFiniteSet(S), NEW f \in [S -> Nat], NEW g \in [S -> Nat],
         \A x \in S : f[x] <= g[x]
  PROVE  SumFunction(f) \in Nat /\ SumFunction(g) \in Nat /\ SumFunction(f) <= SumFunction(g)
  BY SumsGrow, SumIs

-----------------------------------------------------------------------------
(* The quota check *)

\* More usage is never fewer tokens.
LEMMA RoundingGrows ==
  ASSUME NEW x \in Nat, NEW y \in Nat, x <= y
  PROVE  RoundedUp(x) <= RoundedUp(y)
<1> DEFINE a == RoundedUp(x)
           b == RoundedUp(y)
<1>1. /\ Scale \in Nat /\ Scale > 0 /\ a \in Nat /\ b \in Nat
      /\ Scale * a <= x + (Scale - 1) /\ y <= Scale * b
  BY Rounding, ChatAssumption
<1> HIDE DEF a, b
<1> SUFFICES ASSUME a > b PROVE FALSE
  BY <1>1 DEF a, b
<1>2. PICK k \in Nat : a = b + (1 + k)
  <2>1. a - b - 1 \in Nat /\ a = b + (1 + (a - b - 1))
    BY <1>1
  <2> QED
    BY <2>1
<1>3. Scale * a = Scale * b + Scale * (1 + k)
  BY <1>1, <1>2, Distributes
<1>4. Scale * (1 + k) = Scale + Scale * k
  <2>1. Scale * (1 + k) = Scale * 1 + Scale * k
    BY <1>1, Distributes
  <2> QED
    BY <1>1, <2>1
<1>5. Scale * k \in Nat /\ Scale * b \in Nat
  BY <1>1
<1> QED
  BY <1>1, <1>3, <1>4, <1>5

LEMMA SumsTyped ==
  ASSUME Typed
  PROVE  /\ sumGrantedTokens \in Int /\ sumUsage \in Nat
         /\ RoundedUp(sumUsage) \in Nat /\ Balance \in Int
<1>1. SumFunction(charged) \in Nat /\ SumFunction(metered) \in Nat
  BY SumGrows, ChatAssumption DEF Typed
<1>2. sumGrantedTokens \in Int /\ sumUsage \in Nat
  BY <1>1, ChatAssumption DEF sumGrantedTokens, sumUsage
<1>3. RoundedUp(sumUsage) \in Nat
  BY <1>2, Rounding
<1> QED
  BY <1>2, <1>3 DEF Balance

\* Within the generations of all enrollments the ledger only takes and the
\* conversations only add usage.
LEMMA BalanceMoves ==
  ASSUME Inv, NEW p \in Posts, Step(p), generation' = generation
  PROVE  sumGrantedTokens' <= sumGrantedTokens /\ sumUsage <= sumUsage'
<1>a. /\ EnrollmentOf(p) \in Enrollments /\ job[p].usage \in Nat /\ Typed
      /\ RoundedUp(job[p].usage) \in Nat
  BY KeyTyped, Rounding DEF Inv
<1>b. /\ charged \in [Enrollments -> Nat] /\ metered \in [Enrollments -> Nat]
      /\ charged' \in [Enrollments -> Nat] /\ metered' \in [Enrollments -> Nat]
  BY <1>a, TypedStep DEF Typed
<1>c. \A g \in [Enrollments -> Nat], n \in Nat :
         \A e \in Enrollments : g[e] <= Plus(g, EnrollmentOf(p), n)[e]
  BY <1>a DEF Plus
<1>1. \A e \in Enrollments : charged[e] <= charged'[e] /\ metered[e] <= metered'[e]
  <2>0. \A e \in Enrollments : charged[e] <= charged[e] /\ metered[e] <= metered[e]
    BY <1>b
  <2>1. CASE ~Writes(p)
    BY <2>0, <2>1, OthersWriteNothing DEF tables, accounts
  <2>2. CASE (\E label \in {"agent", "fallback"} : Prepare(p, label)) \/ respondWithFallback(p)
    BY <2>0, <2>2 DEF Prepare, respondWithFallback, accounts
  <2>3. CASE SaveReply(p)
    <3>1. metered' = Plus(metered, EnrollmentOf(p), job[p].usage) /\ charged' = charged
      BY <2>3 DEF SaveReply
    <3> QED
      BY <1>a, <1>b, <1>c, <2>0, <3>1
  <2>4. CASE ChargeStale(p)
    <3>1. /\ metered' = metered
          /\ \/ charged' = charged
             \/ charged' = Plus(charged, EnrollmentOf(p), RoundedUp(job[p].usage))
      BY <2>4 DEF ChargeStale
    <3> QED
      BY <1>a, <1>b, <1>c, <2>0, <3>1
  <2>5. CASE RestartCommit(p)
    <3>1. generation' = Plus(generation, EnrollmentOf(p), 1)
      BY <2>5 DEF RestartCommit
    <3>2. generation \in [Enrollments -> Nat]
      BY <1>a, ChatAssumption DEF Typed, Generations
    <3> QED
      BY <1>a, <3>1, <3>2 DEF Plus
  <2> QED
    BY <2>1, <2>2, <2>3, <2>4, <2>5 DEF Writes
<1>2. /\ SumFunction(charged) \in Nat /\ SumFunction(charged') \in Nat
      /\ SumFunction(charged) <= SumFunction(charged')
  BY <1>b, <1>1, SumGrows, ChatAssumption
<1>3. SumFunction(metered) <= SumFunction(metered')
  BY <1>b, <1>1, SumGrows, ChatAssumption
<1> QED
  BY <1>2, <1>3, ChatAssumption DEF sumGrantedTokens, sumUsage

LEMMA GenerationsGrow ==
  ASSUME Inv, NEW p \in Posts, Step(p)
  PROVE  \A e \in Enrollments : /\ generation[e] \in Nat /\ generation'[e] \in Nat
                                /\ generation[e] <= generation'[e]
<1>1. generation \in [Enrollments -> Nat] /\ EnrollmentOf(p) \in Enrollments
  BY KeyTyped, ChatAssumption DEF Inv, Typed, Generations
<1>2. \/ UNCHANGED generation
      \/ generation' = [generation EXCEPT ![EnrollmentOf(p)] = @ + 1]
  BY RowsStep
<1> QED
  BY <1>1, <1>2

\* Where a step leaves the reading of its own request, and that it leaves the
\* others' alone.
LEMMA ReadingMoves ==
  ASSUME Inv, NEW p \in Posts, Step(p)
  PROVE  \/ ReadLedger(p) \/ ReadUsage(p)
         \/ /\ pc'[p] \notin {"ledgerRead", "usageRead", "verdict"}
            /\ UNCHANGED reading \/ Note(p, NoReading)
<1> USE DEF Goto, Return
<1>a. pc \in [Posts -> Labels]
  BY DEF Inv, Typed
<1>1. ASSUME NEW k \in Keys, Ask(p, k)
      PROVE  pc'[p] \notin {"ledgerRead", "usageRead", "verdict"} /\ UNCHANGED reading
  BY <1>1, <1>a DEF Ask
<1>2. CASE FailOpen(p) \/ Refuse(p) \/ Admit(p)
  BY <1>2, <1>a DEF FailOpen, Refuse, Admit
<1>3. ASSUME NEW label \in {"agent", "fallback"}, Prepare(p, label)
      PROVE  pc'[p] \notin {"ledgerRead", "usageRead", "verdict"} /\ UNCHANGED reading
  BY <1>3, <1>a DEF Prepare
<1>4. ASSUME NEW c \in Costs, AgentAnswers(p, c)
      PROVE  pc'[p] \notin {"ledgerRead", "usageRead", "verdict"} /\ UNCHANGED reading
  BY <1>4, <1>a DEF AgentAnswers
<1>5. CASE AgentFails(p) \/ ReplyIsStale(p)
  BY <1>5, <1>a DEF AgentFails, ReplyIsStale
<1>6. CASE SaveReply(p) \/ ChargeStale(p) \/ respondWithFallback(p)
  BY <1>6, <1>a DEF SaveReply, ChargeStale, respondWithFallback
<1>7. ASSUME NEW e \in Enrollments, RestartSum(p, e)
      PROVE  pc'[p] \notin {"ledgerRead", "usageRead", "verdict"} /\ UNCHANGED reading
  BY <1>7, <1>a DEF RestartSum
<1>8. CASE RestartCommit(p) \/ Abort(p)
  BY <1>8, <1>a DEF RestartCommit, Abort
<1> QED
  BY <1>1, <1>2, <1>3, <1>4, <1>5, <1>6, <1>7, <1>8 DEF Step, QuotaGuard, Converse,
     Restart

ReadInv == reading \in [Posts -> Readings] /\ ReadingsFit

\* What a reading's fields are.
LEMMA ReadingTyped ==
  ASSUME NEW n \in Readings
  PROVE  /\ n.granted \in Int /\ n.used \in Nat /\ n.balance \in Int
         /\ n.epoch \in [Enrollments -> Generations]
         /\ \A e \in Enrollments : n.epoch[e] \in Nat
  BY ChatAssumption DEF Readings, Generations

\* A reading that nobody touches still fits after any step.
LEMMA KeptReading ==
  ASSUME Inv, ReadInv, NEW p \in Posts, Step(p), NEW q \in Posts,
         pc'[q] = pc[q], reading'[q] = reading[q]
  PROVE  ReadingFits(q)'
<1> DEFINE n == reading[q]
<1>n. n \in Readings /\ Typed /\ Typed' /\ ReadingFits(q)
  BY TypedStep DEF ReadInv, ReadingsFit, Inv
<1>1. \A e \in Enrollments : n.epoch[e] <= generation'[e]
  BY <1>n, GenerationsGrow, ReadingTyped DEF ReadingFits
<1>2. ASSUME n.epoch = generation'
      PROVE  generation' = generation
  <2>1. \A e \in Enrollments : generation'[e] = generation[e]
    BY <1>n, <1>2, GenerationsGrow, ReadingTyped DEF ReadingFits
  <2> QED
    BY <1>n, <2>1 DEF Typed
<1>3. ASSUME n.epoch = generation'
      PROVE  /\ pc[q] \in {"ledgerRead", "verdict"} => n.granted >= sumGrantedTokens'
             /\ pc[q] \in {"usageRead", "verdict"} => n.used <= sumUsage'
             /\ At(q, "ledgerRead") => n.balance >= n.granted - RoundedUp(sumUsage')
             /\ At(q, "usageRead") => n.balance >= sumGrantedTokens' - RoundedUp(n.used)
             /\ At(q, "verdict") => n.balance >= n.granted - RoundedUp(n.used)
  <2>1. sumGrantedTokens' <= sumGrantedTokens /\ sumUsage <= sumUsage'
    BY <1>2, <1>3, BalanceMoves
  <2>2. /\ sumGrantedTokens \in Int /\ sumUsage \in Nat /\ RoundedUp(sumUsage) \in Nat
        /\ sumGrantedTokens' \in Int /\ sumUsage' \in Nat /\ RoundedUp(sumUsage') \in Nat
    <3>1. SumFunction(charged') \in Nat /\ SumFunction(metered') \in Nat
      BY <1>n, SumGrows, ChatAssumption DEF Typed
    <3>2. sumGrantedTokens' \in Int /\ sumUsage' \in Nat
      BY <3>1, ChatAssumption DEF sumGrantedTokens, sumUsage
    <3> QED
      BY <1>n, <3>2, SumsTyped, Rounding
  <2>3. RoundedUp(sumUsage) <= RoundedUp(sumUsage')
    BY <2>1, <2>2, RoundingGrows
  <2>4. RoundedUp(n.used) \in Nat /\ n.granted \in Int /\ n.used \in Nat /\ n.balance \in Int
    BY <1>n, ReadingTyped, Rounding
  <2>5. /\ pc[q] \in {"ledgerRead", "verdict"} => n.granted >= sumGrantedTokens
        /\ pc[q] \in {"usageRead", "verdict"} => n.used <= sumUsage
        /\ At(q, "ledgerRead") => n.balance >= n.granted - RoundedUp(sumUsage)
        /\ At(q, "usageRead") => n.balance >= sumGrantedTokens - RoundedUp(n.used)
        /\ At(q, "verdict") => n.balance >= n.granted - RoundedUp(n.used)
    BY <1>n, <1>2, <1>3 DEF ReadingFits
  <2> HIDE DEF n
  <2> QED
    BY <2>1, <2>2, <2>3, <2>4, <2>5
<1>4. RoundedUp(sumUsage') = RoundedUp(sumUsage)' /\ RoundedUp(n.used) = RoundedUp(reading[q].used)'
  BY DEF RoundedUp
<1> QED
  BY <1>1, <1>3, <1>4 DEF ReadingFits, At

\* A request that reads nothing more is outside the check.
LEMMA ClosedReading ==
  ASSUME Inv, ReadInv, NEW p \in Posts, Step(p), ~ReadLedger(p), ~ReadUsage(p)
  PROVE  reading'[p] \in Readings /\ ReadingFits(p)'
<1>1. /\ pc'[p] \notin {"ledgerRead", "usageRead", "verdict"}
      /\ UNCHANGED reading \/ Note(p, NoReading)
  BY ReadingMoves
<1>2. /\ \A e \in Enrollments : NoReading.epoch[e] = 0
      /\ NoReading \in Readings
  BY ChatAssumption DEF NoReading, Readings, Generations
<1>3. reading'[p] = reading[p] \/ reading'[p] = NoReading
  BY <1>1 DEF Note, ReadInv
<1>4. /\ reading[p] \in Readings
      /\ \A e \in Enrollments : reading[p].epoch[e] <= generation[e] /\ reading[p].epoch[e] \in Nat
  BY ReadingTyped DEF ReadInv, ReadingsFit, ReadingFits
<1>5. \A e \in Enrollments : reading'[p].epoch[e] <= generation'[e]
  BY <1>2, <1>3, <1>4, GenerationsGrow
<1> QED
  BY <1>1, <1>2, <1>3, <1>4, <1>5 DEF ReadingFits, At

LEMMA LedgerReading ==
  ASSUME Inv, ReadInv, NEW p \in Posts, ReadLedger(p)
  PROVE  reading'[p] \in Readings /\ ReadingFits(p)'
<1> DEFINE n == reading[p]
           m == reading'[p]
<1>n. /\ n \in Readings /\ Typed /\ ReadingFits(p)
      /\ n.granted \in Int /\ n.used \in Nat /\ n.balance \in Int
      /\ generation \in [Enrollments -> Generations]
  BY ReadingTyped DEF ReadInv, ReadingsFit, Inv, Typed
<1>s. /\ sumGrantedTokens \in Int /\ sumUsage \in Nat /\ Balance \in Int
      /\ RoundedUp(sumUsage) \in Nat
  BY <1>n, SumsTyped
<1>u. UNCHANGED <<generation, charged, metered>>
  BY DEF ReadLedger, accounts
<1>w. /\ sumGrantedTokens' = sumGrantedTokens /\ sumUsage' = sumUsage
      /\ RoundedUp(sumUsage)' = RoundedUp(sumUsage)
  BY <1>u DEF sumGrantedTokens, sumUsage, RoundedUp
<1>1. CASE At(p, "check")
  <2>1. pc'[p] = "ledgerRead"
    BY <1>1 DEF ReadLedger, Goto, At, Inv, Typed
  <2>2. m = [[n EXCEPT !.balance = Balance, !.epoch = generation]
               EXCEPT !.granted = sumGrantedTokens]
    BY <1>1 DEF ReadLedger, Note, Begun, ReadInv
  <2>3. /\ m \in Readings /\ m.granted = sumGrantedTokens /\ m.balance = Balance
        /\ m.epoch = generation
    BY <1>n, <1>s, <2>2 DEF Readings
  <2>4. \A e \in Enrollments : m.epoch[e] <= generation'[e]
    BY <1>n, <1>u, <2>3, ChatAssumption DEF Generations
  <2> QED
    BY <1>s, <1>w, <2>1, <2>3, <2>4 DEF ReadingFits, At, Balance
<1>2. CASE At(p, "usageRead")
  <2>1. pc'[p] = "verdict"
    BY <1>2 DEF ReadLedger, Goto, At, Inv, Typed
  <2>2. m = [n EXCEPT !.granted = sumGrantedTokens]
    BY <1>2 DEF ReadLedger, Note, Begun, ReadInv, At
  <2>3. /\ m \in Readings /\ m.granted = sumGrantedTokens /\ m.balance = n.balance
        /\ m.used = n.used /\ m.epoch = n.epoch
    BY <1>n, <1>s, <2>2 DEF Readings
  <2>4. RoundedUp(reading[p].used)' = RoundedUp(n.used)
    BY <2>3 DEF RoundedUp
  <2>5. /\ \A e \in Enrollments : n.epoch[e] <= generation[e]
        /\ n.epoch = generation =>
              n.used <= sumUsage /\ n.balance >= sumGrantedTokens - RoundedUp(n.used)
    BY <1>n, <1>2 DEF ReadingFits, At
  <2> HIDE DEF n, m
  <2>6. ReadingFits(p)'
    BY <1>s, <1>u, <1>w, <2>1, <2>3, <2>4, <2>5 DEF ReadingFits, At, m, n
  <2> QED
    BY <2>3, <2>6 DEF m
<1> QED
  BY <1>1, <1>2 DEF ReadLedger

LEMMA UsageReading ==
  ASSUME Inv, ReadInv, NEW p \in Posts, ReadUsage(p)
  PROVE  reading'[p] \in Readings /\ ReadingFits(p)'
<1> DEFINE n == reading[p]
           m == reading'[p]
<1>n. /\ n \in Readings /\ Typed /\ ReadingFits(p)
      /\ n.granted \in Int /\ n.used \in Nat /\ n.balance \in Int
      /\ generation \in [Enrollments -> Generations]
  BY ReadingTyped DEF ReadInv, ReadingsFit, Inv, Typed
<1>s. /\ sumGrantedTokens \in Int /\ sumUsage \in Nat /\ Balance \in Int
      /\ RoundedUp(sumUsage) \in Nat
  BY <1>n, SumsTyped
<1>u. UNCHANGED <<generation, charged, metered>>
  BY DEF ReadUsage, accounts
<1>w. /\ sumGrantedTokens' = sumGrantedTokens /\ sumUsage' = sumUsage
      /\ RoundedUp(sumUsage)' = RoundedUp(sumUsage)
  BY <1>u DEF sumGrantedTokens, sumUsage, RoundedUp
<1>1. CASE At(p, "check")
  <2>1. pc'[p] = "usageRead"
    BY <1>1 DEF ReadUsage, Goto, At, Inv, Typed
  <2>2. m = [[n EXCEPT !.balance = Balance, !.epoch = generation] EXCEPT !.used = sumUsage]
    BY <1>1 DEF ReadUsage, Note, Begun, ReadInv
  <2>3. /\ m \in Readings /\ m.used = sumUsage /\ m.balance = Balance
        /\ m.epoch = generation
    BY <1>n, <1>s, <2>2 DEF Readings
  <2>4. \A e \in Enrollments : m.epoch[e] <= generation'[e]
    BY <1>n, <1>u, <2>3, ChatAssumption DEF Generations
  <2>5. RoundedUp(reading[p].used)' = RoundedUp(sumUsage)
    BY <2>3 DEF RoundedUp
  <2> QED
    BY <1>s, <1>w, <2>1, <2>3, <2>4, <2>5 DEF ReadingFits, At, Balance
<1>2. CASE At(p, "ledgerRead")
  <2>1. pc'[p] = "verdict"
    BY <1>2 DEF ReadUsage, Goto, At, Inv, Typed
  <2>2. m = [n EXCEPT !.used = sumUsage]
    BY <1>2 DEF ReadUsage, Note, Begun, ReadInv, At
  <2>3. /\ m \in Readings /\ m.used = sumUsage /\ m.balance = n.balance
        /\ m.granted = n.granted /\ m.epoch = n.epoch
    BY <1>n, <1>s, <2>2 DEF Readings
  <2>4. RoundedUp(reading[p].used)' = RoundedUp(sumUsage)
    BY <2>3 DEF RoundedUp
  <2>5. /\ \A e \in Enrollments : n.epoch[e] <= generation[e]
        /\ n.epoch = generation =>
              n.granted >= sumGrantedTokens /\ n.balance >= n.granted - RoundedUp(sumUsage)
    BY <1>n, <1>2 DEF ReadingFits, At
  <2> HIDE DEF n, m
  <2>6. ReadingFits(p)'
    BY <1>s, <1>u, <1>w, <2>1, <2>3, <2>4, <2>5 DEF ReadingFits, At, m, n
  <2> QED
    BY <2>3, <2>6 DEF m
<1> QED
  BY <1>1, <1>2 DEF ReadUsage

LEMMA ReadStep ==
  ASSUME Inv, ReadInv, NEW p \in Posts, Step(p)
  PROVE  ReadInv'
<1>1. /\ reading' \in [Posts -> Readings]
      /\ \A q \in Posts \ {p} : reading'[q] = reading[q]
  <2>1. UNCHANGED reading \/ \E n : Note(p, n)
    BY ReadingMoves DEF ReadLedger, ReadUsage
  <2>2. reading'[p] \in Readings
    BY ClosedReading, LedgerReading, UsageReading
  <2> QED
    BY <2>1, <2>2 DEF Note, ReadInv
<1>2. \A q \in Posts \ {p} : ReadingFits(q)'
  BY <1>1, ProcessStep, KeptReading
<1>3. ReadingFits(p)'
  BY ClosedReading, LedgerReading, UsageReading
<1> QED
  BY <1>1, <1>2, <1>3 DEF ReadInv, ReadingsFit

LEMMA ReadKept ==
  ASSUME ReadInv, UNCHANGED <<generation, charged, metered, pc, reading>>
  PROVE  ReadInv'
<1>1. /\ sumGrantedTokens' = sumGrantedTokens /\ sumUsage' = sumUsage
      /\ RoundedUp(sumUsage)' = RoundedUp(sumUsage)
  BY DEF sumGrantedTokens, sumUsage, RoundedUp
<1>2. \A q \in Posts : RoundedUp(reading[q].used)' = RoundedUp(reading[q].used)
  BY DEF RoundedUp
<1>3. ASSUME NEW q \in Posts PROVE ReadingFits(q)'
  <2>1. ReadingFits(q)
    BY DEF ReadInv, ReadingsFit
  <2> QED
    BY <1>1, <1>2, <2>1 DEF ReadingFits, At
<1> QED
  BY <1>3 DEF ReadInv, ReadingsFit

LEMMA ReadInit == Init => ReadInv
<1> SUFFICES ASSUME Init PROVE ReadInv
  OBVIOUS
<1>1. NoReading \in Readings /\ \A e \in Enrollments : NoReading.epoch[e] = 0
  BY ChatAssumption DEF NoReading, Readings, Generations
<1> QED
  BY <1>1 DEF Init, ReadInv, ReadingsFit, ReadingFits, At

LEMMA ReadInductive == Inv /\ ReadInv /\ [Next]_vars => (Inv /\ ReadInv)'
<1> SUFFICES ASSUME Inv, ReadInv, [Next]_vars PROVE Inv' /\ ReadInv'
  OBVIOUS
<1>1. Inv'
  BY InvStep
<1>2. ASSUME NEW p \in Posts, Step(p) PROVE ReadInv'
  BY <1>2, ReadStep
<1>3. ASSUME NEW e \in Enrollments, Enroll(e) PROVE ReadInv'
  BY <1>3, ReadKept DEF Enroll, accounts
<1>4. CASE UNCHANGED vars
  BY <1>1, <1>4, ReadKept DEF vars, accounts
<1> QED
  BY <1>1, <1>2, <1>3, <1>4 DEF Next, Step

\* The two sums of a quota check are read at different times: what they have
\* given so far still bounds the balance from above.
THEOREM ReadingsHold == Spec => [](Inv /\ ReadInv)
<1>1. Init => Inv /\ ReadInv
  BY InitInv, ReadInit
<1> QED
  BY <1>1, ReadInductive, PTL DEF Spec

\* Every variable keeps its type; a balance may be negative, usage may not.
THEOREM Typing == Spec => []TypeOK
<1>1. Inv /\ ReadInv => TypeOK
  BY DEF Inv, Typed, ReadInv, TypeOK
<1> QED
  BY <1>1, ReadingsHold, PTL

\* But for a restart during the check, a refused user has no tokens left and an
\* admitted one had some, though the two sums are read by two statements.
THEOREM Verdicts == Spec => []VerdictFitsABalance
<1>1. ASSUME Inv, ReadInv PROVE VerdictFitsABalance
  <2> SUFFICES ASSUME NEW p \in Posts, At(p, "verdict"), reading[p].epoch = generation
               PROVE  IF Exhausted(p) THEN Balance <= 0 ELSE reading[p].balance > 0
    BY DEF VerdictFitsABalance
  <2> DEFINE n == reading[p]
  <2>1. n \in Readings /\ Typed
    BY <1>1 DEF ReadInv, Inv
  <2>2. n.granted \in Int /\ n.used \in Nat /\ n.balance \in Int /\ RoundedUp(n.used) \in Nat
    BY <2>1, ReadingTyped, Rounding
  <2>3. /\ n.granted >= sumGrantedTokens /\ n.used <= sumUsage
        /\ n.balance >= n.granted - RoundedUp(n.used)
    BY <1>1 DEF ReadInv, ReadingsFit, ReadingFits, At
  <2>4. /\ sumGrantedTokens \in Int /\ sumUsage \in Nat /\ RoundedUp(sumUsage) \in Nat
    BY <2>1, SumsTyped
  <2>5. RoundedUp(n.used) <= RoundedUp(sumUsage)
    BY <2>2, <2>3, <2>4, RoundingGrows
  <2> HIDE DEF n
  <2>6. /\ n.granted - RoundedUp(n.used) <= 0 => sumGrantedTokens - RoundedUp(sumUsage) <= 0
        /\ ~(n.granted - RoundedUp(n.used) <= 0) => n.balance > 0
    BY <2>2, <2>3, <2>4, <2>5
  <2> QED
    BY <2>6 DEF n, Exhausted, Balance
<1>2. Inv /\ ReadInv => VerdictFitsABalance
  BY <1>1
<1> QED
  BY <1>2, ReadingsHold, PTL
=================================================================================
