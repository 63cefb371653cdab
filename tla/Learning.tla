------------------------------- MODULE Learning -------------------------------
(***************************************************************************)
(* A learner's enrollments: which one is active, the progress kept in      *)
(* Enrollment.learningState under (generation, progressRevision), its      *)
(* LearningSnapshots and LESSON activities, and the publication of new     *)
(* course versions that moves reading positions off removed lessons.       *)
(* Source: apps/api/src/enrollments, apps/api/src/admin/                   *)
(* course-publish.service.ts and the enroll command of admin.service.ts.   *)
(*                                                                         *)
(* One learner, several courses.  A process is one of the learner's        *)
(* clients (a tab, a device, a retrying proxy) or an operator's publish.   *)
(* A client keeps the view it last read for as long as it likes and sends  *)
(* from it any command, any number of times: that is what a retry, a       *)
(* duplicate and a delayed request are.                                    *)
(*                                                                         *)
(* A transaction is a sequence of steps that each take a row lock, the     *)
(* last of which writes, commits and releases.  What a transaction reads   *)
(* before it holds the lock it reads in a step of its own.  Who holds a    *)
(* lock follows from where each process is.                                *)
(***************************************************************************)
EXTENDS Integers, Sequences, FiniteSets

CONSTANTS
    Procs,            \* clients and publishers
    Courses,
    Lessons,          \* content ids, stable across versions
    Syllabi,          \* the lesson orders a draft may have
    RequestIds,       \* of restart and snapshot commands
    NoLesson,
    MaxVersion,       \* bound: CourseVersion.version
    MaxRevision,      \* bound: Enrollment.progressRevision
    MaxGeneration     \* bound: Enrollment.generation

\* A published version has a lesson, and none twice (publish-validation.ts).
ASSUME LearningAssumption ==
    /\ Courses # {}
    /\ NoLesson \notin Lessons
    /\ \A s \in Syllabi :
         /\ s \in Seq(Lessons) /\ s # <<>>
         /\ \A i, j \in DOMAIN s : s[i] = s[j] => i = j
    /\ MaxVersion \in Nat \ {0} /\ MaxRevision \in Nat /\ MaxGeneration \in Nat

VARIABLES
    course,       \* the latest published version of each course
    enrollment,   \* the learner's Enrollment in each course
    snapshots,    \* LearningSnapshot rows
    activities,   \* Activity rows of kind LESSON
    pc,           \* where each process is
    job           \* what each process has read and what it asks for

rows == <<enrollment, snapshots, activities>>
vars == <<course, enrollment, snapshots, activities, pc, job>>

-----------------------------------------------------------------------------
(* Data *)

Elements(s) == {s[i] : i \in DOMAIN s}

\* done: lessons with completedAt; ever: with firstCompletedAt; finished: the
\* course's own completedAt.
LearningStates == [reading: Lessons \cup {NoLesson}, done: SUBSET Lessons,
                   ever: SUBSET Lessons, finished: BOOLEAN]
EmptyState == [reading |-> NoLesson, done |-> {}, ever |-> {}, finished |-> FALSE]

\* assigned is history: it is the operator's enroll command, not the learner,
\* that made this course active.
Enrollments == [enrolled: BOOLEAN, active: BOOLEAN, generation: 0 .. MaxGeneration,
                revision: 0 .. MaxRevision, state: LearningStates, assigned: BOOLEAN]
NoEnrollment == [enrolled |-> FALSE, active |-> FALSE, generation |-> 0,
                 revision |-> 0, state |-> EmptyState, assigned |-> FALSE]

\* key: the request id, or the generation of a COMPLETED snapshot; with reason
\* it is the idempotencyKey.
Snapshots == [course: Courses, reason: {"MANUAL", "RESTART", "COMPLETED"},
              key: RequestIds \cup 0 .. MaxGeneration, generation: 0 .. MaxGeneration,
              revision: 0 .. MaxRevision, state: LearningStates]

\* One record per row: a revision completes at most one lesson.
Activities == [course: Courses, generation: 0 .. MaxGeneration,
               revision: 0 .. MaxRevision, lesson: Lessons]

\* The view getProgress() gave; state is kept to state properties only, no
\* command carries it.
Views == [generation: 0 .. MaxGeneration, revision: 0 .. MaxRevision,
          version: 0 .. MaxVersion, state: LearningStates]
NoView == [generation |-> 0, revision |-> 0, version |-> 0, state |-> EmptyState]

\* held: courses whose Enrollment rows an enroll() has written but not
\* committed, or the ones a publish found pointing at a removed lesson.
Jobs == [course: Courses, view: Views, lesson: Lessons \cup {NoLesson},
         request: RequestIds \cup {0}, syllabus: Syllabi \cup {<<>>},
         held: SUBSET Courses]

Labels == {"idle", "row", "ready", "complete", "clear", "read",
           "restartUser", "restart", "snapshot",
           "enroll", "enrollUser", "enrollWrite", "publishFind", "publishWrite"}

Init ==
    /\ course \in [Courses -> [version: {1}, lessons: Syllabi]]
    /\ enrollment = [c \in Courses |-> NoEnrollment]
    /\ snapshots = {}
    /\ activities = {}
    /\ pc = [p \in Procs |-> "idle"]
    /\ job = [p \in Procs |-> [course |-> CHOOSE c \in Courses : TRUE, view |-> NoView,
                               lesson |-> NoLesson, request |-> 0,
                               syllabus |-> <<>>, held |-> {}]]

-----------------------------------------------------------------------------
(* Process steps and row locks *)

At(p, label) == pc[p] = label
Goto(p, label) == pc' = [pc EXCEPT ![p] = label]
Hold(p, j) == job' = [job EXCEPT ![p] = j]

\* A command keeps nothing but the view, from which it may be sent again.
Finish(p) ==
    /\ Goto(p, "ready")
    /\ Hold(p, [job[p] EXCEPT !.lesson = NoLesson, !.request = 0])
\* enroll() and publish() keep nothing.
Return(p) ==
    /\ Goto(p, "idle")
    /\ Hold(p, [job[p] EXCEPT !.syllabus = <<>>, !.held = {}])

\* Mutant of UserFree: enroll() and restart() do not lock the User row.
UserAlwaysFree(p) == TRUE
\* User FOR NO KEY UPDATE
LocksUser(q) == pc[q] \in {"restartUser", "restart", "enrollUser", "enrollWrite"}
UserFree(p) == \A q \in Procs \ {p} : ~LocksUser(q)

\* Mutant of SharesCourse: the Course row is read without FOR SHARE.
SharesNothing(q, c) == FALSE
\* Course FOR SHARE
SharesCourse(q, c) ==
    job[q].course = c /\ pc[q] \in {"complete", "clear", "read", "restart", "snapshot"}
\* publish() updates the Course row
TakesCourse(q, c) == job[q].course = c /\ pc[q] \in {"publishFind", "publishWrite"}
Shareable(c) == \A q \in Procs : ~TakesCourse(q, c)

\* Enrollment FOR UPDATE, or an update of the row
RowFree(p, c) == \A q \in Procs \ {p} : ~(At(q, "enrollWrite") /\ c \in job[q].held)

-----------------------------------------------------------------------------
(* getProgress(): the enrollment, then the latest version; no transaction *)

ReadRow(p, c) ==
    /\ pc[p] \in {"idle", "ready"}
    /\ enrollment[c].enrolled
    /\ Goto(p, "row")
    /\ Hold(p, [job[p] EXCEPT !.course = c,
                  !.view = [generation |-> enrollment[c].generation,
                            revision |-> enrollment[c].revision,
                            version |-> 0, state |-> enrollment[c].state]])
    /\ UNCHANGED <<course, rows>>

ReadVersion(p) ==
    /\ At(p, "row")
    /\ Goto(p, "ready")
    /\ Hold(p, [job[p] EXCEPT !.view.version = course[job[p].course].version])
    /\ UNCHANGED <<course, rows>>

-----------------------------------------------------------------------------
(* writeProgress(): Course FOR SHARE, then the fence on the Enrollment row *)

BeginWrite(p, kind, l) ==
    /\ At(p, "ready")
    /\ Shareable(job[p].course)
    /\ Goto(p, kind)
    /\ Hold(p, [job[p] EXCEPT !.lesson = l])
    /\ UNCHANGED <<course, rows>>

\* Mutant of Admitted: the fence does not name the generation.
AdmittedAcrossRestart(p) ==
    LET c == job[p].course IN
    /\ enrollment[c].active
    /\ course[c].version = job[p].view.version
    /\ job[p].lesson \in Elements(course[c].lessons)
    /\ enrollment[c].revision < MaxRevision
\* The fence locks the row only in the command's generation, while active.
Admitted(p) ==
    LET c == job[p].course IN
    /\ enrollment[c].generation = job[p].view.generation
    /\ enrollment[c].active
    /\ course[c].version = job[p].view.version
    /\ job[p].lesson \in Elements(course[c].lessons)
    /\ enrollment[c].revision < MaxRevision

SameRevision(p) == enrollment[job[p].course].revision = job[p].view.revision

\* Mutant of Revise: the completion and its activity count one revision each.
RevisedTwice(c, next) ==
    enrollment' = [enrollment EXCEPT ![c].state = next, ![c].revision = @ + 2]
Revise(c, next) ==
    enrollment' = [enrollment EXCEPT ![c].state = next, ![c].revision = @ + 1]

WithCompletion(s, l, lessons) ==
    LET done == s.done \cup {l} IN
    [s EXCEPT !.done = done, !.ever = @ \cup {l}, !.finished = @ \/ lessons \subseteq done]

\* Mutants of WithoutCompletion: the first completion, or the course's own, is
\* taken back with the lesson's.
ForgettingFirst(s, l) == [s EXCEPT !.done = @ \ {l}, !.ever = @ \ {l}]
ForgettingCourse(s, l) == [s EXCEPT !.done = @ \ {l}, !.finished = FALSE]
WithoutCompletion(s, l) == [s EXCEPT !.done = @ \ {l}]

CompletedKeyFree(c) ==
    \A s \in snapshots : ~(/\ s.course = c /\ s.reason = "COMPLETED"
                           /\ s.key = enrollment[c].generation)

CompleteLesson(p) ==
    LET c == job[p].course
        e == enrollment[c]
        l == job[p].lesson
        next == WithCompletion(e.state, l, Elements(course[c].lessons))
        nowFinished == next.finished /\ ~e.state.finished
    IN
    /\ At(p, "complete")
    /\ RowFree(p, c)
    /\ \/ /\ Admitted(p) /\ l \notin e.state.done /\ SameRevision(p)
          /\ nowFinished => CompletedKeyFree(c)
          /\ Revise(c, next)
          /\ activities' = IF l \in e.state.ever THEN activities
                           ELSE activities \cup {[course |-> c, generation |-> e.generation,
                                                  revision |-> e.revision + 1, lesson |-> l]}
          /\ snapshots' = IF ~nowFinished THEN snapshots
                          ELSE snapshots \cup {[course |-> c, reason |-> "COMPLETED",
                                                key |-> e.generation, generation |-> e.generation,
                                                revision |-> e.revision + 1, state |-> next]}
       \/ /\ \/ ~Admitted(p) \/ l \in e.state.done \/ ~SameRevision(p)
             \/ nowFinished /\ ~CompletedKeyFree(c)
          /\ UNCHANGED rows
    /\ Finish(p)
    /\ UNCHANGED course

ClearLesson(p) ==
    LET c == job[p].course
        e == enrollment[c]
        l == job[p].lesson
        applies == Admitted(p) /\ l \in e.state.done /\ SameRevision(p)
    IN
    /\ At(p, "clear")
    /\ RowFree(p, c)
    /\ \/ applies /\ Revise(c, WithoutCompletion(e.state, l))
       \/ ~applies /\ UNCHANGED enrollment
    /\ Finish(p)
    /\ UNCHANGED <<course, snapshots, activities>>

\* A reading position is written whatever the revision.
SetReadingPosition(p) ==
    LET c == job[p].course
        s == enrollment[c].state
        applies == Admitted(p) /\ job[p].lesson # s.reading
    IN
    /\ At(p, "read")
    /\ RowFree(p, c)
    /\ \/ applies /\ Revise(c, [s EXCEPT !.reading = job[p].lesson])
       \/ ~applies /\ UNCHANGED enrollment
    /\ Finish(p)
    /\ UNCHANGED <<course, snapshots, activities>>

-----------------------------------------------------------------------------
(* restart(): the learner, the course, the enrollment, in this order *)

RestartLockUser(p, r) ==
    /\ At(p, "ready")
    /\ UserFree(p)
    /\ Goto(p, "restartUser")
    /\ Hold(p, [job[p] EXCEPT !.request = r])
    /\ UNCHANGED <<course, rows>>

RestartShareCourse(p) ==
    /\ At(p, "restartUser")
    /\ Shareable(job[p].course)
    /\ Goto(p, "restart")
    /\ UNCHANGED <<course, rows, job>>

\* Mutant of Unused: the idempotency key is not looked up.
AlwaysUnused(c, reason, r) == TRUE
Unused(c, reason, r) ==
    \A s \in snapshots : ~(s.course = c /\ s.reason = reason /\ s.key = r)

\* The view is that of the current generation, revision and version.
UpToDate(p) ==
    LET c == job[p].course IN
    /\ enrollment[c].generation = job[p].view.generation
    /\ SameRevision(p)
    /\ course[c].version = job[p].view.version

SnapshotOf(c, reason, r) ==
    [course |-> c, reason |-> reason, key |-> r, generation |-> enrollment[c].generation,
     revision |-> enrollment[c].revision, state |-> enrollment[c].state]

Deactivated(e) == [e EXCEPT !.active = FALSE, !.assigned = FALSE]

\* A used key is answered from its snapshot, or refused; neither writes.
Restart(p) ==
    LET c == job[p].course
        r == job[p].request
        applies == /\ Unused(c, "RESTART", r) /\ UpToDate(p)
                   /\ enrollment[c].generation < MaxGeneration
    IN
    /\ At(p, "restart")
    /\ RowFree(p, c)
    /\ \/ /\ applies
          /\ \A d \in Courses : enrollment[d].active => RowFree(p, d)
          /\ snapshots' = snapshots \cup {SnapshotOf(c, "RESTART", r)}
          /\ enrollment' = [d \in Courses |->
                IF d = c THEN [Deactivated(enrollment[c]) EXCEPT !.revision = 0,
                                 !.generation = @ + 1, !.state = EmptyState]
                ELSE Deactivated(enrollment[d])]
       \/ ~applies /\ UNCHANGED <<enrollment, snapshots>>
    /\ Finish(p)
    /\ UNCHANGED <<course, activities>>

-----------------------------------------------------------------------------
(* createSnapshot(): the course, then the enrollment *)

BeginSnapshot(p, r) ==
    /\ At(p, "ready")
    /\ Shareable(job[p].course)
    /\ Goto(p, "snapshot")
    /\ Hold(p, [job[p] EXCEPT !.request = r])
    /\ UNCHANGED <<course, rows>>

CreateSnapshot(p) ==
    LET c == job[p].course
        r == job[p].request
        applies == Unused(c, "MANUAL", r) /\ UpToDate(p)
    IN
    /\ At(p, "snapshot")
    /\ RowFree(p, c)
    /\ \/ applies /\ snapshots' = snapshots \cup {SnapshotOf(c, "MANUAL", r)}
       \/ ~applies /\ UNCHANGED snapshots
    /\ Finish(p)
    /\ UNCHANGED <<course, enrollment, activities>>

-----------------------------------------------------------------------------
(* enroll(): the learner, every active enrollment, then the one asked for *)

EnrollLockUser(p, c) ==
    /\ At(p, "idle")
    /\ UserFree(p)
    /\ Goto(p, "enrollUser")
    /\ Hold(p, [job[p] EXCEPT !.course = c, !.view = NoView])
    /\ UNCHANGED <<course, rows>>

EnrollDeactivate(p) ==
    LET active == {c \in Courses : enrollment[c].active} IN
    /\ At(p, "enrollUser")
    /\ \A c \in active : RowFree(p, c)
    /\ Goto(p, "enrollWrite")
    /\ Hold(p, [job[p] EXCEPT !.held = active])
    /\ UNCHANGED <<course, rows>>

EnrollWrite(p) ==
    /\ At(p, "enrollWrite")
    /\ RowFree(p, job[p].course)
    /\ enrollment' = [c \in Courses |->
          IF c = job[p].course
          THEN [enrollment[c] EXCEPT !.enrolled = TRUE, !.active = TRUE, !.assigned = FALSE]
          ELSE IF c \in job[p].held THEN Deactivated(enrollment[c]) ELSE enrollment[c]]
    /\ Return(p)
    /\ UNCHANGED <<course, snapshots, activities>>

-----------------------------------------------------------------------------
(* The operator's enroll command: one INSERT, active by default.  It takes   *)
(* no lock on the learner, leaves the other courses active and fails on a    *)
(* row that exists.                                                          *)

enrollUser(c) ==
    /\ ~enrollment[c].enrolled
    /\ enrollment' = [enrollment EXCEPT ![c] =
                        [@ EXCEPT !.enrolled = TRUE, !.active = TRUE, !.assigned = TRUE]]
    /\ UNCHANGED <<course, snapshots, activities, pc, job>>

-----------------------------------------------------------------------------
(* publish(): the Course row, the pointers at removed lessons, their rows *)

\* remapRemovedLessons(): the next lesson of the old order that is kept, or
\* the last one of the new order.
Replacement(old, new, l) ==
    LET kept == {j \in DOMAIN old : /\ old[j] \in Elements(new)
                                    /\ \E i \in 1 .. j - 1 : old[i] = l}
    IN IF kept = {} THEN new[Len(new)]
       ELSE old[CHOOSE j \in kept : \A k \in kept : j <= k]

Removed(old, new) == Elements(old) \ Elements(new)

\* Mutant of Repointed: the pointer moves under the same revision.
RepointedSilently(e, l) == [e EXCEPT !.state.reading = l]
Repointed(e, l) == [e EXCEPT !.state.reading = l, !.revision = @ + 1]

PublishLock(p, c, s) ==
    /\ At(p, "idle")
    /\ Shareable(c) /\ \A q \in Procs : ~SharesCourse(q, c)
    /\ course[c].version < MaxVersion /\ enrollment[c].revision < MaxRevision
    /\ Goto(p, "publishFind")
    /\ Hold(p, [job[p] EXCEPT !.course = c, !.view = NoView, !.syllabus = s])
    /\ UNCHANGED <<course, rows>>

PublishFind(p) ==
    LET c == job[p].course
        removed == Removed(course[c].lessons, job[p].syllabus)
    IN
    /\ At(p, "publishFind")
    /\ Goto(p, "publishWrite")
    /\ Hold(p, [job[p] EXCEPT !.held =
                   IF enrollment[c].state.reading \in removed THEN {c} ELSE {}])
    /\ UNCHANGED <<course, rows>>

\* Each row found is locked and read again before it is written.
PublishWrite(p) ==
    LET c == job[p].course
        old == course[c].lessons
        new == job[p].syllabus
        reading == enrollment[c].state.reading
    IN
    /\ At(p, "publishWrite")
    /\ \/ /\ c \in job[p].held /\ reading \in Removed(old, new)
          /\ RowFree(p, c)
          /\ enrollment' = [enrollment EXCEPT ![c] =
                              Repointed(@, Replacement(old, new, reading))]
       \/ /\ c \notin job[p].held \/ reading \notin Removed(old, new)
          /\ UNCHANGED enrollment
    /\ course' = [course EXCEPT ![c] = [version |-> @.version + 1, lessons |-> new]]
    /\ Return(p)
    /\ UNCHANGED <<snapshots, activities>>

-----------------------------------------------------------------------------

\* The connection is lost, a lock times out: the transaction rolls back.
Abort(p) ==
    /\ pc[p] \notin {"idle", "ready"}
    /\ Goto(p, "idle")
    /\ Hold(p, [job[p] EXCEPT !.lesson = NoLesson, !.request = 0, !.syllabus = <<>>,
                              !.held = {}])
    /\ UNCHANGED <<course, rows>>

Read(p) == (\E c \in Courses : ReadRow(p, c)) \/ ReadVersion(p)
WriteProgress(p) ==
    \/ \E kind \in {"complete", "clear", "read"}, l \in Lessons : BeginWrite(p, kind, l)
    \/ CompleteLesson(p) \/ ClearLesson(p) \/ SetReadingPosition(p)
RestartSteps(p) ==
    \/ \E r \in RequestIds : RestartLockUser(p, r)
    \/ RestartShareCourse(p) \/ Restart(p)
SnapshotSteps(p) == (\E r \in RequestIds : BeginSnapshot(p, r)) \/ CreateSnapshot(p)
Enroll(p) ==
    (\E c \in Courses : EnrollLockUser(p, c)) \/ EnrollDeactivate(p) \/ EnrollWrite(p)
Publish(p) ==
    \/ \E c \in Courses, s \in Syllabi : PublishLock(p, c, s)
    \/ PublishFind(p) \/ PublishWrite(p)

Step(p) ==
    \/ Read(p) \/ WriteProgress(p) \/ RestartSteps(p) \/ SnapshotSteps(p)
    \/ Enroll(p) \/ Publish(p) \/ Abort(p)
Next == (\E p \in Procs : Step(p)) \/ (\E c \in Courses : enrollUser(c))

Spec == Init /\ [][Next]_vars

-----------------------------------------------------------------------------
(* Properties *)

TypeOK ==
    /\ course \in [Courses -> [version: 1 .. MaxVersion, lessons: Syllabi]]
    /\ enrollment \in [Courses -> Enrollments]
    /\ snapshots \subseteq Snapshots
    /\ activities \subseteq Activities
    /\ pc \in [Procs -> Labels]
    /\ job \in [Procs -> Jobs]

\* enroll() and restart(): a learner's own requests leave at most one course
\* active, whatever they do in parallel, and with the enroll command amid them.
\* A course that command made active stays so beside it until one of them has
\* deactivated it.
LearnersOwn(c) == enrollment[c].active /\ ~enrollment[c].assigned
OneActiveCourse ==
    \A c, d \in Courses : (LearnersOwn(c) /\ LearnersOwn(d)) => c = d

\* publish() and setReadingPosition(): the reading position is always a lesson
\* of the latest published version, so the client can open it.
ReadingPositionExists ==
    \A c \in Courses :
        enrollment[c].state.reading \in Elements(course[c].lessons) \cup {NoLesson}

Seen(x) == [generation |-> x.generation, revision |-> x.revision, state |-> x.state]
Viewing(p) ==
    pc[p] \in {"row", "ready", "complete", "clear", "read", "restartUser", "restart", "snapshot"}
\* What the database and the clients have of an enrollment's history.
Versioned(c) ==
    {Seen(enrollment[c])} \cup {Seen(s) : s \in {t \in snapshots : t.course = c}}
    \cup {Seen(job[p].view) : p \in {q \in Procs : Viewing(q) /\ job[q].course = c}}

\* (generation, progressRevision) names one state: two clients or snapshots of
\* an enrollment that have the same pair have seen the same progress.
RevisionNamesState ==
    \A c \in Courses : \A x, y \in Versioned(c) :
        (x.generation = y.generation /\ x.revision = y.revision) => x.state = y.state

\* writeProgress() and restart(): completing or clearing a lesson, restarting
\* the course and taking a snapshot happen only to the progress their author
\* was looking at, however old or repeated the command.
WritesActOnWhatWasSeen ==
    [][\A p \in Procs :
         LET c == job[p].course IN
         (/\ pc[p] \in {"complete", "clear", "restart", "snapshot"} /\ At(p, "ready")'
          /\ <<enrollment, snapshots>>' # <<enrollment, snapshots>>)
             => /\ enrollment[c].state = job[p].view.state
                /\ enrollment[c].generation = job[p].view.generation
                /\ course[c].version = job[p].view.version]_vars

\* A generation in which the course was once finished has its COMPLETED
\* snapshot, and no other has: clearing and completing again adds none.
AchievementIsRecorded ==
    \A c \in Courses :
        enrollment[c].state.finished <=>
            \E s \in snapshots : /\ s.course = c /\ s.reason = "COMPLETED"
                                 /\ s.generation = enrollment[c].generation

\* A lesson counts as an activity once per generation.
OneActivityPerLesson ==
    \A a, b \in activities :
        (a.course = b.course /\ a.generation = b.generation /\ a.lesson = b.lesson) => a = b

\* Each restart left one snapshot of what it cleared, and a request id cleared
\* the course once.
RestartsAreOnRecord ==
    \A c \in Courses :
        LET restarts == {s \in snapshots : s.course = c /\ s.reason = "RESTART"} IN
        /\ \A g \in 0 .. MaxGeneration :
              (\E s \in restarts : s.generation = g) <=> g < enrollment[c].generation
        /\ \A s, t \in restarts : s.key = t.key => s = t

-----------------------------------------------------------------------------
(* The inductive invariant behind them *)

UserLocks == \A p, q \in Procs : (LocksUser(p) /\ LocksUser(q)) => p = q

CourseLocks ==
    \A p, q \in Procs, c \in Courses :
        (TakesCourse(p, c) /\ p # q) => ~TakesCourse(q, c) /\ ~SharesCourse(q, c)

\* What a command, an enroll and a publish know by the time they write.
CommandsNamed ==
    \A p \in Procs :
        /\ pc[p] \in {"complete", "clear", "read"} => job[p].lesson \in Lessons
        /\ pc[p] \in {"restartUser", "restart", "snapshot"} => job[p].request \in RequestIds

ActiveOnesHeld ==
    \A p \in Procs, c \in Courses :
        (At(p, "enrollWrite") /\ LearnersOwn(c)) => c \in job[p].held

PublishKnows ==
    \A p \in Procs : \A c \in Courses : TakesCourse(p, c) =>
        /\ course[c].version < MaxVersion
        /\ enrollment[c].revision < MaxRevision
        /\ job[p].syllabus \in Syllabi
        /\ At(p, "publishWrite") =>
              (c \in job[p].held
                 <=> enrollment[c].state.reading \in Removed(course[c].lessons, job[p].syllabus))

LearningInv ==
    /\ TypeOK /\ UserLocks /\ CourseLocks /\ CommandsNamed /\ ActiveOnesHeld
    /\ PublishKnows /\ OneActiveCourse /\ ReadingPositionExists

Newer(x, y) ==
    \/ x.generation > y.generation
    \/ x.generation = y.generation /\ x.revision > y.revision

\* No (generation, revision) seen so far is newer than the current one.
SeenIsNotNewer ==
    \A c \in Courses : \A x \in Versioned(c) : ~Newer(x, enrollment[c])

HistoryInv == SeenIsNotNewer /\ RevisionNamesState

\* An activity is of a lesson the enrollment remembers as completed, as long as
\* its generation lasts.
ActivitiesAreFirsts ==
    \A a \in activities :
        LET e == enrollment[a.course] IN
        /\ a.generation <= e.generation
        /\ a.generation = e.generation => a.lesson \in e.state.ever

RecordsInv ==
    /\ AchievementIsRecorded /\ OneActivityPerLesson /\ RestartsAreOnRecord
    /\ ActivitiesAreFirsts
=============================================================================
