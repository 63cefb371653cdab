---------------------------- MODULE LearningProofs ----------------------------
(***************************************************************************)
(* Theorems about Learning, for every value of its constants.              *)
(***************************************************************************)
EXTENDS Learning, WellFoundedInduction, TLAPS

-----------------------------------------------------------------------------
(* Type correctness *)

LEMMA EmptyIsState == EmptyState \in LearningStates
  BY DEF EmptyState, LearningStates

LEMMA NoViewIsView == NoView \in Views
  BY EmptyIsState, LearningAssumption DEF NoView, Views

LEMMA JobFields ==
  ASSUME NEW j \in Jobs
  PROVE  /\ [j EXCEPT !.lesson = NoLesson, !.request = 0] \in Jobs
         /\ [j EXCEPT !.syllabus = <<>>, !.held = {}] \in Jobs
         /\ [j EXCEPT !.lesson = NoLesson, !.request = 0, !.syllabus = <<>>, !.held = {}] \in Jobs
         /\ \A l \in Lessons : [j EXCEPT !.lesson = l] \in Jobs
         /\ \A r \in RequestIds : [j EXCEPT !.request = r] \in Jobs
         /\ \A h \in SUBSET Courses : [j EXCEPT !.held = h] \in Jobs
         /\ \A c \in Courses : [j EXCEPT !.course = c, !.view = NoView] \in Jobs
         /\ \A c \in Courses, v \in Views : [j EXCEPT !.course = c, !.view = v] \in Jobs
         /\ \A c \in Courses, s \in Syllabi :
               [j EXCEPT !.course = c, !.view = NoView, !.syllabus = s] \in Jobs
         /\ \A n \in 0 .. MaxVersion : [j EXCEPT !.view.version = n] \in Jobs
  BY NoViewIsView DEF Jobs, Views

LEMMA ProcTypes ==
  ASSUME TypeOK, NEW p \in Procs
  PROVE  /\ \A la \in Labels : Goto(p, la) => pc' \in [Procs -> Labels]
         /\ \A j \in Jobs : Hold(p, j) => job' \in [Procs -> Jobs]
         /\ (Finish(p) \/ Return(p)) => pc' \in [Procs -> Labels] /\ job' \in [Procs -> Jobs]
<1>1. \A la \in Labels : Goto(p, la) => pc' \in [Procs -> Labels]
  BY DEF TypeOK, Goto
<1>2. \A j \in Jobs : Hold(p, j) => job' \in [Procs -> Jobs]
  BY DEF TypeOK, Hold
<1>3. job[p] \in Jobs
  BY DEF TypeOK
<1>4. "ready" \in Labels /\ "idle" \in Labels
  BY DEF Labels
<1>5. Finish(p) => pc' \in [Procs -> Labels] /\ job' \in [Procs -> Jobs]
  BY <1>1, <1>2, <1>3, <1>4, JobFields DEF Finish
<1>6. Return(p) => pc' \in [Procs -> Labels] /\ job' \in [Procs -> Jobs]
  BY <1>1, <1>2, <1>3, <1>4, JobFields DEF Return
<1> QED
  BY <1>1, <1>2, <1>5, <1>6

LEMMA StateTypes ==
  ASSUME NEW s \in LearningStates, NEW l \in Lessons
  PROVE  /\ \A L \in SUBSET Lessons : WithCompletion(s, l, L) \in LearningStates
         /\ WithoutCompletion(s, l) \in LearningStates
         /\ [s EXCEPT !.reading = l] \in LearningStates
  BY DEF LearningStates, WithCompletion, WithoutCompletion

LEMMA SyllabusLessons == \A s \in Syllabi : Elements(s) \subseteq Lessons /\ Elements(s) # {}
<1> SUFFICES ASSUME NEW s \in Syllabi
      PROVE Elements(s) \subseteq Lessons /\ Elements(s) # {}
  OBVIOUS
<1>1. s \in Seq(Lessons) /\ s # <<>>
  BY LearningAssumption
<1>2. 1 \in DOMAIN s
  BY <1>1
<1> QED
  BY <1>1, <1>2 DEF Elements

LEMMA SmallestExists ==
  ASSUME NEW S \in SUBSET Nat, S # {}
  PROVE  \E x \in S : \A y \in S : x <= y
<1> DEFINE R == {ss \in Nat \X Nat : ss[1] < ss[2]}
<1>1. IsWellFoundedOn(R, Nat)
  BY NatLessThanWellFounded DEF OpToRel
<1>2. \A x, y \in Nat : y < x => <<y, x>> \in R
  OBVIOUS
<1> HIDE DEF R
<1>3. PICK x \in S : \A y \in S : ~(<<y, x>> \in R)
  BY <1>1, WFMin
<1>4. \A y \in S : ~(y < x)
  <2> SUFFICES ASSUME NEW y \in S, y < x PROVE FALSE
    OBVIOUS
  <2>1. x \in Nat /\ y \in Nat
    OBVIOUS
  <2>2. <<y, x>> \in R
    BY <1>2, <2>1
  <2> QED
    BY <1>3, <2>2, Zenon
<1>5. \A y \in S : y \in Nat /\ x \in Nat
  OBVIOUS
<1> QED
  BY <1>4, <1>5

LEMMA ReplacementIsKept ==
  ASSUME NEW old \in Syllabi, NEW new \in Syllabi, NEW l
  PROVE  Replacement(old, new, l) \in Elements(new)
<1> DEFINE kept == {j \in DOMAIN old : /\ old[j] \in Elements(new)
                                       /\ \E i \in 1 .. j - 1 : old[i] = l}
           first == CHOOSE j \in kept : \A k \in kept : j <= k
<1>1. old \in Seq(Lessons) /\ new \in Seq(Lessons) /\ new # <<>>
  BY LearningAssumption
<1>2. CASE kept = {}
  <2>1. Replacement(old, new, l) = new[Len(new)]
    BY <1>2 DEF Replacement
  <2>2. Len(new) \in DOMAIN new
    BY <1>1
  <2> QED
    BY <2>1, <2>2 DEF Elements
<1>3. CASE kept # {}
  <2>1. kept \in SUBSET Nat
    BY <1>1
  <2>2. \E j \in kept : \A k \in kept : j <= k
    <3> HIDE DEF kept
    <3> QED
      BY <1>3, <2>1, SmallestExists
  <2>3. first \in kept
    <3> HIDE DEF kept
    <3> QED
      BY <2>2
  <2>4. Replacement(old, new, l) = old[first]
    BY <1>3 DEF Replacement
  <2> QED
    BY <2>3, <2>4
<1> QED
  BY <1>2, <1>3

LEMMA EnrollmentFields ==
  ASSUME NEW e \in Enrollments
  PROVE  /\ Deactivated(e) \in Enrollments
         /\ \A b \in BOOLEAN :
               [e EXCEPT !.enrolled = TRUE, !.active = TRUE, !.assigned = b] \in Enrollments
         /\ e.revision < MaxRevision => \A s \in LearningStates :
               [e EXCEPT !.state = s, !.revision = @ + 1] \in Enrollments
         /\ e.revision < MaxRevision => \A l \in Lessons : Repointed(e, l) \in Enrollments
         /\ e.generation < MaxGeneration =>
               [Deactivated(e) EXCEPT !.revision = 0, !.generation = @ + 1,
                         !.state = EmptyState] \in Enrollments
<1>1. \A s \in LearningStates, l \in Lessons : [s EXCEPT !.reading = l] \in LearningStates
  BY DEF LearningStates
<1>2. e.state \in LearningStates
  BY DEF Enrollments
<1>3. /\ Deactivated(e) \in Enrollments
      /\ \A b \in BOOLEAN :
            [e EXCEPT !.enrolled = TRUE, !.active = TRUE, !.assigned = b] \in Enrollments
  BY DEF Enrollments, Deactivated
<1>4. ASSUME e.revision < MaxRevision, NEW s \in LearningStates
      PROVE  [e EXCEPT !.state = s, !.revision = @ + 1] \in Enrollments
  <2>1. e.revision + 1 \in 0 .. MaxRevision
    BY <1>4, LearningAssumption DEF Enrollments
  <2>2. \A n \in 0 .. MaxRevision : [e EXCEPT !.state = s, !.revision = n] \in Enrollments
    BY DEF Enrollments
  <2> QED
    BY <2>1, <2>2
<1>5. ASSUME e.revision < MaxRevision, NEW l \in Lessons
      PROVE Repointed(e, l) \in Enrollments
  <2>1. Repointed(e, l) = [e EXCEPT !.state = [e.state EXCEPT !.reading = l],
                                    !.revision = @ + 1]
    BY DEF Repointed, Enrollments
  <2> QED
    BY <1>1, <1>2, <1>4, <1>5, <2>1
<1>6. ASSUME e.generation < MaxGeneration
      PROVE  [Deactivated(e) EXCEPT !.revision = 0, !.generation = @ + 1,
                       !.state = EmptyState] \in Enrollments
  <2>1. /\ e.generation + 1 \in 0 .. MaxGeneration /\ 0 \in 0 .. MaxRevision
        /\ Deactivated(e).generation = e.generation
    BY <1>6, LearningAssumption DEF Enrollments, Deactivated
  <2>2. \A n \in 0 .. MaxGeneration, r \in 0 .. MaxRevision, s \in LearningStates :
          [Deactivated(e) EXCEPT !.revision = r, !.generation = n, !.state = s]
             \in Enrollments
    BY <1>3 DEF Enrollments
  <2> QED
    BY <2>1, <2>2, EmptyIsState
<1> QED
  BY <1>3, <1>4, <1>5, <1>6

LEMMA RepointedFields ==
  ASSUME NEW e \in Enrollments, NEW l
  PROVE  /\ Repointed(e, l).active = e.active
         /\ Repointed(e, l).assigned = e.assigned
         /\ Repointed(e, l).generation = e.generation
         /\ Repointed(e, l).revision = e.revision + 1
         /\ Repointed(e, l).state = [e.state EXCEPT !.reading = l]
  BY DEF Repointed, Enrollments

LEMMA ReviseType ==
  ASSUME TypeOK, NEW c \in Courses, NEW s \in LearningStates, Revise(c, s),
         enrollment[c].revision < MaxRevision
  PROVE  enrollment' \in [Courses -> Enrollments]
<1>1. [enrollment[c] EXCEPT !.state = s, !.revision = @ + 1] \in Enrollments
  BY EnrollmentFields DEF TypeOK
<1>2. enrollment' = [enrollment EXCEPT ![c] =
                       [enrollment[c] EXCEPT !.state = s, !.revision = @ + 1]]
  BY DEF Revise, TypeOK
<1> QED
  BY <1>1, <1>2 DEF TypeOK

LEMMA CurrentTypes ==
  ASSUME TypeOK, NEW c \in Courses
  PROVE  /\ enrollment[c] \in Enrollments
         /\ enrollment[c].state \in LearningStates
         /\ enrollment[c].generation \in 0 .. MaxGeneration
         /\ enrollment[c].revision \in 0 .. MaxRevision
         /\ course[c].version \in 1 .. MaxVersion
         /\ course[c].lessons \in Syllabi
  BY DEF TypeOK, Enrollments

LEMMA SnapshotType ==
  ASSUME TypeOK, NEW c \in Courses, NEW r \in RequestIds
  PROVE  /\ SnapshotOf(c, "RESTART", r) \in Snapshots
         /\ SnapshotOf(c, "MANUAL", r) \in Snapshots
  BY CurrentTypes DEF SnapshotOf, Snapshots

-----------------------------------------------------------------------------
(* What one step does to the processes and to the locks *)

LEMMA Moves ==
  ASSUME TypeOK, NEW p \in Procs, Step(p)
  PROVE  \A q \in Procs \ {p} : pc'[q] = pc[q] /\ job'[q] = job[q]
<1> USE DEF TypeOK, Goto, Hold, Finish, Return
<1>1. CASE \E c \in Courses : ReadRow(p, c)
  BY <1>1 DEF ReadRow
<1>2. CASE ReadVersion(p)
  BY <1>2 DEF ReadVersion
<1>3. CASE \E kind \in {"complete", "clear", "read"}, l \in Lessons : BeginWrite(p, kind, l)
  BY <1>3 DEF BeginWrite
<1>4. CASE CompleteLesson(p)
  BY <1>4 DEF CompleteLesson
<1>5. CASE ClearLesson(p)
  BY <1>5 DEF ClearLesson
<1>6. CASE SetReadingPosition(p)
  BY <1>6 DEF SetReadingPosition
<1>7. CASE \E r \in RequestIds : RestartLockUser(p, r)
  BY <1>7 DEF RestartLockUser
<1>8. CASE RestartShareCourse(p)
  BY <1>8 DEF RestartShareCourse
<1>9. CASE Restart(p)
  BY <1>9 DEF Restart
<1>10. CASE \E r \in RequestIds : BeginSnapshot(p, r)
  BY <1>10 DEF BeginSnapshot
<1>11. CASE CreateSnapshot(p)
  BY <1>11 DEF CreateSnapshot
<1>12. CASE \E c \in Courses : EnrollLockUser(p, c)
  BY <1>12 DEF EnrollLockUser
<1>13. CASE EnrollDeactivate(p)
  BY <1>13 DEF EnrollDeactivate
<1>14. CASE EnrollWrite(p)
  BY <1>14 DEF EnrollWrite
<1>15. CASE \E c \in Courses, s \in Syllabi : PublishLock(p, c, s)
  BY <1>15 DEF PublishLock
<1>16. CASE PublishFind(p)
  BY <1>16 DEF PublishFind
<1>17. CASE PublishWrite(p)
  BY <1>17 DEF PublishWrite
<1>18. CASE Abort(p)
  BY <1>18 DEF Abort
<1> QED
  BY <1>1, <1>2, <1>3, <1>4, <1>5, <1>6, <1>7, <1>8, <1>9, <1>10, <1>11, <1>12, <1>13,
     <1>14, <1>15, <1>16, <1>17, <1>18
     DEF Step, Read, WriteProgress, RestartSteps, SnapshotSteps, Enroll, Publish

LEMMA LockMoves ==
  ASSUME TypeOK, NEW p \in Procs, Step(p)
  PROVE  /\ LocksUser(p)' => LocksUser(p) \/ UserFree(p)
         /\ \A c \in Courses : SharesCourse(p, c)' => SharesCourse(p, c) \/ Shareable(c)
         /\ \A c \in Courses : TakesCourse(p, c)' =>
               TakesCourse(p, c) \/ (Shareable(c) /\ \A q \in Procs : ~SharesCourse(q, c))
<1> USE DEF TypeOK, Jobs, Goto, Hold, Finish, Return, LocksUser, SharesCourse, TakesCourse, At
<1>1. CASE \E c \in Courses : ReadRow(p, c)
  BY <1>1 DEF ReadRow
<1>2. CASE ReadVersion(p)
  BY <1>2 DEF ReadVersion
<1>3. CASE \E kind \in {"complete", "clear", "read"}, l \in Lessons : BeginWrite(p, kind, l)
  BY <1>3 DEF BeginWrite
<1>4. CASE CompleteLesson(p)
  BY <1>4 DEF CompleteLesson
<1>5. CASE ClearLesson(p)
  BY <1>5 DEF ClearLesson
<1>6. CASE SetReadingPosition(p)
  BY <1>6 DEF SetReadingPosition
<1>7. CASE \E r \in RequestIds : RestartLockUser(p, r)
  BY <1>7 DEF RestartLockUser
<1>8. CASE RestartShareCourse(p)
  BY <1>8 DEF RestartShareCourse
<1>9. CASE Restart(p)
  BY <1>9 DEF Restart
<1>10. CASE \E r \in RequestIds : BeginSnapshot(p, r)
  BY <1>10 DEF BeginSnapshot
<1>11. CASE CreateSnapshot(p)
  BY <1>11 DEF CreateSnapshot
<1>12. CASE \E c \in Courses : EnrollLockUser(p, c)
  BY <1>12 DEF EnrollLockUser
<1>13. CASE EnrollDeactivate(p)
  BY <1>13 DEF EnrollDeactivate
<1>14. CASE EnrollWrite(p)
  BY <1>14 DEF EnrollWrite
<1>15. CASE \E c \in Courses, s \in Syllabi : PublishLock(p, c, s)
  BY <1>15 DEF PublishLock
<1>16. CASE PublishFind(p)
  BY <1>16 DEF PublishFind
<1>17. CASE PublishWrite(p)
  BY <1>17 DEF PublishWrite
<1>18. CASE Abort(p)
  BY <1>18 DEF Abort
<1> QED
  BY <1>1, <1>2, <1>3, <1>4, <1>5, <1>6, <1>7, <1>8, <1>9, <1>10, <1>11, <1>12, <1>13,
     <1>14, <1>15, <1>16, <1>17, <1>18
     DEF Step, Read, WriteProgress, RestartSteps, SnapshotSteps, Enroll, Publish

LEMMA LocksStep ==
  ASSUME TypeOK, UserLocks, CourseLocks, NEW p \in Procs, Step(p)
  PROVE  UserLocks' /\ CourseLocks'
<1>1. \A q \in Procs \ {p} : /\ LocksUser(q)' <=> LocksUser(q)
                            /\ \A c \in Courses : /\ SharesCourse(q, c)' <=> SharesCourse(q, c)
                                                  /\ TakesCourse(q, c)' <=> TakesCourse(q, c)
  BY Moves DEF LocksUser, SharesCourse, TakesCourse
<1>2. LocksUser(p)' => LocksUser(p) \/ UserFree(p)
  BY LockMoves
<1>3. UserLocks'
  BY <1>1, <1>2 DEF UserLocks, UserFree
<1>4. ASSUME NEW c \in Courses
      PROVE  /\ SharesCourse(p, c)' => SharesCourse(p, c) \/ Shareable(c)
             /\ TakesCourse(p, c)' =>
                   TakesCourse(p, c) \/ (Shareable(c) /\ \A q \in Procs : ~SharesCourse(q, c))
  BY LockMoves
<1>5. CourseLocks'
  BY <1>1, <1>4 DEF CourseLocks, Shareable
<1> QED
  BY <1>3, <1>5

\* A row changes, but for active, only under the course's lock.
LEMMA Untouched ==
  ASSUME TypeOK, NEW p \in Procs, Step(p), NEW c \in Courses,
         ~SharesCourse(p, c), ~(At(p, "publishWrite") /\ job[p].course = c)
  PROVE  /\ course'[c] = course[c]
         /\ enrollment'[c].state = enrollment[c].state
         /\ enrollment'[c].revision = enrollment[c].revision
         /\ enrollment'[c].generation = enrollment[c].generation
<1> USE DEF TypeOK, Enrollments, rows, Deactivated, SharesCourse, At, Revise
<1>1. CASE \E k \in Courses : ReadRow(p, k)
  BY <1>1 DEF ReadRow
<1>2. CASE ReadVersion(p)
  BY <1>2 DEF ReadVersion
<1>3. CASE \E kind \in {"complete", "clear", "read"}, l \in Lessons : BeginWrite(p, kind, l)
  BY <1>3 DEF BeginWrite
<1>4. CASE CompleteLesson(p)
  BY <1>4 DEF CompleteLesson
<1>5. CASE ClearLesson(p)
  BY <1>5 DEF ClearLesson
<1>6. CASE SetReadingPosition(p)
  BY <1>6 DEF SetReadingPosition
<1>7. CASE \E r \in RequestIds : RestartLockUser(p, r)
  BY <1>7 DEF RestartLockUser
<1>8. CASE RestartShareCourse(p)
  BY <1>8 DEF RestartShareCourse
<1>9. CASE Restart(p)
  <2>1. job[p].course # c
    BY <1>9 DEF Restart
  <2>2. /\ course' = course
        /\ enrollment' = enrollment \/ enrollment'[c] = Deactivated(enrollment[c])
    BY <1>9, <2>1 DEF Restart
  <2> QED
    BY <2>2
<1>10. CASE \E r \in RequestIds : BeginSnapshot(p, r)
  BY <1>10 DEF BeginSnapshot
<1>11. CASE CreateSnapshot(p)
  BY <1>11 DEF CreateSnapshot
<1>12. CASE \E k \in Courses : EnrollLockUser(p, k)
  BY <1>12 DEF EnrollLockUser
<1>13. CASE EnrollDeactivate(p)
  BY <1>13 DEF EnrollDeactivate
<1>14. CASE EnrollWrite(p)
  BY <1>14 DEF EnrollWrite
<1>15. CASE \E k \in Courses, s \in Syllabi : PublishLock(p, k, s)
  BY <1>15 DEF PublishLock
<1>16. CASE PublishFind(p)
  BY <1>16 DEF PublishFind
<1>17. CASE PublishWrite(p)
  BY <1>17 DEF PublishWrite
<1>18. CASE Abort(p)
  BY <1>18 DEF Abort
<1> QED
  BY <1>1, <1>2, <1>3, <1>4, <1>5, <1>6, <1>7, <1>8, <1>9, <1>10, <1>11, <1>12, <1>13,
     <1>14, <1>15, <1>16, <1>17, <1>18
     DEF Step, Read, WriteProgress, RestartSteps, SnapshotSteps, Enroll, Publish

\* active changes only under the learner's lock.
LEMMA ActiveUntouched ==
  ASSUME TypeOK, NEW p \in Procs, Step(p), pc[p] \notin {"enrollWrite", "restart"}
  PROVE  \A c \in Courses : /\ enrollment'[c].active = enrollment[c].active
                            /\ enrollment'[c].assigned = enrollment[c].assigned
<1> USE DEF TypeOK, Enrollments, rows, At, Revise
<1>1. CASE \E c \in Courses : ReadRow(p, c)
  BY <1>1 DEF ReadRow
<1>2. CASE ReadVersion(p)
  BY <1>2 DEF ReadVersion
<1>3. CASE \E kind \in {"complete", "clear", "read"}, l \in Lessons : BeginWrite(p, kind, l)
  BY <1>3 DEF BeginWrite
<1>4. CASE CompleteLesson(p)
  BY <1>4 DEF CompleteLesson
<1>5. CASE ClearLesson(p)
  BY <1>5 DEF ClearLesson
<1>6. CASE SetReadingPosition(p)
  BY <1>6 DEF SetReadingPosition
<1>7. CASE \E r \in RequestIds : RestartLockUser(p, r)
  BY <1>7 DEF RestartLockUser
<1>8. CASE RestartShareCourse(p)
  BY <1>8 DEF RestartShareCourse
<1>9. CASE Restart(p)
  BY <1>9 DEF Restart
<1>10. CASE \E r \in RequestIds : BeginSnapshot(p, r)
  BY <1>10 DEF BeginSnapshot
<1>11. CASE CreateSnapshot(p)
  BY <1>11 DEF CreateSnapshot
<1>12. CASE \E c \in Courses : EnrollLockUser(p, c)
  BY <1>12 DEF EnrollLockUser
<1>13. CASE EnrollDeactivate(p)
  BY <1>13 DEF EnrollDeactivate
<1>14. CASE EnrollWrite(p)
  BY <1>14 DEF EnrollWrite
<1>15. CASE \E c \in Courses, s \in Syllabi : PublishLock(p, c, s)
  BY <1>15 DEF PublishLock
<1>16. CASE PublishFind(p)
  BY <1>16 DEF PublishFind
<1>17. CASE PublishWrite(p)
  <2>1. PICK d \in Courses : d = job[p].course
    BY DEF Jobs
  <2>2. \/ UNCHANGED enrollment
        \/ \E l : enrollment' = [enrollment EXCEPT ![d] = Repointed(enrollment[d], l)]
    BY <1>17, <2>1 DEF PublishWrite
  <2>3. \A l : /\ Repointed(enrollment[d], l).active = enrollment[d].active
               /\ Repointed(enrollment[d], l).assigned = enrollment[d].assigned
    BY <2>1, RepointedFields
  <2>4. ASSUME NEW l, enrollment' = [enrollment EXCEPT ![d] = Repointed(enrollment[d], l)]
        PROVE  \A c \in Courses : /\ enrollment'[c].active = enrollment[c].active
                                  /\ enrollment'[c].assigned = enrollment[c].assigned
    BY <2>3, <2>4
  <2> QED
    BY <2>2, <2>4
<1>18. CASE Abort(p)
  BY <1>18 DEF Abort
<1> QED
  BY <1>1, <1>2, <1>3, <1>4, <1>5, <1>6, <1>7, <1>8, <1>9, <1>10, <1>11, <1>12, <1>13,
     <1>14, <1>15, <1>16, <1>17, <1>18
     DEF Step, Read, WriteProgress, RestartSteps, SnapshotSteps, Enroll, Publish

LEMMA RowsSame ==
  ASSUME TypeOK, UNCHANGED <<course, rows>>,
         pc' \in [Procs -> Labels], job' \in [Procs -> Jobs]
  PROVE  TypeOK'
  BY DEF TypeOK, rows

LEMMA TypeStep ==
  ASSUME TypeOK, CommandsNamed, PublishKnows, NEW p \in Procs, Step(p)
  PROVE  TypeOK'
<1>c. job[p] \in Jobs /\ job[p].course \in Courses
  BY DEF TypeOK, Jobs
<1>1. CASE \E c \in Courses : ReadRow(p, c)
  <2>1. PICK c \in Courses : ReadRow(p, c)
    BY <1>1
  <2>6. [generation |-> enrollment[c].generation, revision |-> enrollment[c].revision,
                         version |-> 0, state |-> enrollment[c].state] \in Views
    BY CurrentTypes, LearningAssumption DEF Views
  <2>2. [job[p] EXCEPT !.course = c,
          !.view = [generation |-> enrollment[c].generation,
                    revision |-> enrollment[c].revision,
                    version |-> 0, state |-> enrollment[c].state]] \in Jobs
    BY <1>c, <2>1, JobFields, <2>6 DEF ReadRow, At
  <2>3. pc' \in [Procs -> Labels]
    BY <2>1, ProcTypes DEF ReadRow, Labels
  <2>4. job' = [job EXCEPT ![p] = [job[p] EXCEPT !.course = c,
          !.view = [generation |-> enrollment[c].generation,
                    revision |-> enrollment[c].revision,
                    version |-> 0, state |-> enrollment[c].state]]]
    BY <2>1 DEF ReadRow, Hold
  <2>5. job' \in [Procs -> Jobs]
    BY <2>2, <2>4 DEF TypeOK
  <2> QED
    BY <2>1, <2>3, <2>5, RowsSame DEF ReadRow
<1>2. CASE ReadVersion(p)
  <2>6. course[job[p].course].version \in 0 .. MaxVersion
    BY <1>c, CurrentTypes, LearningAssumption
  <2>2. [job[p] EXCEPT !.view.version = course[job[p].course].version] \in Jobs
    BY <1>c, <1>2, JobFields, <2>6 DEF ReadVersion, At
  <2>3. pc' \in [Procs -> Labels]
    BY <1>2, ProcTypes DEF ReadVersion, Labels
  <2>4. job' = [job EXCEPT ![p] = [job[p] EXCEPT !.view.version = course[job[p].course].version]]
    BY <1>2 DEF ReadVersion, Hold
  <2>5. job' \in [Procs -> Jobs]
    BY <2>2, <2>4 DEF TypeOK
  <2> QED
    BY <1>2, <2>3, <2>5, RowsSame DEF ReadVersion
<1>3. CASE \E kind \in {"complete", "clear", "read"}, l \in Lessons : BeginWrite(p, kind, l)
  <2>1. PICK kind \in {"complete", "clear", "read"}, l \in Lessons : BeginWrite(p, kind, l)
    BY <1>3
  <2>2. [job[p] EXCEPT !.lesson = l] \in Jobs
    BY <1>c, <2>1, JobFields DEF BeginWrite, At
  <2>3. pc' \in [Procs -> Labels]
    BY <2>1, ProcTypes DEF BeginWrite, Labels
  <2>4. job' = [job EXCEPT ![p] = [job[p] EXCEPT !.lesson = l]]
    BY <2>1 DEF BeginWrite, Hold
  <2>5. job' \in [Procs -> Jobs]
    BY <2>2, <2>4 DEF TypeOK
  <2> QED
    BY <2>1, <2>3, <2>5, RowsSame DEF BeginWrite
<1>4. CASE CompleteLesson(p)
  <2> DEFINE c == job[p].course
             l == job[p].lesson
             next == WithCompletion(enrollment[c].state, l, Elements(course[c].lessons))
  <2>1. l \in Lessons
    BY <1>4 DEF CommandsNamed, CompleteLesson, At
  <2>2. next \in LearningStates
    BY <1>c, <2>1, CurrentTypes, SyllabusLessons, StateTypes
  <2>3. pc' \in [Procs -> Labels] /\ job' \in [Procs -> Jobs] /\ UNCHANGED course
    BY <1>4, ProcTypes DEF CompleteLesson
  <2>4. CASE UNCHANGED rows
    BY <2>3, <2>4, RowsSame
  <2>5. CASE /\ Admitted(p) /\ Revise(c, next)
             /\ activities' \in {activities, activities \cup
                   {[course |-> c, generation |-> enrollment[c].generation,
                     revision |-> enrollment[c].revision + 1, lesson |-> l]}}
             /\ snapshots' \in {snapshots, snapshots \cup
                   {[course |-> c, reason |-> "COMPLETED", key |-> enrollment[c].generation,
                     generation |-> enrollment[c].generation,
                     revision |-> enrollment[c].revision + 1, state |-> next]}}
    <3>1. enrollment[c].revision < MaxRevision
      BY <2>5 DEF Admitted
    <3>2. enrollment' \in [Courses -> Enrollments]
      BY <1>c, <2>2, <2>5, <3>1, ReviseType
    <3>3. enrollment[c].revision + 1 \in 0 .. MaxRevision
      BY <1>c, <3>1, CurrentTypes, LearningAssumption
    <3>4. [course |-> c, generation |-> enrollment[c].generation,
           revision |-> enrollment[c].revision + 1, lesson |-> l] \in Activities
      BY <1>c, <2>1, <3>3, CurrentTypes DEF Activities
    <3>5. [course |-> c, reason |-> "COMPLETED", key |-> enrollment[c].generation,
           generation |-> enrollment[c].generation,
           revision |-> enrollment[c].revision + 1, state |-> next] \in Snapshots
      <4> HIDE DEF next
      <4> QED
        BY <1>c, <2>2, <3>3, CurrentTypes DEF Snapshots
    <3>6. activities' \subseteq Activities /\ snapshots' \subseteq Snapshots
      <4> HIDE DEF next
      <4> QED
        BY <2>5, <3>4, <3>5 DEF TypeOK
    <3> QED
      BY <2>3, <3>2, <3>6 DEF TypeOK
  <2> QED
    BY <1>4, <2>4, <2>5 DEF CompleteLesson
<1>5. CASE ClearLesson(p)
  <2> DEFINE c == job[p].course
             l == job[p].lesson
             next == WithoutCompletion(enrollment[c].state, l)
  <2>1. l \in Lessons
    BY <1>5 DEF CommandsNamed, ClearLesson, At
  <2>2. next \in LearningStates
    BY <1>c, <2>1, CurrentTypes, StateTypes
  <2>3. pc' \in [Procs -> Labels] /\ job' \in [Procs -> Jobs]
    BY <1>5, ProcTypes DEF ClearLesson
  <2>4. enrollment' \in [Courses -> Enrollments]
    <3>1. CASE UNCHANGED enrollment
      BY <3>1 DEF TypeOK
    <3>2. CASE Admitted(p) /\ Revise(c, next)
      <4>1. enrollment[c].revision < MaxRevision
        BY <3>2 DEF Admitted
      <4> QED
        BY <1>c, <2>2, <3>2, <4>1, ReviseType
    <3> QED
      BY <1>5, <3>1, <3>2 DEF ClearLesson
  <2> QED
    BY <1>5, <2>3, <2>4 DEF ClearLesson, TypeOK
<1>6. CASE SetReadingPosition(p)
  <2> DEFINE c == job[p].course
             l == job[p].lesson
             next == [enrollment[c].state EXCEPT !.reading = l]
  <2>1. l \in Lessons
    BY <1>6 DEF CommandsNamed, SetReadingPosition, At
  <2>2. next \in LearningStates
    BY <1>c, <2>1, CurrentTypes, StateTypes
  <2>3. pc' \in [Procs -> Labels] /\ job' \in [Procs -> Jobs]
    BY <1>6, ProcTypes DEF SetReadingPosition
  <2>4. enrollment' \in [Courses -> Enrollments]
    <3>1. CASE UNCHANGED enrollment
      BY <3>1 DEF TypeOK
    <3>2. CASE Admitted(p) /\ Revise(c, next)
      <4>1. enrollment[c].revision < MaxRevision
        BY <3>2 DEF Admitted
      <4> QED
        BY <1>c, <2>2, <3>2, <4>1, ReviseType
    <3> QED
      BY <1>6, <3>1, <3>2 DEF SetReadingPosition
  <2> QED
    BY <1>6, <2>3, <2>4 DEF SetReadingPosition, TypeOK
<1>7. CASE \E r \in RequestIds : RestartLockUser(p, r)
  <2>1. PICK r \in RequestIds : RestartLockUser(p, r)
    BY <1>7
  <2>2. [job[p] EXCEPT !.request = r] \in Jobs
    BY <1>c, <2>1, JobFields DEF RestartLockUser, At
  <2>3. pc' \in [Procs -> Labels]
    BY <2>1, ProcTypes DEF RestartLockUser, Labels
  <2>4. job' = [job EXCEPT ![p] = [job[p] EXCEPT !.request = r]]
    BY <2>1 DEF RestartLockUser, Hold
  <2>5. job' \in [Procs -> Jobs]
    BY <2>2, <2>4 DEF TypeOK
  <2> QED
    BY <2>1, <2>3, <2>5, RowsSame DEF RestartLockUser
<1>8. CASE RestartShareCourse(p)
  <2>1. pc' \in [Procs -> Labels] /\ job' = job
    BY <1>8, ProcTypes DEF RestartShareCourse, Labels
  <2> QED
    BY <1>8, <2>1, RowsSame DEF RestartShareCourse, TypeOK
<1>9. CASE Restart(p)
  <2> DEFINE c == job[p].course
             r == job[p].request
  <2>1. pc' \in [Procs -> Labels] /\ job' \in [Procs -> Jobs] /\ UNCHANGED <<course, activities>>
    BY <1>9, ProcTypes DEF Restart
  <2>2. CASE UNCHANGED <<enrollment, snapshots>>
    BY <2>1, <2>2 DEF TypeOK
  <2>3. CASE /\ enrollment[c].generation < MaxGeneration
             /\ snapshots' = snapshots \cup {SnapshotOf(c, "RESTART", r)}
             /\ enrollment' = [d \in Courses |->
                   IF d = c THEN [Deactivated(enrollment[c]) EXCEPT !.revision = 0,
                                    !.generation = @ + 1, !.state = EmptyState]
                   ELSE Deactivated(enrollment[d])]
    <3>1. r \in RequestIds
      BY <1>9 DEF CommandsNamed, Restart, At
    <3>2. snapshots' \subseteq Snapshots
      BY <1>c, <2>3, <3>1, SnapshotType DEF TypeOK
    <3>3. enrollment' \in [Courses -> Enrollments]
      BY <1>c, <2>3, EnrollmentFields, CurrentTypes
    <3> QED
      BY <2>1, <3>2, <3>3 DEF TypeOK
  <2> QED
    BY <1>9, <2>2, <2>3 DEF Restart
<1>10. CASE \E r \in RequestIds : BeginSnapshot(p, r)
  <2>1. PICK r \in RequestIds : BeginSnapshot(p, r)
    BY <1>10
  <2>2. [job[p] EXCEPT !.request = r] \in Jobs
    BY <1>c, <2>1, JobFields DEF BeginSnapshot, At
  <2>3. pc' \in [Procs -> Labels]
    BY <2>1, ProcTypes DEF BeginSnapshot, Labels
  <2>4. job' = [job EXCEPT ![p] = [job[p] EXCEPT !.request = r]]
    BY <2>1 DEF BeginSnapshot, Hold
  <2>5. job' \in [Procs -> Jobs]
    BY <2>2, <2>4 DEF TypeOK
  <2> QED
    BY <2>1, <2>3, <2>5, RowsSame DEF BeginSnapshot
<1>11. CASE CreateSnapshot(p)
  <2>1. job[p].request \in RequestIds
    BY <1>11 DEF CommandsNamed, CreateSnapshot, At
  <2>2. snapshots' \subseteq Snapshots
    BY <1>c, <1>11, <2>1, SnapshotType DEF CreateSnapshot, TypeOK
  <2>3. pc' \in [Procs -> Labels] /\ job' \in [Procs -> Jobs]
    BY <1>11, ProcTypes DEF CreateSnapshot
  <2> QED
    BY <1>11, <2>2, <2>3 DEF CreateSnapshot, TypeOK
<1>12. CASE \E c \in Courses : EnrollLockUser(p, c)
  <2>1. PICK c \in Courses : EnrollLockUser(p, c)
    BY <1>12
  <2>2. [job[p] EXCEPT !.course = c, !.view = NoView] \in Jobs
    BY <1>c, <2>1, JobFields DEF EnrollLockUser, At
  <2>3. pc' \in [Procs -> Labels]
    BY <2>1, ProcTypes DEF EnrollLockUser, Labels
  <2>4. job' = [job EXCEPT ![p] = [job[p] EXCEPT !.course = c, !.view = NoView]]
    BY <2>1 DEF EnrollLockUser, Hold
  <2>5. job' \in [Procs -> Jobs]
    BY <2>2, <2>4 DEF TypeOK
  <2> QED
    BY <2>1, <2>3, <2>5, RowsSame DEF EnrollLockUser
<1>13. CASE EnrollDeactivate(p)
  <2>2. [job[p] EXCEPT !.held = {c \in Courses : enrollment[c].active}] \in Jobs
    BY <1>c, <1>13, JobFields DEF EnrollDeactivate, At
  <2>3. pc' \in [Procs -> Labels]
    BY <1>13, ProcTypes DEF EnrollDeactivate, Labels
  <2>4. job' = [job EXCEPT ![p] = [job[p] EXCEPT !.held = {c \in Courses : enrollment[c].active}]]
    BY <1>13 DEF EnrollDeactivate, Hold
  <2>5. job' \in [Procs -> Jobs]
    BY <2>2, <2>4 DEF TypeOK
  <2> QED
    BY <1>13, <2>3, <2>5, RowsSame DEF EnrollDeactivate
<1>14. CASE EnrollWrite(p)
  <2>1. pc' \in [Procs -> Labels] /\ job' \in [Procs -> Jobs]
    BY <1>14, ProcTypes DEF EnrollWrite
  <2>2. enrollment' \in [Courses -> Enrollments]
    BY <1>14, EnrollmentFields, CurrentTypes DEF EnrollWrite
  <2> QED
    BY <1>14, <2>1, <2>2 DEF EnrollWrite, TypeOK
<1>15. CASE \E c \in Courses, s \in Syllabi : PublishLock(p, c, s)
  <2>1. PICK c \in Courses, s \in Syllabi : PublishLock(p, c, s)
    BY <1>15
  <2>2. [job[p] EXCEPT !.course = c, !.view = NoView, !.syllabus = s] \in Jobs
    BY <1>c, <2>1, JobFields DEF PublishLock, At
  <2>3. pc' \in [Procs -> Labels]
    BY <2>1, ProcTypes DEF PublishLock, Labels
  <2>4. job' = [job EXCEPT ![p] = [job[p] EXCEPT !.course = c, !.view = NoView, !.syllabus = s]]
    BY <2>1 DEF PublishLock, Hold
  <2>5. job' \in [Procs -> Jobs]
    BY <2>2, <2>4 DEF TypeOK
  <2> QED
    BY <2>1, <2>3, <2>5, RowsSame DEF PublishLock
<1>16. CASE PublishFind(p)
  <2>6. {job[p].course} \in SUBSET Courses /\ {} \in SUBSET Courses
    BY <1>c
  <2>2. [job[p] EXCEPT !.held =
            IF enrollment[job[p].course].state.reading
                  \in Removed(course[job[p].course].lessons, job[p].syllabus)
            THEN {job[p].course} ELSE {}] \in Jobs
    BY <1>c, <1>16, JobFields, <2>6 DEF PublishFind, At
  <2>3. pc' \in [Procs -> Labels]
    BY <1>16, ProcTypes DEF PublishFind, Labels
  <2>4. job' = [job EXCEPT ![p] = [job[p] EXCEPT !.held =
            IF enrollment[job[p].course].state.reading
                  \in Removed(course[job[p].course].lessons, job[p].syllabus)
            THEN {job[p].course} ELSE {}]]
    BY <1>16 DEF PublishFind, Hold
  <2>5. job' \in [Procs -> Jobs]
    BY <2>2, <2>4 DEF TypeOK
  <2> QED
    BY <1>16, <2>3, <2>5, RowsSame DEF PublishFind
<1>17. CASE PublishWrite(p)
  <2> DEFINE c == job[p].course
             new == job[p].syllabus
             old == course[c].lessons
             l == Replacement(old, new, enrollment[c].state.reading)
  <2>1. pc' \in [Procs -> Labels] /\ job' \in [Procs -> Jobs]
    BY <1>17, ProcTypes DEF PublishWrite
  <2>2. /\ course[c].version < MaxVersion /\ enrollment[c].revision < MaxRevision
        /\ new \in Syllabi
    BY <1>c, <1>17 DEF PublishKnows, PublishWrite, TakesCourse, At
  <2>3. l \in Lessons
    BY <1>c, <2>2, CurrentTypes, ReplacementIsKept, SyllabusLessons
  <2>4. Repointed(enrollment[c], l) \in Enrollments
    BY <1>c, <2>2, <2>3, CurrentTypes, EnrollmentFields
  <2>5. enrollment' \in [Courses -> Enrollments]
    BY <1>17, <2>4 DEF PublishWrite, TypeOK
  <2>6. course[c].version + 1 \in 1 .. MaxVersion
    BY <1>c, <2>2, CurrentTypes, LearningAssumption
  <2>7. course' \in [Courses -> [version: 1 .. MaxVersion, lessons: Syllabi]]
    BY <1>17, <2>2, <2>6 DEF PublishWrite, TypeOK
  <2> QED
    BY <1>17, <2>1, <2>5, <2>7 DEF PublishWrite, TypeOK
<1>18. CASE Abort(p)
  <2>2. [job[p] EXCEPT !.lesson = NoLesson, !.request = 0,
                                    !.syllabus = <<>>,
                         !.held = {}] \in Jobs
    BY <1>c, <1>18, JobFields DEF Abort, At
  <2>3. pc' \in [Procs -> Labels]
    BY <1>18, ProcTypes DEF Abort, Labels
  <2>4. job' = [job EXCEPT ![p] = [job[p] EXCEPT !.lesson = NoLesson, !.request = 0,
                                    !.syllabus = <<>>,
                         !.held = {}]]
    BY <1>18 DEF Abort, Hold
  <2>5. job' \in [Procs -> Jobs]
    BY <2>2, <2>4 DEF TypeOK
  <2> QED
    BY <1>18, <2>3, <2>5, RowsSame DEF Abort
<1> QED
  BY <1>1, <1>2, <1>3, <1>4, <1>5, <1>6, <1>7, <1>8, <1>9, <1>10, <1>11, <1>12, <1>13,
     <1>14, <1>15, <1>16, <1>17, <1>18
     DEF Step, Read, WriteProgress, RestartSteps, SnapshotSteps, Enroll, Publish

LEMMA NamedStep ==
  ASSUME TypeOK, CommandsNamed, NEW p \in Procs, Step(p)
  PROVE  CommandsNamed'
<1> DEFINE Named == /\ pc[p] \in {"complete", "clear", "read"} => job[p].lesson \in Lessons
                    /\ pc[p] \in {"restartUser", "restart", "snapshot"} =>
                          job[p].request \in RequestIds
<1>m. Named' => CommandsNamed'
  BY Moves DEF CommandsNamed
<1>n. Named
  BY DEF CommandsNamed
<1> SUFFICES Named'
  BY <1>m
<1> USE DEF TypeOK, Jobs, Goto, Hold, Finish, Return, At
<1>1. CASE \E c \in Courses : ReadRow(p, c)
  BY <1>1, <1>n DEF ReadRow
<1>2. CASE ReadVersion(p)
  BY <1>2, <1>n DEF ReadVersion
<1>3. CASE \E kind \in {"complete", "clear", "read"}, l \in Lessons : BeginWrite(p, kind, l)
  BY <1>3, <1>n DEF BeginWrite
<1>4. CASE CompleteLesson(p)
  BY <1>4, <1>n DEF CompleteLesson
<1>5. CASE ClearLesson(p)
  BY <1>5, <1>n DEF ClearLesson
<1>6. CASE SetReadingPosition(p)
  BY <1>6, <1>n DEF SetReadingPosition
<1>7. CASE \E r \in RequestIds : RestartLockUser(p, r)
  BY <1>7, <1>n DEF RestartLockUser
<1>8. CASE RestartShareCourse(p)
  BY <1>8, <1>n DEF RestartShareCourse
<1>9. CASE Restart(p)
  BY <1>9, <1>n DEF Restart
<1>10. CASE \E r \in RequestIds : BeginSnapshot(p, r)
  BY <1>10, <1>n DEF BeginSnapshot
<1>11. CASE CreateSnapshot(p)
  BY <1>11, <1>n DEF CreateSnapshot
<1>12. CASE \E c \in Courses : EnrollLockUser(p, c)
  BY <1>12, <1>n DEF EnrollLockUser
<1>13. CASE EnrollDeactivate(p)
  BY <1>13, <1>n DEF EnrollDeactivate
<1>14. CASE EnrollWrite(p)
  BY <1>14, <1>n DEF EnrollWrite
<1>15. CASE \E c \in Courses, s \in Syllabi : PublishLock(p, c, s)
  BY <1>15, <1>n DEF PublishLock
<1>16. CASE PublishFind(p)
  BY <1>16, <1>n DEF PublishFind
<1>17. CASE PublishWrite(p)
  BY <1>17, <1>n DEF PublishWrite
<1>18. CASE Abort(p)
  BY <1>18, <1>n DEF Abort
<1> QED
  BY <1>1, <1>2, <1>3, <1>4, <1>5, <1>6, <1>7, <1>8, <1>9, <1>10, <1>11, <1>12, <1>13,
     <1>14, <1>15, <1>16, <1>17, <1>18
     DEF Step, Read, WriteProgress, RestartSteps, SnapshotSteps, Enroll, Publish

LEMMA ActiveStep ==
  ASSUME TypeOK, UserLocks, ActiveOnesHeld, OneActiveCourse, NEW p \in Procs, Step(p)
  PROVE  ActiveOnesHeld' /\ OneActiveCourse'
<1>1. CASE EnrollWrite(p)
  <2>1. At(p, "enrollWrite") /\ LocksUser(p) /\ ~At(p, "enrollWrite")'
    BY <1>1 DEF EnrollWrite, At, LocksUser, Return, Goto, TypeOK
  <2>2. \A q \in Procs : ~At(q, "enrollWrite")'
    BY <2>1, Moves DEF UserLocks, At, LocksUser
  <2>3. \A c \in Courses : LearnersOwn(c)' => c = job[p].course
    BY <1>1, <2>1 DEF EnrollWrite, ActiveOnesHeld, LearnersOwn, Deactivated, TypeOK, Enrollments
  <2> QED
    BY <2>2, <2>3 DEF ActiveOnesHeld, OneActiveCourse
<1>2. CASE Restart(p)
  <2>1. At(p, "restart") /\ LocksUser(p) /\ ~At(p, "enrollWrite")'
    BY <1>2 DEF Restart, At, LocksUser, Finish, Goto, TypeOK
  <2>2. \A q \in Procs : ~At(q, "enrollWrite")'
    BY <2>1, Moves DEF UserLocks, At, LocksUser
  <2>3. \/ UNCHANGED enrollment
        \/ \A c \in Courses : ~enrollment'[c].active
    <3>1. \A d \in Courses : ~Deactivated(enrollment[d]).active
      BY CurrentTypes DEF Deactivated, Enrollments
    <3>2. ~[Deactivated(enrollment[job[p].course]) EXCEPT !.revision = 0,
               !.generation = @ + 1, !.state = EmptyState].active
      BY DEF TypeOK, Jobs, Enrollments, Deactivated
    <3> QED
      BY <1>2, <3>1, <3>2 DEF Restart
  <2> QED
    <3>1. ActiveOnesHeld'
      BY <2>2 DEF ActiveOnesHeld
    <3> QED
      BY <2>3, <3>1 DEF OneActiveCourse, LearnersOwn
<1>3. CASE ~EnrollWrite(p) /\ ~Restart(p)
  <2>1. \A c \in Courses : /\ enrollment'[c].active = enrollment[c].active
                           /\ LearnersOwn(c)' <=> LearnersOwn(c)
    <3>1. CASE pc[p] \notin {"enrollWrite", "restart"}
      BY <3>1, ActiveUntouched DEF LearnersOwn
    <3>2. CASE pc[p] \in {"enrollWrite", "restart"}
      <4>1. Abort(p)
        BY <1>3, <3>2 DEF Step, Read, WriteProgress, RestartSteps, SnapshotSteps,
           Enroll,
              Publish, At, ReadRow, ReadVersion, BeginWrite, CompleteLesson,
              ClearLesson,
              SetReadingPosition, RestartLockUser, RestartShareCourse, BeginSnapshot,
              CreateSnapshot, EnrollLockUser, EnrollDeactivate, PublishLock,
              PublishFind,
              PublishWrite
      <4> QED
        BY <4>1 DEF Abort, rows, LearnersOwn
    <3> QED
      BY <3>1, <3>2
  <2>2. OneActiveCourse'
    BY <2>1 DEF OneActiveCourse
  <2>3. \A q \in Procs \ {p}, c \in Courses :
          (At(q, "enrollWrite") /\ LearnersOwn(c))' => c \in job'[q].held
    BY <2>1, Moves DEF ActiveOnesHeld, At
  <2>4. At(p, "enrollWrite")' => EnrollDeactivate(p)
    BY <1>3 DEF Step, Read, WriteProgress, RestartSteps, SnapshotSteps, Enroll,
       Publish, At,
          Goto, Finish, Return, TypeOK, ReadRow, ReadVersion, BeginWrite,
          CompleteLesson, ClearLesson,
          SetReadingPosition, RestartLockUser, RestartShareCourse, BeginSnapshot,
          CreateSnapshot, EnrollLockUser, PublishLock, PublishFind, PublishWrite, Abort
  <2>5. \A c \in Courses : (At(p, "enrollWrite") /\ LearnersOwn(c))' => c \in job'[p].held
    <3> SUFFICES ASSUME At(p, "enrollWrite")'
                 PROVE  \A c \in Courses : LearnersOwn(c)' => c \in job'[p].held
      OBVIOUS
    <3>1. job'[p].held = {c \in Courses : enrollment[c].active}
      BY <2>4 DEF EnrollDeactivate, Hold, TypeOK, Jobs
    <3> QED
      BY <2>1, <3>1 DEF LearnersOwn
  <2> QED
    BY <2>2, <2>3, <2>5 DEF ActiveOnesHeld
<1> QED
  BY <1>1, <1>2, <1>3

\* The enroll command: the row comes to be, as it was taken to be.
LEMMA CommandRows ==
  ASSUME TypeOK, NEW k \in Courses, enrollUser(k)
  PROVE  /\ UNCHANGED <<course, snapshots, activities, pc, job>>
         /\ enrollment' \in [Courses -> Enrollments]
         /\ \A c \in Courses :
               /\ enrollment'[c].generation = enrollment[c].generation
               /\ enrollment'[c].revision = enrollment[c].revision
               /\ enrollment'[c].state = enrollment[c].state
               /\ LearnersOwn(c)' => LearnersOwn(c)
<1> DEFINE row == [enrollment[k] EXCEPT !.enrolled = TRUE, !.active = TRUE, !.assigned = TRUE]
<1>1. /\ UNCHANGED <<course, snapshots, activities, pc, job>>
      /\ enrollment' = [enrollment EXCEPT ![k] = row]
  BY DEF enrollUser, TypeOK
<1>2. row \in Enrollments
  BY EnrollmentFields, CurrentTypes
<1>3. /\ row.generation = enrollment[k].generation
      /\ row.revision = enrollment[k].revision
      /\ row.state = enrollment[k].state
      /\ row.assigned
  BY CurrentTypes DEF Enrollments
<1> HIDE DEF row
<1> QED
  BY <1>1, <1>2, <1>3 DEF TypeOK, LearnersOwn

LEMMA CommandStep ==
  ASSUME LearningInv, NEW k \in Courses, enrollUser(k)
  PROVE  LearningInv'
<1>1. TypeOK
  BY DEF LearningInv
<1>2. /\ UNCHANGED <<course, snapshots, activities, pc, job>>
      /\ enrollment' \in [Courses -> Enrollments]
      /\ \A c \in Courses : /\ enrollment'[c].revision = enrollment[c].revision
                            /\ enrollment'[c].state = enrollment[c].state
                            /\ LearnersOwn(c)' => LearnersOwn(c)
  BY <1>1, CommandRows
<1>3. TypeOK'
  BY <1>1, <1>2 DEF TypeOK
<1>4. UserLocks' /\ CourseLocks' /\ CommandsNamed'
  BY <1>2 DEF LearningInv, UserLocks, LocksUser, CourseLocks, TakesCourse, SharesCourse,
     CommandsNamed
<1>5. ActiveOnesHeld' /\ OneActiveCourse'
  BY <1>2 DEF LearningInv, ActiveOnesHeld, OneActiveCourse, At
<1>6. PublishKnows' /\ ReadingPositionExists'
  BY <1>2 DEF LearningInv, PublishKnows, TakesCourse, At, ReadingPositionExists
<1> QED
  BY <1>3, <1>4, <1>5, <1>6 DEF LearningInv

LEMMA PublishStep ==
  ASSUME TypeOK, CourseLocks, PublishKnows, NEW p \in Procs, Step(p)
  PROVE  PublishKnows'
<1> DEFINE Knows(q, c) ==
      /\ course[c].version < MaxVersion
      /\ enrollment[c].revision < MaxRevision
      /\ job[q].syllabus \in Syllabi
      /\ At(q, "publishWrite") =>
            (c \in job[q].held
               <=> enrollment[c].state.reading \in Removed(course[c].lessons, job[q].syllabus))
<1>1. ASSUME NEW q \in Procs \ {p}, NEW c \in Courses, TakesCourse(q, c)'
      PROVE  Knows(q, c)'
  <2>1. pc'[q] = pc[q] /\ job'[q] = job[q]
    BY Moves
  <2>2. TakesCourse(q, c)
    BY <1>1, <2>1 DEF TakesCourse
  <2>3. ~SharesCourse(p, c) /\ ~TakesCourse(p, c)
    BY <2>2 DEF CourseLocks
  <2>4. /\ course'[c] = course[c]
        /\ enrollment'[c].state = enrollment[c].state
        /\ enrollment'[c].revision = enrollment[c].revision
    BY <2>3, Untouched DEF TakesCourse, At
  <2>5. Knows(q, c)
    BY <2>2 DEF PublishKnows
  <2> QED
    BY <2>1, <2>4, <2>5 DEF At
<1>2. ASSUME NEW c \in Courses, TakesCourse(p, c)'
      PROVE  Knows(p, c)'
  <2>1. (\E d \in Courses, s \in Syllabi : PublishLock(p, d, s)) \/ PublishFind(p)
    BY <1>2 DEF Step, Read, WriteProgress, RestartSteps, SnapshotSteps, Enroll,
       Publish, At,
          Goto, Finish, Return, TypeOK, TakesCourse, ReadRow, ReadVersion, BeginWrite,
          CompleteLesson, ClearLesson, SetReadingPosition, RestartLockUser,
          RestartShareCourse,
          Restart, BeginSnapshot, CreateSnapshot, EnrollLockUser, EnrollDeactivate,
          EnrollWrite,
          PublishWrite, Abort
  <2>2. CASE \E d \in Courses, s \in Syllabi : PublishLock(p, d, s)
    <3>1. PICK d \in Courses, s \in Syllabi : PublishLock(p, d, s)
      BY <2>2
    <3>2. /\ pc'[p] = "publishFind" /\ job'[p].course = d /\ job'[p].syllabus = s
          /\ UNCHANGED <<course, enrollment>>
          /\ course[d].version < MaxVersion /\ enrollment[d].revision < MaxRevision
      BY <3>1 DEF PublishLock, Goto, Hold, TypeOK, Jobs, rows
    <3>3. c = d
      BY <1>2, <3>2 DEF TakesCourse
    <3> QED
      BY <3>2, <3>3 DEF At
  <2>3. CASE PublishFind(p)
    <3>1. /\ At(p, "publishFind") /\ job'[p].course = job[p].course
          /\ job'[p].syllabus = job[p].syllabus
          /\ UNCHANGED <<course, enrollment>>
      BY <2>3 DEF PublishFind, Hold, TypeOK, Jobs, rows
    <3>2. c = job[p].course /\ TakesCourse(p, c)
      BY <1>2, <3>1 DEF TakesCourse, At
    <3>3. Knows(p, c)
      BY <3>2 DEF PublishKnows
    <3>4. job'[p].held = IF enrollment[c].state.reading
                              \in Removed(course[c].lessons, job[p].syllabus)
                         THEN {c} ELSE {}
      BY <2>3, <3>2 DEF PublishFind, Hold, TypeOK, Jobs
    <3> QED
      BY <3>1, <3>3, <3>4
  <2> QED
    BY <2>1, <2>2, <2>3
<1> QED
  BY <1>1, <1>2 DEF PublishKnows

LEMMA ReadingStep ==
  ASSUME TypeOK, CommandsNamed, PublishKnows, ReadingPositionExists, NEW p \in Procs, Step(p)
  PROVE  ReadingPositionExists'
<1> SUFFICES ASSUME NEW c \in Courses
             PROVE  enrollment'[c].state.reading \in Elements(course'[c].lessons) \cup {NoLesson}
  BY DEF ReadingPositionExists
<1>c. /\ enrollment[c].state.reading \in Elements(course[c].lessons) \cup {NoLesson}
      /\ enrollment[c] \in Enrollments /\ enrollment[c].state \in LearningStates
  BY CurrentTypes DEF ReadingPositionExists
<1>1. CASE ~SharesCourse(p, c) /\ ~(At(p, "publishWrite") /\ job[p].course = c)
  BY <1>1, <1>c, Untouched
<1>2. CASE At(p, "publishWrite") /\ job[p].course = c
  <2> DEFINE old == course[c].lessons
             new == job[p].syllabus
             reading == enrollment[c].state.reading
  <2>1. PublishWrite(p) \/ Abort(p)
    BY <1>2 DEF Step, Read, WriteProgress, RestartSteps, SnapshotSteps, Enroll,
       Publish, At,
          ReadRow, ReadVersion, BeginWrite, CompleteLesson, ClearLesson,
          SetReadingPosition,
          RestartLockUser, RestartShareCourse, Restart, BeginSnapshot, CreateSnapshot,
          EnrollLockUser, EnrollDeactivate, EnrollWrite, PublishLock, PublishFind
  <2>2. CASE Abort(p)
    BY <1>c, <2>2 DEF Abort, rows
  <2>3. CASE PublishWrite(p)
    <3>1. course'[c].lessons = new
      BY <1>2, <2>3 DEF PublishWrite, TypeOK
    <3>2. new \in Syllabi /\ old \in Syllabi
      BY <1>2, CurrentTypes DEF PublishKnows, TakesCourse, At
    <3>3. c \in job[p].held <=> reading \in Removed(old, new)
      BY <1>2 DEF PublishKnows, TakesCourse, At
    <3>4. CASE reading \in Removed(old, new)
      <4>1. enrollment'[c] = Repointed(enrollment[c], Replacement(old, new, reading))
        BY <1>2, <2>3, <3>3, <3>4 DEF PublishWrite, TypeOK
      <4>2. enrollment'[c].state.reading = Replacement(old, new, reading)
        <5>1. enrollment'[c].state
                = [enrollment[c].state EXCEPT !.reading = Replacement(old, new, reading)]
          BY <1>c, <4>1, RepointedFields
        <5>2. \A l : [enrollment[c].state EXCEPT !.reading = l].reading = l
          BY <1>c DEF LearningStates
        <5> QED
          BY <5>1, <5>2
      <4> QED
        BY <3>1, <3>2, <4>2, ReplacementIsKept
    <3>5. CASE reading \notin Removed(old, new)
      <4>1. UNCHANGED enrollment
        BY <1>2, <2>3, <3>3, <3>5 DEF PublishWrite
      <4> QED
        BY <1>c, <3>1, <3>5, <4>1 DEF Removed
    <3> QED
      BY <3>4, <3>5
  <2> QED
    BY <2>1, <2>2, <2>3
<1>3. CASE SharesCourse(p, c)
  <2>1. c = job[p].course
    BY <1>3 DEF SharesCourse
  <2>2. \/ CompleteLesson(p) \/ ClearLesson(p) \/ SetReadingPosition(p)
        \/ Restart(p) \/ UNCHANGED <<course, enrollment>>
    BY <1>3 DEF SharesCourse, Step, Read, WriteProgress, RestartSteps, SnapshotSteps,
       Enroll,
          Publish, At, ReadRow, ReadVersion, BeginWrite, RestartLockUser,
          RestartShareCourse,
          BeginSnapshot, CreateSnapshot, EnrollLockUser, EnrollDeactivate, EnrollWrite,
          PublishLock, PublishFind, PublishWrite, Abort, rows
  <2>3. CASE CompleteLesson(p)
    <3>1. \/ UNCHANGED enrollment
          \/ Revise(c, WithCompletion(enrollment[c].state, job[p].lesson,
                                      Elements(course[c].lessons)))
      BY <2>1, <2>3 DEF CompleteLesson, rows
    <3>2. \A l, L : WithCompletion(enrollment[c].state, l, L).reading
                      = enrollment[c].state.reading
      BY <1>c DEF WithCompletion, LearningStates
    <3>3. \A s : Revise(c, s) => enrollment'[c].state = s
      BY <1>c DEF Revise, TypeOK, Enrollments
    <3> QED
      BY <1>c, <2>3, <3>1, <3>2, <3>3 DEF CompleteLesson
  <2>4. CASE ClearLesson(p)
    <3>1. UNCHANGED enrollment \/ Revise(c, WithoutCompletion(enrollment[c].state, job[p].lesson))
      BY <2>1, <2>4 DEF ClearLesson
    <3>2. \A l : WithoutCompletion(enrollment[c].state, l).reading = enrollment[c].state.reading
      BY <1>c DEF WithoutCompletion, LearningStates
    <3>3. \A s : Revise(c, s) => enrollment'[c].state = s
      BY <1>c DEF Revise, TypeOK, Enrollments
    <3> QED
      BY <1>c, <2>4, <3>1, <3>2, <3>3 DEF ClearLesson
  <2>5. CASE SetReadingPosition(p)
    <3>1. \/ UNCHANGED enrollment
          \/ /\ Revise(c, [enrollment[c].state EXCEPT !.reading = job[p].lesson])
             /\ job[p].lesson \in Elements(course[c].lessons)
      BY <2>1, <2>5 DEF SetReadingPosition, Admitted
    <3>2. \A s : Revise(c, s) => enrollment'[c].state = s
      BY <1>c DEF Revise, TypeOK, Enrollments
    <3>3. \A l : [enrollment[c].state EXCEPT !.reading = l].reading = l
      BY <1>c DEF LearningStates
    <3> QED
      BY <1>c, <2>5, <3>1, <3>2, <3>3 DEF SetReadingPosition
  <2>6. CASE Restart(p)
    <3>1. \/ UNCHANGED enrollment
          \/ enrollment'[c].state = EmptyState
      BY <1>c, <2>1, <2>6 DEF Restart, Enrollments, Deactivated
    <3> QED
      BY <1>c, <2>6, <3>1 DEF Restart, EmptyState
  <2> QED
    BY <1>c, <2>2, <2>3, <2>4, <2>5, <2>6
<1> QED
  BY <1>1, <1>2, <1>3

-----------------------------------------------------------------------------
(* The invariant *)

LEMMA InitHolds == Init => LearningInv
<1> SUFFICES ASSUME Init PROVE LearningInv
  OBVIOUS
<1> USE DEF Init
<1>1. \A p \in Procs : pc[p] = "idle"
  OBVIOUS
<1>2. TypeOK
  <2>1. NoEnrollment \in Enrollments
    BY EmptyIsState, LearningAssumption DEF NoEnrollment, Enrollments
  <2>2. course \in [Courses -> [version: 1 .. MaxVersion, lessons: Syllabi]]
    BY LearningAssumption
  <2>3. job \in [Procs -> Jobs]
    <3>1. (CHOOSE c \in Courses : TRUE) \in Courses
      BY LearningAssumption
    <3> QED
      BY <3>1, NoViewIsView DEF Jobs
  <2> QED
    BY <2>1, <2>2, <2>3 DEF TypeOK, Labels
<1>3. \A c \in Courses : ~enrollment[c].active /\ enrollment[c].state.reading = NoLesson
  BY DEF NoEnrollment, EmptyState
<1> QED
  BY <1>1, <1>2, <1>3 DEF LearningInv, UserLocks, LocksUser, CourseLocks, TakesCourse,
       CommandsNamed, ActiveOnesHeld, At, PublishKnows, OneActiveCourse, LearnersOwn,
       ReadingPositionExists

LEMMA Inductive == LearningInv /\ [Next]_vars => LearningInv'
<1> SUFFICES ASSUME LearningInv, [Next]_vars PROVE LearningInv'
  OBVIOUS
<1>1. CASE UNCHANGED vars
  BY <1>1 DEF vars, rows, LearningInv, TypeOK, UserLocks, LocksUser, CourseLocks,
     TakesCourse,
       SharesCourse, CommandsNamed, ActiveOnesHeld, At, PublishKnows, OneActiveCourse,
       LearnersOwn, ReadingPositionExists
<1>2. ASSUME NEW p \in Procs, Step(p) PROVE LearningInv'
  BY <1>2, TypeStep, LocksStep, NamedStep, ActiveStep, PublishStep,
     ReadingStep DEF LearningInv
<1>3. ASSUME NEW k \in Courses, enrollUser(k) PROVE LearningInv'
  BY <1>3, CommandStep
<1> QED
  BY <1>1, <1>2, <1>3 DEF Next

\* The inductive invariant: types, locks and the rows held under them, what the
\* requests under way hold, one active course, the publication and the reading
\* position.
THEOREM Invariant == Spec => []LearningInv
  BY InitHolds, Inductive, PTL DEF Spec

\* Every variable keeps its type; the counters stay within their bounds.
THEOREM TypeCorrect == Spec => []TypeOK
<1>1. LearningInv => TypeOK
  BY DEF LearningInv
<1> QED
  BY Invariant, <1>1, PTL

\* A learner's own enrolls and restarts leave at most one course active, whatever
\* of them runs at once and whatever an operator's enroll command adds amid them.
THEOREM OneActive == Spec => []OneActiveCourse
<1>1. LearningInv => OneActiveCourse
  BY DEF LearningInv
<1> QED
  BY Invariant, <1>1, PTL

\* A reading position is a lesson of the latest published version, whatever is
\* written while versions are published.
THEOREM ReadingPosition == Spec => []ReadingPositionExists
<1>1. LearningInv => ReadingPositionExists
  BY DEF LearningInv
<1> QED
  BY Invariant, <1>1, PTL

-----------------------------------------------------------------------------
(* (generation, progressRevision) names one state *)

\* A row's state moves only together with its generation or revision.
LEMMA CurrentMoves ==
  ASSUME TypeOK, NEW p \in Procs, Step(p), NEW c \in Courses
  PROVE  Seen(enrollment'[c]) = Seen(enrollment[c]) \/ Newer(enrollment'[c], enrollment[c])
<1>e. /\ enrollment[c] \in Enrollments /\ enrollment[c].generation \in Int
      /\ enrollment[c].revision \in Int
  BY CurrentTypes
<1>r. ASSUME NEW d \in Courses, NEW s, Revise(d, s)
      PROVE  Seen(enrollment'[c]) = Seen(enrollment[c]) \/ Newer(enrollment'[c], enrollment[c])
  BY <1>e, <1>r DEF Revise, TypeOK, Enrollments, Seen, Newer
<1>1. CASE ~SharesCourse(p, c) /\ ~(At(p, "publishWrite") /\ job[p].course = c)
  BY <1>1, Untouched DEF Seen
<1>2. CASE At(p, "publishWrite") /\ job[p].course = c
  <2>1. \/ UNCHANGED enrollment
        \/ \E l : enrollment'[c] = Repointed(enrollment[c], l)
    BY <1>2 DEF Step, Read, WriteProgress, RestartSteps, SnapshotSteps, Enroll,
       Publish, At,
          ReadRow, ReadVersion, BeginWrite, CompleteLesson, ClearLesson,
          SetReadingPosition,
          RestartLockUser, RestartShareCourse, Restart, BeginSnapshot, CreateSnapshot,
          EnrollLockUser, EnrollDeactivate, EnrollWrite, PublishLock, PublishFind,
          PublishWrite, Abort, rows, TypeOK
  <2>2. ASSUME NEW l, enrollment'[c] = Repointed(enrollment[c], l)
        PROVE  Newer(enrollment'[c], enrollment[c])
    <3>1. /\ Repointed(enrollment[c], l).generation = enrollment[c].generation
          /\ Repointed(enrollment[c], l).revision = enrollment[c].revision + 1
      BY <1>e, RepointedFields
    <3>2. /\ enrollment'[c].generation = enrollment[c].generation
          /\ enrollment'[c].revision = enrollment[c].revision + 1
      BY <2>2, <3>1
    <3> QED
      BY <1>e, <3>2 DEF Newer
  <2> QED
    BY <2>1, <2>2
<1>3. CASE SharesCourse(p, c)
  <2>1. c = job[p].course
    BY <1>3 DEF SharesCourse
  <2>2. \/ CompleteLesson(p) \/ ClearLesson(p) \/ SetReadingPosition(p)
        \/ Restart(p) \/ UNCHANGED enrollment
    BY <1>3 DEF SharesCourse, Step, Read, WriteProgress, RestartSteps, SnapshotSteps,
       Enroll,
          Publish, At, ReadRow, ReadVersion, BeginWrite, RestartLockUser,
          RestartShareCourse,
          BeginSnapshot, CreateSnapshot, EnrollLockUser, EnrollDeactivate, EnrollWrite,
          PublishLock, PublishFind, PublishWrite, Abort, rows
  <2>3. CASE CompleteLesson(p) \/ ClearLesson(p) \/ SetReadingPosition(p)
    <3>1. UNCHANGED enrollment \/ \E s : Revise(c, s)
      BY <2>1, <2>3 DEF CompleteLesson, ClearLesson, SetReadingPosition, rows
    <3> QED
      BY <1>r, <3>1
  <2>4. CASE Restart(p)
    <3>1. \/ UNCHANGED enrollment
          \/ enrollment'[c].generation = enrollment[c].generation + 1
      BY <1>e, <2>1, <2>4 DEF Restart, Enrollments, Deactivated
    <3> QED
      BY <1>e, <3>1 DEF Newer
  <2> QED
    BY <2>2, <2>3, <2>4
<1> QED
  BY <1>1, <1>2, <1>3

\* A new snapshot is of the row as it is before or after the step.
LEMMA SnapshotsSeen ==
  ASSUME TypeOK, NEW p \in Procs, Step(p), NEW s \in snapshots', s \notin snapshots
  PROVE  \/ Seen(s) = Seen(enrollment[s.course])
         \/ Seen(s) = Seen(enrollment'[s.course])
<1>c. job[p].course \in Courses
  BY DEF TypeOK, Jobs
<1>1. CompleteLesson(p) \/ Restart(p) \/ CreateSnapshot(p)
  BY DEF Step, Read, WriteProgress, RestartSteps, SnapshotSteps, Enroll, Publish,
     ReadRow,
        ReadVersion, BeginWrite, ClearLesson, SetReadingPosition, RestartLockUser,
        RestartShareCourse, BeginSnapshot, EnrollLockUser, EnrollDeactivate,
        EnrollWrite,
        PublishLock, PublishFind, PublishWrite, Abort, rows
<1>2. CASE CompleteLesson(p)
  <2> DEFINE c == job[p].course
             next == WithCompletion(enrollment[c].state, job[p].lesson, Elements(course[c].lessons))
  <2>1. /\ Revise(c, next)
        /\ s = [course |-> c, reason |-> "COMPLETED", key |-> enrollment[c].generation,
                generation |-> enrollment[c].generation,
                revision |-> enrollment[c].revision + 1, state |-> next]
    BY <1>2 DEF CompleteLesson, rows
  <2>2. /\ s.course = c /\ s.generation = enrollment[c].generation
        /\ s.revision = enrollment[c].revision + 1 /\ s.state = next
    <3> HIDE DEF next
    <3> QED
      BY <2>1
  <2>3. /\ enrollment'[c].generation = enrollment[c].generation
        /\ enrollment'[c].revision = enrollment[c].revision + 1
        /\ enrollment'[c].state = next
    <3> HIDE DEF next
    <3> QED
      BY <1>c, <2>1 DEF Revise, TypeOK, Enrollments
  <2> QED
    <3> HIDE DEF next
    <3> QED
      BY <2>2, <2>3 DEF Seen
<1>3. CASE Restart(p) \/ CreateSnapshot(p)
  <2>1. \/ s = SnapshotOf(job[p].course, "RESTART", job[p].request)
        \/ s = SnapshotOf(job[p].course, "MANUAL", job[p].request)
    BY <1>3 DEF Restart, CreateSnapshot
  <2> QED
    BY <2>1 DEF SnapshotOf, Seen
<1> QED
  BY <1>1, <1>2, <1>3

\* A client's view is the one it had, or is of the row as it is.
LEMMA ViewSeen ==
  ASSUME TypeOK, NEW p \in Procs, Step(p), Viewing(p)'
  PROVE  \/ /\ Viewing(p) /\ job'[p].course = job[p].course
            /\ Seen(job'[p].view) = Seen(job[p].view)
         \/ Seen(job'[p].view) = Seen(enrollment[job'[p].course])
<1> USE DEF TypeOK, Jobs, Views, Goto, Hold, Finish, Return, At, Viewing, Seen
<1>1. CASE \E c \in Courses : ReadRow(p, c)
  BY <1>1 DEF ReadRow
<1>2. CASE ReadVersion(p)
  BY <1>2 DEF ReadVersion
<1>3. CASE \E kind \in {"complete", "clear", "read"}, l \in Lessons : BeginWrite(p, kind, l)
  BY <1>3 DEF BeginWrite
<1>4. CASE CompleteLesson(p)
  BY <1>4 DEF CompleteLesson
<1>5. CASE ClearLesson(p)
  BY <1>5 DEF ClearLesson
<1>6. CASE SetReadingPosition(p)
  BY <1>6 DEF SetReadingPosition
<1>7. CASE \E r \in RequestIds : RestartLockUser(p, r)
  BY <1>7 DEF RestartLockUser
<1>8. CASE RestartShareCourse(p)
  BY <1>8 DEF RestartShareCourse
<1>9. CASE Restart(p)
  BY <1>9 DEF Restart
<1>10. CASE \E r \in RequestIds : BeginSnapshot(p, r)
  BY <1>10 DEF BeginSnapshot
<1>11. CASE CreateSnapshot(p)
  BY <1>11 DEF CreateSnapshot
<1>12. CASE \E c \in Courses : EnrollLockUser(p, c)
  BY <1>12 DEF EnrollLockUser
<1>13. CASE EnrollDeactivate(p)
  BY <1>13 DEF EnrollDeactivate
<1>14. CASE EnrollWrite(p)
  BY <1>14 DEF EnrollWrite
<1>15. CASE \E c \in Courses, s \in Syllabi : PublishLock(p, c, s)
  BY <1>15 DEF PublishLock
<1>16. CASE PublishFind(p)
  BY <1>16 DEF PublishFind
<1>17. CASE PublishWrite(p)
  BY <1>17 DEF PublishWrite
<1>18. CASE Abort(p)
  BY <1>18 DEF Abort
<1> QED
  BY <1>1, <1>2, <1>3, <1>4, <1>5, <1>6, <1>7, <1>8, <1>9, <1>10, <1>11, <1>12, <1>13,
     <1>14, <1>15, <1>16, <1>17, <1>18
     DEF Step, Read, WriteProgress, RestartSteps, SnapshotSteps, Enroll, Publish

LEMMA VersionedStep ==
  ASSUME TypeOK, NEW p \in Procs, Step(p), NEW c \in Courses, NEW x \in Versioned(c)'
  PROVE  x \in Versioned(c) \/ x = Seen(enrollment'[c])
<1>0. Seen(enrollment[c]) \in Versioned(c)
  BY DEF Versioned
<1>1. CASE x = Seen(enrollment'[c])
  BY <1>1
<1>2. ASSUME NEW s \in snapshots', s.course = c, x = Seen(s)
      PROVE  x \in Versioned(c) \/ x = Seen(enrollment'[c])
  <2>1. CASE s \in snapshots
    BY <1>2, <2>1 DEF Versioned
  <2>2. CASE s \notin snapshots
    BY <1>0, <1>2, <2>2, SnapshotsSeen
  <2> QED
    BY <2>1, <2>2
<1>3. ASSUME NEW q \in Procs, Viewing(q)', job'[q].course = c, x = Seen(job'[q].view)
      PROVE  x \in Versioned(c)
  <2>1. CASE q # p
    <3>1. pc'[q] = pc[q] /\ job'[q] = job[q]
      BY <2>1, Moves
    <3>2. Viewing(q) /\ job[q].course = c /\ x = Seen(job[q].view)
      BY <1>3, <3>1 DEF Viewing
    <3> QED
      BY <3>2 DEF Versioned
  <2>2. CASE q = p
    <3>1. \/ Viewing(q) /\ job[q].course = c /\ x = Seen(job[q].view)
          \/ x = Seen(enrollment[c])
      BY <1>3, <2>2, ViewSeen
    <3> QED
      BY <1>0, <3>1 DEF Versioned
  <2> QED
    BY <2>1, <2>2
<1>4. \/ x = Seen(enrollment'[c])
      \/ \E s \in snapshots' : s.course = c /\ x = Seen(s)
      \/ \E q \in Procs : Viewing(q)' /\ job'[q].course = c /\ x = Seen(job'[q].view)
  BY DEF Versioned
<1> QED
  BY <1>1, <1>2, <1>3, <1>4

LEMMA SeenTypes ==
  ASSUME TypeOK, NEW c \in Courses, NEW x \in Versioned(c)
  PROVE  x.generation \in Int /\ x.revision \in Int
<1>1. CASE x = Seen(enrollment[c])
  BY <1>1, CurrentTypes DEF Seen
<1>2. ASSUME NEW s \in snapshots, x = Seen(s)
      PROVE x.generation \in Int /\ x.revision \in Int
  BY <1>2 DEF TypeOK, Snapshots, Seen
<1>3. ASSUME NEW q \in Procs, x = Seen(job[q].view)
      PROVE  x.generation \in Int /\ x.revision \in Int
  BY <1>3 DEF TypeOK, Jobs, Views, Seen
<1> QED
  BY <1>1, <1>2, <1>3 DEF Versioned

LEMMA HistoryStep ==
  ASSUME TypeOK, HistoryInv, NEW p \in Procs, Step(p), TypeOK'
  PROVE  HistoryInv'
<1> SUFFICES ASSUME NEW c \in Courses
             PROVE  /\ \A x \in Versioned(c)' : ~Newer(x, enrollment'[c])
                    /\ \A x, y \in Versioned(c)' :
                         (x.generation = y.generation /\ x.revision = y.revision)
                            => x.state = y.state
  BY DEF HistoryInv, SeenIsNotNewer, RevisionNamesState
<1> DEFINE now == enrollment[c]
           next == enrollment'[c]
<1>1. /\ now.generation \in Int /\ now.revision \in Int
      /\ next.generation \in Int /\ next.revision \in Int
  BY CurrentTypes DEF TypeOK, Enrollments
<1>2. Seen(next) = Seen(now) \/ Newer(next, now)
  BY CurrentMoves
<1>3. /\ Seen(next).generation = next.generation /\ Seen(next).revision = next.revision
      /\ Seen(next).state = next.state
      /\ Seen(now).generation = now.generation /\ Seen(now).revision = now.revision
      /\ Seen(now).state = now.state
  BY DEF Seen
<1>4. Seen(now) \in Versioned(c)
  BY DEF Versioned
<1>5. ASSUME NEW x \in Versioned(c)
      PROVE  /\ x.generation \in Int /\ x.revision \in Int
             /\ ~Newer(x, now)
  BY <1>5, SeenTypes DEF HistoryInv, SeenIsNotNewer
<1>6. ASSUME NEW x \in Versioned(c)
      PROVE  ~Newer(x, next)
  BY <1>1, <1>2, <1>3, <1>5 DEF Newer
<1>7. ASSUME NEW x \in Versioned(c), x.generation = next.generation, x.revision = next.revision
      PROVE  x.state = next.state
  <2>1. ~Newer(next, now)
    BY <1>1, <1>5, <1>7 DEF Newer
  <2>2. Seen(next) = Seen(now)
    BY <1>2, <2>1
  <2> QED
    BY <1>3, <1>4, <1>7, <2>2 DEF HistoryInv, RevisionNamesState
<1>8. \A x \in Versioned(c)' : x \in Versioned(c) \/ x = Seen(next)
  BY VersionedStep
<1>9. ASSUME NEW x \in Versioned(c)' PROVE ~Newer(x, next)
  <2>1. ~Newer(Seen(next), next)
    BY <1>1, <1>3 DEF Newer
  <2> QED
    BY <1>6, <1>8, <2>1
<1>10. ASSUME NEW x \in Versioned(c)', NEW y \in Versioned(c)',
              x.generation = y.generation, x.revision = y.revision
       PROVE  x.state = y.state
  <2>1. CASE x \in Versioned(c) /\ y \in Versioned(c)
    BY <1>10, <2>1 DEF HistoryInv, RevisionNamesState
  <2>2. CASE x = Seen(next) \/ y = Seen(next)
    BY <1>3, <1>7, <1>8, <1>10, <2>2
  <2> QED
    BY <1>8, <2>1, <2>2
<1> QED
  BY <1>9, <1>10

LEMMA HistoryInit == Init => HistoryInv
<1> SUFFICES ASSUME Init PROVE HistoryInv
  OBVIOUS
<1>1. \A c \in Courses : Versioned(c) = {Seen(NoEnrollment)} /\ enrollment[c] = NoEnrollment
  BY DEF Init, Versioned, Viewing
<1>2. Seen(NoEnrollment).generation = 0 /\ Seen(NoEnrollment).revision = 0
      /\ NoEnrollment.generation = 0 /\ NoEnrollment.revision = 0
  BY DEF Seen, NoEnrollment
<1> QED
  BY <1>1, <1>2 DEF HistoryInv, SeenIsNotNewer, RevisionNamesState, Newer

\* The enroll command leaves the state it takes for the new row's, and what is
\* seen of it.
LEMMA CommandHistory ==
  ASSUME TypeOK, HistoryInv, NEW k \in Courses, enrollUser(k)
  PROVE  HistoryInv'
<1>1. /\ UNCHANGED <<snapshots, pc, job>>
      /\ \A c \in Courses : /\ enrollment'[c].generation = enrollment[c].generation
                            /\ enrollment'[c].revision = enrollment[c].revision
                            /\ enrollment'[c].state = enrollment[c].state
  BY CommandRows
<1>2. \A c \in Courses : Versioned(c)' = Versioned(c)
  BY <1>1 DEF Versioned, Viewing, Seen
<1>3. \A c \in Courses : \A x : Newer(x, enrollment'[c]) <=> Newer(x, enrollment[c])
  BY <1>1 DEF Newer
<1> QED
  BY <1>2, <1>3 DEF HistoryInv, SeenIsNotNewer, RevisionNamesState

LEMMA HistoryUnchanged == HistoryInv /\ UNCHANGED vars => HistoryInv'
  BY DEF HistoryInv, SeenIsNotNewer, RevisionNamesState, Versioned, Viewing, vars

LEMMA HistoryInductive == LearningInv /\ HistoryInv /\ [Next]_vars => (LearningInv /\ HistoryInv)'
<1> SUFFICES ASSUME LearningInv, HistoryInv, [Next]_vars
      PROVE LearningInv' /\ HistoryInv'
  OBVIOUS
<1>1. LearningInv' /\ TypeOK /\ TypeOK'
  BY Inductive DEF LearningInv
<1> QED
  BY <1>1, HistoryStep, CommandHistory, HistoryUnchanged DEF Next

\* A (generation, revision) pair names one state of an enrollment's progress: the
\* optimistic check of writeProgress() compares what it is meant to compare.
THEOREM Revisions == Spec => []RevisionNamesState
<1>1. Init => LearningInv /\ HistoryInv
  BY InitHolds, HistoryInit
<1>2. LearningInv /\ HistoryInv /\ [Next]_vars => (LearningInv /\ HistoryInv)'
  BY HistoryInductive
<1>3. HistoryInv => RevisionNamesState
  BY DEF HistoryInv
<1> QED
  BY <1>1, <1>2, <1>3, PTL DEF Spec

LEMMA SeenStep ==
  ASSUME TypeOK, HistoryInv, NEW q \in Procs, Step(q), NEW p \in Procs,
         pc[p] \in {"complete", "clear", "restart", "snapshot"}, At(p, "ready")',
         <<enrollment, snapshots>>' # <<enrollment, snapshots>>
  PROVE  /\ enrollment[job[p].course].state = job[p].view.state
         /\ enrollment[job[p].course].generation = job[p].view.generation
         /\ course[job[p].course].version = job[p].view.version
<1> DEFINE c == job[p].course
<1>c. c \in Courses
  BY DEF TypeOK, Jobs
<1>1. q = p
  BY Moves DEF At
<1>2. CompleteLesson(p) \/ ClearLesson(p) \/ Restart(p) \/ CreateSnapshot(p)
  BY <1>1 DEF Step, Read, WriteProgress, RestartSteps, SnapshotSteps, Enroll, Publish,
     At,
        ReadRow, ReadVersion, BeginWrite, SetReadingPosition, RestartLockUser,
        RestartShareCourse, BeginSnapshot, EnrollLockUser, EnrollDeactivate,
        EnrollWrite,
        PublishLock, PublishFind, PublishWrite, Abort, rows
<1>3. /\ enrollment[c].generation = job[p].view.generation
      /\ enrollment[c].revision = job[p].view.revision
      /\ course[c].version = job[p].view.version
  BY <1>2 DEF CompleteLesson, ClearLesson, Restart, CreateSnapshot, Admitted,
     SameRevision,
        UpToDate, rows
<1>4. Seen(enrollment[c]) \in Versioned(c) /\ Seen(job[p].view) \in Versioned(c)
  BY DEF Versioned, Viewing
<1>5. /\ Seen(enrollment[c]).generation = Seen(job[p].view).generation
      /\ Seen(enrollment[c]).revision = Seen(job[p].view).revision
  BY <1>3 DEF Seen
<1>6. Seen(enrollment[c]).state = Seen(job[p].view).state
  BY <1>c, <1>4, <1>5 DEF HistoryInv, RevisionNamesState
<1> QED
  BY <1>3, <1>6 DEF Seen

\* Completing or clearing a lesson, restarting and taking a snapshot happen only
\* to the progress, generation and course version the author was looking at.
THEOREM ActsOnWhatWasSeen == Spec => WritesActOnWhatWasSeen
<1>1. Init => LearningInv /\ HistoryInv
  BY InitHolds, HistoryInit
<1>2. LearningInv /\ HistoryInv /\ [Next]_vars => (LearningInv /\ HistoryInv)'
  BY HistoryInductive
<1>3. LearningInv /\ HistoryInv /\ [Next]_vars =>
        [\A p \in Procs :
           LET c == job[p].course IN
           (/\ pc[p] \in {"complete", "clear", "restart", "snapshot"} /\ At(p, "ready")'
            /\ <<enrollment, snapshots>>' # <<enrollment, snapshots>>)
               => /\ enrollment[c].state = job[p].view.state
                  /\ enrollment[c].generation = job[p].view.generation
                  /\ course[c].version = job[p].view.version]_vars
  <2>1. ASSUME LearningInv, HistoryInv, NEW k \in Courses, enrollUser(k), NEW p \in Procs
        PROVE  ~(pc[p] \in {"complete", "clear", "restart", "snapshot"} /\ At(p, "ready")')
    BY <2>1 DEF enrollUser, At
  <2> QED
    BY <2>1, SeenStep DEF Next, LearningInv
<1> QED
  BY <1>1, <1>2, <1>3, PTL DEF Spec, WritesActOnWhatWasSeen

-----------------------------------------------------------------------------
(* What the snapshots and activities say of an enrollment *)

\* The part of a row that the records speak of.
RecordKept(c) ==
    /\ enrollment'[c].generation = enrollment[c].generation
    /\ enrollment'[c].state.finished = enrollment[c].state.finished
    /\ enrollment'[c].state.ever = enrollment[c].state.ever

LEMMA KeptStep ==
  ASSUME TypeOK, NEW p \in Procs, Step(p), ~CompleteLesson(p), ~Restart(p), NEW c \in Courses
  PROVE  RecordKept(c)
<1>c. enrollment[c] \in Enrollments /\ enrollment[c].state \in LearningStates
  BY CurrentTypes
<1>r. \A l : /\ [enrollment[c].state EXCEPT !.reading = l].finished = enrollment[c].state.finished
             /\ [enrollment[c].state EXCEPT !.reading = l].ever = enrollment[c].state.ever
  BY <1>c DEF LearningStates
<1>1. CASE ~SharesCourse(p, c) /\ ~(At(p, "publishWrite") /\ job[p].course = c)
  BY <1>1, Untouched DEF RecordKept
<1>2. CASE At(p, "publishWrite") /\ job[p].course = c
  <2>1. \/ UNCHANGED enrollment
        \/ \E l : enrollment'[c] = Repointed(enrollment[c], l)
    BY <1>2 DEF Step, Read, WriteProgress, RestartSteps, SnapshotSteps, Enroll,
       Publish, At,
          ReadRow, ReadVersion, BeginWrite, CompleteLesson, ClearLesson,
          SetReadingPosition,
          RestartLockUser, RestartShareCourse, Restart, BeginSnapshot, CreateSnapshot,
          EnrollLockUser, EnrollDeactivate, EnrollWrite, PublishLock, PublishFind,
          PublishWrite, Abort, rows, TypeOK
  <2>2. ASSUME NEW l, enrollment'[c] = Repointed(enrollment[c], l)
        PROVE  RecordKept(c)
    <3>1. /\ Repointed(enrollment[c], l).generation = enrollment[c].generation
          /\ Repointed(enrollment[c], l).state = [enrollment[c].state EXCEPT !.reading = l]
      BY <1>c, RepointedFields
    <3> QED
      BY <1>r, <2>2, <3>1 DEF RecordKept
  <2> QED
    BY <2>1, <2>2 DEF RecordKept
<1>3. CASE SharesCourse(p, c)
  <2>1. c = job[p].course
    BY <1>3 DEF SharesCourse
  <2>2. ClearLesson(p) \/ SetReadingPosition(p) \/ UNCHANGED enrollment
    BY <1>3 DEF SharesCourse, Step, Read, WriteProgress, RestartSteps, SnapshotSteps,
       Enroll,
          Publish, At, ReadRow, ReadVersion, BeginWrite, RestartLockUser,
          RestartShareCourse,
          BeginSnapshot, CreateSnapshot, EnrollLockUser, EnrollDeactivate, EnrollWrite,
          PublishLock, PublishFind, PublishWrite, Abort, rows
  <2>3. ASSUME NEW s, Revise(c, s)
        PROVE  /\ enrollment'[c].state = s
               /\ enrollment'[c].generation = enrollment[c].generation
    BY <1>c, <2>3 DEF Revise, TypeOK, Enrollments
  <2>4. CASE ClearLesson(p)
    <3>1. UNCHANGED enrollment \/ Revise(c, WithoutCompletion(enrollment[c].state, job[p].lesson))
      BY <2>1, <2>4 DEF ClearLesson
    <3>2. \A l : /\ WithoutCompletion(enrollment[c].state, l).finished
                      = enrollment[c].state.finished
                 /\ WithoutCompletion(enrollment[c].state, l).ever = enrollment[c].state.ever
      BY <1>c DEF WithoutCompletion, LearningStates
    <3> QED
      BY <2>3, <3>1, <3>2 DEF RecordKept
  <2>5. CASE SetReadingPosition(p)
    <3>1. \/ UNCHANGED enrollment
          \/ Revise(c, [enrollment[c].state EXCEPT !.reading = job[p].lesson])
      BY <2>1, <2>5 DEF SetReadingPosition
    <3> QED
      BY <1>r, <2>3, <3>1 DEF RecordKept
  <2> QED
    BY <2>2, <2>4, <2>5 DEF RecordKept
<1> QED
  BY <1>1, <1>2, <1>3

\* Apart from completions and restarts, only a manual snapshot is ever written.
LEMMA RowsStep ==
  ASSUME TypeOK, NEW p \in Procs, Step(p), ~CompleteLesson(p), ~Restart(p)
  PROVE  /\ activities' = activities
         /\ \A s \in snapshots : s \in snapshots'
         /\ \A s \in snapshots' : s \in snapshots \/ s.reason = "MANUAL"
<1>1. CreateSnapshot(p) \/ UNCHANGED <<snapshots, activities>>
  BY DEF Step, Read, WriteProgress, RestartSteps, SnapshotSteps, Enroll, Publish,
     ReadRow,
        ReadVersion, BeginWrite, ClearLesson, SetReadingPosition, RestartLockUser,
        RestartShareCourse, BeginSnapshot, EnrollLockUser, EnrollDeactivate,
        EnrollWrite,
        PublishLock, PublishFind, PublishWrite, Abort, rows
<1>2. CASE CreateSnapshot(p)
  <2>1. SnapshotOf(job[p].course, "MANUAL", job[p].request).reason = "MANUAL"
    BY DEF SnapshotOf
  <2> QED
    BY <1>2, <2>1 DEF CreateSnapshot
<1> QED
  BY <1>1, <1>2

LEMMA QuietRecords ==
  ASSUME TypeOK, RecordsInv, \A c \in Courses : RecordKept(c), activities' = activities,
         \A s \in snapshots : s \in snapshots',
         \A s \in snapshots' : s \in snapshots \/ s.reason = "MANUAL"
  PROVE  RecordsInv'
<1>1. \A a \in activities : a.course \in Courses
  BY DEF TypeOK, Activities
<1>2. OneActivityPerLesson' /\ ActivitiesAreFirsts'
  BY <1>1 DEF RecordsInv, OneActivityPerLesson, ActivitiesAreFirsts, RecordKept
<1>3. \A s : s.reason # "MANUAL" => (s \in snapshots' <=> s \in snapshots)
  OBVIOUS
<1>4. AchievementIsRecorded'
  BY <1>3 DEF RecordsInv, AchievementIsRecorded, RecordKept
<1>5. RestartsAreOnRecord'
  <2>1. \A c \in Courses : {s \in snapshots' : s.course = c /\ s.reason = "RESTART"}
                             = {s \in snapshots : s.course = c /\ s.reason = "RESTART"}
    BY <1>3
  <2> QED
    BY <2>1 DEF RecordsInv, RestartsAreOnRecord, RecordKept
<1> QED
  BY <1>2, <1>4, <1>5 DEF RecordsInv

\* A first completion adds an activity, the one that finishes the course a
\* COMPLETED snapshot; neither had one in this generation.
LEMMA CompleteRecords ==
  ASSUME TypeOK, HistoryInv, RecordsInv, NEW p \in Procs, CompleteLesson(p)
  PROVE  RecordsInv'
<1> DEFINE c == job[p].course
           e == enrollment[c]
           l == job[p].lesson
           lessons == Elements(course[c].lessons)
           next == WithCompletion(e.state, l, lessons)
           snapshot == [course |-> c, reason |-> "COMPLETED", key |-> e.generation,
                        generation |-> e.generation, revision |-> e.revision + 1,
                        state |-> next]
           activity == [course |-> c, generation |-> e.generation,
                        revision |-> e.revision + 1, lesson |-> l]
<1>c. c \in Courses
  BY DEF TypeOK, Jobs
<1>e. e \in Enrollments /\ e.state \in LearningStates /\ e.generation \in Int
  BY <1>c, CurrentTypes
<1>1. CASE UNCHANGED rows
  BY <1>1, QuietRecords DEF rows, RecordKept
<1>2. CASE ~ UNCHANGED rows
  <2>1. /\ Revise(c, next)
        /\ activities' = IF l \in e.state.ever THEN activities ELSE activities \cup {activity}
        /\ snapshots' = IF ~(next.finished /\ ~e.state.finished) THEN snapshots
                        ELSE snapshots \cup {snapshot}
    BY <1>2 DEF CompleteLesson, rows
  <2>2. /\ next.ever = e.state.ever \cup {l}
        /\ e.state.finished => next.finished
    BY <1>e DEF WithCompletion, LearningStates
  <2>3. /\ snapshot.course = c /\ snapshot.reason = "COMPLETED"
        /\ snapshot.generation = e.generation
    BY DEF next
  <2>4. activity.course = c /\ activity.generation = e.generation /\ activity.lesson = l
    OBVIOUS
  <2> HIDE DEF next, snapshot, activity
  <2>5. /\ enrollment'[c].generation = e.generation
        /\ enrollment'[c].state = next
        /\ \A d \in Courses \ {c} : enrollment'[d] = enrollment[d]
    BY <1>c, <1>e, <2>1 DEF Revise, TypeOK, Enrollments
  <2>6. \A d \in Courses : /\ enrollment'[d].generation = enrollment[d].generation
                           /\ enrollment[d].state.finished => enrollment'[d].state.finished
                           /\ enrollment[d].state.ever \subseteq enrollment'[d].state.ever
    BY <2>2, <2>5
  <2>7. AchievementIsRecorded'
    <3> SUFFICES ASSUME NEW d \in Courses
                 PROVE  enrollment'[d].state.finished <=>
                          \E s \in snapshots' : /\ s.course = d /\ s.reason = "COMPLETED"
                                                /\ s.generation = enrollment'[d].generation
      BY DEF AchievementIsRecorded
    <3>1. enrollment[d].state.finished <=>
            \E s \in snapshots : /\ s.course = d /\ s.reason = "COMPLETED"
                                 /\ s.generation = enrollment[d].generation
      BY DEF RecordsInv, AchievementIsRecorded
    <3>2. CASE d # c
      <4>1. enrollment'[d] = enrollment[d]
        BY <2>5, <3>2
      <4>2. \A s : s.course = d => (s \in snapshots' <=> s \in snapshots)
        BY <2>1, <2>3, <3>2
      <4> QED
        BY <3>1, <4>1, <4>2
    <3>3. CASE d = c /\ next.finished /\ ~e.state.finished
      <4>1. snapshot \in snapshots'
        BY <2>1, <3>3
      <4> QED
        BY <2>3, <2>5, <3>3, <4>1
    <3>4. CASE d = c /\ ~(next.finished /\ ~e.state.finished)
      <4>1. snapshots' = snapshots
        BY <2>1, <3>4
      <4>2. next.finished <=> e.state.finished
        BY <2>2, <3>4
      <4> QED
        BY <2>5, <3>1, <3>4, <4>1, <4>2
    <3> QED
      BY <3>2, <3>3, <3>4
  <2>8. RestartsAreOnRecord'
    <3>1. \A d \in Courses : {s \in snapshots' : s.course = d /\ s.reason = "RESTART"}
                               = {s \in snapshots : s.course = d /\ s.reason = "RESTART"}
      BY <2>1, <2>3
    <3> QED
      BY <2>6, <3>1 DEF RecordsInv, RestartsAreOnRecord
  <2>9. ActivitiesAreFirsts'
    <3> SUFFICES ASSUME NEW a \in activities'
                 PROVE  /\ a.generation <= enrollment'[a.course].generation
                        /\ a.generation = enrollment'[a.course].generation
                             => a.lesson \in enrollment'[a.course].state.ever
      BY DEF ActivitiesAreFirsts
    <3>1. CASE a \in activities
      BY <2>6, <3>1 DEF RecordsInv, ActivitiesAreFirsts, TypeOK, Activities
    <3>2. CASE a = activity
      BY <1>e, <2>2, <2>4, <2>5, <3>2
    <3> QED
      BY <2>1, <3>1, <3>2
  <2>10. OneActivityPerLesson'
    <3>1. CASE activities' = activities
      BY <3>1 DEF RecordsInv, OneActivityPerLesson
    <3>2. CASE l \notin e.state.ever
      <4>1. \A a \in activities :
              ~(a.course = activity.course /\ a.generation = activity.generation
                  /\ a.lesson = activity.lesson)
        BY <2>4, <3>2 DEF RecordsInv, ActivitiesAreFirsts
      <4>2. activities' = activities \cup {activity}
        BY <2>1, <3>2
      <4> QED
        BY <4>1, <4>2 DEF RecordsInv, OneActivityPerLesson
    <3> QED
      BY <2>1, <3>1, <3>2
  <2> QED
    BY <2>7, <2>8, <2>9, <2>10 DEF RecordsInv
<1> QED
  BY <1>1, <1>2

\* A restart leaves the generation it ends one RESTART snapshot, under a key of
\* its own; the generation it opens has no record yet.
LEMMA RestartRecords ==
  ASSUME TypeOK, HistoryInv, RecordsInv, NEW p \in Procs, Restart(p)
  PROVE  RecordsInv'
<1> DEFINE c == job[p].course
           e == enrollment[c]
           r == job[p].request
           snapshot == SnapshotOf(c, "RESTART", r)
<1>c. c \in Courses
  BY DEF TypeOK, Jobs
<1>e. e \in Enrollments /\ e.generation \in Int
  BY <1>c, CurrentTypes
<1>1. CASE UNCHANGED rows
  BY <1>1, QuietRecords DEF rows, RecordKept
<1>2. CASE ~ UNCHANGED rows
  <2>1. /\ snapshots' = snapshots \cup {snapshot}
        /\ activities' = activities
        /\ Unused(c, "RESTART", r)
        /\ enrollment' = [d \in Courses |->
              IF d = c THEN [Deactivated(enrollment[c]) EXCEPT !.revision = 0,
                               !.generation = @ + 1, !.state = EmptyState]
              ELSE Deactivated(enrollment[d])]
    BY <1>2 DEF Restart, rows
  <2>2. /\ snapshot.course = c /\ snapshot.reason = "RESTART" /\ snapshot.key = r
        /\ snapshot.generation = e.generation
    BY DEF SnapshotOf
  <2> HIDE DEF snapshot
  <2>3. /\ enrollment'[c].generation = e.generation + 1
        /\ enrollment'[c].state = EmptyState
    BY <1>c, <1>e, <2>1 DEF Enrollments, Deactivated
  <2>4. \A d \in Courses \ {c} : RecordKept(d)
    BY <2>1, CurrentTypes DEF RecordKept, Deactivated, Enrollments
  <2>5. AchievementIsRecorded'
    <3> SUFFICES ASSUME NEW d \in Courses
                 PROVE  enrollment'[d].state.finished <=>
                          \E s \in snapshots' : /\ s.course = d /\ s.reason = "COMPLETED"
                                                /\ s.generation = enrollment'[d].generation
      BY DEF AchievementIsRecorded
    <3>1. \A s : s.reason = "COMPLETED" => (s \in snapshots' <=> s \in snapshots)
      BY <2>1, <2>2
    <3>2. CASE d # c
      BY <2>4, <3>1, <3>2 DEF RecordKept, RecordsInv, AchievementIsRecorded
    <3>3. CASE d = c
      <4>1. ~enrollment'[c].state.finished
        BY <2>3 DEF EmptyState
      <4>2. ASSUME NEW s \in snapshots, s.course = c
            PROVE  s.generation # e.generation + 1
        <5>1. Seen(s) \in Versioned(c)
          BY <4>2 DEF Versioned
        <5>2. ~Newer(Seen(s), e)
          BY <1>c, <5>1 DEF HistoryInv, SeenIsNotNewer
        <5>3. Seen(s).generation = s.generation /\ s.generation \in Int
          BY DEF Seen, TypeOK, Snapshots
        <5> QED
          BY <1>e, <5>2, <5>3 DEF Newer
      <4> QED
        BY <2>3, <3>1, <3>3, <4>1, <4>2
    <3> QED
      BY <3>2, <3>3
  <2>6. OneActivityPerLesson'
    BY <2>1 DEF RecordsInv, OneActivityPerLesson
  <2>7. ActivitiesAreFirsts'
    <3> SUFFICES ASSUME NEW a \in activities
                 PROVE  /\ a.generation <= enrollment'[a.course].generation
                        /\ a.generation = enrollment'[a.course].generation
                             => a.lesson \in enrollment'[a.course].state.ever
      BY <2>1 DEF ActivitiesAreFirsts
    <3>1. a.course \in Courses /\ a.generation \in Int
      BY DEF TypeOK, Activities
    <3>2. /\ a.generation <= enrollment[a.course].generation
          /\ a.generation = enrollment[a.course].generation
               => a.lesson \in enrollment[a.course].state.ever
      BY DEF RecordsInv, ActivitiesAreFirsts
    <3>3. CASE a.course = c
      BY <1>e, <2>3, <3>1, <3>2, <3>3
    <3>4. CASE a.course # c
      BY <2>4, <3>1, <3>2, <3>4 DEF RecordKept
    <3> QED
      BY <3>3, <3>4
  <2>8. RestartsAreOnRecord'
    <3> SUFFICES ASSUME NEW d \in Courses
                 PROVE  LET restarts == {s \in snapshots' : s.course = d /\ s.reason = "RESTART"}
                        IN /\ \A g \in 0 .. MaxGeneration :
                                (\E s \in restarts : s.generation = g)
                                   <=> g < enrollment'[d].generation
                           /\ \A s, t \in restarts : s.key = t.key => s = t
      BY DEF RestartsAreOnRecord
    <3> DEFINE before == {s \in snapshots : s.course = d /\ s.reason = "RESTART"}
               after == {s \in snapshots' : s.course = d /\ s.reason = "RESTART"}
    <3>1. /\ \A g \in 0 .. MaxGeneration :
                (\E s \in before : s.generation = g) <=> g < enrollment[d].generation
          /\ \A s, t \in before : s.key = t.key => s = t
      BY DEF RecordsInv, RestartsAreOnRecord
    <3>2. CASE d # c
      <4>1. after = before
        BY <2>1, <2>2, <3>2
      <4> QED
        BY <2>4, <3>1, <3>2, <4>1 DEF RecordKept
    <3>3. CASE d = c
      <4>1. after = before \cup {snapshot}
        BY <2>1, <2>2, <3>3
      <4>2. \A s \in before : s.key # snapshot.key
        BY <2>1, <2>2, <3>3 DEF Unused
      <4> HIDE DEF before, after
      <4>3. \A s, t \in after : s.key = t.key => s = t
        BY <3>1, <4>1, <4>2
      <4>4. ASSUME NEW g \in 0 .. MaxGeneration
            PROVE  (\E s \in after : s.generation = g) <=> g < enrollment'[d].generation
        <5>1. (\E s \in after : s.generation = g)
                <=> g < enrollment[d].generation \/ g = e.generation
          BY <2>2, <3>1, <4>1
        <5> QED
          BY <1>e, <2>3, <3>3, <5>1
      <4> QED
        BY <4>3, <4>4 DEF after
    <3> QED
      BY <3>2, <3>3
  <2> QED
    BY <2>5, <2>6, <2>7, <2>8 DEF RecordsInv
<1> QED
  BY <1>1, <1>2

LEMMA RecordsStep ==
  ASSUME TypeOK, HistoryInv, RecordsInv, NEW p \in Procs, Step(p)
  PROVE  RecordsInv'
  BY CompleteRecords, RestartRecords, KeptStep, RowsStep, QuietRecords

LEMMA RecordsInit == Init => RecordsInv
<1> SUFFICES ASSUME Init PROVE RecordsInv
  OBVIOUS
<1>1. \A c \in Courses : enrollment[c].generation = 0 /\ ~enrollment[c].state.finished
  BY DEF Init, NoEnrollment, EmptyState
<1>2. snapshots = {} /\ activities = {}
  BY DEF Init
<1>3. \A g \in 0 .. MaxGeneration : ~(g < 0)
  BY LearningAssumption
<1> QED
  BY <1>1, <1>2, <1>3 DEF RecordsInv, AchievementIsRecorded, OneActivityPerLesson,
       RestartsAreOnRecord, ActivitiesAreFirsts

LEMMA RecordsInductive ==
  LearningInv /\ HistoryInv /\ RecordsInv /\ [Next]_vars
    => (LearningInv /\ HistoryInv /\ RecordsInv)'
<1> SUFFICES ASSUME LearningInv, HistoryInv, RecordsInv, [Next]_vars
             PROVE  LearningInv' /\ HistoryInv' /\ RecordsInv'
  OBVIOUS
<1>1. LearningInv' /\ HistoryInv'
  BY HistoryInductive
<1>t. TypeOK
  BY DEF LearningInv
<1>2. CASE UNCHANGED vars
  BY <1>1, <1>t, <1>2, QuietRecords DEF vars, RecordKept
<1>3. CASE \E k \in Courses : enrollUser(k)
  BY <1>1, <1>t, <1>3, CommandRows, QuietRecords DEF RecordKept
<1>4. CASE Next /\ ~ \E k \in Courses : enrollUser(k)
  <2>1. PICK p \in Procs : Step(p)
    BY <1>4 DEF Next
  <2> QED
    BY <1>1, <1>t, <2>1, RecordsStep
<1> QED
  BY <1>2, <1>3, <1>4

\* What a learner achieved and every restart is on record: the inductive
\* invariant behind the three theorems after it.
THEOREM Records == Spec => []RecordsInv
<1>1. Init => LearningInv /\ HistoryInv /\ RecordsInv
  BY InitHolds, HistoryInit, RecordsInit
<1> QED
  BY <1>1, RecordsInductive, PTL DEF Spec

\* A generation has its COMPLETED snapshot exactly when the course was finished
\* in it: completing, clearing and completing again neither loses nor adds one.
THEOREM Achievements == Spec => []AchievementIsRecorded
<1>1. RecordsInv => AchievementIsRecorded
  BY DEF RecordsInv
<1> QED
  BY Records, <1>1, PTL

\* A lesson is one activity per generation, however often it is completed.
THEOREM Activity == Spec => []OneActivityPerLesson
<1>1. RecordsInv => OneActivityPerLesson
  BY DEF RecordsInv
<1> QED
  BY Records, <1>1, PTL

\* Each past generation, and no other, has a RESTART snapshot; a request id ended
\* at most one of them, however often restart() was sent with it.
THEOREM Restarts == Spec => []RestartsAreOnRecord
<1>1. RecordsInv => RestartsAreOnRecord
  BY DEF RecordsInv
<1> QED
  BY Records, <1>1, PTL
=============================================================================
