----------------------------- MODULE DraftProofs -----------------------------
(***************************************************************************)
(* Theorems about Draft, for any number of requests, images and fields.    *)
(* First the versions as wholes: a command puts some modules and lessons   *)
(* in the one version it locked, and DraftInv holds whichever they are.    *)
(* Then the rows: with what DraftRowsProofs shows of each sequence of      *)
(* statements, no command collides or leaves a gap.                        *)
(***************************************************************************)
EXTENDS Draft, DraftRowsProofs, FiniteSetTheorems, TLAPS

-----------------------------------------------------------------------------
(* What a request does to its own record *)

LEMMA MovesTo ==
  ASSUME DraftShaped, NEW r \in Requests, NEW label, Moves(r, label)
  PROVE  /\ at' = [q \in Requests |-> at'[q]]
         /\ at'[r] = label /\ \A q \in Requests : q # r => at'[q] = at[q]
<1>1. at = [q \in Requests |-> at[q]] /\ at' = [at EXCEPT ![r] = label]
  BY DEF DraftShaped, Moves
<1>2. DOMAIN at = Requests
  BY <1>1
<1>3. at' = [q \in Requests |-> IF q = r THEN label ELSE at[q]]
  BY <1>1, <1>2
<1> QED
  BY <1>3

LEMMA DoingSet ==
  ASSUME DraftShaped, NEW r \in Requests, NEW d, IsRequest(d), doing' = [doing EXCEPT ![r] = d]
  PROVE  /\ doing' = [q \in Requests |-> doing'[q]]
         /\ doing'[r] = d /\ \A q \in Requests : q # r => doing'[q] = doing[q]
         /\ \A q \in Requests : IsRequest(doing'[q])
<1>1. doing = [q \in Requests |-> doing[q]] /\ \A q \in Requests : IsRequest(doing[q])
  BY DEF DraftShaped
<1>2. DOMAIN doing = Requests
  BY <1>1
<1>3. doing' = [q \in Requests |-> IF q = r THEN d ELSE doing[q]]
  BY <1>1, <1>2
<1> QED
  BY <1>1, <1>3

LEMMA IdleIsRequest == IsRequest(Idle)
  BY DEF IsRequest, Idle

LEMMA EndsIdle ==
  ASSUME DraftShaped, NEW r \in Requests, Ends(r)
  PROVE  /\ at' = [q \in Requests |-> at'[q]]
         /\ at'[r] = "idle" /\ \A q \in Requests : q # r => at'[q] = at[q]
         /\ doing' = [q \in Requests |-> doing'[q]]
         /\ \A q \in Requests : q # r => doing'[q] = doing[q]
         /\ \A q \in Requests : IsRequest(doing'[q])
<1>1. Moves(r, "idle") /\ doing' = [doing EXCEPT ![r] = Idle]
  BY DEF Ends, Moves
<1> QED
  BY <1>1, MovesTo, DoingSet, IdleIsRequest

\* The columns of a version after a command.
LEMMA ColumnSet ==
  ASSUME NEW x, IsVersionRow(x), NEW z
  PROVE  /\ LET y == [x EXCEPT !.modules = z]
            IN  IsVersionRow(y) /\ y.number = x.number /\ y.published = x.published
         /\ LET y == [x EXCEPT !.lessons = z]
            IN  IsVersionRow(y) /\ y.number = x.number /\ y.published = x.published
         /\ LET y == [x EXCEPT !.serial = z]
            IN  IsVersionRow(y) /\ y.number = x.number /\ y.published = x.published
         /\ LET y == [x EXCEPT !.meta = z]
            IN  IsVersionRow(y) /\ y.number = x.number /\ y.published = x.published
         /\ LET y == [x EXCEPT !.welcome = z]
            IN  IsVersionRow(y) /\ y.number = x.number /\ y.published = x.published
  BY DEF IsVersionRow

-----------------------------------------------------------------------------
(* What a step does to the versions *)

\* A command has put some row in place of the version's, a version as before
\* but for its modules, lessons, metadata, welcome image and serial.
EditsOnly(o, v) ==
    \E x : /\ o.versions = [versions EXCEPT ![v] = x]
           /\ IsVersionRow(x)
           /\ x.number = versions[v].number /\ x.published = versions[v].published

LEMMA OutcomeEdits ==
  ASSUME NEW v, NEW x, NEW ok, IsVersionRow(x),
         x.number = versions[v].number, x.published = versions[v].published
  PROVE  EditsOnly(Outcome(v, x, ok), v)
  BY DEF EditsOnly, Outcome

LEMMA BecomesEdits ==
  ASSUME NEW v, NEW t, IsVersionRow(versions[v])
  PROVE  EditsOnly(Becomes(v, t), v) /\ EditsOnly(Gains(v, t), v)
<1> DEFINE x == versions[v]
           a == [x EXCEPT !.modules = t.modules]
           b == [a EXCEPT !.lessons = t.lessons]
           c == [b EXCEPT !.serial = x.serial + 1]
<1>1. IsVersionRow(a) /\ a.number = x.number /\ a.published = x.published
  BY ColumnSet
<1>2. IsVersionRow(b) /\ b.number = x.number /\ b.published = x.published
  <2> HIDE DEF a
  <2> QED
    BY <1>1, ColumnSet
<1>3. IsVersionRow(c) /\ c.number = x.number /\ c.published = x.published
  <2> HIDE DEF a, b
  <2> QED
    BY <1>2, ColumnSet
<1>4. Becomes(v, t) = Outcome(v, b, t.ok) /\ Gains(v, t) = Outcome(v, c, t.ok)
  BY DEF Becomes, Gains
<1> HIDE DEF b, c
<1> QED
  BY <1>2, <1>3, <1>4, OutcomeEdits

LEMMA LessonEdits ==
  ASSUME NEW v, NEW l, NEW new, IsVersionRow(versions[v])
  PROVE  EditsOnly(LessonBecomes(v, l, new), v)
<1> DEFINE x == versions[v]
           ls == (x.lessons \ {l}) \cup {new}
           y == [x EXCEPT !.lessons = ls]
<1>1. IsVersionRow(y) /\ y.number = x.number /\ y.published = x.published
  BY ColumnSet
<1>2. LessonBecomes(v, l, new) = Outcome(v, y, TRUE)
  BY DEF LessonBecomes
<1> HIDE DEF y
<1> QED
  BY <1>1, <1>2, OutcomeEdits

\* Whatever rows the command names, it writes to the version it locked.
LEMMA CommandEditsItsDraft ==
  ASSUME NEW v, IsVersionRow(versions[v]), NEW c, c.op \in CommandNames, NEW o \in Outcomes(v, c)
  PROVE  EditsOnly(o, v)
<1>0. Scope(v) = {v}
  BY DEF Scope
<1>1. CASE c.op = "createModule"
  <2>1. o \in CreateModule(v)
    BY <1>1 DEF Outcomes
  <2> QED
    BY <2>1, BecomesEdits DEF CreateModule
<1>2. CASE c.op = "updateModule"
  <2>1. o \in UpdateModuleFields(v, c.module)
    BY <1>2 DEF Outcomes
  <2>2. PICK wm \in ModuleRow(v, c.module) :
          o = Outcome(wm[1],
                [versions[wm[1]] EXCEPT
                    !.modules = (@ \ {wm[2]}) \cup {[wm[2] EXCEPT !.title = "b"]}],
                TRUE)
    BY <2>1 DEF UpdateModuleFields
  <2>3. wm[1] = v
    BY <1>0, <2>2 DEF ModuleRow
  <2> DEFINE x == versions[v]
             ms == (x.modules \ {wm[2]}) \cup {[wm[2] EXCEPT !.title = "b"]}
             y == [x EXCEPT !.modules = ms]
  <2>4. IsVersionRow(y) /\ y.number = x.number /\ y.published = x.published
    BY ColumnSet
  <2>5. o = Outcome(v, y, TRUE)
    BY <2>2, <2>3
  <2> HIDE DEF y
  <2> QED
    BY <2>4, <2>5, OutcomeEdits
<1>3. CASE c.op = "deleteModule"
  <2>1. o \in DeleteModule(v, c.module)
    BY <1>3 DEF Outcomes
  <2>2. PICK wm \in ModuleRow(v, c.module) :
          o = Becomes(wm[1], deleteModule(Transaction(versions[wm[1]]), wm[2]))
    BY <2>1 DEF DeleteModule
  <2>3. wm[1] = v
    BY <1>0, <2>2 DEF ModuleRow
  <2> QED
    BY <2>2, <2>3, BecomesEdits
<1>4. CASE c.op = "createLesson"
  <2>1. o \in CreateLesson(v, c.module, c.contentId, c.body)
    BY <1>4 DEF Outcomes
  <2>2. PICK wm \in ModuleRow(v, c.module) :
          o = Gains(wm[1], createLesson(Transaction(versions[wm[1]]), NewId(wm[1]), c.module,
                                        c.contentId, c.body))
    BY <2>1 DEF CreateLesson
  <2>3. wm[1] = v
    BY <1>0, <2>2 DEF ModuleRow
  <2> QED
    BY <2>2, <2>3, BecomesEdits
<1>5. CASE c.op = "updateLesson"
  <2>1. o \in UpdateLessonFields(v, c.contentId, c.body)
    BY <1>5 DEF Outcomes
  <2> QED
    BY <2>1, LessonEdits DEF UpdateLessonFields
<1>6. CASE c.op = "deleteLesson"
  <2>1. o \in DeleteLesson(v, c.contentId)
    BY <1>6 DEF Outcomes
  <2> QED
    BY <2>1, BecomesEdits DEF DeleteLesson
<1>7. CASE c.op = "reorder"
  <2>1. o \in Reorder(v, c.order)
    BY <1>7 DEF Outcomes
  <2> QED
    BY <2>1, BecomesEdits DEF Reorder
<1>8. CASE c.op = "createAssessment"
  <2>1. o \in CreateAssessment(v, c.contentId)
    BY <1>8 DEF Outcomes
  <2> QED
    BY <2>1, LessonEdits DEF CreateAssessment
<1>9. CASE c.op = "updateAssessment"
  <2>1. o \in UpdateAssessment(v, c.lesson)
    BY <1>9 DEF Outcomes
  <2>2. PICK wl \in UNION {{w} \X versions[w].lessons : w \in Scope(v)} :
          o = LessonBecomes(wl[1], wl[2], [wl[2] EXCEPT !.assessments = 2])
    BY <2>1 DEF UpdateAssessment
  <2>3. wl[1] = v
    BY <1>0, <2>2
  <2> QED
    BY <2>2, <2>3, LessonEdits
<1>10. CASE c.op = "updateCourse"
  <2>1. o \in UpdateCourse(v, c.field)
    BY <1>10 DEF Outcomes
  <2> DEFINE x == versions[v]
             fs == x.meta \cup {c.field}
             y == [x EXCEPT !.meta = fs]
  <2>2. IsVersionRow(y) /\ y.number = x.number /\ y.published = x.published
    BY ColumnSet
  <2>3. o = Outcome(v, y, TRUE)
    BY <2>1 DEF UpdateCourse
  <2> HIDE DEF y
  <2> QED
    BY <2>2, <2>3, OutcomeEdits
<1>11. CASE c.op = "updateWelcome"
  <2>1. o \in UpdateWelcome(v, c.image)
    BY <1>11 DEF Outcomes
  <2> DEFINE x == versions[v]
             y == [x EXCEPT !.welcome = c.image]
  <2>2. IsVersionRow(y) /\ y.number = x.number /\ y.published = x.published
    BY ColumnSet
  <2>3. o = Outcome(v, y, TRUE)
    BY <2>1 DEF UpdateWelcome
  <2> HIDE DEF y
  <2> QED
    BY <2>2, <2>3, OutcomeEdits
<1> QED
  BY <1>1, <1>2, <1>3, <1>4, <1>5, <1>6, <1>7, <1>8, <1>9, <1>10, <1>11 DEF CommandNames

\* The four ways in which the versions change: an edit of the draft, a new
\* draft, a discarded one, and a publication.
DraftEdited ==
    \E d \in Drafts : \E x :
        /\ versions' = [versions EXCEPT ![d] = x]
        /\ IsVersionRow(x) /\ x.number = versions[d].number /\ x.published = FALSE
        /\ UNCHANGED <<course, assets, blobs, made>>
DraftMade ==
    \E s \in Published :
        /\ VersionFits(DraftNumber(s))
        /\ made' = made + 1
        /\ versions' = [v \in DOMAIN versions \cup {made'} |->
                          IF v = made' THEN CopyOf(s, v) ELSE versions[v]]
        /\ UNCHANGED <<course, assets, blobs>>
DraftDiscarded ==
    \E d \in Drafts :
        /\ versions' = [w \in DOMAIN versions \ {d} |-> versions[w]]
        /\ UNCHANGED <<course, assets, blobs, made>>
DraftPublished(r) ==
    LET d == doing[r].version IN
    /\ at[r] = "publish" /\ d \in Drafts /\ ~LockedIssues(r)
    /\ versions' = [versions EXCEPT ![d].published = TRUE]
    /\ course' = PublishedCourse(d)
    /\ UNCHANGED <<assets, blobs, made>>
VersionsStay == UNCHANGED <<versions, made>> /\ course'.published = course.published
                /\ course'.lessonCount = course.lessonCount

LEMMA CommitEdits ==
  ASSUME DraftShaped, ReadsStand, NEW r \in Requests, Commit(r)
  PROVE  DraftEdited \/ UNCHANGED Rows
<1> DEFINE v == doing[r].version
           c == doing[r].command
<1>1. CASE ~lockUnpublishedVersion(v) \/ Outcomes(v, c) = {}
  BY <1>1 DEF Commit
<1>2. CASE lockUnpublishedVersion(v) /\ Outcomes(v, c) # {}
  <2>1. PICK o \in Outcomes(v, c) :
          IF o.ok THEN versions' = o.versions /\ UNCHANGED <<course, assets, blobs, made>>
                  ELSE UNCHANGED Rows
    BY <1>2 DEF Commit
  <2>2. v \in Drafts /\ v \in DOMAIN versions /\ versions[v].published = FALSE
    BY <1>2 DEF lockUnpublishedVersion, Drafts, Published, DraftShaped
  <2>3. c.op \in CommandNames
    BY DEF Commit, ReadsStand, ReadStands, Stands
  <2>4. EditsOnly(o, v)
    BY <2>2, <2>3, CommandEditsItsDraft DEF DraftShaped
  <2> HIDE DEF v, c
  <2> QED
    BY <2>1, <2>2, <2>4 DEF EditsOnly, DraftEdited
<1> QED
  BY <1>1, <1>2

LEMMA PublishStep ==
  ASSUME DraftShaped, NEW r \in Requests, Publish(r)
  PROVE  DraftPublished(r) \/ UNCHANGED Rows
  BY DEF Publish, DraftPublished, lockUnpublishedVersion, Stands, Rows

LEMMA CopyStep ==
  ASSUME ReadsStand, NEW r \in Requests, CopyVersion(r)
  PROVE  DraftMade \/ UNCHANGED Rows
<1>1. doing[r].version \in Published
  BY DEF ReadsStand, ReadStands, CopyVersion, Stands
<1> QED
  BY <1>1 DEF CopyVersion, DraftMade, Rows

LEMMA DiscardStep ==
  ASSUME NEW r \in Requests, discardDraft(r)
  PROVE  DraftDiscarded \/ UNCHANGED Rows
  BY DEF discardDraft, DraftDiscarded, lockUnpublishedVersion, Rows

LEMMA CoverStep ==
  ASSUME DraftShaped, NEW r \in Requests, setCourseCover(r)
  PROVE  /\ VersionsStay /\ UNCHANGED <<assets, blobs>>
         /\ IsCourseRow(course') /\ course'.cover = doing[r].cover
  BY DEF setCourseCover, DraftShaped, IsCourseRow, VersionsStay

\* Every step is one of these.
LEMMA StepCases ==
  ASSUME DraftShaped, ReadsStand, [DraftNext]_draftVars
  PROVE  \/ DraftEdited \/ DraftMade \/ DraftDiscarded
         \/ \E r \in Requests : DraftPublished(r)
         \/ VersionsStay
<1>1. UNCHANGED Rows => VersionsStay
  BY DEF Rows, VersionsStay
<1>2. CASE UNCHANGED draftVars
  BY <1>2 DEF draftVars, VersionsStay
<1>3. ASSUME NEW r \in Requests, Send(r) \/ Call(r) PROVE VersionsStay
  BY <1>1, <1>3 DEF Send, Call, Rows
<1>4. ASSUME NEW r \in Requests, Proceeds(r)
      PROVE  \/ DraftEdited \/ DraftMade \/ DraftDiscarded \/ DraftPublished(r)
             \/ VersionsStay
  <2>1. CASE Commit(r) \/ CopyVersion(r) \/ discardDraft(r) \/ Publish(r) \/ setCourseCover(r)
    BY <1>1, <2>1, CommitEdits, CopyStep, DiscardStep, PublishStep, CoverStep
  <2>2. CASE PutBlob(r) \/ CreateAsset(r) \/ CreateAssetFails(r)
    BY <2>2 DEF PutBlob, CreateAsset, CreateAssetFails, VersionsStay
  <2>3. CASE \/ requireDraftRef(r) \/ ReadAssets(r) \/ FindExisting(r) \/ FindSource(r)
             \/ FindWinner(r) \/ DiscardAllowed(r) \/ DiscardRef(r)
             \/ FindLatest(r) \/ ReadDraft(r)
             \/ requirePublishedCourseWithLatestVersion(r) \/ getLesson(r)
    <3>1. UNCHANGED Rows
      BY <2>3 DEF requireDraftRef, ReadAssets, FindExisting, FindSource, FindWinner,
          DiscardAllowed, DiscardRef, FindLatest, ReadDraft,
          requirePublishedCourseWithLatestVersion, getLesson
    <3> QED
      BY <1>1, <3>1
  <2> QED
    BY <1>4, <2>1, <2>2, <2>3 DEF Proceeds
<1> QED
  BY <1>2, <1>3, <1>4 DEF DraftNext

-----------------------------------------------------------------------------
(* The rows after such a step *)

LEMMA CopyIsARow ==
  ASSUME NEW s, NEW v
  PROVE  /\ IsVersionRow(CopyOf(s, v)) /\ CopyOf(s, v).number = DraftNumber(s)
         /\ CopyOf(s, v).published = FALSE
<1> DEFINE ms == {[m EXCEPT !.id = <<v, @[2]>>] : m \in versions[s].modules}
           ls == {[l EXCEPT !.id = <<v, @[2]>>, !.module = <<v, @[2]>>] :
                     l \in versions[s].lessons}
           a == NewVersion(DraftNumber(s))
           b == [a EXCEPT !.welcome = versions[s].welcome]
           c == [b EXCEPT !.serial = versions[s].serial]
           d == [c EXCEPT !.modules = ms]
           e == [d EXCEPT !.lessons = ls]
<1>1. IsVersionRow(a) /\ a.number = DraftNumber(s) /\ a.published = FALSE
  BY DEF NewVersion, IsVersionRow
<1>2. IsVersionRow(b) /\ b.number = a.number /\ b.published = a.published
  <2> HIDE DEF a
  <2> QED
    BY <1>1, ColumnSet
<1>3. IsVersionRow(c) /\ c.number = b.number /\ c.published = b.published
  <2> HIDE DEF b
  <2> QED
    BY <1>2, ColumnSet
<1>4. IsVersionRow(d) /\ d.number = c.number /\ d.published = c.published
  <2> HIDE DEF c, ms
  <2> QED
    BY <1>3, ColumnSet
<1>5. IsVersionRow(e) /\ e.number = d.number /\ e.published = d.published
  <2> HIDE DEF d, ls
  <2> QED
    BY <1>4, ColumnSet
<1>6. CopyOf(s, v) = e
  BY DEF CopyOf
<1> HIDE DEF a, b, c, d, e
<1> QED
  BY <1>1, <1>2, <1>3, <1>4, <1>5, <1>6

LEMMA PublishedColumn ==
  ASSUME NEW x, IsVersionRow(x), NEW z
  PROVE  LET y == [x EXCEPT !.published = z] IN
         /\ IsVersionRow(y) /\ y.number = x.number /\ y.lessons = x.lessons
         /\ y.modules = x.modules /\ y.welcome = x.welcome /\ y.published = z
  BY DEF IsVersionRow

LEMMA EditedRows ==
  ASSUME DraftShaped, DraftEdited
  PROVE  \E d \in Drafts :
            /\ DOMAIN versions' = DOMAIN versions
            /\ versions' = [w \in DOMAIN versions |-> versions'[w]]
            /\ \A w \in DOMAIN versions \ {d} : versions'[w] = versions[w]
            /\ IsVersionRow(versions'[d]) /\ versions'[d].number = versions[d].number
            /\ versions'[d].published = FALSE
            /\ Published' = Published /\ Drafts' = Drafts
<1>e. PICK d \in Drafts : \E x :
        /\ versions' = [versions EXCEPT ![d] = x]
        /\ IsVersionRow(x) /\ x.number = versions[d].number /\ x.published = FALSE
  BY DEF DraftEdited
<1>1. PICK x :
        /\ versions' = [versions EXCEPT ![d] = x]
        /\ IsVersionRow(x) /\ x.number = versions[d].number /\ x.published = FALSE
  BY <1>e
<1>2. versions = [w \in DOMAIN versions |-> versions[w]]
  BY DEF DraftShaped
<1>3. d \in DOMAIN versions /\ ~versions[d].published
  BY DEF Drafts, Published
<1>4. /\ DOMAIN versions' = DOMAIN versions
      /\ versions' = [w \in DOMAIN versions |-> IF w = d THEN x ELSE versions[w]]
  BY <1>1, <1>2
<1>5. /\ versions'[d] = x
      /\ \A w \in DOMAIN versions \ {d} : versions'[w] = versions[w]
      /\ versions' = [w \in DOMAIN versions |-> versions'[w]]
  BY <1>3, <1>4
<1>6. Published' = Published
  BY <1>1, <1>3, <1>4, <1>5 DEF Published
<1>7. Drafts' = Drafts
  BY <1>4, <1>6 DEF Drafts
<1> QED
  BY <1>1, <1>4, <1>5, <1>6, <1>7

LEMMA MadeRows ==
  ASSUME DraftShaped, DraftMade
  PROVE  \E s \in Published :
            LET n == made + 1 IN
            /\ VersionFits(DraftNumber(s)) /\ n \notin DOMAIN versions
            /\ DOMAIN versions' = DOMAIN versions \cup {n}
            /\ versions' = [w \in DOMAIN versions' |-> versions'[w]]
            /\ \A w \in DOMAIN versions : versions'[w] = versions[w]
            /\ versions'[n] = CopyOf(s, n)
            /\ Published' = Published /\ Drafts = {} /\ Drafts' = {n}
<1>1. PICK s \in Published :
        /\ VersionFits(DraftNumber(s))
        /\ versions' = [v \in DOMAIN versions \cup {made + 1} |->
                          IF v = made + 1 THEN CopyOf(s, v) ELSE versions[v]]
  BY DEF DraftMade
<1> DEFINE n == made + 1
           copy == CopyOf(s, n)
<1>2. n \notin DOMAIN versions
  BY DEF DraftShaped
<1>3. versions' = [w \in DOMAIN versions \cup {n} |-> IF w = n THEN copy ELSE versions[w]]
  BY <1>1
<1>4. copy.published = FALSE
  BY CopyIsARow
<1> HIDE DEF n, copy
<1>5. /\ DOMAIN versions' = DOMAIN versions \cup {n}
      /\ versions' = [w \in DOMAIN versions' |-> versions'[w]]
      /\ \A w \in DOMAIN versions : versions'[w] = versions[w]
      /\ versions'[n] = copy
  BY <1>2, <1>3
<1>6. Published' = Published
  BY <1>2, <1>4, <1>5 DEF Published
<1>7. Drafts = {}
  BY <1>1 DEF VersionFits
<1>8. Drafts' = {n}
  BY <1>2, <1>5, <1>6, <1>7 DEF Drafts, Published
<1> QED
  BY <1>1, <1>2, <1>5, <1>6, <1>7, <1>8 DEF n, copy

LEMMA DiscardedRows ==
  ASSUME DraftShaped, DraftDiscarded
  PROVE  \E d \in Drafts :
            /\ DOMAIN versions' = DOMAIN versions \ {d}
            /\ versions' = [w \in DOMAIN versions' |-> versions'[w]]
            /\ \A w \in DOMAIN versions' : versions'[w] = versions[w]
            /\ Published' = Published /\ Drafts' = Drafts \ {d}
<1>1. PICK d \in Drafts : versions' = [w \in DOMAIN versions \ {d} |-> versions[w]]
  BY DEF DraftDiscarded
<1>2. /\ DOMAIN versions' = DOMAIN versions \ {d}
      /\ versions' = [w \in DOMAIN versions' |-> versions'[w]]
      /\ \A w \in DOMAIN versions' : versions'[w] = versions[w]
  BY <1>1
<1>3. d \notin Published
  BY DEF Drafts
<1>4. Published' = Published
  BY <1>2, <1>3 DEF Published
<1>5. Drafts' = Drafts \ {d}
  BY <1>2, <1>4 DEF Drafts
<1> QED
  BY <1>2, <1>4, <1>5

LEMMA PublishedRows ==
  ASSUME DraftShaped, NEW r \in Requests, DraftPublished(r)
  PROVE  LET d == doing[r].version IN
         /\ d \in Drafts /\ DOMAIN versions' = DOMAIN versions
         /\ versions' = [w \in DOMAIN versions |-> versions'[w]]
         /\ \A w \in DOMAIN versions \ {d} : versions'[w] = versions[w]
         /\ versions'[d] = [versions[d] EXCEPT !.published = TRUE]
         /\ IsVersionRow(versions'[d]) /\ versions'[d].number = versions[d].number
         /\ versions'[d].lessons = versions[d].lessons
         /\ versions'[d].modules = versions[d].modules
         /\ versions'[d].welcome = versions[d].welcome
         /\ versions'[d].published = TRUE
         /\ Published' = Published \cup {d} /\ Drafts' = Drafts \ {d}
<1> DEFINE d == doing[r].version
           x == [versions[d] EXCEPT !.published = TRUE]
<1>1. d \in Drafts /\ d \in DOMAIN versions /\ versions' = [versions EXCEPT ![d] = x]
  BY DEF DraftPublished, Drafts
<1>2. versions = [w \in DOMAIN versions |-> versions[w]] /\ IsVersionRow(versions[d])
  BY <1>1 DEF DraftShaped
<1>3. /\ IsVersionRow(x) /\ x.number = versions[d].number /\ x.lessons = versions[d].lessons
      /\ x.modules = versions[d].modules /\ x.welcome = versions[d].welcome
      /\ x.published = TRUE
  BY <1>2, PublishedColumn
<1> HIDE DEF d, x
<1>4. /\ DOMAIN versions' = DOMAIN versions
      /\ versions' = [w \in DOMAIN versions |-> versions'[w]]
      /\ \A w \in DOMAIN versions \ {d} : versions'[w] = versions[w]
      /\ versions'[d] = x
  BY <1>1, <1>2
<1>5. Published' = Published \cup {d}
  BY <1>1, <1>3, <1>4 DEF Published
<1>6. Drafts' = Drafts \ {d}
  BY <1>4, <1>5 DEF Drafts
<1> QED
  BY <1>1, <1>3, <1>4, <1>5, <1>6 DEF d, x

-----------------------------------------------------------------------------
(* The numbers of the versions *)

Same(v) == v \in DOMAIN versions' /\ versions'[v].number = versions[v].number

LEMMA HighestIsOne ==
  ASSUME NEW S, NEW v \in S, \A w \in S : versions[w].number <= versions[v].number
  PROVE  /\ Highest(S) \in S
         /\ \A w \in S : versions[w].number <= versions[Highest(S)].number
  BY DEF Highest

\* The newest publication, when there is one.
LEMMA NewestPublished ==
  ASSUME DraftShaped, NumbersInOrder, Published # {}
  PROVE  /\ Highest(Published) \in Published
         /\ \A w \in Published : versions[w].number <= versions[Highest(Published)].number
<1>1. PICK v \in Published : \A w \in Published : versions[w].number <= versions[v].number
  BY DEF NumbersInOrder
<1> QED
  BY <1>1, HighestIsOne

\* A copy that fits was made of the newest publication.
LEMMA FittingSourceIsNewest ==
  ASSUME DraftShaped, NumbersInOrder, NEW s \in Published, VersionFits(DraftNumber(s))
  PROVE  /\ s = Highest(Published)
         /\ \A w \in Published : versions[w].number <= versions[s].number
<1>1. \A v \in Published : v \in DOMAIN versions /\ versions[v].number \in Nat
  BY DEF Published, DraftShaped
<1>2. \A w \in Published : versions[w].number <= versions[s].number
  <2> SUFFICES ASSUME NEW w \in Published, versions[s].number < versions[w].number
               PROVE  FALSE
    BY <1>1
  <2>1. PICK u \in Published : versions[u].number = versions[s].number + 1
    BY DEF NumbersInOrder
  <2> QED
    BY <1>1, <2>1 DEF VersionFits, DraftNumber
<1>3. /\ Highest(Published) \in Published
      /\ \A w \in Published : versions[w].number <= versions[Highest(Published)].number
  BY NewestPublished
<1>4. versions[Highest(Published)].number = versions[s].number
  BY <1>1, <1>2, <1>3
<1> QED
  BY <1>2, <1>3, <1>4 DEF NumbersInOrder

LEMMA SameNumbersStay ==
  ASSUME DraftShaped, NumbersInOrder, \A v \in Published \cup Drafts' : Same(v),
         Published' = Published, Drafts' \subseteq Drafts
  PROVE  NumbersInOrder'
<1>1. \A v \in Published \cup Drafts' : versions'[v].number = versions[v].number
  BY DEF Same
<1>2. \A d, e \in Drafts' : d = e
  BY DEF NumbersInOrder
<1>3. \A d \in Drafts', v \in Published' : versions'[v].number < versions'[d].number
  BY <1>1 DEF NumbersInOrder
<1>4. \A v, w \in Published' : versions'[v].number = versions'[w].number => v = w
  BY <1>1 DEF NumbersInOrder
<1>5. \A v, w \in Published' : versions'[v].number < versions'[w].number =>
        \E u \in Published' : versions'[u].number = versions'[v].number + 1
  BY <1>1 DEF NumbersInOrder
<1>6. Published' # {} =>
        \E v \in Published' :
            /\ \A w \in Published' : versions'[w].number <= versions'[v].number
            /\ \A d \in Drafts' : versions'[d].number = versions'[v].number + 1
  BY <1>1 DEF NumbersInOrder
<1> QED
  BY <1>2, <1>3, <1>4, <1>5, <1>6 DEF NumbersInOrder

LEMMA MadeInOrder ==
  ASSUME DraftShaped, NumbersInOrder, DraftMade
  PROVE  NumbersInOrder'
<1> DEFINE n == made + 1
<1>1. PICK s \in Published :
        /\ VersionFits(DraftNumber(s)) /\ n \notin DOMAIN versions
        /\ \A w \in DOMAIN versions : versions'[w] = versions[w]
        /\ versions'[n] = CopyOf(s, n)
        /\ Published' = Published /\ Drafts' = {n}
  BY MadeRows
<1> HIDE DEF n
<1>2. versions'[n].number = versions[s].number + 1
  BY <1>1, CopyIsARow DEF DraftNumber
<1>3. \A v \in Published : /\ versions'[v].number = versions[v].number
                           /\ versions[v].number \in Nat
                           /\ versions[v].number <= versions[s].number
  BY <1>1, FittingSourceIsNewest DEF Published, DraftShaped
<1>4. \A d, e \in Drafts' : d = e
  BY <1>1
<1>5. \A d \in Drafts', v \in Published' : versions'[v].number < versions'[d].number
  BY <1>1, <1>2, <1>3
<1>6. \A v, w \in Published' : versions'[v].number = versions'[w].number => v = w
  BY <1>1, <1>3 DEF NumbersInOrder
<1>7. \A v, w \in Published' : versions'[v].number < versions'[w].number =>
        \E u \in Published' : versions'[u].number = versions'[v].number + 1
  BY <1>1, <1>3 DEF NumbersInOrder
<1>8. /\ \A w \in Published' : versions'[w].number <= versions'[s].number
      /\ \A d \in Drafts' : versions'[d].number = versions'[s].number + 1
  BY <1>1, <1>2, <1>3
<1> QED
  BY <1>1, <1>4, <1>5, <1>6, <1>7, <1>8 DEF NumbersInOrder

LEMMA PublishedInOrder ==
  ASSUME DraftShaped, NumbersInOrder, NEW r \in Requests, DraftPublished(r)
  PROVE  /\ NumbersInOrder'
         /\ \A w \in Published' :
               versions'[w].number <= versions'[doing[r].version].number
<1> DEFINE d == doing[r].version
<1>1. /\ d \in Drafts /\ DOMAIN versions' = DOMAIN versions
      /\ \A w \in DOMAIN versions \ {d} : versions'[w] = versions[w]
      /\ versions'[d].number = versions[d].number
      /\ Published' = Published \cup {d} /\ Drafts' = Drafts \ {d}
  BY PublishedRows
<1> HIDE DEF d
<1>2. \A v \in Published' : /\ versions'[v].number = versions[v].number
                            /\ versions[v].number \in Nat
  BY <1>1 DEF Published, Drafts, DraftShaped
<1>3. \A v \in Published : versions[v].number < versions[d].number
  BY <1>1 DEF NumbersInOrder
<1>4. Drafts' = {}
  BY <1>1 DEF NumbersInOrder
<1>5. \A v, w \in Published' : versions'[v].number = versions'[w].number => v = w
  BY <1>1, <1>2, <1>3 DEF NumbersInOrder
<1>6. ASSUME NEW v \in Published', NEW w \in Published',
             versions'[v].number < versions'[w].number
      PROVE  \E u \in Published' : versions'[u].number = versions'[v].number + 1
  <2>1. v \in Published
    BY <1>1, <1>2, <1>3, <1>6
  <2>2. PICK m \in Published :
          /\ \A x \in Published : versions[x].number <= versions[m].number
          /\ versions[d].number = versions[m].number + 1
    BY <1>1, <2>1 DEF NumbersInOrder
  <2>3. CASE v = m
    BY <1>1, <1>2, <2>2, <2>3
  <2>4. CASE v # m
    <3>1. versions[v].number < versions[m].number
      BY <1>1, <1>2, <2>1, <2>2, <2>4 DEF NumbersInOrder
    <3>2. PICK u \in Published : versions[u].number = versions[v].number + 1
      BY <2>1, <3>1 DEF NumbersInOrder
    <3> QED
      BY <1>1, <1>2, <2>1, <3>2
  <2> QED
    BY <2>3, <2>4
<1>7. d \in Published' /\ \A w \in Published' : versions'[w].number <= versions'[d].number
  BY <1>1, <1>2, <1>3
<1>8. NumbersInOrder'
  BY <1>4, <1>5, <1>6, <1>7 DEF NumbersInOrder
<1> QED
  BY <1>7, <1>8 DEF d

LEMMA OrderKept ==
  ASSUME DraftShaped, NumbersInOrder, ReadsStand, [DraftNext]_draftVars
  PROVE  NumbersInOrder'
<1>1. CASE DraftEdited
  <2>1. PICK d \in Drafts :
          /\ DOMAIN versions' = DOMAIN versions
          /\ \A w \in DOMAIN versions \ {d} : versions'[w] = versions[w]
          /\ versions'[d].number = versions[d].number
          /\ Published' = Published /\ Drafts' = Drafts
    BY <1>1, EditedRows
  <2>2. \A v \in Published \cup Drafts' : Same(v)
    BY <2>1 DEF Same, Published, Drafts
  <2> QED
    BY <2>1, <2>2, SameNumbersStay
<1>2. CASE DraftMade
  BY <1>2, MadeInOrder
<1>3. CASE DraftDiscarded
  <2>1. PICK d \in Drafts :
          /\ DOMAIN versions' = DOMAIN versions \ {d}
          /\ \A w \in DOMAIN versions' : versions'[w] = versions[w]
          /\ Published' = Published /\ Drafts' = Drafts \ {d}
    BY <1>3, DiscardedRows
  <2>2. \A v \in Published \cup Drafts' : Same(v)
    BY <2>1 DEF Same, Published, Drafts
  <2> QED
    BY <2>1, <2>2, SameNumbersStay
<1>4. ASSUME NEW r \in Requests, DraftPublished(r) PROVE NumbersInOrder'
  BY <1>4, PublishedInOrder
<1>5. CASE VersionsStay
  <2>1. Published' = Published /\ Drafts' = Drafts /\ versions' = versions
    BY <1>5 DEF VersionsStay, Published, Drafts
  <2>2. \A v \in Published \cup Drafts' : Same(v)
    BY <2>1 DEF Same, Published, Drafts
  <2> QED
    BY <2>1, <2>2, SameNumbersStay
<1> QED
  BY <1>1, <1>2, <1>3, <1>4, <1>5, StepCases

\* What is published stays as it is.
LEMMA PublicationsStand ==
  ASSUME DraftShaped, ReadsStand, [DraftNext]_draftVars
  PROVE  /\ Published \subseteq Published'
         /\ \A v \in Published : v \in DOMAIN versions' /\ versions'[v] = versions[v]
<1>0. \A v \in Published : v \in DOMAIN versions /\ v \notin Drafts
  BY DEF Published, Drafts
<1>1. CASE DraftEdited
  BY <1>0, <1>1, EditedRows
<1>2. CASE DraftMade
  BY <1>0, <1>2, MadeRows
<1>3. CASE DraftDiscarded
  <2>1. PICK d \in Drafts :
          /\ DOMAIN versions' = DOMAIN versions \ {d}
          /\ \A w \in DOMAIN versions' : versions'[w] = versions[w]
          /\ Published' = Published
    BY <1>3, DiscardedRows
  <2> QED
    BY <1>0, <2>1
<1>4. ASSUME NEW r \in Requests, DraftPublished(r)
      PROVE  /\ Published \subseteq Published'
             /\ \A v \in Published : v \in DOMAIN versions' /\ versions'[v] = versions[v]
  <2>1. PICK d \in Drafts :
          /\ DOMAIN versions' = DOMAIN versions
          /\ \A w \in DOMAIN versions \ {d} : versions'[w] = versions[w]
          /\ Published' = Published \cup {d}
    BY <1>4, PublishedRows
  <2> QED
    BY <1>0, <2>1
<1>5. CASE VersionsStay
  BY <1>0, <1>5 DEF VersionsStay, Published
<1> QED
  BY <1>1, <1>2, <1>3, <1>4, <1>5, StepCases

-----------------------------------------------------------------------------
(* What a step leaves to the requests *)

\* A step of r moves r alone.
Alone(r) ==
    /\ at' = [q \in Requests |-> at'[q]] /\ doing' = [q \in Requests |-> doing'[q]]
    /\ \A q \in Requests : q # r => at'[q] = at[q] /\ doing'[q] = doing[q]
    /\ \A q \in Requests : IsRequest(doing'[q])

\* ... and leaves r at a label where it owes nothing, or owes what it reads.
QuietLabels ==
    {"idle", "latest", "existing", "discard", "blob", "coverBlob", "read", "ref", "P2002",
     "source", "winner", "discardRef", "delete", "draft", "assets", "commit", "copy", "content"}
Settled(r) == Alone(r) /\ ReadStands(r)' /\ ~Uploading(r)' /\ ObjectStands(r)'

LEMMA MovesAlone ==
  ASSUME DraftShaped, NEW r \in Requests, NEW label, Moves(r, label), UNCHANGED doing
  PROVE  Alone(r) /\ at'[r] = label /\ doing'[r] = doing[r]
<1>1. doing = [q \in Requests |-> doing[q]] /\ \A q \in Requests : IsRequest(doing[q])
  BY DEF DraftShaped
<1> QED
  BY <1>1, MovesTo DEF Alone

LEMMA WritesAlone ==
  ASSUME DraftShaped, NEW r \in Requests, NEW label, NEW d, Moves(r, label), IsRequest(d),
         doing' = [doing EXCEPT ![r] = d]
  PROVE  Alone(r) /\ at'[r] = label /\ doing'[r] = d
  BY MovesTo, DoingSet DEF Alone

LEMMA EndsAlone ==
  ASSUME DraftShaped, NEW r \in Requests, Ends(r)
  PROVE  Alone(r) /\ at'[r] = "idle"
  BY EndsIdle DEF Alone

\* One column of a request's record.
LEMMA RequestColumn ==
  ASSUME NEW x, IsRequest(x), NEW z
  PROVE  /\ LET y == [x EXCEPT !.command = z]
            IN  IsRequest(y) /\ y.command = z /\ y.version = x.version /\ y.cover = x.cover
         /\ LET y == [x EXCEPT !.version = z]
            IN  IsRequest(y) /\ y.version = z /\ y.command = x.command /\ y.cover = x.cover
         /\ LET y == [x EXCEPT !.cover = z]
            IN  IsRequest(y) /\ y.cover = z
         /\ LET y == [x EXCEPT !.assets = z]
            IN  IsRequest(y) /\ y.assets = z
         /\ LET y == [x EXCEPT !.first = z]
            IN  IsRequest(y) /\ y.assets = x.assets
  BY DEF IsRequest

LEMMA ItsOwn ==
  ASSUME DraftShaped, NEW r \in Requests
  PROVE  IsRequest(doing[r]) /\ doing = [q \in Requests |-> doing[q]]
  BY DEF DraftShaped

LEMMA EndsSettled ==
  ASSUME DraftShaped, NEW r \in Requests, Ends(r)
  PROVE  Settled(r)
<1>1. Alone(r) /\ at'[r] = "idle"
  BY EndsAlone
<1> QED
  BY <1>1 DEF Settled, ReadStands, Uploading, ObjectStands

LEMMA QuietSettled ==
  ASSUME DraftShaped, NEW r \in Requests, Alone(r), at'[r] \in QuietLabels, ReadStands(r)'
  PROVE  Settled(r)
  BY DEF Settled, Uploading, ObjectStands, QuietLabels

LEMMA SendSettles ==
  ASSUME DraftShaped, NEW r \in Requests, Send(r)
  PROVE  Settled(r)
<1>1. PICK c \in Commands : doing' = [doing EXCEPT ![r] = [Idle EXCEPT !.command = c]]
  BY DEF Send
<1>2. c.op \in CommandNames
  BY <1>1 DEF Commands, CommandNames
<1> DEFINE d == [Idle EXCEPT !.command = c]
<1>3. IsRequest(d) /\ d.command = c
  BY IdleIsRequest, RequestColumn
<1>4. Moves(r, "ref") /\ doing' = [doing EXCEPT ![r] = d]
  BY <1>1 DEF Send
<1> HIDE DEF d
<1>5. Alone(r) /\ at'[r] = "ref" /\ doing'[r] = d
  BY <1>3, <1>4, WritesAlone
<1>6. ReadStands(r)'
  BY <1>2, <1>3, <1>5 DEF ReadStands
<1> QED
  BY <1>5, <1>6, QuietSettled DEF QuietLabels

LEMMA CallSettles ==
  ASSUME DraftShaped, NEW r \in Requests, Call(r)
  PROVE  Settled(r)
<1>1. PICK label \in {"latest", "existing", "discard", "blob", "coverBlob", "read"} :
        Moves(r, label)
  BY DEF Call
<1>2. Alone(r) /\ at'[r] = label
  BY <1>1, MovesAlone DEF Call
<1>3. ReadStands(r)'
  BY <1>2 DEF ReadStands
<1> QED
  BY <1>2, <1>3, QuietSettled DEF QuietLabels

LEMMA RefSettles ==
  ASSUME DraftShaped, ReadsStand, NEW r \in Requests, requireDraftRef(r)
  PROVE  Settled(r)
<1>1. CASE Drafts = {}
  BY <1>1, EndsSettled DEF requireDraftRef
<1>2. CASE Drafts # {}
  <2> DEFINE v == Highest(Drafts)
             d == [doing[r] EXCEPT !.version = v]
  <2>1. PICK label \in {"assets", "commit"} :
          Moves(r, label) /\ doing' = [doing EXCEPT ![r] = d]
    BY <1>2, ItsOwn DEF requireDraftRef
  <2>2. IsRequest(d) /\ d.command = doing[r].command
    <3>1. IsRequest(doing[r])
      BY ItsOwn
    <3> HIDE DEF v
    <3> QED
      BY <3>1, RequestColumn
  <2> HIDE DEF d
  <2>3. Alone(r) /\ at'[r] = label /\ doing'[r] = d
    BY <2>1, <2>2, WritesAlone
  <2>4. doing[r].command.op \in CommandNames
    BY DEF requireDraftRef, ReadsStand, ReadStands, Stands
  <2>5. ReadStands(r)'
    BY <2>2, <2>3, <2>4 DEF ReadStands
  <2> QED
    BY <2>3, <2>5, QuietSettled DEF QuietLabels
<1> QED
  BY <1>1, <1>2

LEMMA AssetsReadSettles ==
  ASSUME DraftShaped, ReadsStand, NEW r \in Requests, ReadAssets(r)
  PROVE  Settled(r)
<1>1. CASE Ends(r)
  BY <1>1, EndsSettled
<1>2. CASE Moves(r, "commit") /\ UNCHANGED doing
  <2>1. Alone(r) /\ at'[r] = "commit" /\ doing'[r] = doing[r]
    BY <1>2, MovesAlone
  <2>2. doing[r].command.op \in CommandNames
    BY DEF ReadAssets, ReadsStand, ReadStands, Stands
  <2>3. ReadStands(r)'
    BY <2>1, <2>2 DEF ReadStands
  <2> QED
    BY <2>1, <2>3, QuietSettled DEF QuietLabels
<1> QED
  BY <1>1, <1>2 DEF ReadAssets

\* Steps that end the request, or move it to a label where it has no reading.
LEMMA PlainSettles ==
  ASSUME DraftShaped, NEW r \in Requests,
         Ends(r) \/ \E label \in {"P2002", "source", "winner", "discardRef"} :
                       Moves(r, label) /\ UNCHANGED doing
  PROVE  Settled(r)
<1>1. CASE Ends(r)
  BY <1>1, EndsSettled
<1>2. ASSUME NEW label \in {"P2002", "source", "winner", "discardRef"},
             Moves(r, label), UNCHANGED doing
      PROVE  Settled(r)
  <2>1. Alone(r) /\ at'[r] = label
    BY <1>2, MovesAlone
  <2>2. ReadStands(r)'
    BY <2>1 DEF ReadStands
  <2> QED
    BY <2>1, <2>2, QuietSettled DEF QuietLabels
<1> QED
  BY <1>1, <1>2

LEMMA CommitSettles ==
  ASSUME DraftShaped, NEW r \in Requests, Commit(r)
  PROVE  Settled(r)
<1>1. Ends(r) \/ (Moves(r, "P2002") /\ UNCHANGED doing)
  BY DEF Commit
<1> QED
  BY <1>1, PlainSettles

LEMMA CreatingSettles ==
  ASSUME DraftShaped, NEW r \in Requests,
         FindExisting(r) \/ CopyVersion(r) \/ FindWinner(r) \/ DiscardAllowed(r)
           \/ discardDraft(r) \/ Publish(r) \/ setCourseCover(r)
  PROVE  Settled(r)
<1>1. \/ Ends(r)
      \/ Moves(r, "source") /\ UNCHANGED doing
      \/ Moves(r, "winner") /\ UNCHANGED doing
      \/ Moves(r, "discardRef") /\ UNCHANGED doing
  BY DEF FindExisting, CopyVersion, FindWinner, DiscardAllowed, discardDraft, Publish,
      setCourseCover
<1> QED
  BY <1>1, PlainSettles

LEMMA SourceSettles ==
  ASSUME DraftShaped, NumbersInOrder, NEW r \in Requests, FindSource(r)
  PROVE  Settled(r)
<1>1. CASE Published = {}
  BY <1>1, EndsSettled DEF FindSource
<1>2. CASE Published # {}
  <2> DEFINE v == Highest(Published)
             d == [doing[r] EXCEPT !.version = v]
  <2>1. Moves(r, "copy") /\ doing' = [doing EXCEPT ![r] = d]
    BY <1>2, ItsOwn DEF FindSource
  <2>2. v \in Published
    BY <1>2, NewestPublished
  <2> HIDE DEF v
  <2>3. IsRequest(d) /\ d.version = v
    <3>1. IsRequest(doing[r])
      BY ItsOwn
    <3> QED
      BY <3>1, RequestColumn
  <2> HIDE DEF d
  <2>4. Alone(r) /\ at'[r] = "copy" /\ doing'[r] = d
    BY <2>1, <2>3, WritesAlone
  <2>5. versions' = versions /\ Published' = Published
    BY DEF FindSource, Rows, Published
  <2>6. ReadStands(r)'
    BY <2>2, <2>3, <2>4, <2>5 DEF ReadStands
  <2> QED
    BY <2>4, <2>6, QuietSettled DEF QuietLabels
<1> QED
  BY <1>1, <1>2

\* A reading of a column nobody holds the request to.
LEMMA NotesSettle ==
  ASSUME DraftShaped, NEW r \in Requests, NEW d, IsRequest(d),
         NEW label \in {"delete", "draft"}, Moves(r, label), doing' = [doing EXCEPT ![r] = d]
  PROVE  Settled(r)
<1>1. Alone(r) /\ at'[r] = label
  BY WritesAlone
<1>2. ReadStands(r)'
  BY <1>1 DEF ReadStands
<1> QED
  BY <1>1, <1>2, QuietSettled DEF QuietLabels

LEMMA DiscardRefSettles ==
  ASSUME DraftShaped, NEW r \in Requests, DiscardRef(r)
  PROVE  Settled(r)
<1>1. CASE Ends(r)
  BY <1>1, EndsSettled
<1>2. CASE ~Ends(r)
  <2> DEFINE v == Highest(Drafts)
             d == [doing[r] EXCEPT !.version = v]
  <2>1. Moves(r, "delete") /\ doing' = [doing EXCEPT ![r] = d]
    BY <1>2, ItsOwn DEF DiscardRef
  <2>2. IsRequest(d)
    <3>1. IsRequest(doing[r])
      BY ItsOwn
    <3> HIDE DEF v
    <3> QED
      BY <3>1, RequestColumn
  <2> HIDE DEF d
  <2> QED
    BY <2>1, <2>2, NotesSettle
<1> QED
  BY <1>1, <1>2

LEMMA LatestSettles ==
  ASSUME DraftShaped, NEW r \in Requests, FindLatest(r)
  PROVE  Settled(r)
<1>1. CASE Ends(r)
  BY <1>1, EndsSettled
<1>2. CASE ~Ends(r)
  <2> DEFINE i == course.cover
             d == [doing[r] EXCEPT !.cover = i]
  <2>1. Moves(r, "draft") /\ doing' = [doing EXCEPT ![r] = d]
    BY <1>2, ItsOwn DEF FindLatest
  <2>2. IsRequest(d)
    <3>1. IsRequest(doing[r])
      BY ItsOwn
    <3> HIDE DEF i
    <3> QED
      BY <3>1, RequestColumn
  <2> HIDE DEF d
  <2> QED
    BY <2>1, <2>2, NotesSettle
<1> QED
  BY <1>1, <1>2

LEMMA ReaderSettles ==
  ASSUME DraftShaped, NumbersInOrder, course.published => Published # {},
         NEW r \in Requests, requirePublishedCourseWithLatestVersion(r)
  PROVE  Settled(r)
<1>1. CASE ~course.published
  BY <1>1, EndsSettled DEF requirePublishedCourseWithLatestVersion
<1>2. CASE course.published
  <2> DEFINE v == Highest(Published)
  <2>1. v \in Published
    BY <1>2, NewestPublished
  <2>2. PICK l :
          /\ l \in versions[v].lessons
          /\ doing' = [doing EXCEPT ![r].version = v,
                                    ![r].command = [op |-> "getLesson", row |-> l]]
    BY <1>2 DEF requirePublishedCourseWithLatestVersion, LATEST_PUBLISHED_VERSION
  <2> DEFINE c == [op |-> "getLesson", row |-> l]
             a == [doing[r] EXCEPT !.version = v]
             b == [a EXCEPT !.command = c]
  <2>3. c.row = l
    OBVIOUS
  <2>4. Moves(r, "content") /\ doing' = [doing EXCEPT ![r] = b]
    BY <1>2, <2>2, ItsOwn DEF requirePublishedCourseWithLatestVersion
  <2>5. versions' = versions /\ Published' = Published
    BY DEF requirePublishedCourseWithLatestVersion, Rows, Published
  <2>6. IsRequest(doing[r])
    BY ItsOwn
  <2>7. IsRequest(b) /\ b.command = c /\ b.version = v
    <3> HIDE DEF v, c
    <3>1. IsRequest(a)
      BY <2>6, RequestColumn
    <3>2. a.version = v
      BY <2>6, RequestColumn
    <3> HIDE DEF a
    <3>3. IsRequest(b)
      BY <3>1, RequestColumn
    <3>4. b.command = c
      BY <3>1, RequestColumn
    <3>5. b.version = a.version
      BY <3>1, RequestColumn
    <3> HIDE DEF b
    <3> QED
      BY <3>2, <3>3, <3>4, <3>5
  <2> HIDE DEF b, c, v
  <2>8. Alone(r) /\ at'[r] = "content" /\ doing'[r] = b
    BY <2>4, <2>7, WritesAlone
  <2>9. ReadStands(r)'
    BY <2>1, <2>2, <2>3, <2>5, <2>7, <2>8 DEF ReadStands
  <2> QED
    BY <2>8, <2>9, QuietSettled DEF QuietLabels
<1> QED
  BY <1>1, <1>2

LEMMA LessonSettles ==
  ASSUME DraftShaped, ReadsStand, NEW r \in Requests, getLesson(r)
  PROVE  Settled(r)
<1>1. doing[r].version \in DOMAIN versions
      /\ doing[r].command.row \in versions[doing[r].version].lessons
  BY DEF getLesson, ReadsStand, ReadStands, Stands, Published
<1> QED
  BY <1>1, EndsSettled DEF getLesson

LEMMA CheckSettles ==
  ASSUME DraftShaped, NEW r \in Requests, ReadDraft(r)
  PROVE  Settled(r)
<1>1. CASE Ends(r)
  BY <1>1, EndsSettled
<1>2. CASE ~Ends(r)
  <2> DEFINE v == Highest(Drafts)
             a == [doing[r] EXCEPT !.version = v]
             b == [a EXCEPT !.assets = assets]
             c == [b EXCEPT !.first = (Published = {})]
  <2>1. Moves(r, "publish") /\ doing' = [doing EXCEPT ![r] = c]
    BY <1>2, ItsOwn DEF ReadDraft
  <2>2. IsRequest(c) /\ c.assets = assets
    <3>1. IsRequest(doing[r])
      BY ItsOwn
    <3>2. IsRequest(a)
      <4> HIDE DEF v
      <4> QED
        BY <3>1, RequestColumn
    <3> HIDE DEF a
    <3>3. IsRequest(b)
      BY <3>2, RequestColumn
    <3>4. b.assets = assets
      BY <3>2, RequestColumn
    <3> HIDE DEF b
    <3>5. IsRequest(c)
      BY <3>3, RequestColumn
    <3>6. c.assets = b.assets
      BY <3>3, RequestColumn
    <3> QED
      BY <3>4, <3>5, <3>6
  <2> HIDE DEF c
  <2>3. Alone(r) /\ at'[r] = "publish" /\ doing'[r] = c
    BY <2>1, <2>2, WritesAlone
  <2>4. ReadStands(r)' /\ ~Uploading(r)'
    BY <2>3 DEF ReadStands, Uploading
  <2>5. assets' = assets
    BY DEF ReadDraft, Rows
  <2>6. ObjectStands(r)'
    BY <2>2, <2>3, <2>4, <2>5 DEF ObjectStands
  <2> QED
    BY <2>3, <2>4, <2>6 DEF Settled
<1> QED
  BY <1>1, <1>2

LEMMA ProceedingSettles ==
  ASSUME DraftShaped, NumbersInOrder, ReadsStand, course.published => Published # {},
         NEW r \in Requests,
         \/ requireDraftRef(r) \/ ReadAssets(r) \/ Commit(r)
         \/ FindExisting(r) \/ FindSource(r) \/ CopyVersion(r) \/ FindWinner(r)
         \/ DiscardAllowed(r) \/ DiscardRef(r) \/ discardDraft(r)
         \/ FindLatest(r) \/ ReadDraft(r) \/ Publish(r) \/ setCourseCover(r)
         \/ requirePublishedCourseWithLatestVersion(r) \/ getLesson(r)
  PROVE  Settled(r)
  BY RefSettles, AssetsReadSettles, CommitSettles, CreatingSettles, SourceSettles,
     DiscardRefSettles, LatestSettles, CheckSettles, ReaderSettles, LessonSettles

-----------------------------------------------------------------------------
(* The objects and their rows *)

LEMMA OthersStand ==
  ASSUME DraftShaped, ReadsStand, [DraftNext]_draftVars, NEW r \in Requests, Alone(r),
         NEW q \in Requests, q # r
  PROVE  ReadStands(q)'
<1>1. at'[q] = at[q] /\ doing'[q] = doing[q]
  BY DEF Alone
<1>2. /\ Published \subseteq Published'
      /\ \A v \in Published : v \in DOMAIN versions' /\ versions'[v] = versions[v]
  BY PublicationsStand
<1>3. ReadStands(q)
  BY DEF ReadsStand
<1> QED
  BY <1>1, <1>2, <1>3 DEF ReadStands

LEMMA SettledObjects ==
  ASSUME DraftShaped, ObjectsAreStored, NEW r \in Requests, Settled(r),
         UNCHANGED <<assets, blobs>>, course'.cover \in assets \cup {NoImage}
  PROVE  ObjectsAreStored'
<1>1. \A q \in Requests : q # r => at'[q] = at[q] /\ doing'[q] = doing[q]
  BY DEF Settled, Alone
<1>2. ~Uploading(r)' /\ ObjectStands(r)'
  BY DEF Settled
<1>3. \A q \in Requests : q # r => ObjectStands(q)'
  <2> SUFFICES ASSUME NEW q \in Requests, q # r PROVE ObjectStands(q)'
    OBVIOUS
  <2>1. ObjectStands(q)
    BY DEF ObjectsAreStored
  <2> QED
    BY <1>1, <2>1 DEF ObjectStands, Uploading
<1>4. \A p, q \in Requests :
        Uploading(p)' /\ Uploading(q)' /\ doing'[p].cover = doing'[q].cover => p = q
  <2> SUFFICES ASSUME NEW p \in Requests, NEW q \in Requests, Uploading(p)', Uploading(q)',
                      doing'[p].cover = doing'[q].cover
               PROVE  p = q
    OBVIOUS
  <2>1. p # r /\ q # r
    BY <1>2
  <2>2. Uploading(p) /\ Uploading(q) /\ doing[p].cover = doing[q].cover
    BY <1>1, <2>1 DEF Uploading
  <2> QED
    BY <2>2 DEF ObjectsAreStored
<1>5. (assets \subseteq blobs)'
  BY DEF ObjectsAreStored
<1> QED
  BY <1>2, <1>3, <1>4, <1>5 DEF ObjectsAreStored

\* A step of an upload: nobody else is at the object it keeps, or writes.
LEMMA UploadObjects ==
  ASSUME DraftShaped, ObjectsAreStored, NEW r \in Requests, Alone(r), ObjectStands(r)',
         course' = course, assets \subseteq assets', assets' \subseteq blobs',
         \A q \in Requests : q # r /\ Uploading(q) =>
            /\ doing[q].cover \in blobs' \ assets'
            /\ Uploading(r)' => doing[q].cover # doing'[r].cover
  PROVE  ObjectsAreStored'
<1>1. \A q \in Requests : q # r => at'[q] = at[q] /\ doing'[q] = doing[q]
  BY DEF Alone
<1>2. course'.cover \in assets' \cup {NoImage}
  BY DEF ObjectsAreStored
<1>3. \A q \in Requests : q # r => ObjectStands(q)'
  <2> SUFFICES ASSUME NEW q \in Requests, q # r PROVE ObjectStands(q)'
    OBVIOUS
  <2>1. ObjectStands(q)
    BY DEF ObjectsAreStored
  <2> QED
    BY <1>1, <2>1 DEF ObjectStands, Uploading
<1>4. \A p, q \in Requests :
        Uploading(p)' /\ Uploading(q)' /\ doing'[p].cover = doing'[q].cover => p = q
  <2> SUFFICES ASSUME NEW p \in Requests, NEW q \in Requests, Uploading(p)', Uploading(q)',
                      doing'[p].cover = doing'[q].cover, p # q
               PROVE  FALSE
    OBVIOUS
  <2>1. CASE p # r /\ q # r
    <3>1. Uploading(p) /\ Uploading(q) /\ doing[p].cover = doing[q].cover
      BY <1>1, <2>1 DEF Uploading
    <3> QED
      BY <3>1 DEF ObjectsAreStored
  <2>2. CASE p = r
    <3>1. Uploading(q) /\ doing[q].cover = doing'[r].cover
      BY <1>1, <2>2 DEF Uploading
    <3> QED
      BY <2>2, <3>1
  <2>3. CASE q = r
    <3>1. Uploading(p) /\ doing[p].cover = doing'[r].cover
      BY <1>1, <2>3 DEF Uploading
    <3> QED
      BY <2>3, <3>1
  <2> QED
    BY <2>1, <2>2, <2>3
<1> QED
  BY <1>2, <1>3, <1>4 DEF ObjectsAreStored

LEMMA PutObjects ==
  ASSUME DraftShaped, ObjectsAreStored, NEW r \in Requests, PutBlob(r)
  PROVE  Alone(r) /\ ReadStands(r)' /\ ObjectsAreStored'
<1>1. PICK i :
        /\ i \notin blobs /\ blobs' = blobs \cup {i}
        /\ doing' = [doing EXCEPT ![r].cover = i]
        /\ Moves(r, IF at[r] = "blob" THEN "assetRow" ELSE "coverRow")
        /\ UNCHANGED <<course, versions, assets, made>>
  BY DEF PutBlob
<1> DEFINE d == [doing[r] EXCEPT !.cover = i]
<1>2. PICK label \in {"assetRow", "coverRow"} :
        Moves(r, label) /\ doing' = [doing EXCEPT ![r] = d]
  BY <1>1, ItsOwn
<1>3. IsRequest(d) /\ d.cover = i
  <2>1. IsRequest(doing[r])
    BY ItsOwn
  <2>2. IsRequest(d)
    BY <2>1, RequestColumn
  <2>3. d.cover = i
    BY <2>1, RequestColumn
  <2> QED
    BY <2>2, <2>3
<1> HIDE DEF d
<1>4. Alone(r) /\ at'[r] = label /\ doing'[r] = d
  BY <1>2, <1>3, WritesAlone
<1>5. ReadStands(r)'
  BY <1>4 DEF ReadStands
<1>6. assets \subseteq blobs /\ assets' = assets /\ course' = course
  BY <1>1 DEF ObjectsAreStored
<1>7. ObjectStands(r)'
  BY <1>1, <1>3, <1>4, <1>6 DEF ObjectStands
<1>8. \A q \in Requests : q # r /\ Uploading(q) =>
        doing[q].cover \in blobs' \ assets' /\ doing[q].cover # doing'[r].cover
  <2> SUFFICES ASSUME NEW q \in Requests, Uploading(q)
               PROVE  /\ doing[q].cover \in blobs' \ assets'
                      /\ doing[q].cover # doing'[r].cover
    OBVIOUS
  <2>1. doing[q].cover \in blobs \ assets
    BY DEF ObjectsAreStored, ObjectStands
  <2> QED
    BY <1>1, <1>3, <1>4, <1>6, <2>1
<1>9. assets \subseteq assets' /\ assets' \subseteq blobs'
  BY <1>1, <1>6
<1> QED
  BY <1>4, <1>5, <1>6, <1>7, <1>8, <1>9, UploadObjects

\* Nobody else is uploading what r uploads.
LEMMA ItsObject ==
  ASSUME ObjectsAreStored, NEW r \in Requests, Uploading(r)
  PROVE  /\ doing[r].cover \in blobs \ assets
         /\ \A q \in Requests : q # r /\ Uploading(q) =>
               doing[q].cover \in blobs \ (assets \cup {doing[r].cover})
  BY DEF ObjectsAreStored, ObjectStands

LEMMA RowObjects ==
  ASSUME DraftShaped, ObjectsAreStored, NEW r \in Requests, CreateAsset(r)
  PROVE  Alone(r) /\ ReadStands(r)' /\ ObjectsAreStored'
<1> DEFINE i == doing[r].cover
<1>1. Uploading(r) /\ assets' = assets \cup {i} /\ blobs' = blobs /\ course' = course
  BY DEF CreateAsset, Uploading
<1>2. /\ i \in blobs \ assets
      /\ \A q \in Requests :
            q # r /\ Uploading(q) => doing[q].cover \in blobs \ (assets \cup {i})
  BY <1>1, ItsObject
<1>3. assets \subseteq assets' /\ assets' \subseteq blobs'
  BY <1>1, <1>2 DEF ObjectsAreStored
<1> HIDE DEF i
<1>4. Alone(r) /\ ReadStands(r)' /\ ~Uploading(r)' /\ ObjectStands(r)'
  <2>1. CASE Ends(r)
    BY <2>1, EndsSettled DEF Settled
  <2>2. CASE Moves(r, "setCover") /\ UNCHANGED doing
    <3>1. Alone(r) /\ at'[r] = "setCover" /\ doing'[r] = doing[r]
      BY <2>2, MovesAlone
    <3>2. ReadStands(r)' /\ ~Uploading(r)'
      BY <3>1 DEF ReadStands, Uploading
    <3>3. doing'[r].cover = i
      BY <3>1 DEF i
    <3>4. ObjectStands(r)'
      BY <1>1, <3>1, <3>3 DEF ObjectStands, Uploading
    <3> QED
      BY <3>1, <3>2, <3>4
  <2> QED
    BY <2>1, <2>2 DEF CreateAsset
<1>5. \A q \in Requests : q # r /\ Uploading(q) => doing[q].cover \in blobs' \ assets'
  BY <1>1, <1>2
<1> QED
  BY <1>1, <1>3, <1>4, <1>5, UploadObjects

LEMMA RolledBackObjects ==
  ASSUME DraftShaped, ObjectsAreStored, NEW r \in Requests, CreateAssetFails(r)
  PROVE  Alone(r) /\ ReadStands(r)' /\ ObjectsAreStored'
<1> DEFINE i == doing[r].cover
<1>1. /\ Uploading(r) /\ assets' = assets /\ course' = course /\ Ends(r)
      /\ blobs \ {i} \subseteq blobs'
  BY DEF CreateAssetFails, Uploading
<1>2. /\ i \in blobs \ assets
      /\ \A q \in Requests :
            q # r /\ Uploading(q) => doing[q].cover \in blobs \ (assets \cup {i})
  BY <1>1, ItsObject
<1> HIDE DEF i
<1>3. assets \subseteq assets' /\ assets' \subseteq blobs'
  BY <1>1, <1>2 DEF ObjectsAreStored
<1>4. Alone(r) /\ ReadStands(r)' /\ ~Uploading(r)' /\ ObjectStands(r)'
  BY <1>1, EndsSettled DEF Settled
<1>5. \A q \in Requests : q # r /\ Uploading(q) => doing[q].cover \in blobs' \ assets'
  BY <1>1, <1>2
<1> QED
  BY <1>1, <1>3, <1>4, <1>5, UploadObjects

-----------------------------------------------------------------------------
(* The histories a course may start from *)

\* The two lessons of a sample have different content ids.
LEMMA TwoContentIds == SetToSeq(ContentIds)[1] # SetToSeq(ContentIds)[2]
<1> DEFINE n == Cardinality(ContentIds)
<1>1. n \in Nat /\ ExistsBijection(1 .. n, ContentIds)
  BY DraftAssumption, FS_CardinalityType
<1>2. \E f \in [1 .. n -> ContentIds] : IsInjective(f)
  BY <1>1 DEF ExistsBijection, Bijection, Injection
<1>3. SetToSeq(ContentIds) \in [1 .. n -> ContentIds] /\ IsInjective(SetToSeq(ContentIds))
  BY <1>2 DEF SetToSeq
<1>4. n >= 2
  BY DraftAssumption
<1>5. DOMAIN SetToSeq(ContentIds) = 1 .. n /\ 1 \in 1 .. n /\ 2 \in 1 .. n
  BY <1>1, <1>3, <1>4
<1> QED
  BY <1>3, <1>5 DEF IsInjective

SampleModule(v, i) == [id |-> <<v, i>>, position |-> i, title |-> "a"]
SampleLesson(v, i) ==
    [id |-> <<v, i>>, module |-> <<v, i>>, position |-> 1,
     contentId |-> SetToSeq(ContentIds)[i], body |-> "text", assessments |-> 1]

LEMMA SampleColumn ==
  ASSUME NEW x, IsVersionRow(x), NEW z
  PROVE  /\ LET y == [x EXCEPT !.modules = z]
            IN  /\ IsVersionRow(y) /\ y.number = x.number /\ y.published = x.published
                /\ y.welcome = x.welcome /\ y.lessons = x.lessons /\ y.modules = z
         /\ LET y == [x EXCEPT !.lessons = z]
            IN  /\ IsVersionRow(y) /\ y.number = x.number /\ y.published = x.published
                /\ y.welcome = x.welcome /\ y.modules = x.modules /\ y.lessons = z
         /\ LET y == [x EXCEPT !.serial = z]
            IN  /\ IsVersionRow(y) /\ y.number = x.number /\ y.published = x.published
                /\ y.welcome = x.welcome /\ y.modules = x.modules /\ y.lessons = x.lessons
  BY DEF IsVersionRow

LEMMA PairCounts ==
  ASSUME NEW x, NEW y, x # y
  PROVE  Cardinality({x, y}) = 2
<1>1. IsFiniteSet({x}) /\ Cardinality({x}) = 1
  BY FS_Singleton
<1>2. Cardinality({x} \cup {y}) = 2
  BY <1>1, FS_AddElement
<1>3. {x, y} = {x} \cup {y}
  OBVIOUS
<1> QED
  BY <1>2, <1>3

LEMMA SampleRows ==
  ASSUME NEW v, NEW n, NEW p
  PROVE  LET x == Sample(v, n, p) IN
         /\ IsVersionRow(x) /\ x.number = n /\ x.published = p /\ x.welcome = NoImage
         /\ x.modules = {SampleModule(v, 1), SampleModule(v, 2)}
         /\ x.lessons = {SampleLesson(v, 1), SampleLesson(v, 2)}
<1> DEFINE ms == {SampleModule(v, 1), SampleModule(v, 2)}
           ls == {SampleLesson(v, 1), SampleLesson(v, 2)}
           ks == {[id |-> <<v, i>>, module |-> <<v, i>>, position |-> 1,
                   contentId |-> SetToSeq(ContentIds)[i],
                   body |-> "text", assessments |-> 1] : i \in 1 .. 2}
           js == {[id |-> <<v, 1>>, position |-> 1, title |-> "a"],
                  [id |-> <<v, 2>>, position |-> 2, title |-> "a"]}
           a == NewVersion(n)
           b == [a EXCEPT !.published = p]
           c == [b EXCEPT !.modules = js]
           d == [c EXCEPT !.lessons = ks]
           e == [d EXCEPT !.serial = 2]
<1>1. ks = ls
  <2>1. 1 .. 2 = {1, 2}
    OBVIOUS
  <2>2. ks = {SampleLesson(v, i) : i \in {1, 2}}
    BY <2>1 DEF SampleLesson
  <2> QED
    BY <2>2
<1>2. js = ms
  BY DEF SampleModule
<1>3. Sample(v, n, p) = e
  BY DEF Sample
<1>4. IsVersionRow(a) /\ a.number = n /\ a.welcome = NoImage
  BY DEF NewVersion, IsVersionRow
<1> HIDE DEF a, ms, ls, ks, js
<1>5. IsVersionRow(b) /\ b.number = n /\ b.welcome = NoImage /\ b.published = p
  BY <1>4, PublishedColumn
<1> HIDE DEF b
<1>6. /\ IsVersionRow(c) /\ c.number = n /\ c.welcome = NoImage /\ c.published = p
      /\ c.modules = js
  BY <1>5, SampleColumn
<1> HIDE DEF c
<1>7. /\ IsVersionRow(d) /\ d.number = n /\ d.welcome = NoImage /\ d.published = p
      /\ d.modules = js /\ d.lessons = ks
  BY <1>6, SampleColumn
<1> HIDE DEF d
<1>8. /\ IsVersionRow(e) /\ e.number = n /\ e.welcome = NoImage /\ e.published = p
      /\ e.modules = js /\ e.lessons = ks
  BY <1>7, SampleColumn
<1> HIDE DEF e
<1> QED
  BY <1>1, <1>2, <1>3, <1>8 DEF ms, ls

\* Column by column, as the leaves below can use it.
LEMMA SampleNumber == \A v, n, p : Sample(v, n, p).number = n
  BY SampleRows
LEMMA SampleFlag == \A v, n, p : Sample(v, n, p).published = p
  BY SampleRows
LEMMA SampleWelcome == \A v, n, p : Sample(v, n, p).welcome = NoImage
  BY SampleRows
LEMMA SampleLessons ==
  \A v, n, p : Sample(v, n, p).lessons = {SampleLesson(v, 1), SampleLesson(v, 2)}
  BY SampleRows

\* The rows pass publish()'s checks, with no asset and no cover.
LEMMA SampleIsValid ==
  ASSUME NEW v, NEW n, NEW p
  PROVE  /\ ~collectDraftPublishIssues(Sample(v, n, p), {}, NoImage, FALSE)
         /\ Cardinality(Sample(v, n, p).lessons) = 2
<1> DEFINE x == Sample(v, n, p)
           l == SampleLesson(v, 1)
           k == SampleLesson(v, 2)
           i == SampleModule(v, 1)
           j == SampleModule(v, 2)
<1>1. x.welcome = NoImage /\ x.modules = {i, j} /\ x.lessons = {l, k}
  BY SampleRows
<1>2. /\ l.module = <<v, 1>> /\ k.module = <<v, 2>> /\ l.position = 1 /\ k.position = 1
      /\ l.body = "text" /\ k.body = "text" /\ l.contentId # k.contentId
      /\ i.id = <<v, 1>> /\ j.id = <<v, 2>> /\ i.position = 1 /\ j.position = 2
  BY TwoContentIds DEF SampleLesson, SampleModule
<1>3. <<v, 1>> # <<v, 2>>
  OBVIOUS
<1> HIDE DEF x, l, k, i, j
<1>4. l # k /\ i # j
  BY <1>2
<1>5. Cardinality({l, k}) = 2 /\ Cardinality({i, j}) = 2
  BY <1>4, PairCounts
<1>6. LessonsOf(x, i.id) = {l} /\ LessonsOf(x, j.id) = {k}
  BY <1>1, <1>2, <1>3 DEF LessonsOf
<1>7. Contiguous({l}) /\ Contiguous({k})
  BY <1>2, FS_Singleton DEF Contiguous
<1>8. Contiguous({i, j})
  BY <1>2, <1>5 DEF Contiguous
<1>9. PositionsAreContiguous(x)
  BY <1>1, <1>6, <1>7, <1>8 DEF PositionsAreContiguous
<1>10. "text" \notin Images
  BY DraftAssumption
<1>11. ~collectDraftPublishIssues(x, {}, NoImage, FALSE)
  BY <1>1, <1>2, <1>9, <1>10 DEF collectDraftPublishIssues, ValidContent, Renderable
<1> QED
  BY <1>1, <1>5, <1>11 DEF x

\* A course begins with one draft, one publication, or one of each.
BeginsAsDraft ==
    \E x : /\ versions = [v \in {1} |-> x] /\ made = 1 /\ course = NewCourse
           /\ IsVersionRow(x) /\ x.number \in {1, 3} /\ x.published = FALSE
PublishedNow == [NewCourse EXCEPT !.published = TRUE, !.lessonCount = 2]
BeginsPublished ==
    /\ versions = [v \in {1} |-> Sample(v, 1, TRUE)] /\ made = 1 /\ course = PublishedNow
BeginsDrafted ==
    /\ versions = [v \in {1, 2} |-> Sample(v, v, v = 1)] /\ made = 2 /\ course = PublishedNow

LEMMA BeginsSomehow ==
  ASSUME DraftInit
  PROVE  BeginsAsDraft \/ BeginsPublished \/ BeginsDrafted
<1>1. PICK start \in Starts :
        /\ versions = VersionsAt(start)
        /\ course = IF start \in {"published", "drafted"}
                    THEN [NewCourse EXCEPT !.published = TRUE, !.lessonCount = 2]
                    ELSE NewCourse
        /\ made = Cardinality(DOMAIN versions)
  BY DEF DraftInit
<1>2. start \in {"created", "ingested", "published", "drafted"}
  BY DraftAssumption
<1>3. Cardinality({1}) = 1 /\ Cardinality({1, 2}) = 2
  <2>1. Cardinality({1}) = 1
    BY FS_Singleton
  <2>2. 1 # 2
    OBVIOUS
  <2> QED
    BY <2>1, <2>2, PairCounts
<1>4. CASE start = "created"
  <2> DEFINE x == NewVersion(1)
  <2>1. versions = [v \in {1} |-> x]
    BY <1>1, <1>4 DEF VersionsAt
  <2>2. IsVersionRow(x) /\ x.number = 1 /\ x.published = FALSE
    BY DEF NewVersion, IsVersionRow
  <2> HIDE DEF x
  <2>3. made = 1 /\ course = NewCourse
    BY <1>1, <1>3, <1>4, <2>1
  <2> QED
    BY <2>1, <2>2, <2>3 DEF BeginsAsDraft
<1>5. CASE start = "ingested"
  <2> DEFINE a == Sample(1, 3, FALSE)
             ms == {[m EXCEPT !.position = 2 * @ - 1] : m \in a.modules}
             x == [a EXCEPT !.modules = ms]
  <2>1. versions = [v \in {1} |->
            [Sample(v, 3, FALSE) EXCEPT !.modules = {[m EXCEPT !.position = 2 * @ - 1] : m \in @}]]
    BY <1>1, <1>5 DEF VersionsAt
  <2>2. versions = [v \in {1} |-> x]
    BY <2>1
  <2>3. IsVersionRow(a) /\ a.number = 3 /\ a.published = FALSE
    <3>1. IsVersionRow(a)
      BY SampleRows
    <3>2. a.number = 3
      BY SampleNumber
    <3>3. a.published = FALSE
      BY SampleFlag
    <3> QED
      BY <3>1, <3>2, <3>3
  <2> HIDE DEF a, ms
  <2>4. IsVersionRow(x) /\ x.number = 3 /\ x.published = FALSE
    BY <2>3, ColumnSet
  <2> HIDE DEF x
  <2>5. made = 1 /\ course = NewCourse
    BY <1>1, <1>3, <1>5, <2>2
  <2> QED
    BY <2>2, <2>4, <2>5 DEF BeginsAsDraft
<1>6. CASE start = "published"
  <2>1. versions = [v \in {1} |-> Sample(v, 1, TRUE)]
    BY <1>1, <1>6 DEF VersionsAt
  <2>2. DOMAIN versions = {1}
    BY <2>1
  <2> QED
    BY <1>1, <1>3, <1>6, <2>1, <2>2 DEF BeginsPublished, PublishedNow
<1>7. CASE start = "drafted"
  <2>1. versions = [v \in {1, 2} |-> Sample(v, v, v = 1)]
    BY <1>1, <1>7 DEF VersionsAt
  <2>2. DOMAIN versions = {1, 2}
    BY <2>1
  <2> QED
    BY <1>1, <1>3, <1>7, <2>1, <2>2 DEF BeginsDrafted, PublishedNow
<1> QED
  BY <1>2, <1>4, <1>5, <1>6, <1>7

LEMMA CourseColumn ==
  ASSUME NEW x, IsCourseRow(x), NEW z
  PROVE  /\ LET y == [x EXCEPT !.published = z]
            IN  IsCourseRow(y) /\ y.published = z /\ y.cover = x.cover
         /\ LET y == [x EXCEPT !.lessonCount = z]
            IN  /\ IsCourseRow(y) /\ y.published = x.published /\ y.cover = x.cover
                /\ y.lessonCount = z
         /\ LET y == [x EXCEPT !.meta = z]
            IN  /\ IsCourseRow(y) /\ y.published = x.published /\ y.cover = x.cover
                /\ y.lessonCount = x.lessonCount
  BY DEF IsCourseRow

LEMMA CoursesBegin ==
  /\ IsCourseRow(NewCourse) /\ NewCourse.published = FALSE /\ NewCourse.cover = NoImage
  /\ IsCourseRow(PublishedNow) /\ PublishedNow.published = TRUE
  /\ PublishedNow.cover = NoImage /\ PublishedNow.lessonCount = 2
<1> DEFINE a == [NewCourse EXCEPT !.published = TRUE]
           b == [a EXCEPT !.lessonCount = 2]
<1>1. /\ IsCourseRow(NewCourse) /\ NewCourse.published = FALSE
      /\ NewCourse.cover = NoImage
  BY DEF NewCourse, IsCourseRow
<1>2. IsCourseRow(a) /\ a.published = TRUE /\ a.cover = NoImage
  BY <1>1, CourseColumn
<1> HIDE DEF a
<1>3. IsCourseRow(b) /\ b.published = TRUE /\ b.cover = NoImage /\ b.lessonCount = 2
  <2>1. IsCourseRow(b) /\ b.published = a.published /\ b.cover = a.cover
    BY <1>2, CourseColumn
  <2>2. b.lessonCount = 2
    BY <1>2 DEF IsCourseRow
  <2> HIDE DEF b
  <2> QED
    BY <1>2, <2>1, <2>2
<1>4. PublishedNow = b
  BY DEF PublishedNow, a
<1> QED
  BY <1>1, <1>3, <1>4

LEMMA RequestsBegin ==
  ASSUME DraftInit
  PROVE  /\ at = [r \in Requests |-> at[r]] /\ doing = [r \in Requests |-> doing[r]]
         /\ \A r \in Requests : IsRequest(doing[r]) /\ at[r] = "idle"
         /\ assets = {} /\ blobs = {}
  BY IdleIsRequest DEF DraftInit

LEMMA RequestsStandAtFirst ==
  ASSUME DraftInit, course.cover = NoImage
  PROVE  ReadsStand /\ ObjectsAreStored
<1>1. ReadsStand
  BY RequestsBegin DEF ReadsStand, ReadStands
<1>2. ObjectsAreStored
  BY RequestsBegin DEF ObjectsAreStored, ObjectStands, Uploading
<1> QED
  BY <1>1, <1>2

LEMMA InitAsDraft ==
  ASSUME DraftInit, BeginsAsDraft
  PROVE  DraftInv
<1>1. PICK x :
        /\ versions = [v \in {1} |-> x] /\ made = 1 /\ course = NewCourse
        /\ IsVersionRow(x) /\ x.number \in {1, 3} /\ x.published = FALSE
  BY DEF BeginsAsDraft
<1>2. DOMAIN versions = {1} /\ versions[1] = x
  BY <1>1
<1>3. Published = {} /\ Drafts = {1}
  BY <1>1, <1>2 DEF Published, Drafts
<1>4. DraftShaped
  <2>1. IsCourseRow(course) /\ course.published \in BOOLEAN
    BY <1>1, CoursesBegin
  <2>2. versions = [v \in DOMAIN versions |-> versions[v]]
    BY <1>1
  <2>3. made \in Nat /\ DOMAIN versions \subseteq 1 .. made
    BY <1>1, <1>2
  <2> QED
    <3>1. \A v \in DOMAIN versions :
            /\ IsVersionRow(versions[v])
            /\ versions[v].number \in Nat \ {0} /\ versions[v].published \in BOOLEAN
      <4>1. IsVersionRow(versions[1]) /\ versions[1].number \in Nat \ {0}
        BY <1>1, <1>2
      <4>2. versions[1].published = FALSE
        BY <1>1, <1>2
      <4> QED
        BY <1>2, <4>1, <4>2
    <3>2. /\ at = [r \in Requests |-> at[r]] /\ doing = [r \in Requests |-> doing[r]]
          /\ \A r \in Requests : IsRequest(doing[r])
      BY RequestsBegin
    <3> QED
      BY <2>1, <2>2, <2>3, <3>1, <3>2 DEF DraftShaped
<1>5. NumbersInOrder
  BY <1>3 DEF NumbersInOrder
<1>6. course.cover = NoImage /\ ~course.published
  BY <1>1, CoursesBegin
<1>7. PublishedIsValid
  BY <1>3, <1>6 DEF PublishedIsValid
<1> QED
  BY <1>4, <1>5, <1>6, <1>7, RequestsStandAtFirst DEF DraftInv

LEMMA InitPublished ==
  ASSUME DraftInit, BeginsPublished \/ BeginsDrafted
  PROVE  DraftInv
<1> DEFINE x == Sample(1, 1, TRUE)
           y == Sample(2, 2, FALSE)
<1>1. /\ 1 \in DOMAIN versions /\ versions[1] = x /\ course = PublishedNow
      /\ DOMAIN versions \subseteq {1, 2} /\ (2 \in DOMAIN versions => versions[2] = y)
      /\ versions = [v \in DOMAIN versions |-> versions[v]]
      /\ made \in Nat /\ DOMAIN versions \subseteq 1 .. made
  <2>1. CASE BeginsPublished
    <3>1. DOMAIN versions = {1} /\ versions[1] = x
      BY <2>1 DEF BeginsPublished
    <3>2. versions = [v \in DOMAIN versions |-> versions[v]]
      BY <2>1 DEF BeginsPublished
    <3>3. made = 1 /\ course = PublishedNow
      BY <2>1 DEF BeginsPublished
    <3> HIDE DEF x, y
    <3> QED
      BY <3>1, <3>2, <3>3
  <2>2. CASE BeginsDrafted
    <3>1. DOMAIN versions = {1, 2} /\ versions[1] = Sample(1, 1, 1 = 1)
          /\ versions[2] = Sample(2, 2, 2 = 1)
      BY <2>2 DEF BeginsDrafted
    <3>2. (1 = 1) = TRUE /\ (2 = 1) = FALSE
      OBVIOUS
    <3>3. versions[1] = x /\ versions[2] = y
      BY <3>1, <3>2
    <3>4. versions = [v \in DOMAIN versions |-> versions[v]]
      BY <2>2 DEF BeginsDrafted
    <3>5. made = 2 /\ course = PublishedNow
      BY <2>2 DEF BeginsDrafted
    <3> HIDE DEF x, y
    <3> QED
      BY <3>1, <3>3, <3>4, <3>5
  <2> QED
    BY <2>1, <2>2
<1>2. /\ IsVersionRow(x) /\ x.number = 1 /\ x.published = TRUE /\ x.welcome = NoImage
      /\ x.lessons = {SampleLesson(1, 1), SampleLesson(1, 2)}
      /\ IsVersionRow(y) /\ y.number = 2 /\ y.published = FALSE
  <2>1. IsVersionRow(x) /\ IsVersionRow(y)
    BY SampleRows
  <2>2. x.number = 1 /\ y.number = 2
    BY SampleNumber
  <2>3. x.published = TRUE
    BY SampleFlag
  <2>4. y.published = FALSE
    BY SampleFlag
  <2>5. x.lessons = {SampleLesson(1, 1), SampleLesson(1, 2)} /\ x.welcome = NoImage
    BY SampleLessons, SampleWelcome
  <2> QED
    BY <2>1, <2>2, <2>3, <2>4, <2>5
<1>3. ~collectDraftPublishIssues(x, {}, NoImage, FALSE) /\ Cardinality(x.lessons) = 2
  BY SampleIsValid
<1> HIDE DEF x, y
<1>4. Published = {1} /\ Drafts = DOMAIN versions \ {1}
  BY <1>1, <1>2 DEF Published, Drafts
<1>5. \A d \in Drafts : d = 2 /\ versions[d].number = 2
  BY <1>1, <1>2, <1>4
<1>6. DraftShaped
  <2>1. IsCourseRow(course) /\ course.published \in BOOLEAN
    BY <1>1, CoursesBegin
  <2>2. \A v \in DOMAIN versions :
          /\ IsVersionRow(versions[v])
          /\ versions[v].number \in Nat \ {0} /\ versions[v].published \in BOOLEAN
    <3> SUFFICES ASSUME NEW v \in DOMAIN versions
                 PROVE  /\ IsVersionRow(versions[v]) /\ versions[v].number \in Nat \ {0}
                        /\ versions[v].published \in BOOLEAN
      OBVIOUS
    <3>1. CASE v = 1
      <4>1. versions[v] = x
        BY <1>1, <3>1
      <4>2. IsVersionRow(versions[v]) /\ versions[v].number \in Nat \ {0}
        BY <1>2, <4>1
      <4>3. versions[v].published = TRUE
        BY <1>2, <4>1
      <4> QED
        BY <4>2, <4>3
    <3>2. CASE v = 2
      <4>1. versions[v] = y
        BY <1>1, <3>2
      <4>2. IsVersionRow(versions[v]) /\ versions[v].number \in Nat \ {0}
        BY <1>2, <4>1
      <4>3. versions[v].published = FALSE
        BY <1>2, <4>1
      <4> QED
        BY <4>2, <4>3
    <3> QED
      BY <1>1, <3>1, <3>2
  <2> QED
    BY <1>1, <2>1, <2>2, RequestsBegin DEF DraftShaped
<1>7. NumbersInOrder
  BY <1>1, <1>2, <1>4, <1>5 DEF NumbersInOrder
<1>8. course.cover = NoImage /\ course.published /\ course.lessonCount = 2
  BY <1>1, CoursesBegin
<1>9. Highest(Published) = 1
  BY <1>4 DEF Highest
<1>10. \A l \in x.lessons : l.body \notin Images
  BY <1>2, DraftAssumption DEF SampleLesson
<1>11. PublishedIsValid
  BY <1>1, <1>2, <1>3, <1>4, <1>8, <1>9, <1>10, RequestsBegin DEF PublishedIsValid
<1> QED
  BY <1>4, <1>6, <1>7, <1>8, <1>11, RequestsStandAtFirst DEF DraftInv

LEMMA InitHolds ==
  ASSUME DraftInit
  PROVE  DraftInv
  BY BeginsSomehow, InitAsDraft, InitPublished

-----------------------------------------------------------------------------
(* Every step keeps the invariant *)

LEMMA PublishedCourseRow ==
  ASSUME DraftShaped, NEW d
  PROVE  /\ IsCourseRow(PublishedCourse(d)) /\ PublishedCourse(d).published = TRUE
         /\ PublishedCourse(d).cover = course.cover
         /\ PublishedCourse(d).lessonCount = Cardinality(versions[d].lessons)
<1> DEFINE n == Cardinality(versions[d].lessons)
           fs == course.meta \cup versions[d].meta
           a == [course EXCEPT !.published = TRUE]
           b == [a EXCEPT !.lessonCount = n]
           c == [b EXCEPT !.meta = fs]
<1>1. IsCourseRow(course)
  BY DEF DraftShaped
<1>2. IsCourseRow(a) /\ a.published = TRUE /\ a.cover = course.cover
  BY <1>1, CourseColumn
<1>3. PublishedCourse(d) = c
  BY DEF PublishedCourse
<1> HIDE DEF a, n, fs
<1>4. IsCourseRow(b) /\ b.published = a.published /\ b.cover = a.cover /\ b.lessonCount = n
  <2>1. IsCourseRow(b) /\ b.published = a.published /\ b.cover = a.cover
    BY <1>2, CourseColumn
  <2>2. b.lessonCount = n
    BY <1>2 DEF IsCourseRow
  <2> QED
    BY <2>1, <2>2
<1> HIDE DEF b
<1>5. /\ IsCourseRow(c) /\ c.published = b.published /\ c.cover = b.cover
      /\ c.lessonCount = b.lessonCount
  BY <1>4, CourseColumn
<1> HIDE DEF c
<1> QED
  BY <1>2, <1>3, <1>4, <1>5 DEF n

\* The Course row stays a row, and its cover is an asset's.
LEMMA CourseKept ==
  ASSUME DraftShaped, ReadsStand, ObjectsAreStored, NEW r \in Requests,
         Send(r) \/ Call(r) \/ Proceeds(r)
  PROVE  /\ IsCourseRow(course') /\ course'.published \in BOOLEAN
         /\ course' = course \/ course'.cover \in assets \cup {NoImage}
<1>1. IsCourseRow(course) /\ course.published \in BOOLEAN
  BY DEF DraftShaped
<1>2. CASE course' = course
  BY <1>1, <1>2
<1>3. CASE Publish(r) /\ course' # course
  <2> DEFINE d == doing[r].version
  <2>1. course' = PublishedCourse(d)
    BY <1>3, PublishStep DEF DraftPublished, Rows
  <2>2. IsCourseRow(course') /\ course'.cover = course.cover
    BY <2>1, PublishedCourseRow
  <2>3. course'.published = TRUE
    BY <2>1, PublishedCourseRow
  <2>4. course.cover \in assets \cup {NoImage}
    BY DEF ObjectsAreStored
  <2> QED
    BY <2>2, <2>3, <2>4
<1>4. CASE setCourseCover(r)
  <2>1. IsCourseRow(course') /\ course'.cover = doing[r].cover
        /\ course'.published = course.published
    BY <1>4, CoverStep DEF VersionsStay
  <2>2. doing[r].cover \in assets
    BY <1>4 DEF setCourseCover, Stands, ObjectsAreStored, ObjectStands
  <2> QED
    BY <1>1, <2>1, <2>2
<1>5. CASE Send(r) \/ Call(r)
  <2>1. course' = course
    BY <1>5 DEF Send, Call, Rows
  <2> QED
    BY <1>2, <2>1
<1>6. CASE Commit(r)
  <2>1. course' = course
    BY <1>6, CommitEdits DEF DraftEdited, Rows
  <2> QED
    BY <1>2, <2>1
<1>7. CASE Proceeds(r) /\ ~Publish(r) /\ ~setCourseCover(r) /\ ~Commit(r)
  <2>1. course' = course
    BY <1>7 DEF Proceeds, requireDraftRef, ReadAssets, FindExisting, FindSource,
       CopyVersion,
        FindWinner, DiscardAllowed, DiscardRef, discardDraft, FindLatest, ReadDraft,
        requirePublishedCourseWithLatestVersion, getLesson, PutBlob, CreateAsset,
        CreateAssetFails, Rows
  <2> QED
    BY <1>2, <2>1
<1> QED
  BY <1>2, <1>3, <1>4, <1>5, <1>6, <1>7

LEMMA StepStands ==
  ASSUME DraftShaped, NumbersInOrder, ReadsStand, ObjectsAreStored,
         course.published => Published # {},
         NEW r \in Requests, Send(r) \/ Call(r) \/ Proceeds(r)
  PROVE  Alone(r) /\ ReadStands(r)' /\ ObjectsAreStored'
<1>1. CASE PutBlob(r)
  BY <1>1, PutObjects
<1>2. CASE CreateAsset(r)
  BY <1>2, RowObjects
<1>3. CASE CreateAssetFails(r)
  BY <1>3, RolledBackObjects
<1>4. CASE ~PutBlob(r) /\ ~CreateAsset(r) /\ ~CreateAssetFails(r)
  <2>1. Settled(r)
    BY <1>4, SendSettles, CallSettles, ProceedingSettles DEF Proceeds
  <2>2. UNCHANGED <<assets, blobs>>
    <3>1. CASE Commit(r)
      BY <3>1, CommitEdits DEF DraftEdited, Rows
    <3>2. CASE ~Commit(r)
      BY <1>4, <3>2 DEF Send, Call, Proceeds, requireDraftRef, ReadAssets, FindExisting,
          FindSource, CopyVersion, FindWinner, DiscardAllowed, DiscardRef, discardDraft,
          FindLatest, ReadDraft, Publish, setCourseCover,
          requirePublishedCourseWithLatestVersion, getLesson, Rows
    <3> QED
      BY <3>1, <3>2
  <2>3. course'.cover \in assets \cup {NoImage}
    BY CourseKept DEF ObjectsAreStored
  <2>4. ObjectsAreStored'
    BY <2>1, <2>2, <2>3, SettledObjects
  <2> QED
    BY <2>1, <2>4 DEF Settled
<1> QED
  BY <1>1, <1>2, <1>3, <1>4

\* The rows of the versions, whatever the step.
LEMMA VersionsKept ==
  ASSUME DraftShaped, NumbersInOrder, ReadsStand, [DraftNext]_draftVars
  PROVE  /\ made' \in Nat /\ DOMAIN versions' \subseteq 1 .. made'
         /\ versions' = [v \in DOMAIN versions' |-> versions'[v]]
         /\ \A v \in DOMAIN versions' :
               /\ IsVersionRow(versions'[v])
               /\ versions'[v].number \in Nat \ {0} /\ versions'[v].published \in BOOLEAN
<1>0. /\ made \in Nat /\ DOMAIN versions \subseteq 1 .. made
      /\ versions = [v \in DOMAIN versions |-> versions[v]]
      /\ \A v \in DOMAIN versions :
            /\ IsVersionRow(versions[v])
            /\ versions[v].number \in Nat \ {0} /\ versions[v].published \in BOOLEAN
  BY DEF DraftShaped
<1>1. CASE DraftEdited
  <2>1. PICK d \in Drafts :
          /\ DOMAIN versions' = DOMAIN versions
          /\ versions' = [w \in DOMAIN versions |-> versions'[w]]
          /\ \A w \in DOMAIN versions \ {d} : versions'[w] = versions[w]
          /\ IsVersionRow(versions'[d]) /\ versions'[d].number = versions[d].number
          /\ versions'[d].published = FALSE
    BY <1>1, EditedRows
  <2>2. d \in DOMAIN versions
    BY DEF Drafts
  <2>3. made' = made
    BY <1>1 DEF DraftEdited
  <2>4. versions'[d].published \in BOOLEAN
    BY <2>1
  <2> QED
    BY <1>0, <2>1, <2>2, <2>3, <2>4
<1>2. CASE DraftMade
  <2> DEFINE n == made + 1
  <2>1. PICK s \in Published :
          /\ DOMAIN versions' = DOMAIN versions \cup {n}
          /\ versions' = [w \in DOMAIN versions' |-> versions'[w]]
          /\ \A w \in DOMAIN versions : versions'[w] = versions[w]
          /\ versions'[n] = CopyOf(s, n)
    BY <1>2, MadeRows
  <2>2. made' = made + 1
    BY <1>2 DEF DraftMade
  <2>3. IsVersionRow(versions'[n]) /\ versions'[n].number = versions[s].number + 1
    BY <2>1, CopyIsARow DEF DraftNumber
  <2>4. versions'[n].published \in BOOLEAN
    <3>1. CopyOf(s, n).published = FALSE
      BY CopyIsARow
    <3> HIDE DEF n
    <3> QED
      BY <2>1, <3>1
  <2>5. s \in DOMAIN versions
    BY DEF Published
  <2>6. made' \in Nat /\ DOMAIN versions' \subseteq 1 .. made'
    BY <1>0, <2>1, <2>2
  <2> HIDE DEF n
  <2>7. versions'[n].number \in Nat \ {0}
    BY <1>0, <2>3, <2>5
  <2> QED
    BY <1>0, <2>1, <2>3, <2>4, <2>6, <2>7
<1>3. CASE DraftDiscarded
  <2>1. PICK d \in Drafts :
          /\ DOMAIN versions' = DOMAIN versions \ {d}
          /\ versions' = [w \in DOMAIN versions' |-> versions'[w]]
          /\ \A w \in DOMAIN versions' : versions'[w] = versions[w]
    BY <1>3, DiscardedRows
  <2>2. made' = made
    BY <1>3 DEF DraftDiscarded
  <2> QED
    BY <1>0, <2>1, <2>2
<1>4. ASSUME NEW r \in Requests, DraftPublished(r)
      PROVE  /\ made' \in Nat /\ DOMAIN versions' \subseteq 1 .. made'
             /\ versions' = [v \in DOMAIN versions' |-> versions'[v]]
             /\ \A v \in DOMAIN versions' :
                   /\ IsVersionRow(versions'[v])
                   /\ versions'[v].number \in Nat \ {0} /\ versions'[v].published \in BOOLEAN
  <2>1. PICK d \in Drafts :
          /\ DOMAIN versions' = DOMAIN versions
          /\ versions' = [w \in DOMAIN versions |-> versions'[w]]
          /\ \A w \in DOMAIN versions \ {d} : versions'[w] = versions[w]
          /\ IsVersionRow(versions'[d]) /\ versions'[d].number = versions[d].number
          /\ versions'[d].published = TRUE
    BY <1>4, PublishedRows
  <2>2. d \in DOMAIN versions
    BY DEF Drafts
  <2>3. made' = made
    BY <1>4 DEF DraftPublished
  <2>4. versions'[d].published \in BOOLEAN
    BY <2>1
  <2> QED
    BY <1>0, <2>1, <2>2, <2>3, <2>4
<1>5. CASE VersionsStay
  BY <1>0, <1>5 DEF VersionsStay
<1> QED
  BY <1>1, <1>2, <1>3, <1>4, <1>5, StepCases

LEMMA ShapeKept ==
  ASSUME DraftShaped, NumbersInOrder, ReadsStand, ObjectsAreStored,
         course.published => Published # {}, DraftNext
  PROVE  DraftShaped' /\ ReadsStand' /\ ObjectsAreStored'
<1>1. PICK r \in Requests : Send(r) \/ Call(r) \/ Proceeds(r)
  BY DEF DraftNext
<1>2. Alone(r) /\ ReadStands(r)' /\ ObjectsAreStored'
  BY <1>1, StepStands
<1>3. \A q \in Requests : q # r => ReadStands(q)'
  BY <1>2, OthersStand
<1>4. ReadsStand'
  BY <1>2, <1>3 DEF ReadsStand
<1>5. IsCourseRow(course') /\ course'.published \in BOOLEAN
  BY <1>1, CourseKept
<1>6. /\ made' \in Nat /\ DOMAIN versions' \subseteq 1 .. made'
      /\ versions' = [v \in DOMAIN versions' |-> versions'[v]]
      /\ \A v \in DOMAIN versions' :
            /\ IsVersionRow(versions'[v])
            /\ versions'[v].number \in Nat \ {0} /\ versions'[v].published \in BOOLEAN
  BY VersionsKept
<1>7. DraftShaped'
  BY <1>2, <1>5, <1>6 DEF DraftShaped, Alone
<1> QED
  BY <1>2, <1>4, <1>7

\* More assets and another stored cover leave a valid version valid.
LEMMA MoreAssets ==
  ASSUME NEW version, NEW A, NEW B, A \subseteq B, NEW c, NEW e, e \in B \cup {NoImage}, NEW f,
         ~collectDraftPublishIssues(version, A, c, f)
  PROVE  ~collectDraftPublishIssues(version, B, e, FALSE)
  BY DEF collectDraftPublishIssues, ValidContent

\* The checks look at a version's modules, lessons and welcome image.
LEMMA SameContents ==
  ASSUME NEW x, NEW y, x.modules = y.modules, x.lessons = y.lessons, x.welcome = y.welcome,
         NEW A, NEW c, NEW f, ~collectDraftPublishIssues(x, A, c, f)
  PROVE  ~collectDraftPublishIssues(y, A, c, FALSE)
<1>1. PositionsAreContiguous(x) <=> PositionsAreContiguous(y)
  BY DEF PositionsAreContiguous, LessonsOf
<1> QED
  BY <1>1 DEF collectDraftPublishIssues

ValidVersion(v) == ~collectDraftPublishIssues(versions[v], assets, course.cover, FALSE)

LEMMA AssetsGrow ==
  ASSUME DraftShaped, ReadsStand, [DraftNext]_draftVars
  PROVE  assets \subseteq assets'
<1>1. CASE UNCHANGED draftVars
  BY <1>1 DEF draftVars
<1>2. ASSUME NEW r \in Requests, Commit(r) PROVE assets \subseteq assets'
  BY <1>2, CommitEdits DEF DraftEdited, Rows
<1>3. ASSUME NEW r \in Requests, Send(r) \/ Call(r) \/ Proceeds(r), ~Commit(r)
      PROVE  assets \subseteq assets'
  BY <1>3 DEF Send, Call, Proceeds, requireDraftRef, ReadAssets, FindExisting,
      FindSource, CopyVersion, FindWinner, DiscardAllowed, DiscardRef, discardDraft,
      FindLatest, ReadDraft, Publish, setCourseCover, PutBlob, CreateAsset,
      CreateAssetFails,
      requirePublishedCourseWithLatestVersion, getLesson, Rows
<1> QED
  BY <1>1, <1>2, <1>3 DEF DraftNext

\* All that is published after a step is valid: what was, and what has been
\* checked under the lock with the assets of an earlier moment.
LEMMA ValidityKept ==
  ASSUME DraftShaped, NumbersInOrder, ReadsStand, ObjectsAreStored, ObjectsAreStored',
         \A v \in Published : ValidVersion(v), [DraftNext]_draftVars,
         NEW v \in Published'
  PROVE  ValidVersion(v)'
<1>0. assets \subseteq assets' /\ course'.cover \in assets' \cup {NoImage}
  BY AssetsGrow DEF ObjectsAreStored
<1>1. CASE v \in Published
  <2>1. ~collectDraftPublishIssues(versions[v], assets, course.cover, FALSE)
    BY <1>1 DEF ValidVersion
  <2>2. versions'[v] = versions[v]
    BY <1>1, PublicationsStand
  <2>3. ~collectDraftPublishIssues(versions[v], assets', course'.cover, FALSE)
    BY <1>0, <2>1, MoreAssets
  <2> QED
    BY <2>2, <2>3 DEF ValidVersion
<1>2. CASE v \notin Published
  <2>1. PICK r \in Requests : DraftPublished(r)
    <3>1. CASE DraftEdited
      BY <1>2, <3>1, EditedRows
    <3>2. CASE DraftMade
      BY <1>2, <3>2, MadeRows
    <3>3. CASE DraftDiscarded
      BY <1>2, <3>3, DiscardedRows
    <3>4. CASE VersionsStay
      BY <1>2, <3>4 DEF VersionsStay, Published
    <3> QED
      BY <3>1, <3>2, <3>3, <3>4, StepCases
  <2> DEFINE d == doing[r].version
  <2>2. /\ versions'[d].modules = versions[d].modules
        /\ versions'[d].lessons = versions[d].lessons
        /\ versions'[d].welcome = versions[d].welcome
        /\ Published' = Published \cup {d}
    BY <2>1, PublishedRows
  <2>3. ~collectDraftPublishIssues(versions[d], doing[r].assets, doing[r].cover, doing[r].first)
    BY <2>1 DEF DraftPublished, LockedIssues
  <2>4. doing[r].assets \subseteq assets
    BY <2>1 DEF DraftPublished, ObjectsAreStored, ObjectStands
  <2>5. v = d
    BY <1>2, <2>2
  <2> HIDE DEF d
  <2>6. doing[r].assets \subseteq assets'
    BY <1>0, <2>4
  <2>7. ~collectDraftPublishIssues(versions[d], assets', course'.cover, FALSE)
    BY <1>0, <2>3, <2>6, MoreAssets
  <2>8. ~collectDraftPublishIssues(versions'[d], assets', course'.cover, FALSE)
    BY <2>2, <2>7, SameContents
  <2> QED
    BY <2>5, <2>8 DEF ValidVersion
<1> QED
  BY <1>1, <1>2

CountFits ==
    course.published =>
        course.lessonCount = Cardinality(versions[Highest(Published)].lessons)

\* The Course row counts the lessons of the newest publication.
LEMMA CountKept ==
  ASSUME DraftShaped, NumbersInOrder, ReadsStand, DraftShaped', NumbersInOrder',
         course.published => Published # {}, CountFits, [DraftNext]_draftVars
  PROVE  CountFits' /\ (course'.published => Published' # {})
<1>0. ASSUME Published' = Published, Published # {}
      PROVE  /\ Highest(Published)' = Highest(Published)
             /\ versions'[Highest(Published)] = versions[Highest(Published)]
  <2> DEFINE h == Highest(Published)
             g == Highest(Published)'
  <2>1. h \in Published /\ \A w \in Published : versions[w].number <= versions[h].number
    BY <1>0, NewestPublished
  <2>2. g \in Published' /\ \A w \in Published' : versions'[w].number <= versions'[g].number
    <3>1. Published' # {}
      BY <1>0
    <3>2. PICK v \in Published' :
            \A w \in Published' : versions'[w].number <= versions'[v].number
      BY <3>1 DEF NumbersInOrder
    <3> QED
      BY <3>2 DEF Highest
  <2> HIDE DEF h, g
  <2>3. \A v \in Published : versions'[v] = versions[v] /\ versions[v].number \in Nat
    BY PublicationsStand DEF DraftShaped, Published
  <2>4. versions[g].number = versions[h].number
    BY <1>0, <2>1, <2>2, <2>3
  <2>5. g = h
    BY <1>0, <2>1, <2>2, <2>4 DEF NumbersInOrder
  <2> QED
    BY <2>1, <2>3, <2>5 DEF g, h
<1>1. ASSUME Published' = Published, course'.published = course.published,
             course'.lessonCount = course.lessonCount
      PROVE  CountFits' /\ (course'.published => Published' # {})
  BY <1>0, <1>1 DEF CountFits
<1>2. CASE DraftEdited
  <2>1. Published' = Published /\ course' = course
    BY <1>2, EditedRows DEF DraftEdited
  <2> QED
    BY <1>1, <2>1
<1>3. CASE DraftMade
  <2>1. Published' = Published /\ course' = course
    BY <1>3, MadeRows DEF DraftMade
  <2> QED
    BY <1>1, <2>1
<1>4. CASE DraftDiscarded
  <2>1. Published' = Published /\ course' = course
    BY <1>4, DiscardedRows DEF DraftDiscarded
  <2> QED
    BY <1>1, <2>1
<1>5. CASE VersionsStay
  <2>1. Published' = Published
    BY <1>5 DEF VersionsStay, Published
  <2> QED
    BY <1>1, <1>5, <2>1 DEF VersionsStay
<1>6. ASSUME NEW r \in Requests, DraftPublished(r)
      PROVE  CountFits' /\ (course'.published => Published' # {})
  <2> DEFINE d == doing[r].version
             g == Highest(Published)'
  <2>1. Published' = Published \cup {d} /\ versions'[d].lessons = versions[d].lessons
    BY <1>6, PublishedRows
  <2>2. \A w \in Published' : versions'[w].number <= versions'[d].number
    BY <1>6, PublishedInOrder
  <2>3. g \in Published' /\ \A w \in Published' : versions'[w].number <= versions'[g].number
    BY <2>1, <2>2 DEF Highest
  <2>4. course'.lessonCount = Cardinality(versions[d].lessons)
    BY <1>6, PublishedCourseRow DEF DraftPublished
  <2> HIDE DEF d, g
  <2>5. \A v \in Published' : versions'[v].number \in Nat
    BY DEF DraftShaped, Published
  <2>6. versions'[g].number = versions'[d].number
    BY <2>1, <2>2, <2>3, <2>5
  <2>7. g = d
    BY <2>1, <2>3, <2>6 DEF NumbersInOrder
  <2>8. CountFits'
    BY <2>1, <2>4, <2>7 DEF CountFits, g
  <2> QED
    BY <2>1, <2>8
<1> QED
  BY <1>2, <1>3, <1>4, <1>5, <1>6, StepCases

LEMMA InvariantKept ==
  ASSUME DraftInv, [DraftNext]_draftVars
  PROVE  DraftInv'
<1>1. CASE UNCHANGED draftVars
  <2> USE <1>1 DEF draftVars
  <2>1. DraftShaped' /\ Published' = Published /\ Drafts' = Drafts
    BY DEF DraftInv, DraftShaped, Published, Drafts
  <2>2. NumbersInOrder'
    BY <2>1 DEF DraftInv, NumbersInOrder
  <2>3. ReadsStand'
    BY <2>1 DEF DraftInv, ReadsStand, ReadStands
  <2>4. ObjectsAreStored'
    BY DEF DraftInv, ObjectsAreStored, ObjectStands, Uploading
  <2>5. Highest(Published)' = Highest(Published)
    BY <2>1 DEF Highest
  <2>6. PublishedIsValid'
    BY <2>1, <2>5 DEF DraftInv, PublishedIsValid
  <2> QED
    BY <2>1, <2>2, <2>3, <2>4, <2>6 DEF DraftInv
<1>2. CASE DraftNext
  <2>1. /\ DraftShaped /\ NumbersInOrder /\ ReadsStand /\ ObjectsAreStored
        /\ course.published => Published # {}
        /\ PublishedIsValid
    BY DEF DraftInv
  <2>2. (\A v \in Published : ValidVersion(v)) /\ CountFits
    BY <2>1 DEF PublishedIsValid, ValidVersion, CountFits
  <2>3. DraftShaped' /\ ReadsStand' /\ ObjectsAreStored'
    BY <1>2, <2>1, ShapeKept
  <2>4. NumbersInOrder'
    BY <2>1, OrderKept
  <2>5. CountFits' /\ (course'.published => Published' # {})
    BY <2>1, <2>2, <2>3, <2>4, CountKept
  <2>6. \A v \in Published' : ValidVersion(v)'
    BY <2>1, <2>2, <2>3, ValidityKept
  <2>7. PublishedIsValid'
    BY <2>3, <2>5, <2>6 DEF PublishedIsValid, ValidVersion, CountFits, ObjectsAreStored,
        collectDraftPublishIssues, ValidContent
  <2> QED
    BY <2>3, <2>4, <2>5, <2>7 DEF DraftInv
<1> QED
  BY <1>1, <1>2

\* A version that was not there is a draft that createDraft() made.
LEMMA VersionMade ==
  ASSUME DraftShaped, ReadsStand, [DraftNext]_draftVars,
         NEW v \in DOMAIN versions' \ DOMAIN versions
  PROVE  DraftMade
<1>1. ~DraftEdited
  BY EditedRows
<1>2. ~DraftDiscarded
  BY DiscardedRows
<1>3. \A r \in Requests : ~DraftPublished(r)
  BY PublishedRows
<1>4. ~VersionsStay
  BY DEF VersionsStay
<1> QED
  BY <1>1, <1>2, <1>3, <1>4, StepCases

-----------------------------------------------------------------------------
(* What a command leaves of its draft's rows *)

LEMMA SameRows ==
  ASSUME NEW t, NEW u, t.modules = u.modules, t.lessons = u.lessons
  PROVE  /\ Sound(t) => Sound(u)
         /\ PositionsAreContiguous(t) <=> PositionsAreContiguous(u)
         /\ \A v, n, C, B : Within(t, v, n, C, B) => Within(u, v, n, C, B)
<1>1. \A x : LessonsOf(t, x) = LessonsOf(u, x)
  BY DEF LessonsOf
<1> QED
  BY <1>1 DEF Sound, PositionsAreContiguous, Within

\* Rows that keep their ids and positions.
LEMMA RanksKept ==
  ASSUME NEW rows, NEW new, IsFiniteSet(rows), KeyedById(rows), KeyedById(new),
         \A r \in rows : \E s \in new : s.id = r.id /\ s.position = r.position,
         \A s \in new : \E r \in rows : s.id = r.id /\ s.position = r.position
  PROVE  IsFiniteSet(new) /\ (Contiguous(rows) => Contiguous(new))
<1>1. IsFiniteSet(new) /\ Cardinality(new) = Cardinality(rows)
  BY SameIds
<1>2. {r.position : r \in rows} = {s.position : s \in new}
  OBVIOUS
<1> QED
  BY <1>1, <1>2 DEF Contiguous

\* One module has another title.
LEMMA ModuleTitled ==
  ASSUME NEW t, Sound(t), NEW v, NEW n, NEW C, NEW B, Within(t, v, n, C, B),
         NEW m \in t.modules, NEW k, IsModule(k), k.id = m.id, k.position = m.position,
         NEW u, u.lessons = t.lessons, u.modules = (t.modules \ {m}) \cup {k}
  PROVE  /\ Sound(u) /\ Within(u, v, n, C, B)
         /\ PositionsAreContiguous(t) => PositionsAreContiguous(u)
<1>4. AreModules(u.modules)
  BY DEF Sound, AreModules, KeyedById
<1>5. /\ \A r \in t.modules : \E s \in u.modules : s.id = r.id /\ s.position = r.position
      /\ \A s \in u.modules : \E r \in t.modules : s.id = r.id /\ s.position = r.position
  OBVIOUS
<1>6. IsFiniteSet(u.modules) /\ (Contiguous(t.modules) => Contiguous(u.modules))
  <2>1. IsFiniteSet(t.modules) /\ KeyedById(t.modules) /\ KeyedById(u.modules)
    BY <1>4 DEF Sound, AreModules
  <2> QED
    BY <1>5, <2>1, RanksKept
<1>7. ModulesFit(u.modules)
  BY DEF Sound, ModulesFit
<1>8. Sound(u)
  <2>1. \A l \in u.lessons : \E s \in u.modules : l.module = s.id
    BY <1>5 DEF Sound
  <2> QED
    BY <1>4, <1>6, <1>7, <2>1 DEF Sound
<1>9. Within(u, v, n, C, B)
  BY <1>5 DEF Within
<1>10. PositionsAreContiguous(t) => PositionsAreContiguous(u)
  BY <1>5, <1>6 DEF PositionsAreContiguous, LessonsOf
<1> QED
  BY <1>8, <1>9, <1>10

\* One lesson has another content or another assessment.
LEMMA LessonRewritten ==
  ASSUME NEW t, Sound(t), NEW v, NEW n, NEW C, NEW B, Within(t, v, n, C, B),
         NEW l \in t.lessons, NEW k, IsLesson(k), k.id = l.id, k.module = l.module,
         k.contentId = l.contentId, k.position = l.position, k.body \in B,
         NEW u, u.modules = t.modules, u.lessons = (t.lessons \ {l}) \cup {k}
  PROVE  /\ Sound(u) /\ Within(u, v, n, C, B)
         /\ PositionsAreContiguous(t) => PositionsAreContiguous(u)
<1>1. AreLessons(u.lessons)
  BY DEF Sound, AreLessons, KeyedById
<1>2. /\ \A r \in t.lessons : \E s \in u.lessons :
            s.id = r.id /\ s.position = r.position /\ s.module = r.module
      /\ \A s \in u.lessons : \E r \in t.lessons :
            s.id = r.id /\ s.position = r.position /\ s.module = r.module
  OBVIOUS
<1>3. /\ IsFiniteSet(t.lessons) /\ KeyedById(t.lessons) /\ KeyedById(u.lessons)
  BY <1>1 DEF Sound, AreLessons
<1>4. IsFiniteSet(u.lessons)
  BY <1>2, <1>3, RanksKept
<1>5. LessonsFit(u.lessons)
  BY DEF Sound, LessonsFit
<1>6. Sound(u)
  <2>1. \A s \in u.lessons : \E m \in u.modules : s.module = m.id
    BY <1>2 DEF Sound
  <2> QED
    BY <1>1, <1>4, <1>5, <2>1 DEF Sound
<1>7. Within(u, v, n, C, B)
  BY DEF Within
<1>8. ASSUME NEW x, Contiguous(LessonsOf(t, x)) PROVE Contiguous(LessonsOf(u, x))
  <2> DEFINE S == LessonsOf(t, x)
             T == LessonsOf(u, x)
  <2>1. IsFiniteSet(S)
    BY <1>3, FS_Subset DEF LessonsOf
  <2>2. KeyedById(S) /\ KeyedById(T)
    BY <1>3 DEF LessonsOf, KeyedById
  <2>3. /\ \A r \in S : \E s \in T : s.id = r.id /\ s.position = r.position
        /\ \A s \in T : \E r \in S : s.id = r.id /\ s.position = r.position
    BY <1>2 DEF LessonsOf
  <2>4. Contiguous(S)
    BY <1>8
  <2> HIDE DEF S, T
  <2>5. Contiguous(T)
    BY <2>1, <2>2, <2>3, <2>4, RanksKept
  <2> QED
    BY <2>5 DEF T
<1>9. PositionsAreContiguous(t) => PositionsAreContiguous(u)
  BY <1>8 DEF PositionsAreContiguous
<1> QED
  BY <1>6, <1>7, <1>9

\* A version's row, by the columns a command may write.
Row(x, M, L, n, f, w) ==
    [number |-> x.number, published |-> x.published, meta |-> f, welcome |-> w,
     modules |-> M, lessons |-> L, serial |-> n]

LEMMA RowSet ==
  ASSUME NEW x, IsVersionRow(x), NEW M, NEW L, NEW z
  PROVE  /\ [x EXCEPT !.modules = M] = Row(x, M, x.lessons, x.serial, x.meta, x.welcome)
         /\ [x EXCEPT !.lessons = L] = Row(x, x.modules, L, x.serial, x.meta, x.welcome)
         /\ [x EXCEPT !.modules = M, !.lessons = L] =
              Row(x, M, L, x.serial, x.meta, x.welcome)
         /\ [x EXCEPT !.meta = z] = Row(x, x.modules, x.lessons, x.serial, z, x.welcome)
         /\ [x EXCEPT !.welcome = z] = Row(x, x.modules, x.lessons, x.serial, x.meta, z)
<1> DEFINE a == [x EXCEPT !.modules = M]
           b == [a EXCEPT !.lessons = L]
<1>1. /\ a = Row(x, M, x.lessons, x.serial, x.meta, x.welcome)
      /\ [x EXCEPT !.lessons = L] = Row(x, x.modules, L, x.serial, x.meta, x.welcome)
  BY DEF IsVersionRow, Row
<1>2. /\ [x EXCEPT !.meta = z] = Row(x, x.modules, x.lessons, x.serial, z, x.welcome)
      /\ [x EXCEPT !.welcome = z] = Row(x, x.modules, x.lessons, x.serial, x.meta, z)
  BY DEF IsVersionRow, Row
<1>3. b = [x EXCEPT !.modules = M, !.lessons = L]
  OBVIOUS
<1> HIDE DEF a
<1>4. b = Row(x, M, L, x.serial, x.meta, x.welcome)
  BY <1>1 DEF Row
<1> QED
  BY <1>1, <1>2, <1>3, <1>4 DEF a

LEMMA RowGains ==
  ASSUME NEW x, IsVersionRow(x), NEW M, NEW L, NEW n
  PROVE  [x EXCEPT !.modules = M, !.lessons = L, !.serial = n] =
           Row(x, M, L, n, x.meta, x.welcome)
<1> DEFINE b == [x EXCEPT !.modules = M, !.lessons = L]
<1>1. b = Row(x, M, L, x.serial, x.meta, x.welcome)
  BY RowSet
<1>2. [x EXCEPT !.modules = M, !.lessons = L, !.serial = n] = [b EXCEPT !.serial = n]
  OBVIOUS
<1> HIDE DEF b
<1> QED
  BY <1>1, <1>2 DEF Row

LEMMA RowColumns ==
  ASSUME NEW x, NEW v, NEW n \in Nat, NEW f \in SUBSET Fields, NEW w \in Images \cup {NoImage},
         NEW t, Sound(t), Within(t, v, n, ContentIds, Bodies)
  PROVE  LET y == Row(x, t.modules, t.lessons, n, f, w) IN
         /\ Columns(v, y) /\ y.serial = n
         /\ PositionsAreContiguous(t) <=> PositionsAreContiguous(y)
<1> DEFINE y == Row(x, t.modules, t.lessons, n, f, w)
<1>1. y.modules = t.modules /\ y.lessons = t.lessons /\ y.serial = n /\ y.meta = f /\ y.welcome = w
  BY DEF Row
<1> HIDE DEF y
<1>2. Sound(y) /\ Within(y, v, n, ContentIds, Bodies)
      /\ (PositionsAreContiguous(t) <=> PositionsAreContiguous(y))
  BY <1>1, SameRows
<1> QED
  BY <1>1, <1>2 DEF Columns, y

\* The statements went through, and the version is as it should be again.
Leaves(o, v) ==
    /\ o.ok = TRUE
    /\ \E x : /\ o.versions = [versions EXCEPT ![v] = x]
              /\ Columns(v, x) /\ x.serial \in {versions[v].serial, versions[v].serial + 1}
              /\ PositionsAreContiguous(versions[v]) => PositionsAreContiguous(x)

LEMMA OutcomeLeaves ==
  ASSUME NEW v, NEW ok, ok = TRUE, NEW x, Columns(v, x),
         x.serial \in {versions[v].serial, versions[v].serial + 1},
         PositionsAreContiguous(versions[v]) => PositionsAreContiguous(x)
  PROVE  Leaves(Outcome(v, x, ok), v)
<1> DEFINE o == Outcome(v, x, ok)
<1>1. o.versions = [versions EXCEPT ![v] = x] /\ o.ok = ok
  BY DEF Outcome
<1>2. o.ok = TRUE
  <2> HIDE DEF o
  <2> QED
    BY <1>1, Zenon
<1> HIDE DEF o
<1> QED
  BY <1>1, <1>2 DEF Leaves, o

\* The rows a command leaves: as many as before, or one more.
LEMMA BecomesLeaves ==
  ASSUME NEW v, IsVersionRow(versions[v]), Columns(v, versions[v]), NEW t,
         GoesThrough(t, v, versions[v].serial, ContentIds, Bodies),
         PositionsAreContiguous(versions[v]) => PositionsAreContiguous(t)
  PROVE  Leaves(Becomes(v, t), v)
<1> DEFINE x == versions[v]
           y == Row(x, t.modules, t.lessons, x.serial, x.meta, x.welcome)
<1>1. Becomes(v, t) = Outcome(v, y, t.ok)
  <2>1. [x EXCEPT !.modules = t.modules, !.lessons = t.lessons] = y
    BY RowSet
  <2> HIDE DEF y
  <2> QED
    BY <2>1 DEF Becomes
<1>2. /\ x.serial \in Nat /\ x.meta \in SUBSET Fields /\ x.welcome \in Images \cup {NoImage}
      /\ Sound(t) /\ Within(t, v, x.serial, ContentIds, Bodies) /\ t.ok = TRUE
  BY DEF Columns, GoesThrough
<1>3. /\ Columns(v, y) /\ y.serial = x.serial
      /\ PositionsAreContiguous(t) <=> PositionsAreContiguous(y)
  <2> HIDE DEF x
  <2> QED
    BY <1>2, RowColumns
<1> HIDE DEF y
<1> QED
  BY <1>1, <1>2, <1>3, OutcomeLeaves

LEMMA GainsLeaves ==
  ASSUME NEW v, IsVersionRow(versions[v]), Columns(v, versions[v]), NEW t,
         GoesThrough(t, v, versions[v].serial + 1, ContentIds, Bodies),
         PositionsAreContiguous(versions[v]) => PositionsAreContiguous(t)
  PROVE  Leaves(Gains(v, t), v)
<1> DEFINE x == versions[v]
           n == x.serial + 1
           y == Row(x, t.modules, t.lessons, n, x.meta, x.welcome)
<1>1. Gains(v, t) = Outcome(v, y, t.ok)
  <2>1. [x EXCEPT !.modules = t.modules, !.lessons = t.lessons, !.serial = n] = y
    <3> HIDE DEF n
    <3> QED
      BY RowGains
  <2>2. [x EXCEPT !.modules = t.modules, !.lessons = t.lessons, !.serial = n] =
          [x EXCEPT !.modules = t.modules, !.lessons = t.lessons, !.serial = @ + 1]
    OBVIOUS
  <2> HIDE DEF y, n
  <2> QED
    BY <2>1, <2>2 DEF Gains
<1>2. /\ n \in Nat /\ x.meta \in SUBSET Fields /\ x.welcome \in Images \cup {NoImage}
      /\ Sound(t) /\ Within(t, v, n, ContentIds, Bodies) /\ t.ok = TRUE
  BY DEF Columns, GoesThrough
<1>3. /\ Columns(v, y) /\ y.serial = n
      /\ PositionsAreContiguous(t) <=> PositionsAreContiguous(y)
  <2> HIDE DEF x, n
  <2> QED
    BY <1>2, RowColumns
<1> HIDE DEF y
<1> QED
  BY <1>1, <1>2, <1>3, OutcomeLeaves

\* Other columns.
LEMMA FieldsLeave ==
  ASSUME NEW v, IsVersionRow(versions[v]), Columns(v, versions[v]),
         NEW f \in SUBSET Fields, NEW w \in Images \cup {NoImage}
  PROVE  /\ Leaves(Outcome(v, [versions[v] EXCEPT !.meta = f], TRUE), v)
         /\ Leaves(Outcome(v, [versions[v] EXCEPT !.welcome = w], TRUE), v)
<1> DEFINE x == versions[v]
<1>1. /\ [x EXCEPT !.meta = f] = Row(x, x.modules, x.lessons, x.serial, f, x.welcome)
      /\ [x EXCEPT !.welcome = w] = Row(x, x.modules, x.lessons, x.serial, x.meta, w)
  BY RowSet
<1>2. /\ x.serial \in Nat /\ x.meta \in SUBSET Fields /\ x.welcome \in Images \cup {NoImage}
      /\ Sound(x) /\ Within(x, v, x.serial, ContentIds, Bodies)
  BY DEF Columns
<1>3. ASSUME NEW g \in SUBSET Fields, NEW i \in Images \cup {NoImage}
      PROVE  Leaves(Outcome(v, Row(x, x.modules, x.lessons, x.serial, g, i), TRUE), v)
  <2> DEFINE y == Row(x, x.modules, x.lessons, x.serial, g, i)
  <2>1. /\ Columns(v, y) /\ y.serial = x.serial
        /\ PositionsAreContiguous(x) <=> PositionsAreContiguous(y)
    BY <1>2, RowColumns
  <2> HIDE DEF y
  <2>2. Leaves(Outcome(v, y, TRUE), v)
    BY <2>1, OutcomeLeaves
  <2> QED
    BY <2>2 DEF y
<1> QED
  BY <1>1, <1>2, <1>3

LEMMA TransactionIs ==
  ASSUME NEW v, NEW x, Columns(v, x)
  PROVE  LET t == Transaction(x) IN
         /\ IsTransaction(t) /\ t.modules = x.modules /\ t.lessons = x.lessons
         /\ Sound(t) /\ Within(t, v, x.serial, ContentIds, Bodies)
         /\ PositionsAreContiguous(t) <=> PositionsAreContiguous(x)
<1> DEFINE t == Transaction(x)
<1>1. IsTransaction(t) /\ t.modules = x.modules /\ t.lessons = x.lessons
  BY DEF Transaction, IsTransaction
<1> HIDE DEF t
<1> QED
  BY <1>1, SameRows DEF Columns, t

\* A lesson's content or assessment is another.
LEMMA LessonLeaves ==
  ASSUME NEW v, IsVersionRow(versions[v]), Columns(v, versions[v]),
         NEW l \in versions[v].lessons, NEW k, IsLesson(k), k.id = l.id, k.module = l.module,
         k.contentId = l.contentId, k.position = l.position, k.body \in Bodies
  PROVE  Leaves(LessonBecomes(v, l, k), v)
<1> DEFINE x == versions[v]
           L == (x.lessons \ {l}) \cup {k}
           u == [modules |-> x.modules, lessons |-> L]
           y == Row(x, x.modules, L, x.serial, x.meta, x.welcome)
<1>1. LessonBecomes(v, l, k) = Outcome(v, y, TRUE)
  <2>1. [x EXCEPT !.lessons = L] = y
    <3> HIDE DEF L
    <3> QED
      BY RowSet
  <2> HIDE DEF y
  <2> QED
    BY <2>1 DEF LessonBecomes
<1>2. /\ Sound(u) /\ Within(u, v, x.serial, ContentIds, Bodies)
      /\ PositionsAreContiguous(x) => PositionsAreContiguous(u)
  <2>1. u.modules = x.modules /\ u.lessons = L
    OBVIOUS
  <2> HIDE DEF u
  <2> QED
    BY <2>1, LessonRewritten DEF Columns
<1>3. u.modules = x.modules /\ u.lessons = L
  OBVIOUS
<1> HIDE DEF u, L
<1>4. /\ Columns(v, y) /\ y.serial = x.serial
      /\ PositionsAreContiguous(u) <=> PositionsAreContiguous(y)
  <2>1. /\ x.serial \in Nat /\ x.meta \in SUBSET Fields /\ x.welcome \in Images \cup {NoImage}
    BY DEF Columns
  <2> HIDE DEF x
  <2>2. LET z == Row(x, u.modules, u.lessons, x.serial, x.meta, x.welcome) IN
        /\ Columns(v, z) /\ z.serial = x.serial
        /\ PositionsAreContiguous(u) <=> PositionsAreContiguous(z)
    BY <1>2, <2>1, RowColumns
  <2> QED
    BY <1>3, <2>2
<1> HIDE DEF y
<1> QED
  BY <1>1, <1>2, <1>4, OutcomeLeaves

\* Whatever the command, in whatever draft: no statement of it collides, and
\* it leaves the rows as they should be, without a gap where there was none.
LEMMA CommandLeaves ==
  ASSUME NEW v, v \in Nat, IsVersionRow(versions[v]), Columns(v, versions[v]),
         versions[v].serial + 1 <= POSITION_OFFSET,
         NEW c, c.op \in CommandNames, IsCommand(c), NEW o \in Outcomes(v, c)
  PROVE  Leaves(o, v)
<1> DEFINE x == versions[v]
           n == x.serial
           t == Transaction(x)
<1>0. Scope(v) = {v}
  BY DEF Scope
<1>t. /\ IsTransaction(t) /\ t.modules = x.modules /\ t.lessons = x.lessons /\ n \in Nat
      /\ Sound(t) /\ Within(t, v, n, ContentIds, Bodies)
      /\ PositionsAreContiguous(t) <=> PositionsAreContiguous(x)
  <2>1. Columns(v, x) /\ n \in Nat
    BY DEF Columns
  <2> HIDE DEF x
  <2> QED
    BY <2>1, TransactionIs
<1>f. /\ x.meta \in SUBSET Fields /\ x.welcome \in Images \cup {NoImage}
      /\ n + 1 <= POSITION_OFFSET
  BY DEF Columns
<1>l. \A l \in x.lessons : IsLesson(l) /\ l.body \in Bodies
  BY DEF Columns, Sound, AreLessons, Within
<1> HIDE DEF t
<1>b. ASSUME NEW u, GoesThrough(u, v, n, ContentIds, Bodies),
             PositionsAreContiguous(t) => PositionsAreContiguous(u)
      PROVE  Leaves(Becomes(v, u), v)
  BY <1>t, <1>b, BecomesLeaves
<1>g. ASSUME NEW u, GoesThrough(u, v, n + 1, ContentIds, Bodies),
             PositionsAreContiguous(t) => PositionsAreContiguous(u)
      PROVE  Leaves(Gains(v, u), v)
  BY <1>t, <1>g, GainsLeaves
<1>i. NewId(v) = <<v, n + 1>>
  BY DEF NewId
<1>1. CASE c.op = "createModule"
  <2> DEFINE u == createModule(t, <<v, n + 1>>, "a")
  <2>1. o = Gains(v, u)
    BY <1>1, <1>i DEF Outcomes, CreateModule, t
  <2>2. /\ GoesThrough(u, v, n + 1, ContentIds, Bodies)
        /\ PositionsAreContiguous(t) => PositionsAreContiguous(u)
    <3> HIDE DEF n
    <3> QED
      BY <1>t, ModuleCreated
  <2> HIDE DEF u
  <2> QED
    BY <1>g, <2>1, <2>2
<1>2. CASE c.op = "updateModule"
  <2>1. o \in UpdateModuleFields(v, c.module)
    BY <1>2 DEF Outcomes
  <2>2. PICK wm \in ModuleRow(v, c.module) :
          o = Outcome(wm[1],
                [versions[wm[1]] EXCEPT
                    !.modules = (@ \ {wm[2]}) \cup {[wm[2] EXCEPT !.title = "b"]}],
                TRUE)
    BY <2>1 DEF UpdateModuleFields
  <2>3. wm[1] = v /\ wm[2] \in x.modules
    BY <1>0, <2>2 DEF ModuleRow
  <2> DEFINE m == wm[2]
             k == [m EXCEPT !.title = "b"]
             M == (x.modules \ {m}) \cup {k}
             u == [modules |-> M, lessons |-> x.lessons]
             y == Row(x, M, x.lessons, n, x.meta, x.welcome)
  <2>4. o = Outcome(v, y, TRUE)
    <3>1. [x EXCEPT !.modules = M] = y
      <4> HIDE DEF M
      <4> QED
        BY RowSet
    <3>2. o = Outcome(v, [x EXCEPT !.modules = M], TRUE)
      BY <2>2, <2>3
    <3> QED
      BY <3>1, <3>2
  <2>5. u.modules = M /\ u.lessons = x.lessons
    OBVIOUS
  <2>6. /\ Sound(u) /\ Within(u, v, n, ContentIds, Bodies)
        /\ PositionsAreContiguous(x) => PositionsAreContiguous(u)
    <3>1. IsModule(m) /\ Sound(x) /\ Within(x, v, n, ContentIds, Bodies)
      BY <2>3 DEF Columns, Sound, AreModules
    <3> HIDE DEF u, m, x, n
    <3>2. IsModule(k) /\ k.id = m.id /\ k.position = m.position
      BY <3>1 DEF IsModule
    <3>3. m \in x.modules
      BY <2>3 DEF m
    <3> HIDE DEF k
    <3> QED
      BY <2>5, <3>1, <3>2, <3>3, ModuleTitled
  <2> HIDE DEF u, M
  <2>7. /\ Columns(v, y) /\ y.serial = n
        /\ PositionsAreContiguous(u) <=> PositionsAreContiguous(y)
    <3> HIDE DEF x, n
    <3>1. LET z == Row(x, u.modules, u.lessons, n, x.meta, x.welcome) IN
          /\ Columns(v, z) /\ z.serial = n
          /\ PositionsAreContiguous(u) <=> PositionsAreContiguous(z)
      BY <1>t, <1>f, <2>6, RowColumns
    <3> QED
      BY <2>5, <3>1
  <2> HIDE DEF y
  <2> QED
    BY <2>4, <2>6, <2>7, OutcomeLeaves
<1>3. CASE c.op = "deleteModule"
  <2>1. o \in DeleteModule(v, c.module)
    BY <1>3 DEF Outcomes
  <2>2. PICK wm \in ModuleRow(v, c.module) :
          o = Becomes(wm[1], deleteModule(Transaction(versions[wm[1]]), wm[2]))
    BY <2>1 DEF DeleteModule
  <2>3. wm[1] = v /\ wm[2] \in t.modules
    BY <1>0, <1>t, <2>2 DEF ModuleRow
  <2> DEFINE u == deleteModule(t, wm[2])
  <2>4. o = Becomes(v, u)
    BY <2>2, <2>3 DEF t
  <2>5. /\ GoesThrough(u, v, n, ContentIds, Bodies)
        /\ PositionsAreContiguous(t) => PositionsAreContiguous(u)
    <3> HIDE DEF n
    <3> QED
      BY <1>t, <1>f, <2>3, ModuleDeleted
  <2> HIDE DEF u
  <2> QED
    BY <1>b, <2>4, <2>5
<1>4. CASE c.op = "createLesson"
  <2>1. o \in CreateLesson(v, c.module, c.contentId, c.body)
    BY <1>4 DEF Outcomes
  <2>2. PICK wm \in ModuleRow(v, c.module) :
          /\ ~DuplicateLesson(v, c.contentId)
          /\ o = Gains(wm[1], createLesson(Transaction(versions[wm[1]]), NewId(wm[1]), c.module,
                                           c.contentId, c.body))
    BY <2>1 DEF CreateLesson
  <2>3. wm[1] = v /\ \E m \in t.modules : c.module = m.id
    BY <1>0, <1>t, <2>2 DEF ModuleRow
  <2> DEFINE u == createLesson(t, <<v, n + 1>>, c.module, c.contentId, c.body)
  <2>4. o = Gains(v, u)
    BY <1>i, <2>2, <2>3 DEF t
  <2>5. /\ c.contentId \in ContentIds /\ c.body \in Bodies
        /\ \A l \in t.lessons : l.contentId # c.contentId
    BY <1>4, <1>t, <2>2 DEF IsCommand, DuplicateLesson
  <2>6. /\ GoesThrough(u, v, n + 1, ContentIds, Bodies)
        /\ PositionsAreContiguous(t) => PositionsAreContiguous(u)
    <3> HIDE DEF n
    <3> QED
      BY <1>t, <2>3, <2>5, LessonCreated
  <2> HIDE DEF u
  <2> QED
    BY <1>g, <2>4, <2>6
<1>5. CASE c.op = "updateLesson"
  <2>1. o \in UpdateLessonFields(v, c.contentId, c.body)
    BY <1>5 DEF Outcomes
  <2>2. PICK l \in x.lessons : o = LessonBecomes(v, l, [l EXCEPT !.body = c.body])
    BY <2>1 DEF UpdateLessonFields, findLessonRow
  <2>3. c.body \in Bodies
    BY <1>5 DEF IsCommand
  <2> DEFINE k == [l EXCEPT !.body = c.body]
  <2>4. /\ IsLesson(k) /\ k.id = l.id /\ k.module = l.module
        /\ k.contentId = l.contentId /\ k.position = l.position /\ k.body \in Bodies
    <3>1. IsLesson(l)
      BY <1>l
    <3> QED
      BY <2>3, <3>1 DEF IsLesson
  <2>5. o = LessonBecomes(v, l, k)
    BY <2>2
  <2> HIDE DEF k
  <2> QED
    BY <2>4, <2>5, LessonLeaves
<1>6. CASE c.op = "deleteLesson"
  <2>1. o \in DeleteLesson(v, c.contentId)
    BY <1>6 DEF Outcomes
  <2>2. PICK l \in t.lessons : o = Becomes(v, deleteLesson(t, l))
    BY <1>t, <2>1 DEF DeleteLesson, findLessonRow, t
  <2> DEFINE u == deleteLesson(t, l)
  <2>3. /\ GoesThrough(u, v, n, ContentIds, Bodies)
        /\ PositionsAreContiguous(t) => PositionsAreContiguous(u)
    <3> HIDE DEF n
    <3> QED
      BY <1>t, <1>f, LessonDeleted
  <2>4. o = Becomes(v, u)
    BY <2>2
  <2> HIDE DEF u
  <2> QED
    BY <1>b, <2>3, <2>4
<1>7. CASE c.op = "reorder"
  <2> DEFINE order == c.order
             u == reorder(t, order)
  <2>1. Permutes(order, t) /\ o = Becomes(v, u)
    BY <1>7 DEF Outcomes, Reorder, t
  <2>2. IsOrder(order)
    BY <1>7 DEF IsCommand
  <2>3. \A l, k \in t.lessons : TemporaryId(k) # l.contentId
    <3> SUFFICES ASSUME NEW l \in t.lessons, NEW k \in t.lessons
                 PROVE  TemporaryId(k) # l.contentId
      OBVIOUS
    <3>1. k.id \in {v} \X (1 .. n) /\ l.contentId \in ContentIds
      BY <1>t DEF Within
    <3>2. k.id \in Nat \X Nat
      BY <1>t, <3>1
    <3>3. TemporaryId(k) \in {"reorder"} \X (Nat \X Nat)
      BY <3>2 DEF TemporaryId
    <3> QED
      BY <3>1, <3>3, TemporariesAreFree
  <2> HIDE DEF order
  <2>4. GoesThrough(u, v, n, ContentIds, Bodies) /\ PositionsAreContiguous(u)
    <3> HIDE DEF n
    <3> QED
      BY <1>t, <1>f, <2>1, <2>2, <2>3, Reordered
  <2> HIDE DEF u
  <2> QED
    BY <1>b, <2>1, <2>4
<1>8. CASE c.op = "createAssessment"
  <2>1. o \in CreateAssessment(v, c.contentId)
    BY <1>8 DEF Outcomes
  <2>2. PICK l \in x.lessons : o = LessonBecomes(v, l, [l EXCEPT !.assessments = 1])
    BY <2>1 DEF CreateAssessment, findLessonRow
  <2> DEFINE k == [l EXCEPT !.assessments = 1]
  <2>3. /\ IsLesson(k) /\ k.id = l.id /\ k.module = l.module
        /\ k.contentId = l.contentId /\ k.position = l.position /\ k.body \in Bodies
    <3>1. IsLesson(l) /\ l.body \in Bodies
      BY <1>l
    <3> QED
      BY <3>1 DEF IsLesson
  <2>4. o = LessonBecomes(v, l, k)
    BY <2>2
  <2> HIDE DEF k
  <2> QED
    BY <2>3, <2>4, LessonLeaves
<1>9. CASE c.op = "updateAssessment"
  <2>1. o \in UpdateAssessment(v, c.lesson)
    BY <1>9 DEF Outcomes
  <2>2. PICK wl \in UNION {{w} \X versions[w].lessons : w \in Scope(v)} :
          o = LessonBecomes(wl[1], wl[2], [wl[2] EXCEPT !.assessments = 2])
    BY <2>1 DEF UpdateAssessment
  <2> DEFINE l == wl[2]
             k == [l EXCEPT !.assessments = 2]
  <2>3. wl[1] = v /\ l \in x.lessons
    BY <1>0, <2>2
  <2>4. /\ IsLesson(k) /\ k.id = l.id /\ k.module = l.module
        /\ k.contentId = l.contentId /\ k.position = l.position /\ k.body \in Bodies
    <3>1. IsLesson(l) /\ l.body \in Bodies
      BY <1>l, <2>3
    <3> HIDE DEF l
    <3> QED
      BY <3>1 DEF IsLesson
  <2>5. o = LessonBecomes(v, l, k)
    BY <2>2, <2>3
  <2> HIDE DEF k, l
  <2> QED
    BY <2>3, <2>4, <2>5, LessonLeaves
<1>10. CASE c.op = "updateCourse"
  <2>1. o \in UpdateCourse(v, c.field)
    BY <1>10 DEF Outcomes
  <2> DEFINE f == x.meta \cup {c.field}
  <2>2. f \in SUBSET Fields
    BY <1>10, <1>f DEF IsCommand
  <2>3. o = Outcome(v, [versions[v] EXCEPT !.meta = f], TRUE)
    BY <2>1 DEF UpdateCourse
  <2> HIDE DEF f
  <2> QED
    BY <1>f, <2>2, <2>3, FieldsLeave
<1>11. CASE c.op = "updateWelcome"
  <2>1. o = Outcome(v, [versions[v] EXCEPT !.welcome = c.image], TRUE)
    BY <1>11 DEF Outcomes, UpdateWelcome
  <2>2. c.image \in Images \cup {NoImage}
    BY <1>11 DEF IsCommand
  <2> QED
    BY <1>f, <2>1, <2>2, FieldsLeave
<1> QED
  BY <1>1, <1>2, <1>3, <1>4, <1>5, <1>6, <1>7, <1>8, <1>9, <1>10, <1>11 DEF CommandNames

-----------------------------------------------------------------------------
(* The rows a course begins with *)

\* Two modules, wherever the second stands, with a lesson each.
PairedModule(v, i, p) == [id |-> <<v, i>>, position |-> p, title |-> "a"]

LEMMA PairColumns ==
  ASSUME NEW v, NEW q \in {2, 3}, NEW x, x.serial = 2, x.meta = {}, x.welcome = NoImage,
         x.modules = {PairedModule(v, 1, 1), PairedModule(v, 2, q)},
         x.lessons = {SampleLesson(v, 1), SampleLesson(v, 2)}
  PROVE  Columns(v, x)
<1> DEFINE i == PairedModule(v, 1, 1)
           j == PairedModule(v, 2, q)
           l == SampleLesson(v, 1)
           k == SampleLesson(v, 2)
<1>1. /\ IsModule(i) /\ i.id = <<v, 1>> /\ i.position = 1
      /\ IsModule(j) /\ j.id = <<v, 2>> /\ j.position = q
  BY DEF PairedModule, IsModule
<1>2. /\ IsLesson(l) /\ l.id = <<v, 1>> /\ l.module = <<v, 1>> /\ l.position = 1
      /\ IsLesson(k) /\ k.id = <<v, 2>> /\ k.module = <<v, 2>> /\ k.position = 1
      /\ l.body = "text" /\ k.body = "text" /\ l.contentId \in ContentIds
      /\ k.contentId \in ContentIds
  <2>1. SetToSeq(ContentIds)[1] \in ContentIds /\ SetToSeq(ContentIds)[2] \in ContentIds
    <3> DEFINE n == Cardinality(ContentIds)
    <3>1. n \in Nat /\ n >= 2 /\ SetToSeq(ContentIds) \in [1 .. n -> ContentIds]
      BY DraftAssumption, EveryRowListed
    <3>2. 1 \in 1 .. n /\ 2 \in 1 .. n
      BY <3>1
    <3> QED
      BY <3>1, <3>2
  <2> QED
    BY <2>1 DEF SampleLesson, IsLesson
<1>3. <<v, 1>> # <<v, 2>> /\ <<v, 1>> \in {v} \X (1 .. 2) /\ <<v, 2>> \in {v} \X (1 .. 2)
  OBVIOUS
<1>4. x.modules = {i, j} /\ x.lessons = {l, k} /\ "text" \in Bodies
  BY DEF Bodies
<1>5. IsFiniteSet({i, j}) /\ IsFiniteSet({l, k})
  <2>1. \A a, b : IsFiniteSet({a, b})
    <3> SUFFICES ASSUME NEW a, NEW b PROVE IsFiniteSet({a, b})
      OBVIOUS
    <3>1. IsFiniteSet({a} \cup {b})
      BY FS_Singleton, FS_AddElement
    <3>2. {a} \cup {b} = {a, b}
      OBVIOUS
    <3> QED
      BY <3>1, <3>2
  <2> QED
    BY <2>1
<1> HIDE DEF i, j, l, k
<1>6. AreModules({i, j}) /\ ModulesFit({i, j})
  BY <1>1, <1>3 DEF AreModules, KeyedById, ModulesFit
<1>7. AreLessons({l, k}) /\ LessonsFit({l, k})
  BY <1>2, <1>3 DEF AreLessons, KeyedById, LessonsFit
<1>8. Sound(x)
  <2>1. \A h \in {l, k} : \E m \in {i, j} : h.module = m.id
    BY <1>1, <1>2
  <2> QED
    BY <1>4, <1>5, <1>6, <1>7, <2>1 DEF Sound
<1>9. Within(x, v, 2, ContentIds, Bodies)
  <2>1. \A r \in {i, j} \cup {l, k} : r.id \in {v} \X (1 .. 2) /\ r.position \in 1 .. 2 + 1
    BY <1>1, <1>2, <1>3
  <2> QED
    BY <1>2, <1>4, <2>1 DEF Within
<1> QED
  BY <1>8, <1>9 DEF Columns

LEMMA SampleCounts ==
  ASSUME NEW v, NEW n, NEW p
  PROVE  Sample(v, n, p).serial = 2 /\ Sample(v, n, p).meta = {}
<1> DEFINE ks == {[id |-> <<v, i>>, module |-> <<v, i>>, position |-> 1,
                   contentId |-> SetToSeq(ContentIds)[i],
                   body |-> "text", assessments |-> 1] : i \in 1 .. 2}
           js == {[id |-> <<v, 1>>, position |-> 1, title |-> "a"],
                  [id |-> <<v, 2>>, position |-> 2, title |-> "a"]}
           a == NewVersion(n)
           b == [a EXCEPT !.published = p]
           c == [b EXCEPT !.modules = js, !.lessons = ks, !.serial = 2]
<1>1. Sample(v, n, p) = c
  BY DEF Sample
<1> HIDE DEF js, ks
<1>2. IsVersionRow(b) /\ b.meta = {}
  BY DEF NewVersion, IsVersionRow
<1> HIDE DEF b
<1>3. c = Row(b, js, ks, 2, b.meta, b.welcome)
  BY <1>2, RowGains
<1> HIDE DEF c
<1> QED
  BY <1>1, <1>2, <1>3 DEF Row

LEMMA FirstColumns ==
  ASSUME NEW start \in {"created", "ingested", "published", "drafted"},
         NEW v \in DOMAIN VersionsAt(start)
  PROVE  LET x == VersionsAt(start)[v] IN Columns(v, x) /\ x.serial \in 0 .. 2
<1>1. \A n, p : Sample(v, n, p).serial = 2 /\ Columns(v, Sample(v, n, p))
  <2> SUFFICES ASSUME NEW n, NEW p
               PROVE  Sample(v, n, p).serial = 2 /\ Columns(v, Sample(v, n, p))
    OBVIOUS
  <2> DEFINE x == Sample(v, n, p)
  <2>1. /\ x.serial = 2 /\ x.meta = {} /\ x.welcome = NoImage
        /\ x.modules = {PairedModule(v, 1, 1), PairedModule(v, 2, 2)}
        /\ x.lessons = {SampleLesson(v, 1), SampleLesson(v, 2)}
    BY SampleRows, SampleCounts DEF SampleModule, PairedModule
  <2> HIDE DEF x
  <2>2. Columns(v, x)
    BY <2>1, PairColumns
  <2> QED
    BY <2>1, <2>2 DEF x
<1>2. CASE start = "created"
  <2> DEFINE x == NewVersion(1)
  <2>1. VersionsAt(start)[v] = x
    BY <1>2 DEF VersionsAt
  <2>2. /\ x.serial = 0 /\ x.meta = {} /\ x.welcome = NoImage
        /\ x.modules = {} /\ x.lessons = {}
    BY DEF NewVersion
  <2> HIDE DEF x
  <2>3. Sound(x) /\ Within(x, v, 0, ContentIds, Bodies)
    BY <2>2, FS_EmptySet DEF Sound, Within, AreModules, AreLessons, KeyedById, ModulesFit,
        LessonsFit
  <2> QED
    BY <2>1, <2>2, <2>3 DEF Columns
<1>3. CASE start = "ingested"
  <2> DEFINE a == Sample(v, 3, FALSE)
             Odd(m) == [m EXCEPT !.position = 2 * @ - 1]
             ms == {Odd(m) : m \in a.modules}
             x == [a EXCEPT !.modules = ms]
  <2>1. VersionsAt(start)[v] = x
    BY <1>3 DEF VersionsAt
  <2>2. /\ IsVersionRow(a) /\ a.serial = 2 /\ a.meta = {} /\ a.welcome = NoImage
        /\ a.modules = {SampleModule(v, 1), SampleModule(v, 2)}
        /\ a.lessons = {SampleLesson(v, 1), SampleLesson(v, 2)}
    <3>1. \A n, p : LET y == Sample(v, n, p) IN
            /\ IsVersionRow(y) /\ y.serial = 2 /\ y.meta = {} /\ y.welcome = NoImage
            /\ y.modules = {SampleModule(v, 1), SampleModule(v, 2)}
            /\ y.lessons = {SampleLesson(v, 1), SampleLesson(v, 2)}
      BY SampleRows, SampleCounts
    <3> QED
      BY <3>1, Zenon
  <2> HIDE DEF a
  <2>3. Odd(SampleModule(v, 1)) = PairedModule(v, 1, 1)
        /\ Odd(SampleModule(v, 2)) = PairedModule(v, 2, 3)
    BY DEF SampleModule, PairedModule
  <2> HIDE DEF Odd
  <2>4. ms = {PairedModule(v, 1, 1), PairedModule(v, 2, 3)}
    BY <2>2, <2>3
  <2> HIDE DEF ms
  <2>5. x = Row(a, ms, a.lessons, a.serial, a.meta, a.welcome)
    BY <2>2, RowSet
  <2> HIDE DEF x
  <2>6. /\ x.serial = 2 /\ x.meta = {} /\ x.welcome = NoImage
        /\ x.modules = {PairedModule(v, 1, 1), PairedModule(v, 2, 3)}
        /\ x.lessons = {SampleLesson(v, 1), SampleLesson(v, 2)}
    BY <2>2, <2>4, <2>5 DEF Row
  <2>7. Columns(v, x)
    BY <2>6, PairColumns
  <2> QED
    BY <2>1, <2>6, <2>7
<1>4. CASE start = "published"
  <2> DEFINE x == Sample(v, 1, TRUE)
  <2>1. VersionsAt(start)[v] = x
    BY <1>4 DEF VersionsAt
  <2>2. x.serial = 2 /\ Columns(v, x)
    BY <1>1, Zenon
  <2> HIDE DEF x
  <2> QED
    BY <2>1, <2>2
<1>5. CASE start = "drafted"
  BY <1>1, <1>5 DEF VersionsAt
<1> QED
  BY <1>2, <1>3, <1>4, <1>5

IsCourse(c) ==
    c \in [published : BOOLEAN, lessonCount : Nat,
           cover : Images \cup {NoImage}, meta : SUBSET Fields]

LEMMA RowsAtFirst ==
  ASSUME DraftInit
  PROVE  RowsInv
<1>1. PICK start \in Starts :
        /\ versions = VersionsAt(start)
        /\ course = IF start \in {"published", "drafted"}
                    THEN [NewCourse EXCEPT !.published = TRUE, !.lessonCount = 2]
                    ELSE NewCourse
  BY DEF DraftInit
<1>2. \A v \in DOMAIN versions : Columns(v, versions[v]) /\ versions[v].serial \in 0 .. 2
  <2>1. start \in {"created", "ingested", "published", "drafted"}
    BY DraftAssumption
  <2> QED
    BY <1>1, <2>1, FirstColumns
<1>3. work = 0 /\ assets = {} /\ blobs = {} /\ \A r \in Requests : at[r] = "idle"
  BY DEF DraftInit
<1>4. Editing = {} /\ Cardinality(Editing) = 0
  <2>1. Editing = {}
    BY <1>3 DEF Editing
  <2> QED
    BY <2>1, FS_EmptySet
<1>5. RowsAreFew
  <2>1. \A n : n \in 0 .. 2 => 2 * (n + 0) <= 0 + 4
    OBVIOUS
  <2>2. work \in 0 .. MaxWork
    BY <1>3, DraftAssumption
  <2> QED
    BY <1>2, <1>3, <1>4, <2>1, <2>2 DEF RowsAreFew
<1>6. IsCourse(course)
  <2>1. IsCourse(NewCourse) /\ IsCourse([NewCourse EXCEPT !.published = TRUE, !.lessonCount = 2])
    BY DEF IsCourse, NewCourse
  <2> QED
    BY <1>1, <2>1
<1>7. NoStatementCollides
  BY <1>3 DEF NoStatementCollides
<1> QED
  BY <1>2, <1>3, <1>4, <1>5, <1>6, <1>7 DEF RowsInv, IsCourse

-----------------------------------------------------------------------------
(* A copy under new row ids *)

RenamedModule(v, m) == [m EXCEPT !.id = <<v, m.id[2]>>]
RenamedLesson(v, l) == [l EXCEPT !.id = <<v, l.id[2]>>, !.module = <<v, l.module[2]>>]

LEMMA ModuleRenamed ==
  ASSUME NEW m, IsModule(m), NEW v
  PROVE  LET k == RenamedModule(v, m) IN
         IsModule(k) /\ k.id = <<v, m.id[2]>> /\ k.position = m.position /\ k.title = m.title
<1> DEFINE i == <<v, m.id[2]>>
           k == [m EXCEPT !.id = i]
<1> HIDE DEF i
<1>1. IsModule(k) /\ k.id = i /\ k.position = m.position /\ k.title = m.title
  BY DEF IsModule
<1>2. k = RenamedModule(v, m)
  BY DEF RenamedModule, i
<1> QED
  BY <1>1, <1>2 DEF i

\* Without its ids, a lesson and its copy are the same.
Bare(l) == [l EXCEPT !.id = 0, !.module = 0]

LEMMA LessonRenamed ==
  ASSUME NEW l, IsLesson(l), NEW v
  PROVE  LET k == RenamedLesson(v, l) IN
         /\ IsLesson(k) /\ k.id = <<v, l.id[2]>> /\ k.module = <<v, l.module[2]>>
         /\ k.contentId = l.contentId /\ k.position = l.position /\ k.body = l.body
         /\ Bare(k) = Bare(l)
<1> DEFINE i == <<v, l.id[2]>>
           x == <<v, l.module[2]>>
           e == [l EXCEPT !.id = i]
           k == [e EXCEPT !.module = x]
<1>1. k = RenamedLesson(v, l)
  BY DEF RenamedLesson
<1> HIDE DEF i, x
<1>2. IsLesson(e) /\ e = [id |-> i, module |-> l.module, contentId |-> l.contentId,
        position |-> l.position, body |-> l.body, assessments |-> l.assessments]
  BY DEF IsLesson
<1> HIDE DEF e
<1>3. k = [id |-> i, module |-> x, contentId |-> l.contentId,
        position |-> l.position, body |-> l.body, assessments |-> l.assessments]
  BY <1>2
<1> HIDE DEF k
<1>4. \A h : h = [id |-> h.id, module |-> h.module, contentId |-> h.contentId,
                  position |-> h.position, body |-> h.body, assessments |-> h.assessments] =>
         Bare(h) = [id |-> 0, module |-> 0, contentId |-> h.contentId,
                    position |-> h.position, body |-> h.body, assessments |-> h.assessments]
  <2> SUFFICES ASSUME NEW h,
                 h = [id |-> h.id, module |-> h.module, contentId |-> h.contentId,
                      position |-> h.position, body |-> h.body, assessments |-> h.assessments]
               PROVE  Bare(h) = [id |-> 0, module |-> 0, contentId |-> h.contentId,
                        position |-> h.position, body |-> h.body, assessments |-> h.assessments]
    OBVIOUS
  <2> DEFINE f == [h EXCEPT !.id = 0]
  <2>1. f = [id |-> 0, module |-> h.module, contentId |-> h.contentId,
             position |-> h.position, body |-> h.body, assessments |-> h.assessments]
    OBVIOUS
  <2>2. Bare(h) = [f EXCEPT !.module = 0]
    BY DEF Bare
  <2> HIDE DEF f
  <2> QED
    BY <2>1, <2>2
<1>5. IsLesson(k) /\ k.id = i /\ k.module = x /\ k.contentId = l.contentId
      /\ k.position = l.position /\ k.body = l.body /\ k.assessments = l.assessments
  BY <1>3 DEF IsLesson
<1>6. Bare(k) = Bare(l)
  BY <1>4, <1>5 DEF IsLesson
<1> QED
  BY <1>1, <1>5, <1>6 DEF i, x

LEMMA CopyIs ==
  ASSUME NEW s, NEW v
  PROVE  LET x == versions[s]
             y == CopyOf(s, v)
         IN  /\ y.number = x.number + 1 /\ y.meta = {} /\ y.welcome = x.welcome
             /\ y.serial = x.serial
             /\ y.modules = {RenamedModule(v, m) : m \in x.modules}
             /\ y.lessons = {RenamedLesson(v, l) : l \in x.lessons}
<1> DEFINE x == versions[s]
           ms == {[m EXCEPT !.id = <<v, @[2]>>] : m \in x.modules}
           ls == {[l EXCEPT !.id = <<v, @[2]>>, !.module = <<v, @[2]>>] : l \in x.lessons}
           a == NewVersion(x.number + 1)
           b == [a EXCEPT !.welcome = x.welcome]
           c == [b EXCEPT !.serial = x.serial]
           d == [c EXCEPT !.modules = ms]
           e == [d EXCEPT !.lessons = ls]
<1>1. ms = {RenamedModule(v, m) : m \in x.modules}
  BY DEF RenamedModule
<1>2. ls = {RenamedLesson(v, l) : l \in x.lessons}
  BY DEF RenamedLesson
<1>3. CopyOf(s, v) = e
  BY DEF CopyOf, DraftNumber
<1> HIDE DEF ms, ls, x
<1>4. IsVersionRow(a) /\ a.number = x.number + 1 /\ a.meta = {}
  BY DEF NewVersion, IsVersionRow
<1> HIDE DEF a
<1>5. IsVersionRow(b) /\ b.number = x.number + 1 /\ b.meta = {} /\ b.welcome = x.welcome
  BY <1>4 DEF IsVersionRow
<1> HIDE DEF b
<1>6. IsVersionRow(c) /\ c.number = x.number + 1 /\ c.meta = {} /\ c.welcome = x.welcome
      /\ c.serial = x.serial
  BY <1>5 DEF IsVersionRow
<1> HIDE DEF c
<1>7. IsVersionRow(d) /\ d.number = x.number + 1 /\ d.meta = {} /\ d.welcome = x.welcome
      /\ d.serial = x.serial /\ d.modules = ms
  BY <1>6 DEF IsVersionRow
<1> HIDE DEF d
<1>8. e.number = x.number + 1 /\ e.meta = {} /\ e.welcome = x.welcome
      /\ e.serial = x.serial /\ e.modules = ms /\ e.lessons = ls
  BY <1>7 DEF IsVersionRow
<1> HIDE DEF e
<1> QED
  BY <1>1, <1>2, <1>3, <1>8 DEF x

LEMMA CopyColumns ==
  ASSUME NEW s, Columns(s, versions[s]), NEW v
  PROVE  /\ Columns(v, CopyOf(s, v)) /\ CopyOf(s, v).serial = versions[s].serial
         /\ Layout(CopyOf(s, v)) = Layout(versions[s])
<1> DEFINE x == versions[s]
           y == CopyOf(s, v)
           n == x.serial
           RM(m) == RenamedModule(v, m)
           RL(l) == RenamedLesson(v, l)
<1>1. /\ n \in Nat /\ Sound(x) /\ Within(x, s, n, ContentIds, Bodies)
      /\ x.welcome \in Images \cup {NoImage}
  BY DEF Columns
<1>2. /\ y.meta = {} /\ y.welcome = x.welcome /\ y.serial = n
      /\ y.modules = {RM(m) : m \in x.modules} /\ y.lessons = {RL(l) : l \in x.lessons}
  BY CopyIs
<1> HIDE DEF x, y, n
<1>3. ASSUME NEW m \in x.modules
      PROVE  /\ IsModule(RM(m)) /\ RM(m).id = <<v, m.id[2]>> /\ RM(m).position = m.position
             /\ RM(m).title = m.title
  BY <1>1, ModuleRenamed DEF Sound, AreModules
<1>4. ASSUME NEW l \in x.lessons
      PROVE  /\ IsLesson(RL(l)) /\ RL(l).id = <<v, l.id[2]>> /\ RL(l).module = <<v, l.module[2]>>
             /\ RL(l).contentId = l.contentId /\ RL(l).position = l.position
             /\ RL(l).body = l.body /\ Bare(RL(l)) = Bare(l)
  BY <1>1, LessonRenamed DEF Sound, AreLessons
<1> HIDE DEF RM, RL
<1>5. \A i : i \in {s} \X (1 .. n) => i = <<s, i[2]>> /\ <<v, i[2]>> \in {v} \X (1 .. n)
  OBVIOUS
<1>6. \A m \in x.modules : m.id \in {s} \X (1 .. n) /\ m.position \in 1 .. n + 1
  BY <1>1 DEF Within
<1>7. \A l \in x.lessons : /\ l.id \in {s} \X (1 .. n) /\ l.position \in 1 .. n + 1
                           /\ l.module \in {s} \X (1 .. n)
                           /\ l.contentId \in ContentIds /\ l.body \in Bodies
  BY <1>1, <1>6 DEF Within, Sound
<1>8. \A i, j : i \in {s} \X (1 .. n) /\ j \in {s} \X (1 .. n) /\ <<v, i[2]>> = <<v, j[2]>> => i = j
  <2> SUFFICES ASSUME NEW i \in {s} \X (1 .. n), NEW j \in {s} \X (1 .. n),
                      <<v, i[2]>> = <<v, j[2]>>
               PROVE  i = j
    OBVIOUS
  <2>1. i[2] = j[2]
    OBVIOUS
  <2> QED
    BY <1>5, <2>1
<1>9. \A m, k \in x.modules : (RM(m).id = RM(k).id \/ RM(m).position = RM(k).position) => m = k
  BY <1>1, <1>3, <1>6, <1>8 DEF Sound, AreModules, KeyedById, ModulesFit
<1>10. \A l, k \in x.lessons : RL(l).id = RL(k).id => l = k
  BY <1>1, <1>4, <1>7, <1>8 DEF Sound, AreLessons, KeyedById
<1>11. \A l, k \in x.lessons : Clashes(RL(l), RL(k)) => l = k
  <2>1. \A l, k \in x.lessons : Clashes(RL(l), RL(k)) => Clashes(l, k)
    BY <1>4, <1>7, <1>8 DEF Clashes
  <2>2. \A l, k \in x.lessons : Clashes(l, k) => l = k
    BY <1>1 DEF Sound, LessonsFit, Clashes
  <2> QED
    BY <2>1, <2>2
<1>12. AreModules(y.modules) /\ ModulesFit(y.modules)
  BY <1>2, <1>3, <1>9 DEF AreModules, KeyedById, ModulesFit
<1>13. AreLessons(y.lessons) /\ LessonsFit(y.lessons)
  BY <1>2, <1>4, <1>10, <1>11 DEF AreLessons, KeyedById, LessonsFit, Clashes
<1>14. IsFiniteSet(y.modules) /\ IsFiniteSet(y.lessons)
  <2> DEFINE f == [m \in x.modules |-> RM(m)]
             g == [l \in x.lessons |-> RL(l)]
  <2>1. f \in Surjection(x.modules, y.modules)
    BY <1>2 DEF Surjection
  <2>2. g \in Surjection(x.lessons, y.lessons)
    BY <1>2 DEF Surjection
  <2>3. IsFiniteSet(x.modules) /\ IsFiniteSet(x.lessons)
    BY <1>1 DEF Sound
  <2> HIDE DEF f, g
  <2> QED
    BY <2>1, <2>2, <2>3, FS_Surjection
<1>15. Sound(y)
  <2>1. ASSUME NEW k \in y.lessons PROVE \E m \in y.modules : k.module = m.id
    <3>1. PICK l \in x.lessons : k = RL(l)
      BY <1>2
    <3>2. PICK m \in x.modules : l.module = m.id
      BY <1>1 DEF Sound
    <3> QED
      BY <1>2, <1>3, <1>4, <3>1, <3>2
  <2> QED
    BY <1>12, <1>13, <1>14, <2>1 DEF Sound
<1>16. Within(y, v, n, ContentIds, Bodies)
  <2>1. \A r \in y.modules : r.id \in {v} \X (1 .. n) /\ r.position \in 1 .. n + 1
    BY <1>2, <1>3, <1>5, <1>6
  <2>2. \A r \in y.lessons : /\ r.id \in {v} \X (1 .. n) /\ r.position \in 1 .. n + 1
                             /\ r.contentId \in ContentIds /\ r.body \in Bodies
    BY <1>2, <1>4, <1>5, <1>7
  <2> QED
    BY <2>1, <2>2 DEF Within
<1>17. Layout(y) = Layout(x)
  <2> DEFINE Of(t, m) == [position |-> m.position, title |-> m.title,
                          lessons |-> {Bare(l) : l \in LessonsOf(t, m.id)}]
  <2>1. Layout(x) = {Of(x, m) : m \in x.modules} /\ Layout(y) = {Of(y, m) : m \in y.modules}
    BY DEF Layout, Bare
  <2>2. ASSUME NEW m \in x.modules PROVE Of(y, RM(m)) = Of(x, m)
    <3>1. /\ \A l \in LessonsOf(x, m.id) : RL(l) \in LessonsOf(y, RM(m).id)
          /\ \A k \in LessonsOf(y, RM(m).id) : \E l \in LessonsOf(x, m.id) : k = RL(l)
      BY <1>2, <1>3, <1>4, <1>6, <1>7, <1>8 DEF LessonsOf
    <3>2. \A l \in LessonsOf(x, m.id) : Bare(RL(l)) = Bare(l)
      BY <1>4 DEF LessonsOf
    <3>3. {Bare(k) : k \in LessonsOf(y, RM(m).id)} = {Bare(l) : l \in LessonsOf(x, m.id)}
      BY <3>1, <3>2
    <3> QED
      BY <1>3, <3>3
  <2> HIDE DEF Of
  <2> QED
    BY <1>2, <2>1, <2>2
<1> QED
  BY <1>1, <1>2, <1>15, <1>16, <1>17 DEF Columns, x, y, n

-----------------------------------------------------------------------------
(* The rows after a step *)

\* An edit under way has room for the row it may make.
LEMMA RoomForARow ==
  ASSUME RowsInv, NEW r \in Editing, NEW v \in DOMAIN versions
  PROVE  versions[v].serial \in Nat /\ versions[v].serial + 1 <= POSITION_OFFSET
<1> DEFINE n == versions[v].serial
           k == Cardinality(Editing)
<1>1. IsFiniteSet(Requests) /\ Editing \subseteq Requests
  BY TemporariesAreFree DEF Editing
<1>2. IsFiniteSet(Editing)
  BY <1>1, FS_Subset
<1>3. k \in Nat /\ k # 0
  BY <1>2, FS_CardinalityType, FS_EmptySet
<1>4. n \in Nat /\ work \in 0 .. MaxWork /\ 2 * (n + k) <= work + 4
  BY DEF RowsInv, RowsAreFew, Columns
<1>5. MaxWork \in Nat /\ MaxWork <= 2 * (POSITION_OFFSET - 3) /\ POSITION_OFFSET \in Nat
  BY DraftAssumption, TemporariesAreFree DEF POSITION_OFFSET
<1> HIDE DEF n, k
<1>6. 2 * (n + 1) <= 2 * POSITION_OFFSET
  BY <1>3, <1>4, <1>5
<1> QED
  BY <1>4, <1>5, <1>6 DEF n

\* A row in place of the draft's, which gained at most one row of its own.
DraftWritten(d, x) ==
    /\ versions' = [versions EXCEPT ![d] = x]
    /\ Columns(d, x) /\ x.serial \in {versions[d].serial, versions[d].serial + 1}
    /\ PositionsAreContiguous(versions[d]) => PositionsAreContiguous(x)

LEMMA CommitLeaves ==
  ASSUME DraftInv, RowsInv, NEW r \in Requests, Commit(r)
  PROVE  /\ Ends(r) /\ UNCHANGED <<course, assets, blobs, made>>
         /\ versions' = versions \/ \E d \in Drafts : \E x : DraftWritten(d, x)
<1> DEFINE v == doing[r].version
           c == doing[r].command
<1>1. CASE ~lockUnpublishedVersion(v) \/ Outcomes(v, c) = {}
  BY <1>1 DEF Commit, Rows
<1>2. CASE lockUnpublishedVersion(v) /\ Outcomes(v, c) # {}
  <2>1. PICK o \in Outcomes(v, c) :
          IF o.ok THEN /\ versions' = o.versions /\ Ends(r)
                       /\ UNCHANGED <<course, assets, blobs, made>>
                  ELSE Moves(r, "P2002") /\ UNCHANGED <<Rows, doing>>
    BY <1>2 DEF Commit
  <2>2. v \in Drafts /\ v \in DOMAIN versions
    BY <1>2 DEF lockUnpublishedVersion, Drafts
  <2>3. r \in Editing /\ c.op \in CommandNames
    BY DEF Commit, DraftInv, ReadsStand, ReadStands, Stands, Editing
  <2>4. IsCommand(c) /\ Columns(v, versions[v])
    BY <2>2, <2>3 DEF RowsInv
  <2>5. v \in Nat /\ IsVersionRow(versions[v])
    <3>1. DraftShaped
      BY DEF DraftInv
    <3>2. v \in 1 .. made /\ made \in Nat
      BY <2>2, <3>1 DEF DraftShaped
    <3> QED
      BY <2>2, <3>1, <3>2 DEF DraftShaped
  <2>6. versions[v].serial + 1 <= POSITION_OFFSET
    BY <2>2, <2>3, RoomForARow
  <2> HIDE DEF v, c
  <2>7. Leaves(o, v)
    BY <2>3, <2>4, <2>5, <2>6, CommandLeaves
  <2>8. o.ok = TRUE
    BY <2>7 DEF Leaves
  <2>9. versions' = o.versions /\ Ends(r) /\ UNCHANGED <<course, assets, blobs, made>>
    BY <2>1, <2>8
  <2>10. \E x : DraftWritten(v, x)
    BY <2>7, <2>9 DEF Leaves, DraftWritten
  <2> QED
    BY <2>2, <2>9, <2>10
<1> QED
  BY <1>1, <1>2

LEMMA FlagLeavesColumns ==
  ASSUME NEW v, NEW x, IsVersionRow(x), Columns(v, x)
  PROVE  LET y == [x EXCEPT !.published = TRUE] IN
         /\ Columns(v, y) /\ y.serial = x.serial
         /\ PositionsAreContiguous(x) => PositionsAreContiguous(y)
<1> DEFINE y == [x EXCEPT !.published = TRUE]
<1>1. /\ y.serial = x.serial /\ y.modules = x.modules /\ y.lessons = x.lessons
      /\ y.meta = x.meta /\ y.welcome = x.welcome
  BY DEF IsVersionRow
<1> HIDE DEF y
<1>2. /\ Sound(x) => Sound(y)
      /\ PositionsAreContiguous(x) <=> PositionsAreContiguous(y)
      /\ Within(x, v, x.serial, ContentIds, Bodies) => Within(y, v, x.serial, ContentIds, Bodies)
  BY <1>1, SameRows
<1>3. Columns(v, y)
  BY <1>1, <1>2 DEF Columns
<1> QED
  BY <1>1, <1>2, <1>3 DEF y

\* The rows of a version after a step: its columns still hold, no version has
\* gained more than n rows, and positions without a gap stay so.
RowsFollow(n) ==
    \A v \in DOMAIN versions' :
        /\ Columns(v, versions'[v])
        /\ \E w \in DOMAIN versions : versions'[v].serial <= versions[w].serial + n
        /\ v \in DOMAIN versions /\ PositionsAreContiguous(versions[v]) =>
              PositionsAreContiguous(versions'[v])

LEMMA SerialsAreNumbers ==
  ASSUME RowsInv, NEW v \in DOMAIN versions
  PROVE  versions[v].serial \in Nat /\ versions[v].serial <= versions[v].serial + 0
         /\ versions[v].serial <= versions[v].serial + 1
<1>1. versions[v].serial \in Nat
  BY DEF RowsInv, Columns
<1> QED
  BY <1>1

LEMMA RowsStay ==
  ASSUME RowsInv, versions' = versions
  PROVE  RowsFollow(0) /\ RowsFollow(1)
  BY SerialsAreNumbers DEF RowsFollow, RowsInv

LEMMA CommitFollows ==
  ASSUME DraftInv, RowsInv, NEW r \in Requests, Commit(r)
  PROVE  RowsFollow(1)
<1>1. CASE versions' = versions
  BY <1>1, RowsStay
<1>2. ASSUME NEW d \in Drafts, NEW x, DraftWritten(d, x) PROVE RowsFollow(1)
  <2>1. versions = [w \in DOMAIN versions |-> versions[w]] /\ d \in DOMAIN versions
    BY DEF DraftInv, DraftShaped, Drafts
  <2>2. versions' = [w \in DOMAIN versions |-> IF w = d THEN x ELSE versions[w]]
    BY <1>2, <2>1 DEF DraftWritten
  <2>3. /\ DOMAIN versions' = DOMAIN versions /\ versions'[d] = x
        /\ \A w \in DOMAIN versions : w # d => versions'[w] = versions[w]
    BY <2>1, <2>2
  <2>4. x.serial <= versions[d].serial + 1
    BY <1>2, <2>1, SerialsAreNumbers DEF DraftWritten
  <2>5. \A w \in DOMAIN versions : Columns(w, versions[w])
    BY DEF RowsInv
  <2>6. Columns(d, x) /\ (PositionsAreContiguous(versions[d]) => PositionsAreContiguous(x))
    BY <1>2 DEF DraftWritten
  <2> QED
    BY <2>1, <2>3, <2>4, <2>5, <2>6, SerialsAreNumbers DEF RowsFollow
<1> QED
  BY <1>1, <1>2, CommitLeaves

LEMMA OtherStepsFollow ==
  ASSUME DraftInv, RowsInv, NEW r \in Requests,
         \/ DraftMade \/ DraftDiscarded \/ DraftPublished(r) \/ versions' = versions
  PROVE  RowsFollow(0)
<1>0. DraftShaped /\ \A w \in DOMAIN versions : Columns(w, versions[w]) /\ IsVersionRow(versions[w])
  BY DEF DraftInv, DraftShaped, RowsInv
<1>1. CASE versions' = versions
  BY <1>1, RowsStay
<1>2. CASE DraftMade
  <2> DEFINE n == made + 1
  <2>1. PICK s \in Published :
          /\ n \notin DOMAIN versions
          /\ DOMAIN versions' = DOMAIN versions \cup {n}
          /\ \A w \in DOMAIN versions : versions'[w] = versions[w]
          /\ versions'[n] = CopyOf(s, n)
    BY <1>0, <1>2, MadeRows
  <2> HIDE DEF n
  <2>2. s \in DOMAIN versions /\ Columns(s, versions[s])
    BY <1>0 DEF Published
  <2>3. Columns(n, versions'[n]) /\ versions'[n].serial = versions[s].serial
    BY <2>1, <2>2, CopyColumns
  <2>4. versions'[n].serial <= versions[s].serial + 0
    BY <2>2, <2>3, SerialsAreNumbers
  <2> QED
    BY <1>0, <2>1, <2>2, <2>3, <2>4, SerialsAreNumbers DEF RowsFollow
<1>3. CASE DraftDiscarded
  <2>1. PICK d \in Drafts :
          /\ DOMAIN versions' = DOMAIN versions \ {d}
          /\ \A w \in DOMAIN versions' : versions'[w] = versions[w]
    BY <1>0, <1>3, DiscardedRows
  <2> QED
    BY <1>0, <2>1, SerialsAreNumbers DEF RowsFollow
<1>4. CASE DraftPublished(r)
  <2> DEFINE d == doing[r].version
  <2>1. /\ d \in Drafts /\ DOMAIN versions' = DOMAIN versions
        /\ \A w \in DOMAIN versions \ {d} : versions'[w] = versions[w]
        /\ versions'[d] = [versions[d] EXCEPT !.published = TRUE]
    BY <1>0, <1>4, PublishedRows
  <2> HIDE DEF d
  <2>2. d \in DOMAIN versions
    BY <2>1 DEF Drafts
  <2>3. /\ Columns(d, versions'[d]) /\ versions'[d].serial = versions[d].serial
        /\ PositionsAreContiguous(versions[d]) => PositionsAreContiguous(versions'[d])
    BY <1>0, <2>1, <2>2, FlagLeavesColumns
  <2>4. versions'[d].serial <= versions[d].serial + 0
    BY <2>2, <2>3, SerialsAreNumbers
  <2> QED
    BY <1>0, <2>1, <2>2, <2>3, <2>4, SerialsAreNumbers DEF RowsFollow
<1> QED
  BY <1>1, <1>2, <1>3, <1>4

-----------------------------------------------------------------------------
(* What an author asks for *)

LEMMA SequencesAreLists ==
  ASSUME NEW S, IsFiniteSet(S), NEW f \in SetToSeqs(S)
  PROVE  IsList(f) /\ \A i \in 1 .. Len(f) : f[i] \in S
<1> DEFINE n == Cardinality(S)
<1>1. n \in Nat
  BY FS_CardinalityType
<1>2. f \in [1 .. n -> S]
  BY DEF SetToSeqs
<1> HIDE DEF n
<1>3. Len(f) = n
  BY <1>1, <1>2
<1> QED
  BY <1>1, <1>2, <1>3 DEF IsList

LEMMA ArrangementsAreOrders ==
  ASSUME NEW v, NEW x, Columns(v, x), NEW a \in Arrangements(x)
  PROVE  IsOrder(a)
<1> DEFINE ids == {m.id : m \in x.modules}
           contentIds == {l.contentId : l \in x.lessons}
           Item(o, lists, i) == [id |-> o[i], lessons |-> lists[o[i]]]
<1>1. PICK o \in SetToSeqs(ids), lists \in [ids -> SetToAllKPermutations(contentIds)] :
        a = [i \in DOMAIN o |-> Item(o, lists, i)]
  <2>1. PICK o \in SetToSeqs(ids) :
          a \in {Arrangement(o, lists) : lists \in ListsOf(ids, contentIds)}
    BY DEF Arrangements
  <2> HIDE DEF ids, contentIds, Item
  <2>2. PICK lists \in ListsOf(ids, contentIds) : a = Arrangement(o, lists)
    BY <2>1
  <2>3. lists \in [ids -> SetToAllKPermutations(contentIds)]
    BY <2>2 DEF ListsOf
  <2>4. a = [i \in DOMAIN o |-> Item(o, lists, i)]
    BY <2>2 DEF Arrangement, Item
  <2> QED
    BY <2>2, <2>3, <2>4
<1>2. /\ x.serial \in Nat
      /\ \A m \in x.modules : m.id \in {v} \X (1 .. x.serial)
      /\ \A l \in x.lessons : l.contentId \in ContentIds
  BY DEF Columns, Within
<1>3. IsFiniteSet(ids)
  <2>1. IsFiniteSet({v} \X (1 .. x.serial))
    <3> DEFINE n == x.serial
    <3>1. n \in Int
      BY <1>2
    <3> HIDE DEF n
    <3>2. IsFiniteSet(1 .. n)
      BY <3>1, FS_Interval
    <3>3. IsFiniteSet({v})
      BY FS_Singleton
    <3> QED
      BY <3>2, <3>3, FS_Product DEF n
  <2>2. ids \subseteq {v} \X (1 .. x.serial)
    BY <1>2
  <2> QED
    BY <2>1, <2>2, FS_Subset
<1>4. IsFiniteSet(contentIds) /\ \A s \in SUBSET contentIds : IsFiniteSet(s)
  <2>1. contentIds \subseteq ContentIds /\ IsFiniteSet(ContentIds)
    BY <1>2, DraftAssumption
  <2> QED
    BY <2>1, FS_Subset
<1>5. IsList(o) /\ \A i \in 1 .. Len(o) : o[i] \in ids
  BY <1>3, SequencesAreLists
<1>6. \A list \in SetToAllKPermutations(contentIds) : IsList(list)
  BY <1>4, SequencesAreLists DEF SetToAllKPermutations
<1> HIDE DEF ids, contentIds
<1>7. Len(o) \in Nat /\ DOMAIN o = 1 .. Len(o)
  BY <1>5 DEF IsList
<1>8. a = [i \in 1 .. Len(o) |-> Item(o, lists, i)]
  BY <1>1, <1>7
<1>9. \A i \in 1 .. Len(o) : IsList(Item(o, lists, i).lessons)
  BY <1>1, <1>5, <1>6
<1> HIDE DEF Item
<1>10. Len(a) = Len(o)
  BY <1>7, <1>8, LengthOf
<1>11. IsList(a)
  BY <1>7, <1>8, <1>10 DEF IsList
<1> QED
  BY <1>8, <1>9, <1>10, <1>11 DEF IsOrder

LEMMA CommandsAreTyped ==
  ASSUME DraftInv, RowsInv, NEW c \in Commands
  PROVE  IsCommand(c)
<1>1. \A v \in Drafts : \A order \in Arrangements(versions[v]) : IsOrder(order)
  BY ArrangementsAreOrders DEF RowsInv, Drafts
<1>3. CASE c \in UNION {[op : {"reorder"}, order : Arrangements(versions[v])] : v \in Drafts}
  BY <1>1, <1>3 DEF IsCommand
<1>4. CASE c \in [op : {"updateWelcome"}, image : Images \cup {NoImage}]
  BY <1>4 DEF IsCommand
<1>5. CASE c \in [op : {"createLesson"}, module : KnownModules, contentId : ContentIds,
                   body : Bodies]
  BY <1>5 DEF IsCommand
<1>6. CASE c \in [op : {"updateLesson"}, contentId : ContentIds, body : Bodies]
           \cup [op : {"updateCourse"}, field : Fields]
  BY <1>6 DEF IsCommand
<1>7. CASE \/ c = [op |-> "createModule"]
           \/ c \in [op : {"updateModule", "deleteModule"}, module : KnownModules]
           \/ c \in [op : {"deleteLesson", "createAssessment"}, contentId : ContentIds]
           \/ c \in [op : {"updateAssessment"}, lesson : KnownLessons]
  <2>1. c.op \notin {"createLesson", "updateLesson", "reorder", "updateCourse", "updateWelcome"}
    BY <1>7
  <2> QED
    BY <2>1 DEF IsCommand
<1> QED
  BY <1>3, <1>4, <1>5, <1>6, <1>7 DEF Commands

-----------------------------------------------------------------------------
(* The edits under way *)

\* A step other than a commit and a new command answers no P2002, and an edit
\* that is still under way after it is one as before.
LEMMA LabelsFollow ==
  ASSUME DraftInv, NEW r \in Requests, Call(r) \/ Proceeds(r), ~Commit(r)
  PROVE  /\ at'[r] # "P2002"
         /\ at'[r] \in {"ref", "assets", "commit"} =>
               r \in Editing /\ doing'[r].command = doing[r].command
<1>0. DraftShaped
  BY DEF DraftInv
<1>1. CASE requireDraftRef(r)
  <2>1. CASE Ends(r)
    BY <1>0, <2>1, EndsIdle
  <2>2. CASE ~Ends(r)
    <3> DEFINE d == [doing[r] EXCEPT !.version = Highest(Drafts)]
               label == IF "body" \in DOMAIN doing[r].command THEN "assets" ELSE "commit"
    <3>1. Moves(r, label) /\ doing' = [doing EXCEPT ![r].version = Highest(Drafts)]
      BY <1>1, <2>2 DEF requireDraftRef
    <3>2. doing' = [doing EXCEPT ![r] = d]
      BY <3>1
    <3>3. IsRequest(d) /\ d.command = doing[r].command
      BY <1>0, ItsOwn, RequestColumn
    <3>4. label # "P2002" /\ r \in Editing
      BY <1>1 DEF requireDraftRef, Stands, Editing
    <3> HIDE DEF d, label
    <3>5. at'[r] = label /\ doing'[r] = d
      BY <1>0, <3>1, <3>2, <3>3, WritesAlone
    <3> QED
      BY <3>3, <3>4, <3>5
  <2> QED
    BY <2>1, <2>2
<1>2. CASE ReadAssets(r)
  <2>1. CASE Ends(r)
    BY <1>0, <2>1, EndsIdle
  <2>2. CASE ~Ends(r)
    <3>1. Moves(r, "commit") /\ UNCHANGED doing /\ at[r] = "assets"
      BY <1>2, <2>2 DEF ReadAssets, Stands
    <3>2. at'[r] = "commit"
      BY <1>0, <3>1, MovesTo
    <3> QED
      BY <3>1, <3>2 DEF Editing
  <2> QED
    BY <2>1, <2>2
<1>3. CASE Ends(r)
  BY <1>0, <1>3, EndsIdle
<1>4. CASE \E label \in {"latest", "existing", "discard", "blob", "coverBlob", "read", "source",
                         "copy", "winner", "discardRef", "delete", "draft", "publish",
                         "assetRow", "coverRow", "setCover", "content", "changed"} :
             Moves(r, label)
  BY <1>0, <1>4, MovesTo
<1>5. CASE ~requireDraftRef(r) /\ ~ReadAssets(r) /\ ~Ends(r)
  <2>1. CASE Call(r)
    BY <1>4, <2>1 DEF Call
  <2>2. CASE FindExisting(r) \/ FindSource(r) \/ CopyVersion(r) \/ FindWinner(r)
    BY <1>4, <1>5, <2>2 DEF FindExisting, FindSource, CopyVersion, FindWinner
  <2>3. CASE DiscardAllowed(r) \/ DiscardRef(r) \/ discardDraft(r)
    BY <1>4, <1>5, <2>3 DEF DiscardAllowed, DiscardRef, discardDraft
  <2>4. CASE FindLatest(r) \/ ReadDraft(r) \/ Publish(r)
    BY <1>4, <1>5, <2>4 DEF FindLatest, ReadDraft, Publish
  <2>5. CASE PutBlob(r) \/ CreateAsset(r) \/ CreateAssetFails(r) \/ setCourseCover(r)
    BY <1>4, <1>5, <2>5 DEF PutBlob, CreateAsset, CreateAssetFails, setCourseCover
  <2>6. CASE requirePublishedCourseWithLatestVersion(r) \/ getLesson(r)
    BY <1>4, <1>5, <2>6 DEF requirePublishedCourseWithLatestVersion, getLesson
  <2> QED
    BY <1>5, <2>1, <2>2, <2>3, <2>4, <2>5, <2>6 DEF Proceeds
<1> QED
  BY <1>1, <1>2, <1>3, <1>5

LEMMA EditsAreFinite ==
  IsFiniteSet(Editing) /\ Cardinality(Editing) \in Nat
<1>1. IsFiniteSet(Requests) /\ Editing \subseteq Requests
  BY TemporariesAreFree DEF Editing
<1> QED
  BY <1>1, FS_Subset, FS_CardinalityType

LEMMA SendAddsAnEdit ==
  ASSUME DraftInv, NEW r \in Requests, Send(r)
  PROVE  /\ Cardinality(Editing') = Cardinality(Editing) + 1
         /\ work' = work + 2 /\ work' <= MaxWork /\ UNCHANGED Rows
         /\ \E c \in Commands : doing'[r].command = c
         /\ at'[r] = "ref"
<1>0. DraftShaped
  BY DEF DraftInv
<1>1. at[r] = "idle" /\ Moves(r, "ref") /\ work' = work + 2 /\ work' <= MaxWork /\ UNCHANGED Rows
  BY DEF Send, Begins
<1>2. at'[r] = "ref" /\ \A q \in Requests : q # r => at'[q] = at[q]
  BY <1>0, <1>1, MovesTo
<1>3. Editing' = Editing \cup {r} /\ r \notin Editing
  BY <1>1, <1>2 DEF Editing
<1>4. Cardinality(Editing \cup {r}) = Cardinality(Editing) + 1
  BY <1>3, EditsAreFinite, FS_AddElement
<1>5. \E c \in Commands : doing'[r].command = c
  <2>1. PICK c \in Commands : doing' = [doing EXCEPT ![r] = [Idle EXCEPT !.command = c]]
    BY DEF Send
  <2> DEFINE d == [Idle EXCEPT !.command = c]
  <2>2. IsRequest(d) /\ d.command = c
    BY IdleIsRequest, RequestColumn
  <2> HIDE DEF d
  <2>3. doing'[r] = d
    BY <1>0, <2>1, <2>2, DoingSet DEF d
  <2> QED
    BY <2>2, <2>3
<1> QED
  BY <1>1, <1>2, <1>3, <1>4, <1>5

LEMMA CommitEndsAnEdit ==
  ASSUME DraftInv, RowsInv, NEW r \in Requests, Commit(r)
  PROVE  Cardinality(Editing') = Cardinality(Editing) - 1 /\ Editing' \subseteq Editing
<1>0. DraftShaped
  BY DEF DraftInv
<1>1. r \in Editing
  BY DEF Commit, Stands, Editing
<1>2. at'[r] = "idle" /\ \A q \in Requests : q # r => at'[q] = at[q]
  BY <1>0, CommitLeaves, EndsIdle
<1>3. Editing' = Editing \ {r}
  BY <1>2 DEF Editing
<1>4. Cardinality(Editing \ {r}) = Cardinality(Editing) - 1
  BY <1>1, EditsAreFinite, FS_RemoveElement
<1> QED
  BY <1>3, <1>4

LEMMA OthersEditLess ==
  ASSUME DraftInv, NEW r \in Requests, Call(r) \/ Proceeds(r), ~Commit(r)
  PROVE  Editing' \subseteq Editing /\ Cardinality(Editing') <= Cardinality(Editing)
<1>1. Alone(r)
  BY StepStands DEF DraftInv
<1>2. \A q \in Requests : q # r => at'[q] = at[q]
  BY <1>1 DEF Alone
<1>3. at'[r] \in {"ref", "assets", "commit"} => r \in Editing
  BY LabelsFollow
<1>4. Editing' \subseteq Editing
  BY <1>2, <1>3 DEF Editing
<1> QED
  BY <1>4, EditsAreFinite, FS_Subset

\* Which steps may touch the rows of a version.
LEMMA StepFollows ==
  ASSUME DraftInv, RowsInv, NEW r \in Requests, Call(r) \/ Proceeds(r), ~Commit(r)
  PROVE  RowsFollow(0)
<1>0. DraftShaped /\ ReadsStand
  BY DEF DraftInv
<1>1. CASE Publish(r)
  BY <1>0, <1>1, PublishStep, OtherStepsFollow DEF Rows
<1>2. CASE CopyVersion(r)
  BY <1>0, <1>2, CopyStep, OtherStepsFollow DEF Rows
<1>3. CASE discardDraft(r)
  BY <1>3, DiscardStep, OtherStepsFollow DEF Rows
<1>4. CASE ~Publish(r) /\ ~CopyVersion(r) /\ ~discardDraft(r)
  <2>1. versions' = versions
    BY <1>4 DEF Call, Proceeds, requireDraftRef, ReadAssets, FindExisting, FindSource,
        FindWinner, DiscardAllowed, DiscardRef, FindLatest, ReadDraft, PutBlob, CreateAsset,
        CreateAssetFails, setCourseCover, requirePublishedCourseWithLatestVersion, getLesson,
        Rows
  <2> QED
    BY <2>1, OtherStepsFollow
<1> QED
  BY <1>1, <1>2, <1>3, <1>4

\* Every edit counts two in the work begun, for itself and for its row.
LEMMA FewKept ==
  ASSUME DraftInv, RowsInv, NEW r \in Requests,
         Send(r) \/ Call(r) \/ (Proceeds(r) /\ UNCHANGED work)
  PROVE  RowsAreFew'
<1> DEFINE k == Cardinality(Editing)
           j == Cardinality(Editing')
<1>1. k \in Nat
  BY EditsAreFinite
<1>2. j \in Nat
  <2>1. IsFiniteSet(Requests) /\ Editing' \subseteq Requests
    BY TemporariesAreFree DEF Editing
  <2> QED
    BY <2>1, FS_Subset, FS_CardinalityType
<1>3. work \in Nat /\ work <= MaxWork /\ MaxWork \in Nat
  BY DraftAssumption DEF RowsInv, RowsAreFew
<1>4. \A v \in DOMAIN versions : versions[v].serial \in Nat
                                 /\ 2 * (versions[v].serial + k) <= work + 4
  BY DEF RowsInv, RowsAreFew, Columns
<1>5. \A v \in DOMAIN versions' : Columns(v, versions'[v]) => versions'[v].serial \in Nat
  BY DEF Columns
<1>6. CASE Send(r)
  <2>1. j = k + 1 /\ work' = work + 2 /\ work' <= MaxWork /\ versions' = versions
    BY <1>6, SendAddsAnEdit DEF Rows
  <2> HIDE DEF j, k
  <2>2. \A v \in DOMAIN versions' : 2 * (versions'[v].serial + j) <= work' + 4
    BY <1>1, <1>3, <1>4, <2>1
  <2> QED
    BY <1>3, <2>1, <2>2 DEF RowsAreFew, j
<1>7. CASE Commit(r) /\ work' = work
  <2>1. j = k - 1 /\ RowsFollow(1)
    BY <1>7, CommitEndsAnEdit, CommitFollows
  <2> HIDE DEF j, k
  <2>2. ASSUME NEW v \in DOMAIN versions' PROVE 2 * (versions'[v].serial + j) <= work' + 4
    <3>1. PICK w \in DOMAIN versions : versions'[v].serial <= versions[w].serial + 1
      BY <2>1 DEF RowsFollow
    <3>2. versions'[v].serial \in Nat
      BY <1>5, <2>1 DEF RowsFollow
    <3> QED
      BY <1>1, <1>2, <1>3, <1>4, <1>7, <2>1, <3>1, <3>2
  <2> QED
    BY <1>3, <1>7, <2>2 DEF RowsAreFew, j
<1>8. CASE ~Commit(r) /\ (Call(r) \/ (Proceeds(r) /\ UNCHANGED work))
  <2>1. j <= k /\ RowsFollow(0)
    BY <1>8, OthersEditLess, StepFollows
  <2>2. work' \in Nat /\ work <= work' /\ work' <= MaxWork
    BY <1>3, <1>8 DEF Call, Begins
  <2> HIDE DEF j, k
  <2>3. ASSUME NEW v \in DOMAIN versions' PROVE 2 * (versions'[v].serial + j) <= work' + 4
    <3>1. PICK w \in DOMAIN versions : versions'[v].serial <= versions[w].serial + 0
      BY <2>1 DEF RowsFollow
    <3>2. versions'[v].serial \in Nat
      BY <1>5, <2>1 DEF RowsFollow
    <3> QED
      BY <1>1, <1>2, <1>3, <1>4, <2>1, <2>2, <3>1, <3>2
  <2> QED
    BY <1>3, <2>2, <2>3 DEF RowsAreFew, j
<1>9. ~(Commit(r) /\ Call(r))
  BY DEF Commit, Stands, Call, Begins
<1> QED
  BY <1>6, <1>7, <1>8, <1>9

-----------------------------------------------------------------------------
(* The course row and its images *)

LEMMA CourseStaysTyped ==
  ASSUME DraftInv, RowsInv, NEW r \in Requests, Send(r) \/ Call(r) \/ Proceeds(r)
  PROVE  IsCourse(course')
<1>0. IsCourse(course) /\ DraftShaped
  BY DEF RowsInv, DraftInv, IsCourse
<1>1. CASE Publish(r)
  <2> DEFINE d == doing[r].version
             n == Cardinality(versions[d].lessons)
             fs == course.meta \cup versions[d].meta
  <2>1. CASE UNCHANGED Rows
    BY <1>0, <2>1 DEF Rows
  <2>2. CASE DraftPublished(r)
    <3>1. d \in DOMAIN versions /\ course' = PublishedCourse(d)
      BY <2>2 DEF DraftPublished, Drafts
    <3>2. Columns(d, versions[d])
      BY <3>1 DEF RowsInv
    <3>3. n \in Nat
      BY <3>2, FS_CardinalityType DEF Columns, Sound
    <3>4. fs \in SUBSET Fields
      BY <1>0, <3>2 DEF Columns, IsCourse
    <3>5. course' = [course EXCEPT !.published = TRUE, !.lessonCount = n, !.meta = fs]
      BY <3>1 DEF PublishedCourse
    <3> HIDE DEF n, fs
    <3> QED
      BY <1>0, <3>3, <3>4, <3>5 DEF IsCourse
  <2> QED
    BY <1>0, <1>1, <2>1, <2>2, PublishStep
<1>2. CASE setCourseCover(r)
  <2>1. doing[r].cover \in Images
    BY <1>2 DEF setCourseCover, Stands, DraftInv, ObjectsAreStored, ObjectStands, RowsInv
  <2>2. course' = [course EXCEPT !.cover = doing[r].cover]
    BY <1>2 DEF setCourseCover
  <2> QED
    BY <1>0, <2>1, <2>2 DEF IsCourse
<1>3. CASE Commit(r)
  BY <1>0, <1>3, CommitLeaves
<1>4. CASE ~Publish(r) /\ ~setCourseCover(r) /\ ~Commit(r)
  <2>1. course' = course
    BY <1>4 DEF Send, Call, Proceeds, requireDraftRef, ReadAssets, FindExisting, FindSource,
        CopyVersion, FindWinner, DiscardAllowed, DiscardRef, discardDraft, FindLatest,
        ReadDraft, PutBlob, CreateAsset, CreateAssetFails,
        requirePublishedCourseWithLatestVersion, getLesson, Rows
  <2> QED
    BY <1>0, <2>1
<1> QED
  BY <1>1, <1>2, <1>3, <1>4

LEMMA ImagesStayTyped ==
  ASSUME DraftInv, RowsInv, NEW r \in Requests, Send(r) \/ Call(r) \/ Proceeds(r)
  PROVE  assets' \subseteq Images /\ blobs' \subseteq Images
<1>0. assets \subseteq Images /\ blobs \subseteq Images /\ ObjectStands(r)
  BY DEF RowsInv, DraftInv, ObjectsAreStored
<1>1. CASE PutBlob(r)
  BY <1>0, <1>1 DEF PutBlob
<1>2. CASE CreateAsset(r)
  BY <1>0, <1>2 DEF CreateAsset, ObjectStands, Uploading
<1>3. CASE CreateAssetFails(r)
  BY <1>0, <1>3 DEF CreateAssetFails
<1>4. CASE Commit(r)
  BY <1>0, <1>4, CommitLeaves
<1>5. CASE ~PutBlob(r) /\ ~CreateAsset(r) /\ ~CreateAssetFails(r) /\ ~Commit(r)
  <2>1. UNCHANGED <<assets, blobs>>
    BY <1>5 DEF Send, Call, Proceeds, requireDraftRef, ReadAssets, FindExisting, FindSource,
        CopyVersion, FindWinner, DiscardAllowed, DiscardRef, discardDraft, FindLatest,
        ReadDraft, Publish, setCourseCover, requirePublishedCourseWithLatestVersion, getLesson,
        Rows
  <2> QED
    BY <1>0, <2>1
<1> QED
  BY <1>1, <1>2, <1>3, <1>4, <1>5
LEMMA RowsKept ==
  ASSUME DraftInv, RowsInv, [DraftNext]_draftVars
  PROVE  RowsInv'
<1>1. CASE UNCHANGED draftVars
  <2> USE <1>1 DEF draftVars
  <2>1. Editing' = Editing
    BY DEF Editing
  <2>2. RowsAreFew'
    BY <2>1 DEF RowsInv, RowsAreFew
  <2>3. \A v \in DOMAIN versions' : Columns(v, versions'[v])
    BY DEF RowsInv
  <2>4. NoStatementCollides'
    BY DEF RowsInv, NoStatementCollides
  <2>5. \A r \in Editing' : IsCommand(doing'[r].command)
    BY <2>1 DEF RowsInv
  <2> QED
    BY <2>2, <2>3, <2>4, <2>5 DEF RowsInv
<1>2. CASE DraftNext
  <2>1. PICK r \in Requests : Send(r) \/ Call(r) \/ (Proceeds(r) /\ UNCHANGED work)
    BY <1>2 DEF DraftNext
  <2>2. DraftShaped /\ Alone(r)
    BY <2>1, StepStands DEF DraftInv
  <2>3. \A q \in Requests : q # r => at'[q] = at[q] /\ doing'[q] = doing[q]
    BY <2>2 DEF Alone
  <2>4. \A v \in DOMAIN versions' : Columns(v, versions'[v])
    <3>1. CASE Send(r)
      BY <3>1, SendAddsAnEdit DEF Rows, RowsInv
    <3>2. CASE Commit(r)
      BY <3>2, CommitFollows DEF RowsFollow
    <3>3. CASE ~Send(r) /\ ~Commit(r)
      BY <2>1, <3>3, StepFollows DEF RowsFollow
    <3> QED
      BY <3>1, <3>2, <3>3
  <2>5. RowsAreFew'
    BY <2>1, FewKept
  <2>6. /\ at'[r] # "P2002"
        /\ at'[r] \in {"ref", "assets", "commit"} => IsCommand(doing'[r].command)
    <3>1. CASE Send(r)
      BY <3>1, SendAddsAnEdit, CommandsAreTyped
    <3>2. CASE Commit(r)
      BY <2>2, <3>2, CommitLeaves, EndsIdle
    <3>3. CASE ~Send(r) /\ ~Commit(r)
      BY <2>1, <3>3, LabelsFollow DEF RowsInv
    <3> QED
      BY <3>1, <3>2, <3>3
  <2>7. \A q \in Editing' : IsCommand(doing'[q].command)
    BY <2>3, <2>6 DEF RowsInv, Editing
  <2>8. NoStatementCollides'
    BY <2>3, <2>6 DEF RowsInv, NoStatementCollides
  <2>9. IsCourse(course') /\ assets' \subseteq Images /\ blobs' \subseteq Images
    BY <2>1, CourseStaysTyped, ImagesStayTyped
  <2> QED
    BY <2>4, <2>5, <2>7, <2>8, <2>9 DEF RowsInv, IsCourse
<1> QED
  BY <1>1, <1>2

-----------------------------------------------------------------------------
(* The theorems *)

\* The invariant the others rest on: the publications are numbered without a
\* gap and the draft comes next, what a request has read of a publication is
\* still so, an object without a row belongs to one upload, and what is
\* published is valid.
THEOREM DraftInvHolds == DraftSpec => []DraftInv
<1>1. DraftInit => DraftInv
  BY InitHolds
<1>2. DraftInv /\ [DraftNext]_draftVars => DraftInv'
  BY InvariantKept
<1> QED
  BY <1>1, <1>2, PTL DEF DraftSpec

\* However createDraft(), discardDraft() and publish() of any number of
\* operators interleave, there is at most one draft, and it is the newest.
THEOREM DraftIsOne == DraftSpec => []OneDraft
<1>1. DraftInv => OneDraft
  <2> SUFFICES ASSUME DraftInv PROVE OneDraft
    OBVIOUS
  <2>1. NumbersInOrder
    BY DEF DraftInv
  <2>2. CASE Drafts = {}
    <3>1. Cardinality({}) <= 1
      BY FS_EmptySet
    <3> QED
      BY <2>1, <2>2, <3>1 DEF OneDraft, NumbersInOrder
  <2>3. CASE Drafts # {}
    <3>1. PICK d \in Drafts : Drafts = {d}
      BY <2>1, <2>3 DEF NumbersInOrder
    <3>2. Cardinality({d}) = 1
      BY FS_Singleton
    <3>3. Cardinality(Drafts) <= 1
      BY <3>1, <3>2
    <3> QED
      BY <2>1, <3>3 DEF OneDraft, NumbersInOrder
  <2> QED
    BY <2>2, <2>3
<1> QED
  BY <1>1, DraftInvHolds, PTL

\* Whatever is edited between publish()'s first check and its lock, and
\* whatever objects uploads take back, what learners are shown passes the
\* checks, its images are stored, and the Course row counts its lessons.
THEOREM PublicationsAreValid == DraftSpec => []PublishedIsValid
<1>1. DraftInv => PublishedIsValid
  BY DEF DraftInv
<1> QED
  BY <1>1, DraftInvHolds, PTL

\* A learner whose page is read in two steps gets the lesson the first found.
THEOREM PagesAreServed == DraftSpec => []ReaderGetsItsPage
<1>1. DraftInv => ReaderGetsItsPage
  BY DEF DraftInv, ReadsStand, ReadStands, ReaderGetsItsPage
<1> QED
  BY <1>1, DraftInvHolds, PTL

\* No command, though it may name rows of any version, and no discard changes
\* or removes a published version.
THEOREM PublicationsNeverChange == DraftSpec => PublishedNeverChanges
<1>1. DraftInv /\ [DraftNext]_draftVars =>
        [\A v \in Published : v \in DOMAIN versions' /\ versions'[v] = versions[v]]_draftVars
  BY PublicationsStand DEF DraftInv
<1> QED
  BY <1>1, DraftInvHolds, PTL DEF DraftSpec, PublishedNeverChanges

\* A new draft is a copy of the newest publication of the moment it is made,
\* though createDraft() chose its source before: the unique version number
\* refuses the copy of an older one.
THEOREM DraftsCopyTheLatest == DraftSpec => CopiesTheLatest
<1>1. ASSUME DraftInv, [DraftNext]_draftVars
      PROVE  [\A v \in DOMAIN versions' \ DOMAIN versions :
                versions'[v] = CopyOf(Highest(Published), v)]_draftVars
  <2>0. DraftShaped /\ NumbersInOrder /\ ReadsStand
    BY <1>1 DEF DraftInv
  <2> SUFFICES ASSUME NEW v \in DOMAIN versions' \ DOMAIN versions
               PROVE  versions'[v] = CopyOf(Highest(Published), v)
    OBVIOUS
  <2>1. DraftMade
    BY <1>1, <2>0, VersionMade
  <2> DEFINE n == made + 1
  <2>2. PICK s \in Published :
          /\ VersionFits(DraftNumber(s)) /\ DOMAIN versions' = DOMAIN versions \cup {n}
          /\ versions'[n] = CopyOf(s, n)
    BY <2>0, <2>1, MadeRows
  <2>3. s = Highest(Published)
    BY <2>0, <2>2, FittingSourceIsNewest
  <2> QED
    BY <2>2, <2>3
<1> QED
  BY <1>1, DraftInvHolds, PTL DEF DraftSpec, CopiesTheLatest

\* What the statements of every command rest on: within a version rows are
\* keyed by their ids, no two share a place or a content id, every lesson's
\* module exists, and there are fewer rows than would meet the temporary
\* positions.
THEOREM RowsInvHolds == DraftSpec => []RowsInv
<1>1. DraftInit => RowsInv
  BY RowsAtFirst
<1>2. DraftInv /\ RowsInv /\ [DraftNext]_draftVars => RowsInv'
  BY RowsKept
<1> QED
  BY <1>1, <1>2, DraftInvHolds, PTL DEF DraftSpec

\* No command's statements run into a unique constraint, whichever rows are
\* there under its lock: each passes by the temporary positions and names.
THEOREM StatementsNeverCollide == DraftSpec => []NoStatementCollides
<1>1. RowsInv => NoStatementCollides
  BY DEF RowsInv
<1> QED
  BY <1>1, RowsInvHolds, PTL

\* Every row's columns have their types, and its references lead to rows.
THEOREM DraftTyping == DraftSpec => []DraftTypeOK
<1>1. ASSUME DraftInv, RowsInv PROVE DraftTypeOK
  <2>1. DraftShaped
    BY <1>1 DEF DraftInv
  <2>2. ASSUME NEW v \in DOMAIN versions
        PROVE  /\ versions[v].number \in Nat \ {0} /\ versions[v].published \in BOOLEAN
               /\ versions[v].meta \subseteq Fields
               /\ versions[v].welcome \in Images \cup {NoImage}
               /\ {l.module : l \in versions[v].lessons} \subseteq
                     {m.id : m \in versions[v].modules}
               /\ {l.body : l \in versions[v].lessons} \subseteq Bodies
    BY <1>1, <2>1 DEF DraftShaped, RowsInv, Columns, Sound, Within
  <2>3. work \in 0 .. MaxWork
    BY <1>1 DEF RowsInv, RowsAreFew
  <2> QED
    BY <1>1, <2>1, <2>2, <2>3 DEF DraftTypeOK, DraftShaped, RowsInv
<1> QED
  BY <1>1, DraftInvHolds, RowsInvHolds, PTL

\* No command and no interleaving of commands opens a gap in the positions of
\* a version that had none.
THEOREM RanksStayClosed == DraftSpec => NoCommandLeavesAGap
<1>1. ASSUME DraftInv, RowsInv, [DraftNext]_draftVars
      PROVE  [\A v \in DOMAIN versions \cap DOMAIN versions' :
                PositionsAreContiguous(versions[v]) =>
                   PositionsAreContiguous(versions'[v])]_draftVars
  <2>1. CASE UNCHANGED draftVars
    BY <2>1
  <2>2. CASE DraftNext
    <3>1. PICK r \in Requests : Send(r) \/ Call(r) \/ Proceeds(r)
      BY <2>2 DEF DraftNext
    <3>2. CASE Send(r)
      BY <3>2, RowsStay DEF Send, Rows, RowsFollow
    <3>3. CASE Commit(r)
      BY <1>1, <3>3, CommitFollows DEF RowsFollow
    <3>4. CASE ~Send(r) /\ ~Commit(r)
      BY <1>1, <3>1, <3>4, StepFollows DEF RowsFollow
    <3> QED
      BY <3>2, <3>3, <3>4
  <2> QED
    BY <1>1, <2>1, <2>2
<1> QED
  BY <1>1, DraftInvHolds, RowsInvHolds, PTL DEF DraftSpec, NoCommandLeavesAGap

\* A new draft has the number after, the welcome image and the layout of what
\* is published last at the moment it is made, however long before
\* createDraft() chose its source.
THEOREM DraftsStartFromLatest == DraftSpec => DraftStartsFromLatest
<1>1. ASSUME DraftInv, RowsInv,
             [\A v \in DOMAIN versions' \ DOMAIN versions :
                versions'[v] = CopyOf(Highest(Published), v)]_draftVars,
             [DraftNext]_draftVars
      PROVE  [\A v \in DOMAIN versions' \ DOMAIN versions :
                LET latest == versions[Highest(Published)] IN
                /\ versions'[v].number = latest.number + 1
                /\ versions'[v].welcome = latest.welcome
                /\ Layout(versions'[v]) = Layout(latest)]_draftVars
  <2> SUFFICES ASSUME ~UNCHANGED draftVars, NEW v \in DOMAIN versions' \ DOMAIN versions
               PROVE  LET latest == versions[Highest(Published)] IN
                      /\ versions'[v].number = latest.number + 1
                      /\ versions'[v].welcome = latest.welcome
                      /\ Layout(versions'[v]) = Layout(latest)
    OBVIOUS
  <2> DEFINE s == Highest(Published)
  <2>0. DraftShaped /\ NumbersInOrder /\ ReadsStand
    BY <1>1 DEF DraftInv
  <2>1. versions'[v] = CopyOf(s, v)
    BY <1>1
  <2>2. Published # {}
    <3>1. DraftMade
      BY <1>1, <2>0, VersionMade
    <3> QED
      BY <3>1 DEF DraftMade
  <2>3. s \in DOMAIN versions
    BY <2>0, <2>2, NewestPublished DEF Published
  <2> HIDE DEF s
  <2>4. Columns(s, versions[s])
    BY <1>1, <2>3 DEF RowsInv
  <2> QED
    BY <2>1, <2>4, CopyIs, CopyColumns DEF s
<1> QED
  BY <1>1, DraftInvHolds, RowsInvHolds, DraftsCopyTheLatest, PTL
     DEF DraftSpec, CopiesTheLatest, DraftStartsFromLatest
=============================================================================
