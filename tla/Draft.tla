--------------------------------- MODULE Draft ---------------------------------
(***************************************************************************)
(* One course as its operators edit and publish it: the Course row, its    *)
(* CourseVersions with their modules and lessons, and its image assets.    *)
(* Source: apps/api/src/admin/draft, apps/api/src/admin/                   *)
(* course-publish.service.ts and publish-validation.ts, apps/api/src/admin *)
(* /assets, and the learners' reads in apps/api/src/courses.               *)
(*                                                                         *)
(* A process is a request: an operator's command, a command-line tool, or  *)
(* a learner's read.  What a request reads outside its transaction is a    *)
(* step of its own.  A transaction on a draft holds that CourseVersion row *)
(* FOR UPDATE from its first statement, and all who write to the draft do, *)
(* so it is one step; nobody else sees its rows before it commits.         *)
(***************************************************************************)
EXTENDS DraftRows

CONSTANTS
    Requests,      \* processes
    ContentIds,    \* lesson ids the authors choose
    Images,        \* assets that may be uploaded
    Fields,        \* of the course's metadata
    NoImage,
    Starts,        \* course histories to start from
    MaxWork        \* bound: an edit counts 2, any other request 1

ASSUME DraftAssumption ==
    /\ NoImage \notin Images /\ Images \cap {"empty", "text"} = {}
    /\ IsFiniteSet(ContentIds) /\ Cardinality(ContentIds) >= 2     \* of a sample's lessons
    /\ Starts \subseteq {"created", "ingested", "published", "drafted"}
    /\ MaxWork \in Nat

\* What the temporary positions and content ids rely on.
ASSUME TemporariesAreFree ==
    /\ IsFiniteSet(Requests) /\ MaxWork <= 2 * (POSITION_OFFSET - 3)   \* rows in a version
    /\ \A c \in ContentIds : c \notin {"reorder"} \X (Nat \X Nat)

VARIABLES
    course,      \* the Course row
    versions,    \* CourseVersion rows by id; ids are never used again
    assets,      \* ids of CourseAsset rows
    blobs,       \* objects in the blob store
    made,        \* CourseVersion rows made so far
    work,        \* requests begun so far, by weight
    at,          \* where each request is
    doing        \* what each request asks for and has read

draftVars == <<course, versions, assets, blobs, made, work, at, doing>>

-----------------------------------------------------------------------------
(* Data *)

\* A lesson's content: no block, a text block, or an image block.
Bodies == {"empty", "text"} \cup Images

\* serial: rows of either kind made in this version (ids are never used again).
NewVersion(number) ==
    [number |-> number, published |-> FALSE, meta |-> {}, welcome |-> NoImage,
     modules |-> {}, lessons |-> {}, serial |-> 0]

Sample(version, number, published) ==
    [NewVersion(number) EXCEPT
        !.published = published,
        !.modules = {[id |-> <<version, 1>>, position |-> 1, title |-> "a"],
                     [id |-> <<version, 2>>, position |-> 2, title |-> "a"]},
        !.lessons = {[id |-> <<version, i>>, module |-> <<version, i>>, position |-> 1,
                      contentId |-> SetToSeq(ContentIds)[i],
                      body |-> "text", assessments |-> 1] : i \in 1 .. 2},
        !.serial = 2]

NewCourse == [published |-> FALSE, lessonCount |-> 0, cover |-> NoImage, meta |-> {}]

\* "created": CourseCreateService.create(); "ingested": ingestFromDirectory()
\* of a course.json whose module positions skip one; "published" and "drafted":
\* what publish() and createDraft() make of a course.
VersionsAt(start) ==
    CASE start = "created"   -> [v \in {1} |-> NewVersion(1)]
      [] start = "ingested"  ->
            [v \in {1} |-> [Sample(v, 3, FALSE) EXCEPT !.modules =
                               {[m EXCEPT !.position = 2 * @ - 1] : m \in @}]]
      [] start = "published" -> [v \in {1} |-> Sample(v, 1, TRUE)]
      [] start = "drafted"   -> [v \in {1, 2} |-> Sample(v, v, v = 1)]

Idle == [command |-> [op |-> "none"], version |-> 0, assets |-> {}, cover |-> NoImage,
         first |-> FALSE]

DraftInit ==
    \E start \in Starts :
        /\ versions = VersionsAt(start)
        /\ course = IF start \in {"published", "drafted"}
                    THEN [NewCourse EXCEPT !.published = TRUE, !.lessonCount = 2]
                    ELSE NewCourse
        /\ made = Cardinality(DOMAIN versions)
        /\ assets = {} /\ blobs = {} /\ work = 0
        /\ at = [r \in Requests |-> "idle"]
        /\ doing = [r \in Requests |-> Idle]

Published == {v \in DOMAIN versions : versions[v].published}
Drafts == DOMAIN versions \ Published

\* Of a set of versions, the one with the highest number.
Highest(S) == CHOOSE v \in S : \A w \in S : versions[w].number <= versions[v].number

-----------------------------------------------------------------------------
(* Steps of a request *)

Stands(r, label) == at[r] = label
Moves(r, label) == at' = [at EXCEPT ![r] = label]
Ends(r) == /\ at' = [at EXCEPT ![r] = "idle"]
           /\ doing' = [doing EXCEPT ![r] = Idle]
Rows == <<course, versions, assets, blobs, made>>
Begins(r, weight) == at[r] = "idle" /\ work' = work + weight /\ work' <= MaxWork

\* The arrangements an author may ask for when the page shows this version:
\* the modules in some order, and each lesson in one module's list.
ListsOf(ids, contentIds) ==
    {lists \in [ids -> SetToAllKPermutations(contentIds)] :
        \A c \in contentIds :
            \E one \in ids : \A id \in ids : c \in Range(lists[id]) <=> id = one}
Arrangement(order, lists) == [i \in DOMAIN order |-> [id |-> order[i], lessons |-> lists[order[i]]]]
Arrangements(version) ==
    LET ids   == {m.id : m \in version.modules}
        deals == ListsOf(ids, {l.contentId : l \in version.lessons})
    IN  UNION {{Arrangement(order, lists) : lists \in deals} : order \in SetToSeqs(ids)}

\* Ids a page may still name: of any version there has been.
KnownModules == UNION {{m.id : m \in versions[v].modules} : v \in DOMAIN versions}
KnownLessons == UNION {{l.id : l \in versions[v].lessons} : v \in DOMAIN versions}

\* The routes of AdminCoursesController that change a draft.
Commands ==
    {[op |-> "createModule"]}
    \cup [op : {"updateModule", "deleteModule"}, module : KnownModules]
    \cup [op : {"createLesson"}, module : KnownModules, contentId : ContentIds, body : Bodies]
    \cup [op : {"updateLesson"}, contentId : ContentIds, body : Bodies]
    \cup [op : {"deleteLesson", "createAssessment"}, contentId : ContentIds]
    \cup [op : {"updateAssessment"}, lesson : KnownLessons]
    \cup [op : {"updateCourse"}, field : Fields]
    \cup [op : {"updateWelcome"}, image : Images \cup {NoImage}]
    \cup UNION {[op : {"reorder"}, order : Arrangements(versions[v])] : v \in Drafts}

Send(r) ==
    /\ Begins(r, 2)
    /\ \E command \in Commands :
          doing' = [doing EXCEPT ![r] = [Idle EXCEPT !.command = command]]
    /\ Moves(r, "ref")
    /\ UNCHANGED Rows

\* publish, create or discard the draft, upload, cover, a learner's page.
Call(r) ==
    /\ Begins(r, 1)
    /\ \E label \in {"latest", "existing", "discard", "blob", "coverBlob", "read"} :
          Moves(r, label)
    /\ UNCHANGED <<Rows, doing>>

\* The unpublished version's id, read before the transaction; none: 404.
requireDraftRef(r) ==
    /\ Stands(r, "ref")
    /\ \/ Drafts = {} /\ Ends(r)
       \/ /\ Drafts # {}
          /\ doing' = [doing EXCEPT ![r].version = Highest(Drafts)]
          /\ Moves(r, IF "body" \in DOMAIN doing[r].command THEN "assets" ELSE "commit")
    /\ UNCHANGED Rows

\* createLesson() and updateLesson() check the content against the assets
\* they read here; an image of another course is refused (422).
ValidContent(body, courseAssetIds) == body \in Images => body \in courseAssetIds

ReadAssets(r) ==
    /\ Stands(r, "assets")
    /\ IF ValidContent(doing[r].command.body, assets)
       THEN Moves(r, "commit") /\ UNCHANGED doing
       ELSE Ends(r)
    /\ UNCHANGED Rows

-----------------------------------------------------------------------------
(* The draft transaction *)

\* SELECT ... WHERE id AND publishedAt IS NULL FOR UPDATE
lockUnpublishedVersion(v) == v \in Drafts

\* Every statement is confined to rows with courseVersionId: draft.id; the
\* ids in a command may be of any version.
ScopeByRowIdOnly(v) == DOMAIN versions
Scope(v) == {v}

ModuleRow(v, id) == {wm \in UNION {{w} \X versions[w].modules : w \in Scope(v)} :
                        wm[2].id = id}

\* The draft's lesson with a content id; none is 404, several 409.
findLessonRow(v, contentId) ==
    LET matches == {l \in versions[v].lessons : l.contentId = contentId}
    IN  IF Cardinality(matches) = 1 THEN matches ELSE {}

\* What a command makes of the versions, and whether the constraints held; a
\* command without an outcome is refused.
Outcome(v, version, ok) == [versions |-> [versions EXCEPT ![v] = version], ok |-> ok]
Becomes(v, t) ==
    Outcome(v, [versions[v] EXCEPT !.modules = t.modules, !.lessons = t.lessons], t.ok)
Gains(v, t) ==
    Outcome(v, [versions[v] EXCEPT !.modules = t.modules, !.lessons = t.lessons,
                                   !.serial = @ + 1], t.ok)
NewId(v) == <<v, versions[v].serial + 1>>
LessonBecomes(v, l, new) ==
    Outcome(v, [versions[v] EXCEPT !.lessons = (@ \ {l}) \cup {new}], TRUE)

CreateModule(v) == {Gains(v, createModule(Transaction(versions[v]), NewId(v), "a"))}

UpdateModuleFields(v, id) ==
    {Outcome(wm[1],
        [versions[wm[1]] EXCEPT !.modules = (@ \ {wm[2]}) \cup {[wm[2] EXCEPT !.title = "b"]}],
        TRUE) : wm \in ModuleRow(v, id)}

DeleteModule(v, id) ==
    {Becomes(wm[1], deleteModule(Transaction(versions[wm[1]]), wm[2])) :
        wm \in ModuleRow(v, id)}

\* A content id is used once in a draft.
DuplicateLesson(v, contentId) == \E l \in versions[v].lessons : l.contentId = contentId

CreateLesson(v, id, contentId, body) ==
    {Gains(wm[1], createLesson(Transaction(versions[wm[1]]), NewId(wm[1]), id, contentId, body)) :
        wm \in {x \in ModuleRow(v, id) : ~DuplicateLesson(v, contentId)}}

UpdateLessonFields(v, contentId, body) ==
    {LessonBecomes(v, l, [l EXCEPT !.body = body]) : l \in findLessonRow(v, contentId)}

DeleteLesson(v, contentId) ==
    {Becomes(v, deleteLesson(Transaction(versions[v]), l)) : l \in findLessonRow(v, contentId)}

\* The permutation is checked against the rows as they are under the lock.
Reorder(v, order) ==
    LET t == Transaction(versions[v])
    IN  {Becomes(v, reorder(t, o)) : o \in {x \in {order} : Permutes(x, t)}}

\* An assessment is 0 (none), 1 (as created) or 2 (edited).
CreateAssessment(v, contentId) ==
    {LessonBecomes(v, l, [l EXCEPT !.assessments = 1]) : l \in findLessonRow(v, contentId)}

UpdateAssessment(v, lesson) ==
    {LessonBecomes(wl[1], wl[2], [wl[2] EXCEPT !.assessments = 2]) :
        wl \in {x \in UNION {{w} \X versions[w].lessons : w \in Scope(v)} :
                    x[2].id = lesson /\ x[2].assessments # 0}}

\* The patch is merged into the metadata as it is under the lock.
UpdateCourse(v, field) ==
    {Outcome(v, [versions[v] EXCEPT !.meta = @ \cup {field}], TRUE)}

UpdateWelcome(v, image) == {Outcome(v, [versions[v] EXCEPT !.welcome = image], TRUE)}

Outcomes(v, c) ==
    CASE c.op = "createModule"     -> CreateModule(v)
      [] c.op = "updateModule"     -> UpdateModuleFields(v, c.module)
      [] c.op = "deleteModule"     -> DeleteModule(v, c.module)
      [] c.op = "createLesson"     -> CreateLesson(v, c.module, c.contentId, c.body)
      [] c.op = "updateLesson"     -> UpdateLessonFields(v, c.contentId, c.body)
      [] c.op = "deleteLesson"     -> DeleteLesson(v, c.contentId)
      [] c.op = "reorder"          -> Reorder(v, c.order)
      [] c.op = "createAssessment" -> CreateAssessment(v, c.contentId)
      [] c.op = "updateAssessment" -> UpdateAssessment(v, c.lesson)
      [] c.op = "updateCourse"     -> UpdateCourse(v, c.field)
      [] c.op = "updateWelcome"    -> UpdateWelcome(v, c.image)

\* mutate(), updateCourse() and updateWelcome(): lock, write, commit.  A
\* collision rolls everything back and is answered 500.
Commit(r) ==
    LET v == doing[r].version IN
    /\ Stands(r, "commit")
    /\ \/ /\ ~lockUnpublishedVersion(v)
          /\ Ends(r) /\ UNCHANGED Rows
       \/ /\ lockUnpublishedVersion(v)
          /\ Outcomes(v, doing[r].command) = {}
          /\ Ends(r) /\ UNCHANGED Rows
       \/ /\ lockUnpublishedVersion(v)
          /\ \E o \in Outcomes(v, doing[r].command) :
                IF o.ok
                THEN /\ versions' = o.versions
                     /\ Ends(r)
                     /\ UNCHANGED <<course, assets, blobs, made>>
                ELSE Moves(r, "P2002") /\ UNCHANGED <<Rows, doing>>

-----------------------------------------------------------------------------
(* createDraft(), discardDraft() *)

FindExisting(r) ==
    /\ Stands(r, "existing")
    /\ IF Drafts # {} THEN Ends(r) ELSE Moves(r, "source") /\ UNCHANGED doing
    /\ UNCHANGED Rows

FindSource(r) ==
    /\ Stands(r, "source")
    /\ IF Published = {}
       THEN Ends(r)
       ELSE /\ doing' = [doing EXCEPT ![r].version = Highest(Published)]
            /\ Moves(r, "copy")
    /\ UNCHANGED Rows

\* @@unique([courseId, version]) and CourseVersion_one_draft_per_course
FitsWithoutNumberKey(number) == Drafts = {}
VersionFits(number) ==
    /\ \A v \in DOMAIN versions : versions[v].number # number
    /\ Drafts = {}

NextFreeNumber(source) == versions[Highest(DOMAIN versions)].number + 1
DraftNumber(source) == versions[source].number + 1

\* Everything but the metadata patch is copied, under new row ids.
CopyOf(source, v) ==
    LET Renamed(id) == <<v, id[2]>> IN
    [NewVersion(DraftNumber(source)) EXCEPT
        !.welcome = versions[source].welcome,
        !.serial  = versions[source].serial,
        !.modules = {[m EXCEPT !.id = Renamed(@)] : m \in versions[source].modules},
        !.lessons = {[l EXCEPT !.id = Renamed(@), !.module = Renamed(@)] :
                        l \in versions[source].lessons}]

CopyVersion(r) ==
    LET source == doing[r].version IN
    /\ Stands(r, "copy")
    /\ IF VersionFits(DraftNumber(source))
       THEN /\ made' = made + 1
            /\ versions' = [v \in DOMAIN versions \cup {made'} |->
                              IF v = made' THEN CopyOf(source, v) ELSE versions[v]]
            /\ Ends(r)
       ELSE Moves(r, "winner") /\ UNCHANGED <<versions, made, doing>>
    /\ UNCHANGED <<course, assets, blobs>>

\* P2002: another request's draft, or the error.
FindWinner(r) == Stands(r, "winner") /\ Ends(r) /\ UNCHANGED Rows

\* A course that was never published keeps its draft.
DiscardAllowed(r) ==
    /\ Stands(r, "discard")
    /\ IF Published = {} THEN Ends(r) ELSE Moves(r, "discardRef") /\ UNCHANGED doing
    /\ UNCHANGED Rows

DiscardRef(r) ==
    /\ Stands(r, "discardRef")
    /\ IF Drafts = {}
       THEN Ends(r)
       ELSE /\ doing' = [doing EXCEPT ![r].version = Highest(Drafts)]
            /\ Moves(r, "delete")
    /\ UNCHANGED Rows

discardDraft(r) ==
    LET v == doing[r].version IN
    /\ Stands(r, "delete")
    /\ versions' = IF lockUnpublishedVersion(v)
                   THEN [w \in DOMAIN versions \ {v} |-> versions[w]] ELSE versions
    /\ Ends(r)
    /\ UNCHANGED <<course, assets, blobs, made>>

-----------------------------------------------------------------------------
(* publish() *)

\* The course row and the latest version: published already is a no-op.
FindLatest(r) ==
    /\ Stands(r, "latest")
    /\ IF versions[Highest(DOMAIN versions)].published
       THEN Ends(r)
       ELSE /\ doing' = [doing EXCEPT ![r].cover = course.cover]
            /\ Moves(r, "draft")
    /\ UNCHANGED Rows

Renderable(body) == body # "empty"

collectDraftPublishIssues(version, courseAssetIds, coverAssetId, isFirstPublish) ==
    \/ coverAssetId # NoImage /\ coverAssetId \notin courseAssetIds
    \/ version.welcome # NoImage /\ version.welcome \notin courseAssetIds
    \/ version.lessons = {}
    \/ isFirstPublish /\ \E m \in version.modules : LessonsOf(version, m.id) = {}
    \/ ~PositionsAreContiguous(version)
    \/ \E l, k \in version.lessons : l # k /\ l.contentId = k.contentId
    \/ \E l \in version.lessons :
          ~ValidContent(l.body, courseAssetIds) \/ ~Renderable(l.body)

\* The draft, the assets and the previous publication, and the first check.
ReadDraft(r) ==
    /\ Stands(r, "draft")
    /\ IF \/ Drafts = {}
          \/ collectDraftPublishIssues(versions[Highest(Drafts)], assets,
                                       doing[r].cover, Published = {})
       THEN Ends(r)
       ELSE /\ doing' = [doing EXCEPT ![r].version = Highest(Drafts), ![r].assets = assets,
                                      ![r].first = (Published = {})]
            /\ Moves(r, "publish")
    /\ UNCHANGED Rows

\* The check under the lock.
NothingCheckedAgain(r) == FALSE
LockedIssues(r) ==
    collectDraftPublishIssues(versions[doing[r].version], doing[r].assets,
                              doing[r].cover, doing[r].first)

\* The Course row that publishing a version writes.
PublishedCourse(v) ==
    [course EXCEPT !.published = TRUE,
                   !.lessonCount = Cardinality(versions[v].lessons),
                   !.meta = @ \cup versions[v].meta]

Publish(r) ==
    LET v == doing[r].version IN
    /\ Stands(r, "publish")
    /\ IF lockUnpublishedVersion(v) /\ ~LockedIssues(r)
       THEN /\ versions' = [versions EXCEPT ![v].published = TRUE]
            /\ course' = PublishedCourse(v)
       ELSE UNCHANGED <<versions, course>>
    /\ Ends(r)
    /\ UNCHANGED <<assets, blobs, made>>

-----------------------------------------------------------------------------
(* Assets *)

\* The object is stored before its row is written (upload and setCourseCover).
PutBlob(r) ==
    \E i \in Images \ blobs :
        /\ at[r] \in {"blob", "coverBlob"}
        /\ blobs' = blobs \cup {i}
        /\ doing' = [doing EXCEPT ![r].cover = i]
        /\ Moves(r, IF at[r] = "blob" THEN "assetRow" ELSE "coverRow")
        /\ UNCHANGED <<course, versions, assets, made>>

CreateAsset(r) ==
    /\ at[r] \in {"assetRow", "coverRow"}
    /\ assets' = assets \cup {doing[r].cover}
    /\ IF at[r] = "assetRow" THEN Ends(r) ELSE Moves(r, "setCover") /\ UNCHANGED doing
    /\ UNCHANGED <<course, versions, blobs, made>>

\* The row is rolled back: an upload takes its object back, if it can.
CreateAssetFails(r) ==
    /\ at[r] \in {"assetRow", "coverRow"}
    /\ \/ at[r] = "assetRow" /\ blobs' = blobs \ {doing[r].cover}
       \/ UNCHANGED blobs
    /\ Ends(r)
    /\ UNCHANGED <<course, versions, assets, made>>

setCourseCover(r) ==
    /\ Stands(r, "setCover")
    /\ course' = [course EXCEPT !.cover = doing[r].cover]
    /\ Ends(r)
    /\ UNCHANGED <<versions, assets, blobs, made>>

-----------------------------------------------------------------------------
(* A learner's lesson page: the published version first, the content after *)

LatestVersionOfAll == Highest(DOMAIN versions)
LATEST_PUBLISHED_VERSION == Highest(Published)

requirePublishedCourseWithLatestVersion(r) ==
    /\ Stands(r, "read")
    /\ \/ ~course.published /\ Ends(r)
       \/ /\ course.published
          /\ \E l \in versions[LATEST_PUBLISHED_VERSION].lessons :
                doing' = [doing EXCEPT ![r].version = LATEST_PUBLISHED_VERSION,
                                       ![r].command = [op |-> "getLesson", row |-> l]]
          /\ Moves(r, "content")
    /\ UNCHANGED Rows

getLesson(r) ==
    LET v == doing[r].version IN
    /\ Stands(r, "content")
    /\ IF v \in DOMAIN versions /\ doing[r].command.row \in versions[v].lessons
       THEN Ends(r) ELSE Moves(r, "changed") /\ UNCHANGED doing
    /\ UNCHANGED Rows

-----------------------------------------------------------------------------
\* What a request under way may do.
Proceeds(r) ==
    \/ requireDraftRef(r) \/ ReadAssets(r) \/ Commit(r)
    \/ FindExisting(r) \/ FindSource(r) \/ CopyVersion(r) \/ FindWinner(r)
    \/ DiscardAllowed(r) \/ DiscardRef(r) \/ discardDraft(r)
    \/ FindLatest(r) \/ ReadDraft(r) \/ Publish(r)
    \/ PutBlob(r) \/ CreateAsset(r) \/ CreateAssetFails(r) \/ setCourseCover(r)
    \/ requirePublishedCourseWithLatestVersion(r) \/ getLesson(r)

DraftNext ==
    \E r \in Requests :
        \/ Send(r)
        \/ Call(r)
        \/ Proceeds(r) /\ UNCHANGED work

DraftSpec == DraftInit /\ [][DraftNext]_draftVars

-----------------------------------------------------------------------------
(* Properties *)

\* The values the model's state may take.
DraftTypeOK ==
    /\ course \in [published : BOOLEAN, lessonCount : Nat,
                   cover : Images \cup {NoImage}, meta : SUBSET Fields]
    /\ DOMAIN versions \subseteq 1 .. made
    /\ \A v \in DOMAIN versions :
          /\ versions[v].number \in Nat \ {0}
          /\ versions[v].published \in BOOLEAN
          /\ versions[v].meta \subseteq Fields
          /\ versions[v].welcome \in Images \cup {NoImage}
          /\ {l.module : l \in versions[v].lessons} \subseteq {m.id : m \in versions[v].modules}
          /\ {l.body : l \in versions[v].lessons} \subseteq Bodies
    /\ assets \subseteq Images /\ blobs \subseteq Images
    /\ work \in 0 .. MaxWork

\* A course has at most one draft, and it is newer than all that is
\* published, whatever createDraft(), discardDraft() and publish() meet.
OneDraft ==
    /\ Cardinality(Drafts) <= 1
    /\ \A d \in Drafts, v \in Published : versions[v].number < versions[d].number

\* Nothing an operator does changes or removes what has been published,
\* although its rows' ids may still stand in a command.
PublishedNeverChanges ==
    [][\A v \in Published : v \in DOMAIN versions' /\ versions'[v] = versions[v]]_draftVars

\* What learners are shown passed the checks as it is shown: edits between
\* publish()'s first check and its lock included, and objects that an upload
\* takes back; and the Course row counts the lessons of the latest of it.
PublishedIsValid ==
    /\ \A v \in Published :
          /\ ~collectDraftPublishIssues(versions[v], assets, course.cover, FALSE)
          /\ \A l \in versions[v].lessons : l.body \in Images => l.body \in blobs
          /\ versions[v].welcome \in blobs \cup {NoImage}
    /\ course.cover \in blobs \cup {NoImage}
    /\ course.published =>
          course.lessonCount = Cardinality(versions[Highest(Published)].lessons)

\* Positions without a gap stay so: a deletion closes ranks, and an
\* arrangement made before another operator's edit is refused, not half applied.
NoCommandLeavesAGap ==
    [][\A v \in DOMAIN versions \cap DOMAIN versions' :
          PositionsAreContiguous(versions[v]) => PositionsAreContiguous(versions'[v])]_draftVars

\* No row, on its way through the temporary positions, meets another: a
\* transaction is never answered with the database's P2002.
NoStatementCollides == \A r \in Requests : at[r] # "P2002"

\* A draft starts as the newest publication at the moment it is made, though
\* its source was read before: no publication in between is lost.
Layout(version) ==
    {[position |-> m.position, title |-> m.title,
      lessons |-> {[l EXCEPT !.id = 0, !.module = 0] : l \in LessonsOf(version, m.id)}] :
        m \in version.modules}
DraftStartsFromLatest ==
    [][\A v \in DOMAIN versions' \ DOMAIN versions :
          LET latest == versions[Highest(Published)] IN
          /\ versions'[v].number = latest.number + 1
          /\ versions'[v].welcome = latest.welcome
          /\ Layout(versions'[v]) = Layout(latest)]_draftVars

\* A learner's page is not pulled away between the two reads it is made of.
ReaderGetsItsPage == \A r \in Requests : at[r] # "changed"

-----------------------------------------------------------------------------
(* The inductive invariant behind these *)

\* Rows keep their columns.
IsVersionRow(x) ==
    x = [number |-> x.number, published |-> x.published, meta |-> x.meta,
         welcome |-> x.welcome, modules |-> x.modules, lessons |-> x.lessons,
         serial |-> x.serial]
IsCourseRow(x) ==
    x = [published |-> x.published, lessonCount |-> x.lessonCount, cover |-> x.cover,
         meta |-> x.meta]
IsRequest(x) ==
    x = [command |-> x.command, version |-> x.version, assets |-> x.assets,
         cover |-> x.cover, first |-> x.first]

DraftShaped ==
    /\ made \in Nat /\ DOMAIN versions \subseteq 1 .. made
    /\ versions = [v \in DOMAIN versions |-> versions[v]]
    /\ \A v \in DOMAIN versions :
          /\ IsVersionRow(versions[v])
          /\ versions[v].number \in Nat \ {0} /\ versions[v].published \in BOOLEAN
    /\ IsCourseRow(course) /\ course.published \in BOOLEAN
    /\ at = [r \in Requests |-> at[r]]
    /\ doing = [r \in Requests |-> doing[r]]
    /\ \A r \in Requests : IsRequest(doing[r])

\* The publications are numbered one after the other, and the draft is next.
NumbersInOrder ==
    /\ \A d, e \in Drafts : d = e
    /\ \A d \in Drafts, v \in Published : versions[v].number < versions[d].number
    /\ \A v, w \in Published : versions[v].number = versions[w].number => v = w
    /\ \A v, w \in Published : versions[v].number < versions[w].number =>
          \E u \in Published : versions[u].number = versions[v].number + 1
    /\ Published # {} =>
          \E v \in Published :
              /\ \A w \in Published : versions[w].number <= versions[v].number
              /\ \A d \in Drafts : versions[d].number = versions[v].number + 1

CommandNames ==
    {"createModule", "updateModule", "deleteModule", "createLesson", "updateLesson",
     "deleteLesson", "reorder", "createAssessment", "updateAssessment", "updateCourse",
     "updateWelcome"}

\* What a request has read of a publication is still so.
ReadStands(r) ==
    /\ at[r] \in {"ref", "assets", "commit"} => doing[r].command.op \in CommandNames
    /\ at[r] = "copy" => doing[r].version \in Published
    /\ at[r] = "content" =>
          /\ doing[r].version \in Published
          /\ doing[r].command.row \in versions[doing[r].version].lessons
    /\ at[r] # "changed"
ReadsStand == \A r \in Requests : ReadStands(r)

\* An object whose row is not written yet belongs to one request.
Uploading(r) == at[r] \in {"assetRow", "coverRow"}
ObjectStands(r) ==
    /\ Uploading(r) => doing[r].cover \in blobs \ assets
    /\ at[r] = "setCover" => doing[r].cover \in assets
    /\ at[r] = "publish" => doing[r].assets \subseteq assets
ObjectsAreStored ==
    /\ assets \subseteq blobs
    /\ course.cover \in assets \cup {NoImage}
    /\ \A r \in Requests : ObjectStands(r)
    /\ \A r, q \in Requests :
          Uploading(r) /\ Uploading(q) /\ doing[r].cover = doing[q].cover => r = q

DraftInv ==
    /\ DraftShaped /\ NumbersInOrder /\ ReadsStand /\ ObjectsAreStored
    /\ course.published => Published # {}
    /\ PublishedIsValid

\* The rows of a version: each is made by an edit, and fewer are made than
\* would reach the temporary positions.
Columns(v, x) ==
    /\ x.serial \in Nat /\ Sound(x) /\ Within(x, v, x.serial, ContentIds, Bodies)
    /\ x.meta \in SUBSET Fields /\ x.welcome \in Images \cup {NoImage}
Editing == {r \in Requests : at[r] \in {"ref", "assets", "commit"}}
RowsAreFew ==
    /\ work \in 0 .. MaxWork
    /\ \A v \in DOMAIN versions : 2 * (versions[v].serial + Cardinality(Editing)) <= work + 4

IsCommand(c) ==
    /\ c.op = "createLesson" => c.contentId \in ContentIds /\ c.body \in Bodies
    /\ c.op = "updateLesson" => c.body \in Bodies
    /\ c.op = "reorder" => IsOrder(c.order)
    /\ c.op = "updateCourse" => c.field \in Fields
    /\ c.op = "updateWelcome" => c.image \in Images \cup {NoImage}

RowsInv ==
    /\ \A v \in DOMAIN versions : Columns(v, versions[v])
    /\ RowsAreFew
    /\ \A r \in Editing : IsCommand(doing[r].command)
    /\ course \in [published : BOOLEAN, lessonCount : Nat,
                   cover : Images \cup {NoImage}, meta : SUBSET Fields]
    /\ assets \subseteq Images /\ blobs \subseteq Images
    /\ NoStatementCollides

\* A new draft is a copy of the newest publication at that moment.
CopiesTheLatest ==
    [][\A v \in DOMAIN versions' \ DOMAIN versions :
          versions'[v] = CopyOf(Highest(Published), v)]_draftVars
=============================================================================
