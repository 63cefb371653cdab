# Verification of aivirteach-server

TLA+ models of the server in this repository, TLC configurations that check
them on small instances, and TLAPS proofs of theorems about them. The source
paths below are relative to the repository; `api/` stands for
`src/apps/api/src/`.

## 1. Inventory

| Part | State it keeps | Operations | What is hard | What makes it correct |
|---|---|---|---|---|
| Workspace lifecycle (`api/workspace/workspace.service.ts`) | `Workspace` row (status, labId, provisionGeneration, provisionStartedAt, resetRetryAt, lastSeenAt), `WorkspaceProvision` clean-up records | create, provision job, attach, clean-up, reset, stop, start, rebuild, heartbeat, idle and reset sweeps | requests, `waitUntil` jobs and sweeps race; function instances disappear; Labs answers late, twice or not at all | no machine is lost track of; nothing destructive reaches a machine in use; a reset row only goes away; old requests do not disturb newer machines |
| Labs (`api/workspace/labs-client.ts`) | the machines (outside this repository) | POST, DELETE, start, shutdown, status | a POST may be executed after its client gave up; a DELETE is confirmed by a status query, not by its answer | the client reports "gone" only when the status query says so |
| Enrollment and learning state (`api/enrollments/`) | `Enrollment` (active, generation, progressRevision, learningState, courseVersionId), `LearningSnapshot`, `Activity` | enroll, set progress, set reading position, restart, snapshot, remap at publication | several tabs and devices hold old views; retries of lost responses; publication in between; the enroll command writes enrollments too | a write acts on the state its author saw; a learner's own requests leave one course active; idempotent restart and snapshots |
| Chat (`api/chat/`) | `Conversation` | prepare, diagnose, save reply, fall back, stream | the reply arrives after a restart; duplicates of a request; a crash between the answer and its row | each question and each reply once; no reply in a newer generation |
| Token usage and quota (`api/token-usage/`) | `QuotaLedger`, usage columns of `Conversation` | check, charge, settle at restart | check and charge are far apart; restart moves usage from one table to the other while a check adds the two up | every measured reply is charged exactly once |
| Learner authentication (`api/auth/`) | `User`, `Invitation`, `RefreshToken` | invite, accept, login, refresh, logout | no transactions; two refreshes with one token; a statement that fails or an instance lost between two; a retry of a lost answer; replay of a revoked token | a sign-in has one live token that anybody was sent; a replayed token ends the family |
| Operator authentication (`api/operator-auth/`, `api/admin/operator-admin.service.ts`) | `Operator` (failedLoginCount, lockedUntil, passwordChangedAt, status) | login, lock, add, reset, disable | concurrent logins around the lock and its expiry; hashing between read and write; whole seconds against milliseconds | a lock, once set, is not cleared by a login that began before it; every fifth failure locks; a reset ends the sessions of the old password, to the second, and none of the new |
| Course draft and publication (`api/admin/draft/`, `api/admin/course-publish.service.ts`) | `CourseVersion`, modules, lessons, assessments, `Course` | create draft, edit, reorder, discard, publish, remap | pages with ids of another version; edits racing with publication; reads before the lock; unique positions checked row by row | one draft; a published version never changes; what is published was validated; positions stay without gaps |
| Assets (`api/admin/assets/`, `api/admin/admin.service.ts`) | `CourseAsset` rows, objects in the blob store | upload, set the course's cover | the object and its row are written one after the other | every image that is published is stored |
| Catalogue and ingestion (`api/courses/`) | published content | read, import | a read in two queries; text conversion | a learner's page is not pulled away between its reads |
| Admin service and commands (`api/admin/admin.service.ts`, `commands/`) | - | invite, enroll, quota grant; the course and operator commands wrap the services above | `enrollUser()` inserts an active `Enrollment` and neither locks the learner nor deactivates anything: the learner may have two active courses, and `dashboard.service.ts:104` shows either | the learner's next enroll or restart deactivates the others |
| Console, lesson editor (`src/apps/admin/components/editor/`) | blocks, undo history, uploads, the autosave queue | edit, undo, upload, autosave, retry, leave | saves and uploads answered late, twice or not at all while the author types | no unsaved change is left without a warning; every edit is settled; uploads do not undo later choices |
| Console, course page (`src/apps/admin/components/courses/`) | forms, the tree's pending order, dirty marks, locks | type, submit, reorder, create, discard, publish | what a button asks for is computed from props that a refresh will replace; a refresh brings other operators' changes along, and a form whose values changed is built anew | a button acts on the draft that is stored, as far as the page was told; a refresh takes no typing away but where somebody else changed that very form's values |
| Packages (`src/packages/`) | none | schemas, text derivation | - | - |
| Dashboard, health, configuration, audit, scripts | read-only or append-only | - | - | - |

How the parts interact: all state is in PostgreSQL. The services call each
other in process: `EnrollmentsService.restart` marks the workspace `RESETTING`
inside its transaction and calls `WorkspaceService.finishReset` after it;
`CoursePublishService.publish` calls `remapPublishedReadingPointers` inside its
transaction; the console's server actions call the routes of
`AdminCoursesController`, each of which is one transaction of
`DraftContentService` on the unpublished version's row; chat, progress and provision transactions all begin by locking the
`Enrollment` row in the generation they were asked for, which is how a restart
fences them off. The API runs as short-lived function instances: background
work is handed to `waitUntil` and may be cut off anywhere; the sweeps that
every request and one daily cron job start are the only recovery.

## 2. Modules and plan

Order of work, most important behaviour first.

| Module | Models | Status |
|---|---|---|
| `Workspace.tla` | workspace lifecycle and Labs | done |
| `VmCustody.tla` | abstract: what becomes of a machine; `Workspace` implements it | done |
| `WorkspaceProofs.tla` | type correctness, `AttachedVmIsSafe`, `ResettingIsFinal` | done |
| `CustodyProofs.tla` | `RestartFencesProvisions`, `NoOrphanVm`, the refinement of `VmCustody` | done |
| `Learning.tla` | enrollment, progress, restart, snapshots, publication's remap | done |
| `LearningProofs.tla` | one active enrollment, reading position, revisions, records of achievements and restarts | done |
| `Chat.tla` | questions, replies, usage and quota across restarts | done |
| `ChatProofs.tla` | conservation of usage, the transcript, one call per question, the quota's verdict | done |
| `DraftRows.tla` | the rows of one version and the statement sequences that create, delete and reorder them | done |
| `Draft.tla` | a course's draft, its publication, its assets, and a learner's read | done |
| `Operators.tla` | an operator account: logins, lock, commands, the guard | done |
| `Sessions.tla` | invitations, refresh tokens and their rotation | done |
| `CoursePage.tla` | the console's course page | done |
| `Accounts.tla` | `Operators` and `Sessions` composed | done |
| `MCServer.tla`, `MCConsole.tla` | one run of `Accounts`, `Draft` and `Chat`; one of `CoursePage` and `LessonEditor` | done |
| `LessonEditor.tla` | the console's lesson editor and its autosave | done |
| `AccountsProofs.tla` | operators: `FifthFailureLocks`, `SessionsFollowThePassword`, `LockHolds`; sessions: `OneLiveTokenPerSignIn`, `ReplayEndsFamily`; `AccountsTypeOK` of the composition | done |
| `DraftRowsProofs.tla` | what each statement sequence of `DraftRows` leaves behind | done |
| `DraftProofs.tla` | `OneDraft`, `PublishedIsValid`, `PublishedNeverChanges`, `ReaderGetsItsPage`, `NoStatementCollides`, `NoCommandLeavesAGap`, `DraftStartsFromLatest`, `DraftTypeOK` | done |
| `ConsoleProofs.tla` | the course page and the lesson editor: `ActsOnTheSavedDraft`, `TypingStays`, `GuardCoversUnsaved`, `UploadsGiveWay` | done |
| `IdleSweep.tla`, `SweepQueue.tla` | lastSeenAt and the idle timeout; batches of ten clean-up records | planned |

Abstract specifications worth stating beside `VmCustody`: progress as a single
versioned register that `Learning` implements; the quota as one balance that
each reply debits, which `Chat` implements up to rounding. A dozen runs is what
a change to the code can reasonably wait for, so components that share no state
share a run.

Each `MC*` module extends one specification with the symmetry set and the small
sets its configurations name (`MCServer` three and `MCConsole` two of them); each
`.cfg` is one run. Proof modules extend the specification, `AccountsProofs` the
composition `Accounts`, and `TLAPS`. No module that has theorems uses a RECURSIVE operator.

### 2.1 `Workspace`, `VmCustody`

State. `enrollment` and `workspace` are the two rows; `provision` is
`WorkspaceProvision` by lab id; `post`, `vm` and `deletes` are Labs: what became
of each POST, the machine, and the DELETE requests not yet applied. A lab id is
the pair (workspace row, provision generation), as `scheduleProvision()` builds
it. `pc` and `job` say where each request, `waitUntil` job or sweep is and what
it has read.

Actions. One per database statement or transaction and one per answer of Labs:
`Create`, `CreateRetry`, `CreateInsert`, `ScheduleProvision`, `PostVm`,
`CreateVmAnswers`, `CreateVmFails`, `Attach` follow `create()` and
`provisionInBackground()`; `Claim` to `CleanWrite` follow `cleanupProvision()`,
`SweepReset` to `ResetWrite` follow `finishReset()`, `Stop` to `MarkVmMissing`
and `Start` to `RebuildMissingVm` the two power operations and the rebuild of a
missing machine; `Restart` is the part of `EnrollmentsService.restart()` that
touches the workspace. The guards are the `WHERE` clauses of the `updateMany`
calls. `Crash` ends a process anywhere: a reclaimed function instance or a
database error that nobody catches.

What is abstracted, and why it may be.

- One enrollment. Every statement of the service is keyed by an enrollment, by
  a row or by a lab id that belongs to one enrollment.
- No clock. A deadline may or may not have passed whenever it is looked at, so
  every timing is covered; properties that need real time (how long until a
  machine is stopped) are not.
- `Reprovision` covers the update and the `findUnique` after it; the row would
  have to expire and be recreated within the two statements for that to matter,
  and expiry takes five minutes. A failed power call and the status query that
  follows it are one answer. The sweep's listing and the claim that repeats its
  condition are one action; a list with stale entries is then a list whose
  claims fail.
- `POST /v1/vms` may be executed after the client's timeout, or never. `DELETE`
  is applied once, possibly late. The client's "gone" is a confirmed absence.
- `lastSeenAt` (heartbeat, idle sweep) is left to `IdleSweep`; `stop` is
  possible at any time instead. The status `DESTROYED` of the schema is never
  written by the code. Clean-up records whose creation never settled are kept
  for ever, as in the code.

### 2.2 `Learning`

State. `course` is the latest published version and its lesson order,
`enrollment` the learner's rows (active, generation, revision, learning state),
`snapshots` and `activities` the tables. `job[p].view` is what client `p` last
read through `getProgress()`: commands are sent from it at any later time, any
number of times, which is what a retry, a duplicate or a delayed request is.

Actions. `ReadRow` and `ReadVersion` are the two reads of `getProgress()`.
`BeginWrite` takes the course's share lock, `CompleteLesson`, `ClearLesson` and
`SetReadingPosition` are the rest of `writeProgress()`; `RestartLockUser`,
`RestartShareCourse`, `Restart` are `restart()`; `BeginSnapshot` and
`CreateSnapshot` the manual snapshot; `EnrollLockUser`, `EnrollDeactivate`,
`EnrollWrite` the three statements of `enroll()`; `PublishLock`, `PublishFind`,
`PublishWrite` are `publish()` as it meets learners. `enrollUser` is the
operator's enroll command: one statement that takes no lock, can come between
any two of the others and leaves its course active beside the learner's own.
`assigned` (history) marks a course that is active by that command, until an
`enroll()` or `restart()` of the learner decides on it. A transaction keeps the
row locks it has taken until its last step, and who holds a lock follows from
`pc`, so READ COMMITTED with row locks is modelled, not serialisability.

Abstracted: one learner; a version is its number and lesson order; a repeated
idempotency key is answered or refused and writes nothing either way; restart's
effect on the workspace is in `Workspace`, on the conversations and the ledger
in `Chat`; the `courseVersionId` column of an enrollment (written by `enroll()`
from a read before its transaction) is not read by these operations and is left
out; the first publication of a course and publish's own validation are
in `Draft`. `publish()` reads the previous version before
it locks; a draft can be published once, so that read is still current after
the lock.

### 2.3 `Chat`

State. `generation` and `active` of each enrollment; the `Conversation` rows,
each a key (enrollment, generation, request id) and a role; `metered`, the sum
of the rows' weighted usage per enrollment, and `charged`, what the ledger rows
written for it take: nobody reads the single values, only these sums. Usage is
counted in fractions of a token, `Scale` of which make one, because the weights
are decimal and `weightedConsumption()` rounds up.

Actions. `Ask`, `ReadLedger`, `ReadUsage` (parallel, in either order), `Refuse`,
`Admit` and `FailOpen` are the guard; `Prepare` is `prepareMessage()`'s
transaction; `AgentAnswers`/`AgentFails` the call; `SaveReply`,
`ReplyIsStale`/`ChargeStale` and `respondWithFallback` the three ends of a
question, the same for `sendMessage()` and `streamPrepared()`; `RestartSum` and
`RestartCommit` are restart's two statements on the conversations, between
which it holds its row locks; `Enroll` makes another enrollment active, instead of
the others or, as the enroll command does, beside them. `Abort`
is any refusal of a transaction (the version changed, the generation is over),
a database error or a lost instance.

Abstracted: `Prepare` goes on to the Agent or to a fallback at will, because the
workspace's status is another component's; what the Agent is told about the
lesson, the frames of a stream, and `lastSeenAt` are left out; a restart needs
no view here (its guard is in `Learning`); the grant is fixed, so the balance
only falls.

### 2.4 `DraftRows`, `Draft`

State. `course` is the `Course` row, `versions` the `CourseVersion` rows with
their modules and lessons, `assets` the `CourseAsset` rows, `blobs` the blob
store; `at` and `doing` say where each request is, what it asks for and what it
has read. The ids of rows are never used again, so a page may name rows of a
version that was published or discarded since.

Actions. `Send` begins one of the commands on a draft with any arguments a page
could have; `requireDraftRef` and `ReadAssets` are its reads before the
transaction, `Commit` the transaction. `FindExisting` to `FindWinner` follow
`createDraft()`, `DiscardAllowed` to `discardDraft` the discarding, `FindLatest`,
`ReadDraft`, `Publish` the publication, `PutBlob` to `setCourseCover` uploads and
covers, `requirePublishedCourseWithLatestVersion` and `getLesson` the two queries
of a learner's page. A draft's transaction is one step because each that writes
to a draft first locks its row `FOR UPDATE`, so no other writes to it between,
and under READ COMMITTED nobody sees the rows before the commit.

`DraftRows` looks inside that step: PostgreSQL checks a unique constraint row by
row, so `createModule` to `reorder` are folds over the statements the code
sends, each of which may collide, the single rows of a mass update in any order
included. A collision ends the request at `P2002`.

Abstracted: the draft, assets and previous version that `publish()` reads are
one action (`ReadDraft`); had a publication come between, the lock would find
the draft published and refuse. A body is empty, a text or one image, because
validation asks only whether there is content and whose the images are;
durations, audit records and the texts of metadata are left out; of an
assessment only how many a lesson has. Moving the readers' positions is in
`Learning`.

### 2.5 `Operators`

State. One account's row, a clock in the seconds of a token's `iat`, where each
login and each command is, and one token of those signed (any). History:
`guesses`, the wrong passwords counted since the count was last cleared;
`dropped`, that the last of them to reach the limit was lost before it set the
lock; and in the row `inForceSince`, the second in which the commit put the
password in force, where `changedAt` is the second the transaction began in.

Actions. Every statement of `login()` and `registerFailure()` is one:
`FindOperator`, `VerifyPassword`, `RestartCount`, `IncrementCount`, `SetLock`,
`Release`, `SignSession`. `FindAccount`, `add`, `reset` and `disable` are the
command-line tools; `BeginTransaction` fixes the database's `now()`, which `add`
and `reset` write when they commit, and `EndsEarly` is a dry run or a failed
transaction. `LoginLost` ends a login at any statement: a database error or a
lost instance. `Admitted` is the guard's `canActivate()`. The API and the
database go by one clock. Hashing and audit are only where other requests run.

### 2.6 `Sessions`

State. A learner's status, the `Invitation` and `RefreshToken` rows, where each
request is. History: `overlapped`, the sign-ins of which two refreshes of one
token ran at once; `stranded`, the tokens issued by a refresh that was lost
before it revoked the old one, which nobody was sent; `ended`, the sign-ins there
were when the replay of a revoked token revoked them all.

Actions. No handler opens a transaction, so each statement is an action:
`UpsertUser`, `CreateInvitation`, `FindInvitation`, `SetPassword`,
`MarkAccepted`, `CheckPassword`, `FindToken`, `RevokeFamily`,
`issueTokensWithId`, `Rotate`, `FindTokenForLogout`, `RevokeForLogout`.
`HandlerLost` ends a request before any of them: the statement fails, or the
instance is gone. After `issueTokensWithId` that leaves two live tokens and no
refresh under way. A client sends a token it was answered, again too, so a
refresh whose answer was lost is repeated with a revoked token. A token's age is not kept: one that is not revoked may be refused as expired.
Access tokens are left out; nothing stores them.

### 2.7 `LessonEditor`

State. `doc` is `EditorState`, `queue` the variables of `createAutosave()`,
`saveStatus` and `refused` what the page shows of them, `uploading` the uploads
under way, `assets` and `stored` the assets the page knows and the course has,
`lesson` the content the API stores, `late` the saves that were given up and may
still arrive.

Actions. The page has one thread, so an event, the render and its effects are
one step: the edits of the reducer (`AddBlock` to `Redo`), `StartUpload`,
`FinishUpload`, `FailUpload`, `RefreshAssets`, the timer and the retry button
(`TimerFires`, `Retry`), and the answers `SaveStored`, `SaveRejected`,
`SaveLost`; `LateSave` is a save that the API applies after the page gave it up.
Every edit calls `stage()`, as the effect on the blocks does.

Abstracted: a save is applied when it is answered (the page sends one at a
time, and the API's other writers are other operators); every block is an
image, the type with the most state; a caption stands for all text. A lesson
that cannot be read is not edited here, and the page's title form is a
`MutationForm`, which is in `CoursePage`.

### 2.8 `CoursePage`

State. `draft` is the API's, a value per part and the order of modules and
lessons; `shown` what the page was rendered with; `form`, `tree` and `page` the
states of `MutationForm`, `ModuleTree` and `CourseDetail`; `dirtyMap` what
`CourseDetail` knows to be unsaved. History: `unsure`, the parts that somebody
else changed since the page last refreshed, or that a request of the page may
have changed although it got no answer; `crossed`, the forms and tree operations
that waited for an answer when a refresh came with such a change.

Actions. `Type`, `Submit`, `FormSaved`, `FormFailed`; `TreeOperate`,
`TreeSaved`, `TreeFailed`; `Mutate`, `MutateSaved`, `MutateFailed`. `OtherSaves`
and `OtherMutates` are everybody else who writes the draft, at any time: other
operators and tabs, the lesson editor, and requests of this page that it no
longer waits for. The page hears of none of them. `RefreshCommits`: the
transitions that wait for a `router.refresh()` commit together with what it read,
and a form whose values changed has another key and starts afresh.

Abstracted: a form whose module or lesson was removed counts as a form whose
values changed. A form started afresh while its request is on its way leaves an
answer that takes the key of the new form off the dirty map when it comes; how
many such answers there are of a form is not kept, so they may come again and
again. Reloading the page and leaving it are not modelled.

## 3. What the runs check

| Run | Shows | Distinct states |
|---|---|---|
| `ws_core` | `NoOrphanVm`: a machine, or a POST that may still make one, is named by the row or by a clean-up record. `AttachedVmIsSafe`: no clean-up, reset or DELETE is under way against the machine of a usable workspace. `ResettingIsFinal`: nothing still under way revives a row being reset. `KeepsCustody`: the service implements `VmCustody` | 0.93 M |
| `ws_loss` | `SafetyInv`, the proofs' inductive invariant, of which `TypeOK` is a part, when the host loses machines and when a second row follows the first; `RestartFencesProvisions`: a creation asked for before a restart is not attached after it | 1.2 M |
| `ws_live` | `ResetCompletes`, `MachinesAreReclaimed` under `FairSpec` | 0.03 M |
| `ws_stop_race` | violation: a running machine is marked `STOPPED` | |
| `ws_stale_request` | violation: an old stop marks a newer, running machine's row `ERROR` | |
| `ln_progress` | writes act on what their author saw, across a restart after which revisions repeat; a revision names one state; the reading position exists; achievements and activities once | 2.0 M |
| `ln_restart` | every cleared generation is on record once, a request id clears once; with two courses, at most one is active by the learner's own requests, with the enroll command at any time | 2.0 M |
| `ch_refusal` | violation: a restart during the check has a user with tokens left refused | |
| `ch_rounding` | violation: a restart may take a token from the balance | |
| `server` | `Draft`: `OneDraft`, `PublishedIsValid`, `PublishedNeverChanges`, `NoStatementCollides`, `NoCommandLeavesAGap`, `DraftStartsFromLatest`, `ReaderGetsItsPage`. `Operators`: `LockHolds`, `FifthFailureLocks`, `SessionsFollowThePassword`. `Sessions`: `OneLiveTokenPerSignIn`, `ReplayEndsFamily`. `Chat`: the transcript stays in its generation, one Agent call per question, every reply charged once; the quota verdict fits a balance the user had, unless a restart committed during the check. The types of each: `DraftTypeOK`, `AccountsTypeOK`, `TypeOK` | 1.5 M |
| `op_reset` | violation: a session opened in the second of a reset, and before it, outlives it | |
| `console` | `CoursePage`: `ActsOnTheSavedDraft`, `TypingStays`, while others write the same draft. `LessonEditor`: `GuardCoversUnsaved`: what is left without a warning is what the API stores. `UploadsGiveWay`: a late upload touches its own block and gives way to later choices. `EveryEditIsSettled`, under fairness | 1.1 M |

Bounds. Two processes are enough for each race the hazards name, because a
process is one request and every pair of handlers is among the two. `MaxProvision = 1`
gives one rebuild or retry, `MaxRows = 2` (in `ws_loss`, whose constraint takes
either power-offs and a second machine or a restart and a second row) one re-creation after a reset,
`MaxGeneration` one or two restarts: the second
machine, row or generation is what an old request can be confused with; a third
adds nothing to that. `MaxVersion = 2` gives one publication, `MaxRevision = 3`
completing, clearing and completing again. At a bound an operation is refused;
it is never truncated. In `server` a reply costs half a token or is not
metered, so rounding matters. Two constraints keep the product of independent
events small: `ln_restart` either lets the learner make progress in one course or
has a second course, not both at once; in `ln_progress` the restart comes when
there has been one change at most and no publication (`EarlyRestart`), which is
enough for the old and the new generation to have the same revisions with
different states, and the enroll command is left to `ln_restart`.

In `server` and `console` the parts share no state, so the part that moves is
chosen at the start and their state spaces add up. `Draft` starts from each history the
code produces: a course just created, an ingested draft (whose module positions
may skip a number), a published course, a published course with a draft.
`MaxWork = 5` allows two edits and one publication, creation, discarding, upload
or read, or one edit and three of these, interleaved by two processes: enough
for a draft to be read, published or discarded, replaced and met by an old
command. Two modules and two lessons are what a reorder can mix up, and the
positions' collision. `MAX_FAILED_LOGINS = 2` with two logins at once brings
about each race at the threshold and at a lock's expiry (`LockSpan = 1` within
`MaxClock = 3`); `MaxGuesses = 3` is one wrong password more than locks, which is
the one that follows a login lost before its lock. The session that is looked at
has no influence on the account, so the run does without states that have both a
session and failures that count (`SessionOrFailures`), nor does it follow requests
that are at a statement which a bound forbids for good (`NoneAtABound`). Four tokens are a sign-in, two
overlapping refreshes of it and one more, or two sign-ins of which a replay must
end both. On the page one form within the tree and one beside it stand for the
two kinds of lock, and of a part's value only whether it is the one shown, so
there are two (`MaxValue = 1`); one of the page's requests at a time is crossed by
a change of somebody else (`OneCrossed`, which limits the course page only and
so takes nothing from the editor's liveness). Of the editor, three revisions are an edit before, during and
after a save; two uploads are an older and a newer one for a block.

Deadlock is checked in all runs but `server` and `console`: there the bounds on
the draft's work and on the editor's revisions end a behaviour. `ws_core` and
`ws_live` leave `HostLosesVm` out because with it a known
consequence of `ws_stale_request` hides the rest: an old stop lets go of a
machine nobody looks for again.

Fairness. In `ws_live` it is asked of one process, `Sweeper`: it moves or is
reclaimed (weak), each step of the two sweeps is taken if it is possible again
and again (strong: every request starts a sweep and so does the daily cron job,
an instance is not lost at the same statement each time, and Labs does not fail
each time), and Labs applies an accepted DELETE (weak). Nothing is assumed of
any other process, of a POST, or of users. In `console`, of the editor: a timer that is set
fires (the browser's `setTimeout`), and a save under way is answered, refused or
given up (`fetch` settles). Nothing is assumed of uploads, of the retry button
or of the operator.

Some properties state an exception, and each is something the code lets happen:

- `OneActiveCourse` counts the courses that the learner's own requests made
  active. The enroll command activates another beside them; nothing says that it
  should not, and the next enroll or restart of the learner ends it.
- `SessionsFollowThePassword` is what a reset guarantees: an old password's
  session goes on only if it was signed in the second the reset's transaction
  began in, or later, by a login that had read the row by the second it was
  committed in. That is a login under way at the reset, and also one that was
  over before the reset in that same second. `op_reset` is the second case: the
  repository's README and the command's own help promise that old tokens end at
  once, and a test of the guard expects the opposite for that second.
- `OneLiveTokenPerSignIn` leaves out sign-ins of which two refreshes of one token
  overlapped, each of which issues a successor, and does not count the token of a
  refresh that was lost before it revoked the old one: both are live, and one of
  them nobody was sent (`stranded`).
- `ReplayEndsFamily` leaves out a sign-in with a refresh that was admitted before
  the replay and issues its successor after it: that one stays live.
- `ActsOnTheSavedDraft` says nothing of parts somebody else changed since the
  last refresh, and nothing once such a change crossed a request of this page:
  the new form's key may then be taken off the dirty map by the old form's answer.
- `TypingStays` leaves out the form whose own values somebody else changed: it
  starts afresh and its text is gone without a warning, which is what the key at
  `course-detail.tsx:165` and `module-tree.tsx:191` is there to bring about.
- `GuardCoversUnsaved` excuses a save that was given up and that the API applies
  after the one that replaced it: nothing tells the page, and a save carries no
  version to refuse it by.

What the violations mean. They are disagreements between the code and its own
documentation, listed under "findings" with the lines. The two quota ones are
small (a wrong 429 in a window of one statement; one token per restart), and so
is `op_reset` (sessions of one second, until they expire); the
two workspace ones leave a billed machine behind a row that says otherwise until
the next operation on it.

## 4. What is proved

With TLAPS, for all values of the constants that satisfy the modules' `ASSUME`s:
any number of processes, requests, enrollments, images, forms and uploads, and
any bounds. The inductive invariants stand at the end of the modules they are
about and were checked with TLC there before they were proved; the proofs go
action by action.

`WorkspaceProofs`: `Safety` (`SafetyInv` is invariant), `TypeCorrect`,
`AttachedIsSafe`, `ResettingStays`. `AttachedVmIsSafe` is not inductive: that no
clean-up is aimed at an attached machine depends on no process being about to
claim it. `SafetyInv` adds that lab ids are handed out once and in order
(`NothingUnissued`: row ids and provision generations only grow), that one
process at most is creating a given lab id (`OneCreatorEach`), and that an
attached machine, or one a pending creation may still attach, has no clean-up
record, no DELETE and no deleting process (`AttachedIsExclusive`).

`CustodyProofs`: `RestartFences` (`RestartFencesProvisions`) rests on
`WaitedForIsCurrent`: a creation for which the row still waits was reserved in
the present enrollment generation, because a restart gives the row up in the
transaction that raises the generation. `NoOrphan` and `Implements`
(`KeepsCustody`: every step of `Workspace` is a step of `VmCustody` or none)
have the hypothesis `~HostMayLoseVms`, and it is needed: `ws_stale_request`
shows how the loss of one machine has the row of the next one written off. Their
invariant `CustodyInv` adds to `SafetyInv` what became of each POST
(`PostsAgree`: sent once, for a reserved id, and settled by its end), that a
usable row's machine exists (`RowKeepsItsMachine`), and that a stop, start or
reset which finds its row again finds the machine it knew (`HeldRowsAgree`) -
the step from a process's stale copy to the row, which the refinement needs at
every conditional write.

`LearningProofs`: `TypeCorrect`, `OneActive`, `ReadingPosition`, `Revisions`,
`ActsOnWhatWasSeen`. The locks come first: from who may be where follow mutual
exclusion on the user row and the exclusion of publishers and writers on the
course row (`UserLocks`, `CourseLocks`). `ActiveOnesHeld` then says that an
`enroll()` between its statements holds every row that a learner's request made
active (the enroll command may have added others, which `OneActive` does not
count), and `PublishKnows`
that a publication between its statements has listed exactly the rows that must
move. For the revisions, `SeenIsNotNewer` (no view or snapshot is ahead of the
row) makes `RevisionNamesState` inductive: a change of state always takes a pair
(generation, revision) nobody has seen. `Achievements`, `Activity` and
`Restarts` prove the records; `RecordsInv` adds that an activity stands for a
completion that was the first in its generation (`ActivitiesAreFirsts`), without
which a second activity could not be excluded.

`ChatProofs`: `Invariant`, `Transcript`, `Conservation`, `OneCall`. A key is used
up once its question is there or its generation is over (`KeysAreUsedOnce`), and
one request at a time works on it; so a late reply finds its ledger id free and
is charged exactly once. A restart is alone while it holds its locks and what it
has read stays true until it writes (`RestartIsExclusive`). `ChargedOnce` is
then arithmetic: `Scale * charged + metered` is what was spent, plus less than
one token for every ledger row. `Verdicts` (`VerdictFitsABalance`) and `Typing`
are about sums over all enrollments. `ReadingsFit` bounds the two sums of a check
by the sums of the moment, as long as no restart commits; that they only grow is
proved of `SumFunction` itself: its recursive function exists and a sum of
naturals grows with each term, by taking a smallest set of which that fails.

`AccountsProofs`, on operators: `FailuresLock`, `ResetEndsSessions`, `LocksStand`,
`OperatorsTyping`. Nothing of an account is read and written in one statement, so
`OperatorsInv` says how far behind the row each login may be: a password it has
read and that is no longer the account's was replaced after the login began
(`PasswordsFollowTheRow`), and no time that was noted lies ahead
(`TimesArePast`). `ResetEndsSessions` is to the second in both directions, the
exception of the last section included, and holds for resets that overlap, of
which one may move `passwordChangedAt` back; the run has one command at a time.
`FailuresLock` has the lost login in it: the count it leaves is over the limit, so
the next failure locks. `MAX_FAILED_LOGINS` is assumed greater than one (it is 5): with
one, the failure that makes the count begin anew after a lock would have to lock
at once, and `login()` does not lock there.

On sessions: `OneLiveToken`, `FamilyEnds`, `SessionsTyping`.
`OneLiveTokenPerSignIn` counts the live tokens of a sign-in against the rotations
under way; `OneAtATime` says it without counting (one live token that no rotation
is about to revoke, and one request that will issue the next), and the bound
follows from an injection into the requests. Their number is assumed finite. A
lost refresh moves the token it issued among the stranded ones and leaves the old
one the sign-in's. `ReplayEndsFamily` needs `EndedForGood`: no refresh has still to
issue a token of a sign-in that was ended, and none can be admitted, because every
token of it is revoked. `AccountsTyping` states both type invariants of
`AccountsSpec`, the composition that `server` runs beside the draft and the chat:
each of its steps is a step of one part or none.

`DraftProofs`: `DraftIsOne`, `PublicationsAreValid`, `PagesAreServed`,
`PublicationsNeverChange`, `DraftsCopyTheLatest`. At the centre is
`NumbersInOrder`: publications are numbered without a gap and a draft has the
next number. From it follows that a copy of a source that is no longer the
newest collides with the number of its successor, so `createDraft()`, which
chose the source before, cannot lose a publication. `ReadsStand` and
`ObjectsAreStored` carry what each request has read from its reads to its
commit. That lessons are counted and images stored uses that the ids a course
has are finite in number, and the bodies `"empty"` and `"text"` not images.

On the rows, `StatementsNeverCollide`, `RanksStayClosed` (`NoCommandLeavesAGap`),
`DraftsStartFromLatest` and `DraftTyping`. Their invariant `RowsInv` says of every
version (`Columns`) that its rows are keyed by their ids, no two share a place or
a content id (`Sound`), each lesson's module is there, ids come from the version's
own series and positions stay below its next number (`Within`). How far below the
temporary positions that is comes from `RowsAreFew`: an edit accounts for itself
and for the row it may add. `IsCommand` is what a request carries from its page
to its commit. A copy under new ids keeps columns and layout (`CopyColumns`), so
a draft made of a publication has its columns, whatever the source's gaps.

`DraftRowsProofs` supplies what each sequence computes: that it never collides,
that the rows it leaves are sound, and where each of them then is (`Reordered`
for the longest: a module or lesson ends at its index in the order that was sent,
under its own content id). A sequence is a recursive function over the number of
statements already sent. That the function exists, and what holds of it after each
statement, is proved by taking the smallest number at which it fails, because the
library's induction theorems cannot be instantiated here. The proof of `reorder`
shows why it goes through temporary positions and content ids: while the first
half runs, no parked row can meet one still in place.

Its hypothesis `TemporariesAreFree` is about the code's own constants. A version
has fewer rows than `POSITION_OFFSET` (a million), and no lesson has a content id
equal to a temporary one, `reorder-` and so on. The second is an assumption about
the authors of courses: the schema of a content id would admit such a string.

`ConsoleProofs`: on the course page `ButtonsActOnTheSaved` and `TypingIsKept`
from `PageInv`. What waits for an answer, or was typed, is marked unsaved, unless
a stray answer may have taken the mark off (`KeysAreMarked`); a part shown differs
from the API's only while its refresh is under way or somebody else changed it
(`ShownUntilRefresh`); a form that is not marked shows what the page was rendered
with (`TextsFit`). Others write at any step, so each part of it has its exception,
in terms of `unsure` and `crossed`; the proofs show that these two are enough.
In the lesson editor `GuardHolds`
and `UploadsYield` from `EditorInv`: ids of blocks are given out once, also over
undo and redo (`PagesFit`, of the page and of every page of the history); the
upload that owns a block is its newest and the block is as it was when that
upload began (`OwnersAreNewest`); the save under way carries what the page shows
unless a newer revision is to follow (`IndicatorFits`). The lemmas on lists of
blocks say that appending, inserting, removing, moving and patching keep ids
distinct and bring in no id but the fresh one.

Only model-checked:

- `ResetCompletes`, `MachinesAreReclaimed`, `EveryEditIsSettled`: liveness is out
  of the prover's reach.

Every other property of a passing run is a theorem. `RowsInv` and `DraftInv` were
checked with TLC on the instance of `server` before they were proved; that run
lists the properties only, to keep its time short.

## 5. Not modelled

- The idle sweep (`lastSeenAt`, the 60-second throttle of its interceptor) and
  the batches of ten clean-up records: planned, they need a clock and a queue of
  many enrollments.
- Whether the row locks of all transactions together can form a cycle.
  PostgreSQL aborts one transaction of a cycle, which the models take as any
  other failure; the order in which `Learning`'s transactions lock is modelled.
- Conversion of markdown to blocks, image sniffing, schemas, text derivation:
  pure functions on text and bytes.
- Reads that show state and change none: catalogue, dashboard, usage reports,
  previews, lists of courses and operators, health. Audit records: written and
  never read.
- The gateway (it pushes status changes and keeps none), the HTTP layer, the
  parsing and printing of commands, configuration and scripts.
- Quota grants by an operator (each adds a row to the ledger; `Chat` fixes the
  sum).
- In the console: the assessment panel, the preview frame, the course list, the
  login page, and the fields of block types other than images.
- Real time, network layout and deployment.

Hazards met while modelling that no property covers, beside those listed in
`PROJECT.json`: a late reply is charged by a statement of its own, and an
instance lost before it leaves usage uncharged (the repository's README accepts
that, and any number of questions at once that pass the check together), which
`ChargedOnce` does not see because only a charge counts as spent; an
instance lost between a question and its reply leaves the question unanswered;
a transaction that creates an asset's row and whose commit succeeded although its
answer was lost is taken for failed, and the object of a row that is there is
deleted (`Draft` has the failure that rolled back); `setCourseCover()` stores a
cover under a name without a random part, so a
failed row leaves the new object under the old name; two accepts of one
invitation both succeed, and the second password counts; a failed login about
to set its lock may lock an account that was reset meanwhile; two consoles that
edit one lesson overwrite each other (`docs/verification/admin-course-editor.md`
accepts it); the audit records of `enroll()` and `restart()` are written after
their transactions.

The components of `PROJECT.json` give the reason for each.

What three properties do not catch, although their hazards would include it:
`UploadsGiveWay` is blind to an upload that ends after the operator chose the very
image it had before, or removed the block and undid that, because the block is
then as it was; `GuardCoversUnsaved` excuses the late overwrite named above; and
the mutant of `RestartsAreOnRecord` drops the database's unique key along with the
lookup before it, because with the key alone a repeated restart still fails.
`LessonEditor` stages a save after every upload, which the page leaves out when
nothing changed: a save of what is stored already.
