------------------------------ MODULE LessonEditor ------------------------------
(***************************************************************************)
(* The lesson editor of the admin console: the block list with undo and    *)
(* image uploads, and the autosave queue that sends it to the API.         *)
(* Source: apps/admin/components/editor (autosave.ts, editor-state.ts,     *)
(* lesson-editor.tsx, asset-picker.tsx, use-departure-guard.ts).           *)
(*                                                                         *)
(* The page runs on one thread: an event, the render it causes and the     *)
(* effects of that render are one step.  What interleaves is the operator, *)
(* the autosave timer, the answers to saves and uploads, a refresh of the  *)
(* course's assets, and the API.  Every block is an image: other types     *)
(* differ in their fields only and take no upload.                         *)
(***************************************************************************)
EXTENDS Integers, Sequences, FiniteSets

CONSTANTS
    UploadIds,       \* requestId of an upload, and id of the asset it creates
    Picture,         \* an asset the course has
    NoAsset,         \* assetId '', as a new image block has it
    MaxBlocks,       \* 300
    MaxPast,         \* 50
    MaxEdits,        \* bound: revisions
    MaxLost          \* bound: saves whose answer is lost

ASSUME LessonEditorAssumption ==
    /\ {MaxBlocks, MaxPast} \subseteq Nat \ {0} /\ {MaxEdits, MaxLost} \subseteq Nat
    /\ Picture # NoAsset /\ {Picture, NoAsset} \cap UploadIds = {}

VARIABLES
    doc,         \* EditorState: blocks, past, future, uploads (block id -> requestId)
    assets,      \* the assets the page knows
    stored,      \* the assets the course has
    uploading,   \* uploads under way; history: the asset before, and if newest
    queue,       \* the variables of createAutosave()
    saveStatus,
    refused,     \* the server's report for the present revision has errors
    lesson,      \* the content the API stores
    late,        \* contents of saves that were given up and may still arrive
    overtaken,   \* history: one of them has arrived after a later save
    lost         \* saves given up

editorVars == <<doc, assets, stored, uploading, queue, saveStatus, refused,
                lesson, late, overtaken, lost>>

-----------------------------------------------------------------------------
NoSave == [revision |-> 0, value |-> <<>>]

\* latest is [revision, kind] and the blocks on the page; rejected 0: undefined.
EmptyQueue == [revision |-> 0, kind |-> "none", saved |-> 0, rejected |-> 0,
               timer |-> FALSE, sent |-> NoSave]
Running(q) == q.sent # NoSave

\* validateLessonContent() as far as the page's events change its answer.
Valid(blocks, known) == \A i \in DOMAIN blocks : blocks[i].assetId \in known

IdsOf(blocks) == {blocks[i].id : i \in DOMAIN blocks}
Without(uploads, ids) == [b \in DOMAIN uploads \ ids |-> uploads[b]]
Owned(uploads, id, r) == [b \in DOMAIN uploads \cup {id} |-> IF b = id THEN r ELSE uploads[b]]
Last(s, n) == IF Len(s) > n THEN SubSeq(s, Len(s) - n + 1, Len(s)) ELSE s

EditorInit ==
    /\ \E picture \in {Picture, NoAsset} :
          doc = [blocks |-> <<[id |-> 1, assetId |-> picture, caption |-> 0]>>,
                 past |-> <<>>, future |-> <<>>, uploads |-> [b \in {} |-> NoAsset]]
    /\ assets = {Picture} /\ stored = {Picture}
    /\ uploading = {}
    /\ lesson = doc.blocks
    /\ IF Valid(doc.blocks, assets)
       THEN queue = EmptyQueue /\ saveStatus = "idle"
       ELSE queue = [EmptyQueue EXCEPT !.revision = 1, !.kind = "blocked"]
            /\ saveStatus = "blocked"
    /\ refused = FALSE
    /\ late = {} /\ overtaken = FALSE /\ lost = 0

-----------------------------------------------------------------------------
(* stage(): the effect of a render with other blocks or other assets *)

Stage(blocks, known) ==
    LET ready == Valid(blocks, known) IN
    /\ queue.revision < MaxEdits
    /\ queue' = [queue EXCEPT !.revision = @ + 1,
                              !.kind = IF ready THEN "ready" ELSE "blocked",
                              !.timer = ready /\ ~Running(queue)]
    /\ saveStatus' = IF ready THEN "dirty" ELSE "blocked"
    /\ refused' = FALSE

\* The end of reduce(): a step of history.
Edited(blocks, uploads) ==
    [doc EXCEPT !.blocks = blocks, !.uploads = uploads,
                !.past = Last(Append(doc.past, doc.blocks), MaxPast), !.future = <<>>]

\* What a click or a key changes.
Edits(newDoc) ==
    /\ doc' = newDoc
    /\ Stage(newDoc.blocks, assets)
    /\ UNCHANGED <<assets, stored, uploading, lesson, late, overtaken, lost>>

\* crypto.randomUUID(): an id that no block has, had or can have again.
FreshId == queue.revision + 2
NewBlock == [id |-> FreshId, assetId |-> NoAsset, caption |-> 0]

AddBlock ==
    /\ Len(doc.blocks) < MaxBlocks
    /\ Edits(Edited(Append(doc.blocks, NewBlock), doc.uploads))

Duplicate(i) ==
    LET copy == [doc.blocks[i] EXCEPT !.id = FreshId] IN
    /\ Len(doc.blocks) < MaxBlocks
    /\ Edits(Edited(SubSeq(doc.blocks, 1, i) \o <<copy>>
                      \o SubSeq(doc.blocks, i + 1, Len(doc.blocks)), doc.uploads))

Remove(i) ==
    Edits(Edited(SubSeq(doc.blocks, 1, i - 1)
                   \o SubSeq(doc.blocks, i + 1, Len(doc.blocks)),
                 Without(doc.uploads, {doc.blocks[i].id})))

\* A block moves up, which moves the one above it down.
Move(i) ==
    /\ i > 1
    /\ Edits(Edited([doc.blocks EXCEPT ![i] = doc.blocks[i - 1], ![i - 1] = doc.blocks[i]],
                    doc.uploads))

Update(i) ==
    Edits(Edited([doc.blocks EXCEPT ![i].caption = 1 - @], doc.uploads))

\* The picker's choice, of the asset the block has too.
Patch(i, asset) ==
    Edits(Edited([doc.blocks EXCEPT ![i].assetId = asset],
                 Without(doc.uploads, {doc.blocks[i].id})))

Undo ==
    /\ doc.past # <<>>
    /\ Edits([blocks |-> doc.past[Len(doc.past)],
              uploads |-> Without(doc.uploads, DOMAIN doc.uploads),
              past |-> SubSeq(doc.past, 1, Len(doc.past) - 1),
              future |-> Append(doc.future, doc.blocks)])

Redo ==
    /\ doc.future # <<>>
    /\ Edits([blocks |-> doc.future[Len(doc.future)],
              uploads |-> Without(doc.uploads, DOMAIN doc.uploads),
              past |-> Last(Append(doc.past, doc.blocks), MaxPast),
              future |-> SubSeq(doc.future, 1, Len(doc.future) - 1)])

-----------------------------------------------------------------------------
(* Uploads *)

\* A second one for a block may start before the first has ended: another
\* block was selected in between, and the picker is a new one.
StartUpload(i, r) ==
    LET block == doc.blocks[i] IN
    /\ r \notin stored /\ r \notin {u.request : u \in uploading}
    /\ doc' = [doc EXCEPT !.uploads = Owned(@, block.id, r)]
    /\ uploading' = {[u EXCEPT !.newest = @ /\ u.id # block.id] : u \in uploading}
          \cup {[request |-> r, id |-> block.id, before |-> block.assetId, newest |-> TRUE]}
    /\ UNCHANGED <<assets, stored, queue, saveStatus, refused, lesson, late, overtaken, lost>>

BlockIsThere(u) == u.id \in IdsOf(doc.blocks)
OwnsUpload(u) == u.id \in DOMAIN doc.uploads /\ doc.uploads[u.id] = u.request

\* finish-upload with the new asset: a patch of the block as it is by then.
FinishUpload(u) ==
    LET patched == [i \in DOMAIN doc.blocks |->
                       IF doc.blocks[i].id = u.id
                       THEN [doc.blocks[i] EXCEPT !.assetId = u.request] ELSE doc.blocks[i]]
    IN
    /\ uploading' = uploading \ {u}
    /\ assets' = assets \cup {u.request} /\ stored' = stored \cup {u.request}
    /\ doc' = IF OwnsUpload(u) THEN Edited(patched, Without(doc.uploads, {u.id})) ELSE doc
    /\ Stage(doc'.blocks, assets')
    /\ UNCHANGED <<lesson, late, overtaken, lost>>

\* finish-upload with null; the course may have the asset all the same.
FailUpload(u) ==
    /\ uploading' = uploading \ {u}
    /\ doc' = IF OwnsUpload(u) THEN [doc EXCEPT !.uploads = Without(@, {u.id})] ELSE doc
    /\ \E asset \in {{}, {u.request}} : stored' = stored \cup asset
    /\ UNCHANGED <<assets, queue, saveStatus, refused, lesson, late, overtaken, lost>>

\* A form on the page was saved and the page's data read again.
RefreshAssets ==
    /\ stored # assets
    /\ assets' = assets \cup stored
    /\ Stage(doc.blocks, assets')
    /\ UNCHANGED <<doc, stored, uploading, lesson, late, overtaken, lost>>

-----------------------------------------------------------------------------
(* flush() and the answer to it *)

CanFlush ==
    /\ ~Running(queue) /\ queue.kind = "ready"
    /\ queue.revision \notin {queue.saved, queue.rejected}
Sending(q) == [q EXCEPT !.timer = FALSE, !.sent = [revision |-> q.revision, value |-> doc.blocks]]

TimerFires ==
    /\ queue.timer
    /\ IF CanFlush THEN queue' = Sending(queue) /\ saveStatus' = "saving"
                   ELSE queue' = [queue EXCEPT !.timer = FALSE] /\ UNCHANGED saveStatus
    /\ UNCHANGED <<doc, assets, stored, uploading, refused, lesson, late, overtaken, lost>>

\* The button is there after a failure that is not a refusal of the content.
Retry ==
    /\ saveStatus = "failed" /\ ~refused /\ CanFlush
    /\ queue' = Sending(queue) /\ saveStatus' = "saving"
    /\ UNCHANGED <<doc, assets, stored, uploading, refused, lesson, late, overtaken, lost>>

NeverSuperseded(q) == FALSE
Superseded(q) == q.revision # q.sent.revision
NotAgain(q) == FALSE
FlushesAgain(q) == q.kind = "ready"

\* What flush() does with the answer "ok", "refused" (the content is invalid
\* to the API) or "failed".
SaveAnswered(answer) ==
    LET sent == queue.sent
        q == [queue EXCEPT !.sent = NoSave,
                           !.saved = IF answer = "ok" THEN sent.revision ELSE @]
    IN
    /\ Running(queue)
    /\ IF Superseded(queue)
       THEN /\ queue' = IF FlushesAgain(queue) THEN Sending(q) ELSE q
            /\ saveStatus' = IF FlushesAgain(queue) THEN "saving" ELSE saveStatus
            /\ UNCHANGED refused
       ELSE /\ queue' = IF answer = "refused" THEN [q EXCEPT !.rejected = sent.revision] ELSE q
            /\ saveStatus' = IF answer = "ok" THEN "saved" ELSE "failed"
            /\ refused' = (answer = "refused" \/ (refused /\ answer # "ok"))
    /\ UNCHANGED <<doc, assets, stored, uploading>>

SaveStored ==
    /\ SaveAnswered("ok")
    /\ lesson' = queue.sent.value /\ overtaken' = FALSE
    /\ UNCHANGED <<late, lost>>

\* Not applied: refused, unauthorized, no such draft, or an error.
SaveRejected ==
    /\ SaveAnswered("refused") \/ SaveAnswered("failed")
    /\ UNCHANGED <<lesson, late, overtaken, lost>>

\* No answer reaches the page; what was sent may still arrive, or never.
SaveLost ==
    /\ lost < MaxLost
    /\ SaveAnswered("failed")
    /\ lost' = lost + 1 /\ late' = late \cup {queue.sent.value}
    /\ UNCHANGED <<lesson, overtaken>>

LateSave ==
    /\ \E content \in late : lesson' = content /\ late' = late \ {content}
    /\ overtaken' = TRUE
    /\ UNCHANGED <<doc, assets, stored, uploading, queue, saveStatus, refused, lost>>

-----------------------------------------------------------------------------
EditBlock(i) ==
    \/ Duplicate(i) \/ Remove(i) \/ Move(i) \/ Update(i)
    \/ \E asset \in assets : Patch(i, asset)
    \/ \E r \in UploadIds : StartUpload(i, r)

EditorNext ==
    \/ AddBlock \/ \E i \in DOMAIN doc.blocks : EditBlock(i)
    \/ Undo \/ Redo
    \/ \E u \in uploading : FinishUpload(u) \/ FailUpload(u)
    \/ RefreshAssets
    \/ TimerFires \/ Retry \/ SaveStored \/ SaveRejected \/ SaveLost \/ LateSave

EditorSpec == EditorInit /\ [][EditorNext]_editorVars

\* Timers fire, and a save is answered or given up.
EditorFairness ==
    /\ WF_editorVars(TimerFires)
    /\ WF_editorVars(SaveStored \/ SaveRejected \/ SaveLost)

FairEditorSpec == EditorSpec /\ EditorFairness

\* The page asks before it is left.
Dirty ==
    \/ saveStatus \in {"blocked", "dirty", "saving", "failed"}
    \/ uploading # {}

-----------------------------------------------------------------------------
(* Properties *)

\* Whatever answers came late or were superseded, the operator leaves without
\* a warning only what the API stores: README.md:202.  Two saves are at the
\* API at once after the answer to the first was lost; if that one is applied
\* second, the older content stays (overtaken), which no one tells the page.
GuardCoversUnsaved == ~Dirty => lesson = doc.blocks \/ overtaken

\* The result of an upload reaches only the block it was started for, changes
\* nothing but its asset, and gives way to every later upload for the block
\* and to an asset chosen meanwhile.
UploadsGiveWay ==
    [][\A u \in uploading \ uploading' : doc'.blocks # doc.blocks =>
          /\ u.newest
          /\ \A i \in DOMAIN doc.blocks :
                doc'.blocks[i] =
                    IF doc.blocks[i].id = u.id /\ doc.blocks[i].assetId = u.before
                    THEN [doc.blocks[i] EXCEPT !.assetId = u.request]
                    ELSE doc.blocks[i]]_editorVars

\* An edit that can be saved does not wait for ever, though no timer is set
\* while a save is under way.
EveryEditIsSettled ==
    saveStatus \in {"dirty", "saving"} ~> saveStatus \in {"saved", "failed", "blocked"}

-----------------------------------------------------------------------------
(* The inductive invariant behind GuardCoversUnsaved and UploadsGiveWay *)

ImageBlocks == [id: Nat, assetId: UploadIds \cup {Picture, NoAsset}, caption: {0, 1}]
Blocks == Seq(ImageBlocks)

\* A block list as the page may show it when n ids have been given out.
FitsPage(blocks, n) ==
    /\ blocks \in Blocks
    /\ \A i \in DOMAIN blocks : blocks[i].id <= n
    /\ \A i, j \in DOMAIN blocks : blocks[i].id = blocks[j].id => i = j

EditorTypeOK ==
    /\ doc = [blocks |-> doc.blocks, past |-> doc.past, future |-> doc.future,
              uploads |-> doc.uploads]
    /\ doc.past \in Seq(Blocks) /\ doc.future \in Seq(Blocks)
    /\ assets \subseteq UploadIds \cup {Picture}
    /\ stored \subseteq UploadIds \cup {Picture}
    /\ uploading \subseteq [request: UploadIds, id: Nat, newest: BOOLEAN,
                            before: UploadIds \cup {Picture, NoAsset}]
    /\ queue \in [revision: Nat, kind: {"none", "ready", "blocked"}, saved: Nat,
                  rejected: Nat, timer: BOOLEAN, sent: [revision: Nat, value: Blocks]]
    /\ saveStatus \in {"idle", "dirty", "blocked", "saving", "saved", "failed"}

\* Ids are given out once, also over undo and redo.
PagesFit ==
    /\ FitsPage(doc.blocks, queue.revision + 1)
    /\ \A i \in DOMAIN doc.past : FitsPage(doc.past[i], queue.revision + 1)
    /\ \A i \in DOMAIN doc.future : FitsPage(doc.future[i], queue.revision + 1)

\* The upload that owns a block is its last one, and the block is untouched.
OwnersAreNewest ==
    /\ \A u, v \in uploading : u.request = v.request => u = v
    /\ \A u \in uploading :
          /\ u.id <= queue.revision + 1
          /\ OwnsUpload(u) =>
                /\ u.newest
                /\ \A i \in DOMAIN doc.blocks :
                      doc.blocks[i].id = u.id => doc.blocks[i].assetId = u.before

\* What the save under way carries, and what the indicator may say meanwhile.
IndicatorFits ==
    /\ Running(queue) =>
          /\ saveStatus \in {"saving", "dirty", "blocked"}
          /\ queue.sent.revision <= queue.revision
          /\ queue.sent.revision = queue.revision => queue.sent.value = doc.blocks
    /\ saveStatus \in {"idle", "saved"} => lesson = doc.blocks \/ overtaken

EditorInv == EditorTypeOK /\ PagesFit /\ OwnersAreNewest /\ IndicatorFits
=============================================================================
