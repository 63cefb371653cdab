------------------------------- MODULE CoursePage -------------------------------
(***************************************************************************)
(* The course page of the admin console: its forms, the module tree with   *)
(* its reorder and delete buttons, and the buttons that create, discard    *)
(* and publish the draft, each of which locks others until the page shows  *)
(* what the API answered.  Source: apps/admin/components/courses           *)
(* (course-detail.tsx, module-tree.tsx, mutation-form.tsx) and the server  *)
(* actions they send.                                                      *)
(*                                                                         *)
(* The draft is a value per part: what each form edits, and the order of   *)
(* modules and lessons.  router.refresh() reads the draft again; the       *)
(* transitions that wait for it commit together with what it read.  Other  *)
(* operators, tabs and the lesson editor change the same draft, and so     *)
(* does a request of this page that it no longer waits for; the page hears *)
(* of none of them until it refreshes for a reason of its own.             *)
(***************************************************************************)
EXTENDS Integers, FiniteSets

CONSTANTS
    TreeForms,       \* forms inside the module tree: edit or add a module or lesson
    OtherForms,      \* forms beside it: the course's metadata
    MaxValue         \* bound: a part has one of the values 0 .. MaxValue

Forms == TreeForms \cup OtherForms
Order == "order"
TreeOperation == "tree-operation"
Parts == Forms \cup {Order}

ASSUME CoursePageAssumption ==
    /\ TreeForms \cap OtherForms = {} /\ {Order, TreeOperation} \cap Forms = {}
    /\ MaxValue \in Nat

VARIABLES
    draft,      \* the API's: whether it exists, and a value per part
    shown,      \* the same as the page was rendered with
    form,       \* MutationForm: text, dirty, at
    tree,       \* ModuleTree: at
    page,       \* CourseDetail: at, and its request
    dirtyMap,   \* CourseDetail's dirty: the keys that are true
    unsure,     \* history: parts changed since the refresh by someone else, or maybe
                \* by a request that got no answer
    crossed     \* history: who waited when a refresh came with such a change of its part

pageHistory == <<unsure, crossed>>
pageVars == <<draft, shown, form, tree, page, dirtyMap, unsure, crossed>>

Values == 0 .. MaxValue

Unsaved == dirtyMap # {}
AwaitsAnswer(at) == at = "busy"
\* busy || refreshing
Waits(at) == at \in {"busy", "refreshing"}
Locked == Waits(page.at)
Operating == Waits(tree.at)
Mark(key, dirty) == dirtyMap' = IF dirty THEN dirtyMap \cup {key} ELSE dirtyMap \ {key}

\* The fieldset around a form, and its own.
Disabled(f) ==
    \/ Locked
    \/ f \in TreeForms /\ Operating
    \/ Waits(form[f].at)

FreshForm(f, d) == [text |-> d.value[f], dirty |-> FALSE, at |-> "idle"]

NoMutation == [at |-> "idle", path |-> "none"]

\* A draft that is not there has no values.
NoDraft == [exists |-> FALSE, value |-> [p \in Parts |-> 0]]

PageInit ==
    /\ draft \in {NoDraft, [NoDraft EXCEPT !.exists = TRUE]}
    /\ shown = draft
    /\ form = [f \in Forms |-> FreshForm(f, draft)]
    /\ tree = [at |-> "idle"]
    /\ page = NoMutation
    /\ dirtyMap = {}
    /\ unsure = {} /\ crossed = {}

-----------------------------------------------------------------------------
(* MutationForm *)

Type(f) ==
    /\ shown.exists /\ ~Disabled(f)
    /\ \E text \in Values :
          form' = [form EXCEPT ![f] = [text |-> text, dirty |-> TRUE, at |-> "idle"]]
    /\ Mark(f, TRUE)
    /\ UNCHANGED <<draft, shown, tree, page, pageHistory>>

Submit(f) ==
    /\ shown.exists /\ ~Disabled(f)
    /\ form' = [form EXCEPT ![f].at = "busy"]
    /\ Mark(f, TRUE)
    /\ UNCHANGED <<draft, shown, tree, page, pageHistory>>

Stored(p, value) == draft' = [draft EXCEPT !.value[p] = value]

\* What is added changes the order, and the form that added it is reset.
FormSaved(f) ==
    /\ form[f].at = "busy" /\ draft.exists
    /\ \/ /\ Stored(f, form[f].text)
          /\ form' = [form EXCEPT ![f].at = "refreshing"]
       \/ /\ f \in TreeForms
          /\ \E order \in Values : Stored(Order, order)
          /\ form' = [form EXCEPT ![f] = [text |-> shown.value[f], dirty |-> @.dirty,
                                          at |-> "refreshing"]]
    /\ UNCHANGED <<shown, tree, page, dirtyMap, pageHistory>>

\* The text stays, and the key dirty until a later request succeeds.
FormFailed(f) ==
    /\ form[f].at = "busy"
    /\ form' = [form EXCEPT ![f].at = "idle"]
    /\ \/ UNCHANGED <<draft, unsure>>
       \/ /\ unsure' = unsure \cup {f, Order}
          /\ \/ Stored(f, form[f].text)
             \/ f \in TreeForms /\ \E order \in Values : Stored(Order, order)
             \/ UNCHANGED draft
    /\ UNCHANGED <<shown, tree, page, dirtyMap, crossed>>

-----------------------------------------------------------------------------
(* ModuleTree *)

\* A button swaps two entries of the order shown, or deletes one.
TreeOperate ==
    /\ shown.exists /\ ~Locked /\ ~Unsaved /\ ~Operating
    /\ tree' = [at |-> "busy"]
    /\ Mark(TreeOperation, TRUE)
    /\ UNCHANGED <<draft, shown, form, page, pageHistory>>

TreeSaved ==
    /\ tree.at = "busy" /\ draft.exists
    /\ \E order \in Values : Stored(Order, order)
    /\ tree' = [at |-> "refreshing"]
    /\ UNCHANGED <<shown, form, page, dirtyMap, pageHistory>>

TreeFailed ==
    /\ tree.at = "busy"
    /\ tree' = [at |-> "idle"]
    /\ Mark(TreeOperation, FALSE)
    /\ \/ UNCHANGED <<draft, unsure>>
       \/ /\ unsure' = unsure \cup {Order}
          /\ UNCHANGED draft \/ \E order \in Values : Stored(Order, order)
    /\ UNCHANGED <<shown, form, page, crossed>>

-----------------------------------------------------------------------------
(* CourseDetail's mutate() *)

Mutate ==
    /\ ~Unsaved /\ ~Locked
    /\ \E path \in IF shown.exists THEN {"publish", "discard"} ELSE {"create"} :
          page' = [at |-> "busy", path |-> path]
    /\ UNCHANGED <<draft, shown, form, tree, dirtyMap, pageHistory>>

\* A draft that is published or discarded is a draft no more, and a new one is a
\* copy of the latest version, whatever that holds.
After(path) ==
    IF path = "create" THEN [exists : {TRUE}, value : [Parts -> Values]]
    ELSE {NoDraft}

\* Creating a draft where somebody has done so is answered with that draft.
MutateSaved ==
    /\ page.at = "busy"
    /\ \/ draft.exists = (page.path # "create") /\ draft' \in After(page.path)
       \/ draft.exists /\ page.path = "create" /\ UNCHANGED draft
    /\ page' = [page EXCEPT !.at = "refreshing"]
    /\ UNCHANGED <<shown, form, tree, dirtyMap, pageHistory>>

MutateFailed ==
    /\ page.at = "busy"
    /\ page' = NoMutation
    /\ \/ UNCHANGED <<draft, unsure>>
       \/ /\ unsure' = Parts
          /\ draft' \in {draft} \cup After(page.path)
    /\ UNCHANGED <<shown, form, tree, dirtyMap, crossed>>

-----------------------------------------------------------------------------
(* The others: operators, tabs, and requests nobody waits for *)

OtherSaves(p) ==
    /\ draft.exists
    /\ \E value \in Values : Stored(p, value)
    /\ unsure' = unsure \cup {p}
    /\ UNCHANGED <<shown, form, tree, page, dirtyMap, crossed>>

OtherMutates ==
    /\ \E path \in IF draft.exists THEN {"publish", "discard"} ELSE {"create"} :
          draft' \in After(path)
    /\ unsure' = Parts
    /\ UNCHANGED <<shown, form, tree, page, dirtyMap, crossed>>

-----------------------------------------------------------------------------
(* The commit of a refresh *)

\* A form whose values changed has another key and starts afresh, and so
\* does every form of a draft that was not shown before or is there no more.
\* A form whose module or lesson is gone, or is there anew, counts as changed.
AlwaysRebuilt(f) == TRUE
Rebuilt(f) == ~shown.exists \/ ~draft.exists \/ shown.value[f] # draft.value[f]

\* Those whose request a change of somebody else crosses here.
Crossing == {f \in Forms : f \in unsure /\ Waits(form[f].at)}
               \cup {key \in {TreeOperation} : Order \in unsure /\ Operating}

\* A form that is started afresh while its request is on its way leaves one that
\* nobody waits for: its answer takes the key off, whatever the new form holds,
\* and refreshes the page.  What it stores is a step of the others; how many
\* there are of each form is not kept.
RefreshCommits ==
    /\ \/ page.at = "refreshing" \/ tree.at = "refreshing"
       \/ \E f \in Forms : form[f].at = "refreshing"
       \/ crossed # {}
    /\ shown' = draft
    /\ form' = [f \in Forms |->
          IF Rebuilt(f) THEN FreshForm(f, draft)
          ELSE IF form[f].at = "refreshing" THEN [form[f] EXCEPT !.at = "idle", !.dirty = FALSE]
          ELSE form[f]]
    /\ tree' = IF tree.at = "refreshing" \/ ~draft.exists THEN [at |-> "idle"] ELSE tree
    /\ page' = IF page.at = "refreshing" THEN NoMutation ELSE page
    /\ \E late \in SUBSET crossed :
          dirtyMap' = ((dirtyMap \ late) \ {f \in Forms : form[f].at = "refreshing"})
                         \ (IF tree.at = "refreshing" THEN {TreeOperation} ELSE {})
    /\ crossed' = crossed \cup Crossing
    /\ unsure' = {}
    /\ UNCHANGED draft

-----------------------------------------------------------------------------
PageNext ==
    \/ \E f \in Forms : Type(f) \/ Submit(f) \/ FormSaved(f) \/ FormFailed(f)
    \/ TreeOperate \/ TreeSaved \/ TreeFailed
    \/ Mutate \/ MutateSaved \/ MutateFailed
    \/ (\E p \in Parts : OtherSaves(p)) \/ OtherMutates
    \/ RefreshCommits

PageSpec == PageInit /\ [][PageNext]_pageVars

-----------------------------------------------------------------------------
(* Properties *)

\* What a button asks for is computed from the page: when the tree's or the
\* draft's button is pressed the page shows the draft the API has, and what is
\* published is what the forms hold.  This holds part by part, but for changes
\* the page was not told of, and until the first of them crossed a request.
ActsOnTheSavedDraft ==
    [][crossed = {} =>
       /\ tree.at # "busy" /\ tree'.at = "busy" /\ Order \notin unsure =>
             shown.value[Order] = draft.value[Order]
       /\ page.at # "busy" /\ page'.at = "busy" =>
             /\ unsure = {} => shown.exists = draft.exists
             /\ \A p \in Parts \ unsure :
                   /\ shown.value[p] = draft.value[p]
                   /\ p \in Forms /\ shown.exists => form[p].text = draft.value[p]]_pageVars

\* A refresh takes nothing away that was typed and not saved in a form, whoever
\* caused it and whatever else changed, unless somebody else changed what that
\* very form edits, removed it or the draft, or has done so before while the
\* form's request was on its way.  Then the form starts afresh, without warning.
TypingStays ==
    [][\A f \in Forms \ (unsure \cup crossed) :
          form[f].dirty /\ form[f].at = "idle" =>
              form'[f].text = form[f].text \/ form'[f].dirty]_pageVars

-----------------------------------------------------------------------------
(* The inductive invariant behind them *)

Stages == {"idle", "busy", "refreshing"}
DraftRecords == [exists: BOOLEAN, value: [Parts -> Values]]

PageTypeOK ==
    /\ draft \in DraftRecords /\ shown \in DraftRecords
    /\ form \in [Forms -> [text: Values, dirty: BOOLEAN, at: Stages]]
    /\ tree \in [at: Stages]
    /\ page \in [at: Stages, path: {"none", "publish", "discard", "create"}]
    /\ page.at = "busy" => page.path # "none"
    /\ dirtyMap \subseteq Forms \cup {TreeOperation}
    /\ unsure \subseteq Parts
    /\ crossed \subseteq Forms \cup {TreeOperation}

\* Who waits or holds text has its key in the map, but for those a stray answer
\* may have taken it from, and the buttons of the page wait for an empty one.
KeysAreMarked ==
    /\ \A f \in Forms \ crossed : form[f].dirty \/ Waits(form[f].at) => f \in dirtyMap
    /\ Operating => TreeOperation \in dirtyMap \cup crossed
    /\ Locked => dirtyMap = {}
    /\ ~shown.exists => /\ ~Operating
                        /\ \A f \in Forms : ~form[f].dirty /\ ~Waits(form[f].at)

\* What is shown is what the API has, until a refresh that is on its way.
ShownUntilRefresh ==
    /\ \A p \in Parts \ unsure :
          \/ shown.value[p] = draft.value[p]
          \/ page.at = "refreshing"
          \/ p \in Forms /\ form[p].at = "refreshing"
          \/ p = Order /\ (tree.at = "refreshing" \/ \E f \in Forms : form[f].at = "refreshing")
    /\ shown.exists = draft.exists \/ page.at = "refreshing" \/ unsure = Parts

TextsFit ==
    \A f \in Forms \ crossed :
        /\ shown.exists /\ f \notin dirtyMap => form[f].text = shown.value[f]
        /\ form[f].at = "refreshing" /\ f \notin unsure =>
              form[f].text \in {shown.value[f], draft.value[f]}

PageInv == PageTypeOK /\ KeysAreMarked /\ ShownUntilRefresh /\ TextsFit
=============================================================================
