------------------------------ MODULE ConsoleProofs ------------------------------
(***************************************************************************)
(* Theorems about the admin console, for every value of the constants: the *)
(* lesson editor (LessonEditor) and the course page (CoursePage).  The two *)
(* share no state and are proved one after the other.                      *)
(***************************************************************************)
EXTENDS LessonEditor, CoursePage, SequenceTheorems, TLAPS

-----------------------------------------------------------------------------
(* The course page *)

FormRecords == [text: Values, dirty: BOOLEAN, at: Stages]
MutationRecords == [at: Stages, path: {"none", "publish", "discard", "create"}]

LEMMA PartsAre ==
  /\ Order \in Parts /\ Order \notin Forms /\ TreeOperation \notin Forms
  /\ \A f \in Forms : f \in Parts
  /\ 0 \in Values
  BY CoursePageAssumption DEF Parts, Values

LEMMA NoDraftTyped ==
  NoDraft \in DraftRecords /\ [NoDraft EXCEPT !.exists = TRUE] \in DraftRecords
<1>1. [p \in Parts |-> 0] \in [Parts -> Values]
  BY PartsAre
<1> QED
  BY <1>1 DEF NoDraft, DraftRecords

LEMMA PageInitHolds == PageInit => PageInv
<1> SUFFICES ASSUME PageInit PROVE PageInv
  OBVIOUS
<1>1. /\ draft \in DraftRecords /\ shown = draft
      /\ draft.value = [p \in Parts |-> 0]
  <2>1. draft = NoDraft \/ draft = [NoDraft EXCEPT !.exists = TRUE]
    BY DEF PageInit
  <2>2. draft \in DraftRecords /\ shown = draft
    BY <2>1, NoDraftTyped DEF PageInit
  <2> QED
    BY <2>1, <2>2 DEF NoDraft
<1>2. \A f \in Forms : f \in Parts /\ form[f] = [text |-> 0, dirty |-> FALSE, at |-> "idle"]
  BY <1>1 DEF PageInit, FreshForm, Parts
<1>3. PageTypeOK
  <2>1. form \in [Forms -> FormRecords]
    <3>1. form = [f \in Forms |-> FreshForm(f, draft)]
      BY DEF PageInit
    <3>2. \A f \in Forms : FreshForm(f, draft) = [text |-> 0, dirty |-> FALSE, at |-> "idle"]
      BY <1>1 DEF FreshForm, Parts
    <3>3. [text |-> 0, dirty |-> FALSE, at |-> "idle"] \in FormRecords
      BY PartsAre DEF FormRecords, Stages
    <3> QED
      BY <3>1, <3>2, <3>3
  <2>2. /\ tree = [at |-> "idle"] /\ page = [at |-> "idle", path |-> "none"]
        /\ dirtyMap = {} /\ unsure = {} /\ crossed = {}
    BY DEF PageInit, NoMutation
  <2> QED
    BY <1>1, <2>1, <2>2 DEF PageTypeOK, FormRecords, Stages
<1>4. KeysAreMarked
  BY <1>2 DEF PageInit, NoMutation, KeysAreMarked, Waits, Operating, Locked
<1>5. ShownUntilRefresh
  BY <1>1, <1>2 DEF PageInit, ShownUntilRefresh
<1>6. TextsFit
  BY <1>1, <1>2 DEF TextsFit
<1> QED
  BY <1>3, <1>4, <1>5, <1>6 DEF PageInv

\* The fields of a form after an assignment.
LEMMA FormFields ==
  ASSUME PageTypeOK, NEW f \in Forms, NEW r \in FormRecords,
         form' = [form EXCEPT ![f] = r]
  PROVE  /\ form' \in [Forms -> FormRecords]
         /\ form'[f] = r
         /\ \A g \in Forms \ {f} : form'[g] = form[g]
  BY DEF PageTypeOK, FormRecords

LEMMA FormMoves ==
  ASSUME PageTypeOK, NEW f \in Forms, NEW at \in Stages, form' = [form EXCEPT ![f].at = at]
  PROVE  /\ form' \in [Forms -> FormRecords]
         /\ form'[f].at = at
         /\ form'[f].text = form[f].text
         /\ form'[f].dirty = form[f].dirty
         /\ \A g \in Forms \ {f} : form'[g] = form[g]
  BY DEF PageTypeOK, FormRecords

\* The API's draft after one part of it is stored.
LEMMA StoredFields ==
  ASSUME PageTypeOK, NEW p \in Parts, NEW value \in Values, Stored(p, value)
  PROVE  /\ draft' \in DraftRecords
         /\ draft'.exists = draft.exists
         /\ draft'.value[p] = value
         /\ \A q \in Parts \ {p} : draft'.value[q] = draft.value[q]
  BY DEF PageTypeOK, DraftRecords, Stored

LEMMA AfterTyped ==
  ASSUME NEW path, NEW d \in After(path)
  PROVE  d \in DraftRecords
  BY NoDraftTyped DEF After, DraftRecords

LEMMA TypeKeeps ==
  ASSUME PageInv, NEW f \in Forms, Type(f)
  PROVE  PageInv'
<1>1. PICK text \in Values :
         form' = [form EXCEPT ![f] = [text |-> text, dirty |-> TRUE, at |-> "idle"]]
  BY DEF Type
<1> DEFINE r == [text |-> text, dirty |-> TRUE, at |-> "idle"]
<1>2. /\ dirtyMap' = dirtyMap \cup {f}
      /\ UNCHANGED <<draft, shown, tree, page, unsure, crossed>>
      /\ shown.exists /\ ~Locked /\ ~Waits(form[f].at)
  BY DEF Type, Mark, Disabled, pageHistory
<1>3. r \in FormRecords /\ r.dirty /\ r.at = "idle" /\ form' = [form EXCEPT ![f] = r]
  BY <1>1 DEF FormRecords, Stages
<1> HIDE DEF r
<1>4. /\ form' \in [Forms -> FormRecords]
      /\ form'[f] = r
      /\ \A g \in Forms \ {f} : form'[g] = form[g]
  BY <1>3, FormFields DEF PageInv
<1>5. PageTypeOK'
  BY <1>2, <1>4 DEF PageInv, PageTypeOK, FormRecords
<1>6. KeysAreMarked'
  BY <1>2, <1>3, <1>4 DEF PageInv, KeysAreMarked, Locked, Operating, Waits
<1>7. ShownUntilRefresh'
  BY <1>2, <1>3, <1>4 DEF PageInv, ShownUntilRefresh, Waits
<1>8. TextsFit'
  BY <1>2, <1>3, <1>4 DEF PageInv, TextsFit
<1> QED
  BY <1>5, <1>6, <1>7, <1>8 DEF PageInv

LEMMA SubmitKeeps ==
  ASSUME PageInv, NEW f \in Forms, Submit(f)
  PROVE  PageInv'
<1>1. /\ form' = [form EXCEPT ![f].at = "busy"]
      /\ dirtyMap' = dirtyMap \cup {f}
      /\ UNCHANGED <<draft, shown, tree, page, unsure, crossed>>
      /\ shown.exists /\ ~Locked /\ ~Waits(form[f].at)
  BY DEF Submit, Mark, Disabled, pageHistory
<1>2. /\ form' \in [Forms -> FormRecords]
      /\ form'[f].at = "busy" /\ form'[f].text = form[f].text
      /\ \A g \in Forms \ {f} : form'[g] = form[g]
  BY <1>1, FormMoves DEF PageInv, Stages
<1>3. PageTypeOK'
  BY <1>1, <1>2 DEF PageInv, PageTypeOK, FormRecords
<1>4. KeysAreMarked'
  BY <1>1, <1>2 DEF PageInv, KeysAreMarked, Locked, Operating, Waits
<1>5. ShownUntilRefresh'
  BY <1>1, <1>2 DEF PageInv, ShownUntilRefresh, Waits
<1>6. TextsFit'
  BY <1>1, <1>2 DEF PageInv, TextsFit
<1> QED
  BY <1>3, <1>4, <1>5, <1>6 DEF PageInv

\* While a form waits the draft is shown, and unless its key was taken off by a
\* stray answer the page's buttons are not pressed.
LEMMA WaitingForm ==
  ASSUME PageInv, NEW f \in Forms, Waits(form[f].at)
  PROVE  /\ shown.exists
         /\ f \notin crossed => f \in dirtyMap /\ ~Locked
  BY DEF PageInv, KeysAreMarked

LEMMA FormSavedKeeps ==
  ASSUME PageInv, NEW f \in Forms, FormSaved(f)
  PROVE  PageInv'
<1>1. /\ form[f].at = "busy" /\ draft.exists
      /\ UNCHANGED <<shown, tree, page, dirtyMap, unsure, crossed>>
  BY DEF FormSaved, pageHistory
<1>2. /\ shown.exists
      /\ f \notin crossed => f \in dirtyMap
      /\ f \in Parts /\ form[f].text \in Values /\ shown.value[f] \in Values
  BY <1>1, WaitingForm, PartsAre DEF Waits, PageInv, PageTypeOK, DraftRecords
<1>3. /\ form' \in [Forms -> FormRecords]
      /\ form'[f].at = "refreshing"
      /\ \A g \in Forms \ {f} : form'[g] = form[g]
      /\ draft' \in DraftRecords /\ draft'.exists
      /\ \A p \in Parts \ {f, Order} : draft'.value[p] = draft.value[p]
      /\ form'[f].text \in {shown.value[f], draft'.value[f]}
  <2>1. CASE Stored(f, form[f].text) /\ form' = [form EXCEPT ![f].at = "refreshing"]
    <3>1. /\ form' \in [Forms -> FormRecords]
          /\ form'[f].at = "refreshing" /\ form'[f].text = form[f].text
          /\ \A g \in Forms \ {f} : form'[g] = form[g]
      BY <2>1, FormMoves DEF PageInv, Stages
    <3>2. /\ draft' \in DraftRecords /\ draft'.exists = draft.exists
          /\ draft'.value[f] = form[f].text
          /\ \A q \in Parts \ {f} : draft'.value[q] = draft.value[q]
      BY <1>2, <2>1, StoredFields DEF PageInv
    <3> QED
      BY <1>1, <3>1, <3>2
  <2>2. CASE /\ \E order \in Values : Stored(Order, order)
             /\ form' = [form EXCEPT ![f] = [text |-> shown.value[f], dirty |-> @.dirty,
                                             at |-> "refreshing"]]
    <3> DEFINE r == [text |-> shown.value[f], dirty |-> form[f].dirty, at |-> "refreshing"]
    <3>1. /\ form' = [form EXCEPT ![f] = r]
          /\ r \in FormRecords
          /\ r.text = shown.value[f] /\ r.at = "refreshing"
      BY <1>2, <2>2 DEF PageInv, PageTypeOK, FormRecords, Stages
    <3> HIDE DEF r
    <3>2. /\ form' \in [Forms -> FormRecords]
          /\ form'[f] = r
          /\ \A g \in Forms \ {f} : form'[g] = form[g]
      BY <3>1, FormFields DEF PageInv
    <3>3. /\ draft' \in DraftRecords /\ draft'.exists = draft.exists
          /\ \A q \in Parts \ {Order} : draft'.value[q] = draft.value[q]
      BY <2>2, PartsAre, StoredFields DEF PageInv
    <3> QED
      BY <1>1, <3>1, <3>2, <3>3
  <2> QED
    BY <2>1, <2>2 DEF FormSaved
<1>4. PageTypeOK'
  BY <1>1, <1>3 DEF PageInv, PageTypeOK, FormRecords
<1>5. KeysAreMarked'
  BY <1>1, <1>2, <1>3 DEF PageInv, KeysAreMarked, Locked, Operating
<1>6. ShownUntilRefresh'
  BY <1>1, <1>2, <1>3 DEF PageInv, ShownUntilRefresh
<1>7. TextsFit'
  BY <1>1, <1>2, <1>3, PartsAre DEF PageInv, TextsFit
<1> QED
  BY <1>4, <1>5, <1>6, <1>7 DEF PageInv

LEMMA FormFailedKeeps ==
  ASSUME PageInv, NEW f \in Forms, FormFailed(f)
  PROVE  PageInv'
<1>1. /\ form[f].at = "busy"
      /\ form' = [form EXCEPT ![f].at = "idle"]
      /\ UNCHANGED <<shown, tree, page, dirtyMap, crossed>>
  BY DEF FormFailed
<1>2. /\ shown.exists
      /\ f \notin crossed => f \in dirtyMap
      /\ f \in Parts /\ form[f].text \in Values
  BY <1>1, WaitingForm, PartsAre DEF Waits, PageInv, PageTypeOK
<1>3. /\ form' \in [Forms -> FormRecords]
      /\ form'[f].at = "idle" /\ form'[f].text = form[f].text
      /\ \A g \in Forms \ {f} : form'[g] = form[g]
  BY <1>1, FormMoves DEF PageInv, Stages
<1>4. /\ draft' \in DraftRecords /\ draft'.exists = draft.exists
      /\ \A q \in Parts \ {f, Order} : draft'.value[q] = draft.value[q]
      /\ UNCHANGED <<draft, unsure>> \/ unsure' = unsure \cup {f, Order}
  <2>1. CASE UNCHANGED draft
    BY <2>1 DEF FormFailed, PageInv, PageTypeOK
  <2>2. CASE unsure' = unsure \cup {f, Order} /\ Stored(f, form[f].text)
    BY <1>2, <2>2, StoredFields DEF PageInv
  <2>3. CASE unsure' = unsure \cup {f, Order} /\ \E order \in Values : Stored(Order, order)
    BY <2>3, PartsAre, StoredFields DEF PageInv
  <2> QED
    BY <2>1, <2>2, <2>3 DEF FormFailed
<1>5. PageTypeOK'
  BY <1>1, <1>2, <1>3, <1>4, PartsAre DEF PageInv, PageTypeOK, FormRecords
<1>6. KeysAreMarked'
  BY <1>1, <1>2, <1>3 DEF PageInv, KeysAreMarked, Locked, Operating, Waits
<1>7. ShownUntilRefresh'
  <2>1. \A g \in Forms : form'[g].at = "refreshing" <=> form[g].at = "refreshing"
    BY <1>1, <1>3
  <2>2. CASE UNCHANGED <<draft, unsure>>
    BY <1>1, <2>1, <2>2 DEF PageInv, ShownUntilRefresh
  <2>3. CASE unsure' = unsure \cup {f, Order}
    <3>1. unsure = Parts => unsure' = Parts
      BY <1>2, <2>3, PartsAre
    <3>2. \A p \in Parts \ unsure' : p \in Parts \ unsure /\ draft'.value[p] = draft.value[p]
      BY <1>4, <2>3
    <3> QED
      BY <1>1, <1>4, <2>1, <3>1, <3>2 DEF PageInv, ShownUntilRefresh
  <2> QED
    BY <1>4, <2>2, <2>3
<1>8. TextsFit'
  BY <1>1, <1>2, <1>3, <1>4, PartsAre DEF PageInv, TextsFit
<1> QED
  BY <1>5, <1>6, <1>7, <1>8 DEF PageInv

LEMMA TreeOperateKeeps ==
  ASSUME PageInv, TreeOperate
  PROVE  PageInv'
<1>1. /\ tree' = [at |-> "busy"]
      /\ dirtyMap' = dirtyMap \cup {TreeOperation}
      /\ UNCHANGED <<draft, shown, form, page, unsure, crossed>>
      /\ shown.exists /\ ~Locked /\ ~Operating
  BY DEF TreeOperate, Mark, pageHistory
<1>2. tree' \in [at: Stages] /\ tree'.at = "busy"
  BY <1>1 DEF Stages
<1>3. PageTypeOK'
  BY <1>1, <1>2 DEF PageInv, PageTypeOK
<1>4. KeysAreMarked'
  BY <1>1, <1>2 DEF PageInv, KeysAreMarked, Locked, Operating
<1>5. ShownUntilRefresh'
  BY <1>1, <1>2 DEF PageInv, ShownUntilRefresh, Operating, Waits
<1>6. TextsFit'
  BY <1>1, <1>2 DEF PageInv, TextsFit
<1> QED
  BY <1>3, <1>4, <1>5, <1>6 DEF PageInv

LEMMA TreeSavedKeeps ==
  ASSUME PageInv, TreeSaved
  PROVE  PageInv'
<1>1. /\ tree.at = "busy" /\ draft.exists
      /\ tree' = [at |-> "refreshing"]
      /\ UNCHANGED <<shown, form, page, dirtyMap, unsure, crossed>>
  BY DEF TreeSaved, pageHistory
<1>2. tree' \in [at: Stages] /\ tree'.at = "refreshing"
  BY <1>1 DEF Stages
<1>3. /\ draft' \in DraftRecords /\ draft'.exists = draft.exists
      /\ \A q \in Parts \ {Order} : draft'.value[q] = draft.value[q]
  BY PartsAre, StoredFields DEF PageInv, TreeSaved
<1>4. TreeOperation \in dirtyMap \cup crossed /\ shown.exists
  BY <1>1 DEF PageInv, KeysAreMarked, Operating, Waits
<1>5. PageTypeOK'
  BY <1>1, <1>2, <1>3 DEF PageInv, PageTypeOK
<1>6. KeysAreMarked'
  BY <1>1, <1>2, <1>4 DEF PageInv, KeysAreMarked, Locked, Operating
<1>7. ShownUntilRefresh'
  BY <1>1, <1>2, <1>3, <1>4 DEF PageInv, ShownUntilRefresh
<1>8. TextsFit'
  BY <1>1, <1>3, PartsAre DEF PageInv, TextsFit
<1> QED
  BY <1>5, <1>6, <1>7, <1>8 DEF PageInv

LEMMA TreeFailedKeeps ==
  ASSUME PageInv, TreeFailed
  PROVE  PageInv'
<1>1. /\ tree.at = "busy"
      /\ tree' = [at |-> "idle"]
      /\ dirtyMap' = dirtyMap \ {TreeOperation}
      /\ UNCHANGED <<shown, form, page, crossed>>
      /\ \/ UNCHANGED <<draft, unsure>>
         \/ /\ unsure' = unsure \cup {Order}
            /\ UNCHANGED draft \/ \E order \in Values : Stored(Order, order)
  BY DEF TreeFailed, Mark
<1>2. tree' \in [at: Stages] /\ tree'.at = "idle"
  BY <1>1 DEF Stages
<1>3. /\ draft' \in DraftRecords /\ draft'.exists = draft.exists
      /\ \A q \in Parts \ {Order} : draft'.value[q] = draft.value[q]
      /\ UNCHANGED <<draft, unsure>> \/ unsure' = unsure \cup {Order}
  BY <1>1, PartsAre, StoredFields DEF PageInv, PageTypeOK
<1>4. PageTypeOK'
  BY <1>1, <1>2, <1>3, PartsAre DEF PageInv, PageTypeOK
<1>5. KeysAreMarked'
  BY <1>1, <1>2, PartsAre DEF PageInv, KeysAreMarked, Locked, Operating, Waits
<1>6. ShownUntilRefresh'
  BY <1>1, <1>2, <1>3, PartsAre DEF PageInv, PageTypeOK, ShownUntilRefresh
<1>7. TextsFit'
  BY <1>1, <1>3, PartsAre DEF PageInv, TextsFit
<1> QED
  BY <1>4, <1>5, <1>6, <1>7 DEF PageInv

\* While the page's button waits nothing else does, and no text is unsaved, but
\* for those whose key was taken off by a stray answer.
LEMMA LockedAlone ==
  ASSUME PageInv, Locked
  PROVE  /\ dirtyMap = {}
         /\ \A f \in Forms \ crossed : ~Waits(form[f].at) /\ ~form[f].dirty
  BY DEF PageInv, KeysAreMarked

LEMMA MutateKeeps ==
  ASSUME PageInv, Mutate
  PROVE  PageInv'
<1>1. /\ \E path \in {"publish", "discard", "create"} : page' = [at |-> "busy", path |-> path]
      /\ dirtyMap = {} /\ ~Locked
      /\ UNCHANGED <<draft, shown, form, tree, dirtyMap, unsure, crossed>>
  BY DEF Mutate, Unsaved, pageHistory
<1>2. page' \in MutationRecords /\ page'.at = "busy" /\ page'.path # "none"
  BY <1>1 DEF MutationRecords, Stages
<1>3. PageTypeOK'
  BY <1>1, <1>2 DEF PageInv, PageTypeOK, MutationRecords
<1>4. KeysAreMarked'
  BY <1>1, <1>2 DEF PageInv, KeysAreMarked, Operating
<1>5. ShownUntilRefresh'
  BY <1>1, <1>2 DEF PageInv, ShownUntilRefresh, Locked, Waits
<1>6. TextsFit'
  BY <1>1 DEF PageInv, TextsFit
<1> QED
  BY <1>3, <1>4, <1>5, <1>6 DEF PageInv

LEMMA MutateSavedKeeps ==
  ASSUME PageInv, MutateSaved
  PROVE  PageInv'
<1>1. /\ page.at = "busy" /\ draft' \in {draft} \cup After(page.path)
      /\ page' = [page EXCEPT !.at = "refreshing"]
      /\ UNCHANGED <<shown, form, tree, dirtyMap, unsure, crossed>>
  BY DEF MutateSaved, pageHistory
<1>2. page' \in MutationRecords /\ page'.at = "refreshing"
  BY <1>1 DEF PageInv, PageTypeOK, MutationRecords, Stages
<1>3. /\ dirtyMap = {}
      /\ \A f \in Forms \ crossed : ~Waits(form[f].at)
  BY <1>1, LockedAlone DEF Locked, Waits
<1>4. draft' \in DraftRecords
  BY <1>1, AfterTyped DEF PageInv, PageTypeOK
<1>5. PageTypeOK'
  BY <1>1, <1>2, <1>4 DEF PageInv, PageTypeOK, MutationRecords
<1>6. KeysAreMarked'
  BY <1>1, <1>3 DEF PageInv, KeysAreMarked, Operating
<1>7. ShownUntilRefresh'
  BY <1>1, <1>2 DEF ShownUntilRefresh
<1>8. TextsFit'
  BY <1>1, <1>3 DEF PageInv, TextsFit, Waits
<1> QED
  BY <1>5, <1>6, <1>7, <1>8 DEF PageInv

LEMMA MutateFailedKeeps ==
  ASSUME PageInv, MutateFailed
  PROVE  PageInv'
<1>1. /\ page.at = "busy" /\ page' = NoMutation
      /\ UNCHANGED <<draft, unsure>>
            \/ (unsure' = Parts /\ draft' \in {draft} \cup After(page.path))
      /\ UNCHANGED <<shown, form, tree, dirtyMap, crossed>>
  BY DEF MutateFailed
<1>2. page' \in MutationRecords /\ page'.at = "idle"
  BY <1>1 DEF NoMutation, MutationRecords, Stages
<1>3. dirtyMap = {}
  BY <1>1, LockedAlone DEF Locked, Waits
<1>4. draft' \in DraftRecords /\ unsure' \subseteq Parts
  BY <1>1, AfterTyped DEF PageInv, PageTypeOK
<1>5. PageTypeOK'
  BY <1>1, <1>2, <1>4 DEF PageInv, PageTypeOK, MutationRecords
<1>6. KeysAreMarked'
  BY <1>1, <1>3 DEF PageInv, KeysAreMarked, Operating
<1>7. ShownUntilRefresh'
  <2>1. CASE UNCHANGED <<draft, unsure>>
    BY <1>1, <1>2, <2>1 DEF PageInv, ShownUntilRefresh
  <2>2. CASE unsure' = Parts
    BY <2>2 DEF ShownUntilRefresh
  <2> QED
    BY <1>1, <2>1, <2>2
<1>8. TextsFit'
  <2>1. CASE UNCHANGED <<draft, unsure>>
    BY <1>1, <2>1 DEF PageInv, TextsFit
  <2>2. CASE unsure' = Parts
    BY <1>1, <2>2, PartsAre DEF PageInv, TextsFit
  <2> QED
    BY <1>1, <2>1, <2>2
<1> QED
  BY <1>5, <1>6, <1>7, <1>8 DEF PageInv

LEMMA OtherSavesKeeps ==
  ASSUME PageInv, NEW p \in Parts, OtherSaves(p)
  PROVE  PageInv'
<1>1. /\ unsure' = unsure \cup {p}
      /\ UNCHANGED <<shown, form, tree, page, dirtyMap, crossed>>
  BY DEF OtherSaves
<1>2. /\ draft' \in DraftRecords /\ draft'.exists = draft.exists
      /\ \A q \in Parts \ {p} : draft'.value[q] = draft.value[q]
  BY StoredFields DEF PageInv, OtherSaves
<1>3. PageTypeOK'
  BY <1>1, <1>2 DEF PageInv, PageTypeOK
<1>4. KeysAreMarked'
  BY <1>1 DEF PageInv, KeysAreMarked, Locked, Operating
<1>5. ShownUntilRefresh'
  BY <1>1, <1>2 DEF PageInv, PageTypeOK, ShownUntilRefresh
<1>6. TextsFit'
  BY <1>1, <1>2, PartsAre DEF PageInv, TextsFit
<1> QED
  BY <1>3, <1>4, <1>5, <1>6 DEF PageInv

LEMMA OtherMutatesKeeps ==
  ASSUME PageInv, OtherMutates
  PROVE  PageInv'
<1>1. /\ unsure' = Parts
      /\ UNCHANGED <<shown, form, tree, page, dirtyMap, crossed>>
  BY DEF OtherMutates
<1>2. draft' \in DraftRecords
  BY AfterTyped DEF OtherMutates
<1>3. PageTypeOK'
  BY <1>1, <1>2 DEF PageInv, PageTypeOK
<1>4. KeysAreMarked'
  BY <1>1 DEF PageInv, KeysAreMarked, Locked, Operating
<1>5. ShownUntilRefresh'
  BY <1>1 DEF ShownUntilRefresh
<1>6. TextsFit'
  BY <1>1, PartsAre DEF PageInv, TextsFit
<1> QED
  BY <1>3, <1>4, <1>5, <1>6 DEF PageInv

LEMMA FreshFormTyped ==
  ASSUME PageTypeOK, NEW f \in Forms
  PROVE  /\ FreshForm(f, draft) \in FormRecords
         /\ FreshForm(f, draft).text = draft.value[f]
         /\ FreshForm(f, draft).dirty = FALSE
         /\ FreshForm(f, draft).at = "idle"
<1>1. draft.value[f] \in Values
  BY PartsAre DEF PageTypeOK, DraftRecords
<1> QED
  BY <1>1 DEF FreshForm, FormRecords, Stages

\* A form after a refresh has committed: afresh, settled, or as it was.
LEMMA RefreshedForm ==
  ASSUME PageTypeOK, RefreshCommits
  PROVE  /\ form' \in [Forms -> FormRecords]
         /\ \A f \in Forms :
              \/ /\ Rebuilt(f)
                 /\ form'[f].text = draft.value[f] /\ ~form'[f].dirty /\ form'[f].at = "idle"
              \/ /\ ~Rebuilt(f) /\ form[f].at = "refreshing"
                 /\ form'[f].text = form[f].text /\ ~form'[f].dirty /\ form'[f].at = "idle"
              \/ /\ ~Rebuilt(f) /\ form[f].at # "refreshing"
                 /\ form'[f] = form[f]
<1> DEFINE after(f) == IF Rebuilt(f) THEN FreshForm(f, draft)
                       ELSE IF form[f].at = "refreshing"
                            THEN [form[f] EXCEPT !.at = "idle", !.dirty = FALSE]
                            ELSE form[f]
<1>1. form' = [f \in Forms |-> after(f)]
  BY DEF RefreshCommits
<1>2. ASSUME NEW f \in Forms
      PROVE  /\ form[f] \in FormRecords
             /\ [form[f] EXCEPT !.at = "idle", !.dirty = FALSE] \in FormRecords
             /\ [form[f] EXCEPT !.at = "idle", !.dirty = FALSE].text = form[f].text
             /\ ~[form[f] EXCEPT !.at = "idle", !.dirty = FALSE].dirty
             /\ [form[f] EXCEPT !.at = "idle", !.dirty = FALSE].at = "idle"
  BY DEF PageTypeOK, FormRecords, Stages
<1>3. \A f \in Forms : after(f) \in FormRecords
  BY <1>2, FreshFormTyped
<1>4. form' \in [Forms -> FormRecords]
  <2> HIDE DEF after
  <2> QED
    BY <1>1, <1>3
<1>5. \A f \in Forms : form'[f] = after(f)
  BY <1>1
<1> QED
  BY <1>2, <1>4, <1>5, FreshFormTyped

\* The rest of the page after a refresh has committed.
LEMMA RefreshedPage ==
  ASSUME PageTypeOK, RefreshCommits
  PROVE  /\ shown' = draft /\ draft' = draft /\ unsure' = {}
         /\ tree' = [at |-> "idle"] \/ (tree' = tree /\ tree.at # "refreshing" /\ draft.exists)
         /\ page' = NoMutation \/ (page' = page /\ page.at # "refreshing")
         /\ crossed' = crossed \cup Crossing
         /\ dirtyMap' \subseteq dirtyMap
         /\ \A key \in dirtyMap \ crossed :
              \/ key \in dirtyMap'
              \/ key \in Forms /\ form[key].at = "refreshing"
              \/ key = TreeOperation /\ tree.at = "refreshing"
<1>1. /\ shown' = draft /\ draft' = draft /\ unsure' = {}
      /\ tree' = IF tree.at = "refreshing" \/ ~draft.exists THEN [at |-> "idle"] ELSE tree
      /\ page' = IF page.at = "refreshing" THEN NoMutation ELSE page
      /\ crossed' = crossed \cup Crossing
  BY DEF RefreshCommits
<1>2. PICK answered \in SUBSET crossed :
         dirtyMap' = ((dirtyMap \ answered) \ {f \in Forms : form[f].at = "refreshing"})
                        \ (IF tree.at = "refreshing" THEN {TreeOperation} ELSE {})
  BY DEF RefreshCommits
<1>3. dirtyMap' \subseteq dirtyMap
  BY <1>2
<1>4. \A key \in dirtyMap \ crossed :
        \/ key \in dirtyMap'
        \/ key \in Forms /\ form[key].at = "refreshing"
        \/ key = TreeOperation /\ tree.at = "refreshing"
  BY <1>2
<1> QED
  BY <1>1, <1>3, <1>4

LEMMA RefreshKeeps ==
  ASSUME PageInv, RefreshCommits
  PROVE  PageInv'
<1>1. /\ shown' = draft /\ draft' = draft /\ unsure' = {}
      /\ tree' = [at |-> "idle"] \/ (tree' = tree /\ tree.at # "refreshing" /\ draft.exists)
      /\ page' = NoMutation \/ (page' = page /\ page.at # "refreshing")
      /\ crossed' = crossed \cup Crossing
      /\ dirtyMap' \subseteq dirtyMap
      /\ \A key \in dirtyMap \ crossed :
           \/ key \in dirtyMap'
           \/ key \in Forms /\ form[key].at = "refreshing"
           \/ key = TreeOperation /\ tree.at = "refreshing"
  BY RefreshedPage DEF PageInv
<1>2. /\ form' \in [Forms -> FormRecords]
      /\ \A f \in Forms :
           \/ /\ Rebuilt(f)
              /\ form'[f].text = draft.value[f] /\ ~form'[f].dirty /\ form'[f].at = "idle"
           \/ /\ ~Rebuilt(f) /\ form[f].at = "refreshing"
              /\ form'[f].text = form[f].text /\ ~form'[f].dirty /\ form'[f].at = "idle"
           \/ /\ ~Rebuilt(f) /\ form[f].at # "refreshing"
              /\ form'[f] = form[f]
  BY RefreshedForm DEF PageInv
<1>3. \A f \in Forms : ~Rebuilt(f) => shown.exists /\ draft.exists
                                         /\ shown.value[f] = draft.value[f]
  BY DEF Rebuilt
<1>4. PageTypeOK'
  <2>1. Crossing \subseteq Forms \cup {TreeOperation}
    BY DEF Crossing
  <2>2. tree' \in [at: Stages] /\ page' \in MutationRecords
    BY <1>1 DEF PageInv, PageTypeOK, NoMutation, MutationRecords, Stages
  <2>3. page'.at = "busy" => page'.path # "none"
    BY <1>1 DEF PageInv, PageTypeOK, NoMutation
  <2> QED
    BY <1>1, <1>2, <2>1, <2>2, <2>3 DEF PageInv, PageTypeOK, FormRecords, MutationRecords
<1>5. KeysAreMarked'
  <2>1. \A f \in Forms \ crossed' : form'[f].dirty \/ Waits(form'[f].at) => f \in dirtyMap'
    <3> SUFFICES ASSUME NEW f \in Forms \ crossed', form'[f].dirty \/ Waits(form'[f].at)
                 PROVE  f \in dirtyMap'
      OBVIOUS
    <3>1. form'[f] = form[f] /\ form[f].at # "refreshing"
      BY <1>2 DEF Waits
    <3>2. f \in dirtyMap /\ f \notin crossed
      BY <1>1, <3>1 DEF PageInv, KeysAreMarked
    <3> QED
      BY <1>1, <3>1, <3>2, PartsAre
  <2>2. Waits(tree'.at) => TreeOperation \in dirtyMap' \cup crossed'
    <3> SUFFICES ASSUME Waits(tree'.at) PROVE TreeOperation \in dirtyMap' \cup crossed'
      OBVIOUS
    <3>1. tree' = tree /\ tree.at # "refreshing"
      BY <1>1 DEF Waits
    <3>2. TreeOperation \in dirtyMap \cup crossed
      BY <3>1 DEF PageInv, KeysAreMarked, Operating
    <3> QED
      BY <1>1, <3>1, <3>2, PartsAre
  <2>3. Waits(page'.at) => dirtyMap' = {}
    <3> SUFFICES ASSUME Waits(page'.at) PROVE dirtyMap' = {}
      OBVIOUS
    <3>1. Locked
      BY <1>1 DEF NoMutation, Locked, Waits
    <3> QED
      BY <1>1, <3>1 DEF PageInv, KeysAreMarked
  <2>4. ~shown'.exists => /\ ~Waits(tree'.at)
                          /\ \A f \in Forms : ~form'[f].dirty /\ ~Waits(form'[f].at)
    <3> SUFFICES ASSUME ~draft.exists
                 PROVE  /\ ~Waits(tree'.at)
                        /\ \A f \in Forms : ~form'[f].dirty /\ ~Waits(form'[f].at)
      BY <1>1
    <3>1. ~Waits(tree'.at)
      BY <1>1 DEF Waits
    <3> QED
      BY <1>2, <1>3, <3>1 DEF Waits
  <2> QED
    BY <2>1, <2>2, <2>3, <2>4 DEF KeysAreMarked, Operating, Locked
<1>6. ShownUntilRefresh'
  BY <1>1 DEF ShownUntilRefresh
<1>7. TextsFit'
  <2> SUFFICES ASSUME NEW f \in Forms \ crossed'
               PROVE  /\ draft.exists /\ f \notin dirtyMap' => form'[f].text = draft.value[f]
                      /\ form'[f].at # "refreshing"
    BY <1>1 DEF TextsFit
  <2>1. form'[f].at # "refreshing"
    BY <1>2
  <2>2. CASE Rebuilt(f)
    BY <1>2, <2>1, <2>2
  <2>3. CASE ~Rebuilt(f) /\ form[f].at = "refreshing"
    <3>1. f \notin unsure /\ f \notin crossed
      BY <1>1, <2>3 DEF Crossing, Waits
    <3> QED
      BY <1>2, <1>3, <2>1, <2>3, <3>1 DEF PageInv, TextsFit
  <2>4. CASE ~Rebuilt(f) /\ form[f].at # "refreshing"
    <3>1. f \notin crossed /\ (f \notin dirtyMap' => f \notin dirtyMap)
      BY <1>1, <2>4, PartsAre
    <3> QED
      BY <1>2, <1>3, <2>1, <2>4, <3>1 DEF PageInv, TextsFit
  <2> QED
    BY <2>2, <2>3, <2>4
<1> QED
  BY <1>4, <1>5, <1>6, <1>7 DEF PageInv

LEMMA PageStutter ==
  ASSUME PageInv, UNCHANGED pageVars
  PROVE  PageInv'
  BY DEF PageInv, pageVars, PageTypeOK, KeysAreMarked, Operating, Locked,
         ShownUntilRefresh, TextsFit

LEMMA PageInductive == PageInv /\ [PageNext]_pageVars => PageInv'
  BY TypeKeeps, SubmitKeeps, FormSavedKeeps, FormFailedKeeps, TreeOperateKeeps,
     TreeSavedKeeps, TreeFailedKeeps, MutateKeeps, MutateSavedKeeps, MutateFailedKeeps,
     OtherSavesKeeps, OtherMutatesKeeps, RefreshKeeps, PageStutter
     DEF PageNext

\* The invariant behind both theorems on the course page: what waits for an
\* answer or holds text is marked, the page differs from the draft only where a
\* refresh is due or somebody else wrote, and a form shows what was saved or what
\* was typed; but for the forms whose request such a change has crossed.
THEOREM PageInvHolds == PageSpec => []PageInv
  BY PageInitHolds, PageInductive, PTL DEF PageSpec

\* Of all steps only a click moves a button's request to "busy".
LEMMA OnlyClicksAsk ==
  ASSUME PageInv, PageNext
  PROVE  /\ tree.at # "busy" /\ tree'.at = "busy" => TreeOperate
         /\ page.at # "busy" /\ page'.at = "busy" => Mutate
<1>1. PageTypeOK
  BY DEF PageInv
<1>2. ASSUME RefreshCommits
      PROVE  /\ tree'.at = "busy" => tree.at = "busy"
             /\ page'.at = "busy" => page.at = "busy"
  BY <1>1, <1>2, RefreshedPage DEF NoMutation
<1>3. ASSUME \/ \E f \in Forms : Type(f) \/ Submit(f) \/ FormSaved(f) \/ FormFailed(f)
             \/ (\E p \in Parts : OtherSaves(p)) \/ OtherMutates
      PROVE  UNCHANGED <<tree, page>>
  BY <1>3 DEF Type, Submit, FormSaved, FormFailed, OtherSaves, OtherMutates
<1>4. /\ TreeOperate \/ TreeSaved \/ TreeFailed => UNCHANGED page
      /\ TreeSaved => tree' = [at |-> "refreshing"]
      /\ TreeFailed => tree' = [at |-> "idle"]
  BY DEF TreeOperate, TreeSaved, TreeFailed
<1>5. /\ Mutate => UNCHANGED tree
      /\ MutateSaved \/ MutateFailed => UNCHANGED tree /\ page'.at # "busy"
  BY <1>1 DEF Mutate, MutateSaved, MutateFailed, NoMutation, PageTypeOK
<1> QED
  BY <1>2, <1>3, <1>4, <1>5 DEF PageNext

LEMMA ButtonsSee ==
  ASSUME PageInv, PageNext, crossed = {}
  PROVE  /\ tree.at # "busy" /\ tree'.at = "busy" /\ Order \notin unsure =>
               shown.value[Order] = draft.value[Order]
         /\ page.at # "busy" /\ page'.at = "busy" =>
               /\ unsure = {} => shown.exists = draft.exists
               /\ \A p \in Parts \ unsure :
                     /\ shown.value[p] = draft.value[p]
                     /\ p \in Forms /\ shown.exists => form[p].text = draft.value[p]
<1>1. ASSUME dirtyMap = {}, ~Locked
      PROVE  /\ \A p \in Parts \ unsure : shown.value[p] = draft.value[p]
             /\ unsure = {} => shown.exists = draft.exists
             /\ \A f \in Forms : shown.exists => form[f].text = shown.value[f]
  <2>1. /\ page.at # "refreshing" /\ tree.at # "refreshing"
        /\ \A f \in Forms : form[f].at # "refreshing"
    BY <1>1 DEF PageInv, KeysAreMarked, Locked, Operating, Waits
  <2> QED
    BY <1>1, <2>1, PartsAre DEF PageInv, ShownUntilRefresh, TextsFit
<1>2. TreeOperate \/ Mutate => dirtyMap = {} /\ ~Locked
  BY DEF TreeOperate, Mutate, Unsaved
<1> QED
  BY <1>1, <1>2, OnlyClicksAsk, PartsAre

\* What the tree's or the page's button sends is computed from what the API has,
\* and what is published is what the forms hold: but for parts that somebody else
\* changed, or maybe a request that got no answer, since the last refresh, and
\* until the first such change crosses a request of the page.
THEOREM ButtonsActOnTheSaved == PageSpec => ActsOnTheSavedDraft
<1>1. PageInv /\ [PageNext]_pageVars =>
        [crossed = {} =>
         /\ tree.at # "busy" /\ tree'.at = "busy" /\ Order \notin unsure =>
              shown.value[Order] = draft.value[Order]
         /\ page.at # "busy" /\ page'.at = "busy" =>
              /\ unsure = {} => shown.exists = draft.exists
              /\ \A p \in Parts \ unsure :
                    /\ shown.value[p] = draft.value[p]
                    /\ p \in Forms /\ shown.exists => form[p].text = draft.value[p]]_pageVars
  BY ButtonsSee
<1> QED
  BY <1>1, PageInvHolds, PTL DEF PageSpec, ActsOnTheSavedDraft

LEMMA TypingStep ==
  ASSUME PageInv, PageNext, NEW f \in Forms, f \notin unsure, f \notin crossed,
         form[f].dirty, form[f].at = "idle"
  PROVE  form'[f].text = form[f].text \/ form'[f].dirty
<1>t. PageTypeOK
  BY DEF PageInv
<1>1. ASSUME NEW g \in Forms, Type(g)
      PROVE  form'[f].text = form[f].text \/ form'[f].dirty
  <2>1. PICK text \in Values :
           form' = [form EXCEPT ![g] = [text |-> text, dirty |-> TRUE, at |-> "idle"]]
    BY <1>1 DEF Type
  <2> QED
    BY <1>t, <2>1 DEF PageTypeOK
<1>2. ASSUME NEW g \in Forms, Submit(g)
      PROVE  form'[f].text = form[f].text
  BY <1>t, <1>2, FormMoves DEF Submit, Stages
<1>3. ASSUME NEW g \in Forms, FormSaved(g)
      PROVE  form'[f] = form[f]
  <2>1. g # f
    BY <1>3 DEF FormSaved
  <2> QED
    BY <1>t, <1>3, <2>1 DEF FormSaved, PageTypeOK
<1>4. ASSUME NEW g \in Forms, FormFailed(g)
      PROVE  form'[f].text = form[f].text
  BY <1>t, <1>4, FormMoves DEF FormFailed, Stages
<1>5. ASSUME RefreshCommits
      PROVE  form'[f] = form[f]
  <2>1. f \in dirtyMap /\ shown.exists
    BY DEF PageInv, KeysAreMarked
  <2>2. page.at # "refreshing"
    BY <2>1 DEF PageInv, KeysAreMarked, Locked, Waits
  <2>3. shown.value[f] = draft.value[f] /\ draft.exists
    BY <2>1, <2>2, PartsAre DEF PageInv, ShownUntilRefresh
  <2>4. ~Rebuilt(f)
    BY <2>1, <2>3 DEF Rebuilt
  <2> QED
    BY <1>t, <1>5, <2>4, RefreshedForm
<1>6. CASE \/ TreeOperate \/ TreeSaved \/ TreeFailed \/ Mutate \/ MutateSaved \/ MutateFailed
           \/ (\E p \in Parts : OtherSaves(p)) \/ OtherMutates
  BY <1>6 DEF TreeOperate, TreeSaved, TreeFailed, Mutate, MutateSaved, MutateFailed,
              OtherSaves, OtherMutates
<1> QED
  BY <1>1, <1>2, <1>3, <1>4, <1>5, <1>6 DEF PageNext

\* A refresh, whoever caused it and whatever others changed, does not take away
\* what was typed in a form and not saved, unless somebody else changed what that
\* very form edits, or has done so while its request was on its way.
THEOREM TypingIsKept == PageSpec => TypingStays
<1>1. PageInv /\ [PageNext]_pageVars =>
        [\A f \in Forms \ (unsure \cup crossed) :
            form[f].dirty /\ form[f].at = "idle" =>
                form'[f].text = form[f].text \/ form'[f].dirty]_pageVars
  BY TypingStep
<1> QED
  BY <1>1, PageInvHolds, PTL DEF PageSpec, TypingStays
-----------------------------------------------------------------------------
(* The lesson editor: lists of blocks, and lists of such lists *)

LEMMA BlocksAre ==
  ASSUME NEW p \in Blocks
  PROVE  /\ Len(p) \in Nat /\ DOMAIN p = 1 .. Len(p)
         /\ \A i \in DOMAIN p : p[i] \in ImageBlocks
  BY LenProperties, ElementOfSeq DEF Blocks

LEMMA FitsMore ==
  ASSUME NEW n \in Nat, NEW p, FitsPage(p, n)
  PROVE  FitsPage(p, n + 1)
<1>1. p \in Blocks
  BY DEF FitsPage
<1>2. \A i \in DOMAIN p : p[i].id \in Nat
  BY <1>1, BlocksAre DEF ImageBlocks
<1> QED
  BY <1>1, <1>2 DEF FitsPage

\* The blocks of q are those of p, perhaps a new one, and no block of p twice;
\* the new one has an asset of its own.
Descends(q, p, n) ==
  /\ FitsPage(q, n + 1)
  /\ \A i \in DOMAIN q :
        \/ q[i].id = n + 1
        \/ \E j \in DOMAIN p : q[i].id = p[j].id /\ q[i].assetId = p[j].assetId

LEMMA AppendDescends ==
  ASSUME NEW n \in Nat, NEW p, FitsPage(p, n), NEW b \in ImageBlocks, b.id = n + 1
  PROVE  Descends(Append(p, b), p, n)
<1> DEFINE q == Append(p, b)
<1>1. p \in Blocks /\ Len(p) \in Nat /\ DOMAIN p = 1 .. Len(p)
  BY BlocksAre DEF FitsPage
<1>2. /\ q \in Blocks /\ Len(q) = Len(p) + 1
      /\ \A i \in 1 .. Len(p) : q[i] = p[i]
      /\ q[Len(p) + 1] = b
  BY <1>1, AppendProperties DEF Blocks
<1>3. DOMAIN q = 1 .. Len(p) + 1
  BY <1>2, BlocksAre
<1> HIDE DEF q
<1>4. \A i \in 1 .. Len(p) : p[i].id \in Nat /\ p[i].id <= n
  BY <1>1, BlocksAre DEF FitsPage, ImageBlocks
<1>5. \A i \in DOMAIN q : i \in 1 .. Len(p) \/ i = Len(p) + 1
  BY <1>1, <1>3
<1>6. \A i \in DOMAIN q : q[i].id <= n + 1
  BY <1>2, <1>4, <1>5
<1>7. \A i, j \in DOMAIN q : q[i].id = q[j].id => i = j
  BY <1>1, <1>2, <1>4, <1>5 DEF FitsPage
<1> QED
  BY <1>1, <1>2, <1>5, <1>6, <1>7 DEF Descends, FitsPage, q

\* The blocks after the k-th.
LEMMA TailOf ==
  ASSUME NEW p \in Blocks, NEW k \in 1 .. Len(p)
  PROVE  /\ SubSeq(p, k + 1, Len(p)) \in Blocks /\ Len(SubSeq(p, k + 1, Len(p))) = Len(p) - k
         /\ \A i \in 1 .. Len(p) - k : SubSeq(p, k + 1, Len(p))[i] = p[k + i]
<1> DEFINE back == SubSeq(p, k + 1, Len(p))
<1>1. Len(p) \in Nat /\ \A i \in k + 1 .. Len(p) : p[i] \in ImageBlocks
  BY BlocksAre
<1>2. /\ back \in Seq(ImageBlocks)
      /\ Len(back) = IF k + 1 <= Len(p) THEN Len(p) - (k + 1) + 1 ELSE 0
      /\ \A i \in 1 .. Len(p) - (k + 1) + 1 : back[i] = p[(k + 1) + i - 1]
  <2>1. k + 1 \in Int /\ Len(p) \in Int
    BY <1>1
  <2> QED
    BY <1>1, <2>1, SubSeqProperties
<1> HIDE DEF back
<1>3. Len(back) = Len(p) - k /\ Len(p) - (k + 1) + 1 = Len(p) - k
  BY <1>1, <1>2
<1>4. \A i \in 1 .. Len(p) - k : (k + 1) + i - 1 = k + i
  BY <1>1
<1>5. \A i \in 1 .. Len(p) - k : back[i] = p[k + i]
  BY <1>2, <1>3, <1>4
<1> QED
  BY <1>2, <1>3, <1>5 DEF back, Blocks

LEMMA InsertDescends ==
  ASSUME NEW n \in Nat, NEW p, FitsPage(p, n), NEW k \in DOMAIN p,
         NEW b \in ImageBlocks, b.id = n + 1
  PROVE  Descends(SubSeq(p, 1, k) \o <<b>> \o SubSeq(p, k + 1, Len(p)), p, n)
<1> DEFINE front == SubSeq(p, 1, k)
           back == SubSeq(p, k + 1, Len(p))
           half == front \o <<b>>
           q == half \o back
<1>1. /\ p \in Blocks /\ Len(p) \in Nat /\ DOMAIN p = 1 .. Len(p)
      /\ k \in 1 .. Len(p)
      /\ \A i \in 1 .. Len(p) : p[i] \in ImageBlocks /\ p[i].id \in Nat /\ p[i].id <= n
  BY BlocksAre DEF FitsPage, ImageBlocks
<1>2. front \in Blocks /\ Len(front) = k /\ \A i \in 1 .. k : front[i] = p[i]
  BY <1>1, SubSeqProperties DEF Blocks
<1>3. /\ back \in Blocks /\ Len(back) = Len(p) - k
      /\ \A i \in 1 .. Len(p) - k : back[i] = p[k + i]
  BY <1>1, TailOf
<1>4. <<b>> \in Blocks /\ Len(<<b>>) = 1 /\ <<b>>[1] = b
  BY DEF Blocks
<1> HIDE DEF front, back
<1>5. /\ half \in Blocks /\ Len(half) = k + 1
      /\ \A i \in 1 .. k + 1 : half[i] = IF i <= k THEN front[i] ELSE <<b>>[i - k]
  BY <1>1, <1>2, <1>4, ConcatProperties DEF Blocks
<1> HIDE DEF half
<1>6. /\ q \in Blocks /\ Len(q) = Len(p) + 1
      /\ \A i \in 1 .. Len(p) + 1 :
            q[i] = IF i <= k + 1 THEN half[i] ELSE back[i - (k + 1)]
  <2>1. /\ q \in Seq(ImageBlocks) /\ Len(q) = Len(half) + Len(back)
        /\ \A i \in 1 .. Len(half) + Len(back) :
              q[i] = IF i <= Len(half) THEN half[i]
                     ELSE back[i - Len(half)]
    BY <1>3, <1>5, ConcatProperties DEF Blocks
  <2>2. Len(half) + Len(back) = Len(p) + 1
    BY <1>1, <1>3, <1>5
  <2> HIDE DEF q
  <2> QED
    BY <1>5, <2>1, <2>2 DEF Blocks
<1>7. /\ DOMAIN q = 1 .. Len(p) + 1
      /\ \A i \in 1 .. Len(p) + 1 :
            q[i] = IF i <= k THEN p[i] ELSE IF i = k + 1 THEN b ELSE p[i - 1]
  <2>1. DOMAIN q = 1 .. Len(p) + 1
    BY <1>6, BlocksAre
  <2>2. ASSUME NEW i \in 1 .. Len(p) + 1
        PROVE  q[i] = IF i <= k THEN p[i] ELSE IF i = k + 1 THEN b ELSE p[i - 1]
    <3>1. CASE i <= k
      BY <3>1, <1>1, <1>2, <1>5, <1>6
    <3>2. CASE i = k + 1
      BY <3>2, <1>1, <1>4, <1>5, <1>6
    <3>3. CASE i > k + 1
      <4>1. q[i] = back[i - (k + 1)]
        BY <3>3, <1>1, <1>6
      <4>2. i - (k + 1) \in 1 .. Len(p) - k /\ k + (i - (k + 1)) = i - 1
        <5>1. i \in Int /\ k \in Int /\ Len(p) \in Int /\ i <= Len(p) + 1
          BY <1>1
        <5> QED
          BY <5>1, <3>3
      <4>3. back[i - (k + 1)] = p[i - 1]
        BY <4>2, <1>3
      <4>4. ~(i <= k) /\ i # k + 1
        BY <3>3, <1>1
      <4> QED
        BY <4>1, <4>3, <4>4
    <3>4. i <= k \/ i = k + 1 \/ i > k + 1
      BY <1>1
    <3> QED
      BY <3>1, <3>2, <3>3, <3>4
  <2> QED
    BY <2>1, <2>2
<1> HIDE DEF q
<1> DEFINE At(i) == IF i <= k THEN i ELSE i - 1
<1>8. \A i \in DOMAIN q : i # k + 1 => At(i) \in DOMAIN p /\ q[i] = p[At(i)]
  BY <1>1, <1>7
<1>9. \A i, j \in DOMAIN q : i # k + 1 /\ j # k + 1 /\ At(i) = At(j) => i = j
  BY <1>1, <1>7
<1>10. k + 1 \in DOMAIN q /\ q[k + 1] = b
  BY <1>1, <1>7
<1> HIDE DEF At
<1>11. \A i \in DOMAIN q : q[i].id <= n + 1 /\ (q[i].id = n + 1 <=> i = k + 1)
  <2> SUFFICES ASSUME NEW i \in DOMAIN q
               PROVE  q[i].id <= n + 1 /\ (q[i].id = n + 1 <=> i = k + 1)
    OBVIOUS
  <2>1. CASE i = k + 1
    BY <2>1, <1>10
  <2>2. CASE i # k + 1
    BY <2>2, <1>1, <1>8
  <2> QED
    BY <2>1, <2>2
<1>12. \A i, j \in DOMAIN q : q[i].id = q[j].id => i = j
  <2> SUFFICES ASSUME NEW i \in DOMAIN q, NEW j \in DOMAIN q, q[i].id = q[j].id
               PROVE  i = j
    OBVIOUS
  <2>1. i = k + 1 <=> j = k + 1
    BY <1>11
  <2>2. CASE i # k + 1
    BY <2>1, <2>2, <1>8, <1>9 DEF FitsPage
  <2> QED
    BY <2>1, <2>2
<1> QED
  BY <1>6, <1>8, <1>11, <1>12 DEF Descends, FitsPage, q, half, front, back

LEMMA RemoveDescends ==
  ASSUME NEW n \in Nat, NEW p, FitsPage(p, n), NEW k \in DOMAIN p
  PROVE  Descends(SubSeq(p, 1, k - 1) \o SubSeq(p, k + 1, Len(p)), p, n)
<1> DEFINE front == SubSeq(p, 1, k - 1)
           back == SubSeq(p, k + 1, Len(p))
           q == front \o back
<1>1. /\ p \in Blocks /\ Len(p) \in Nat /\ DOMAIN p = 1 .. Len(p)
      /\ k \in 1 .. Len(p)
      /\ \A i \in 1 .. Len(p) : p[i] \in ImageBlocks /\ p[i].id \in Nat /\ p[i].id <= n
  BY BlocksAre DEF FitsPage, ImageBlocks
<1>2. front \in Blocks /\ Len(front) = k - 1 /\ \A i \in 1 .. k - 1 : front[i] = p[i]
  BY <1>1, SubSeqProperties DEF Blocks
<1>3. /\ back \in Blocks /\ Len(back) = Len(p) - k
      /\ \A i \in 1 .. Len(p) - k : back[i] = p[k + i]
  BY <1>1, TailOf
<1> HIDE DEF front, back
<1>4. /\ q \in Blocks /\ Len(q) = Len(p) - 1
      /\ \A i \in 1 .. Len(p) - 1 : q[i] = IF i <= k - 1 THEN front[i] ELSE back[i - (k - 1)]
  <2>1. /\ q \in Seq(ImageBlocks) /\ Len(q) = Len(front) + Len(back)
        /\ \A i \in 1 .. Len(front) + Len(back) :
              q[i] = IF i <= Len(front) THEN front[i] ELSE back[i - Len(front)]
    BY <1>2, <1>3, ConcatProperties DEF Blocks
  <2>2. Len(front) + Len(back) = Len(p) - 1
    BY <1>1, <1>2, <1>3
  <2> HIDE DEF q
  <2> QED
    BY <1>2, <2>1, <2>2 DEF Blocks
<1>5. DOMAIN q = 1 .. Len(p) - 1
  BY <1>4, BlocksAre
<1> HIDE DEF q
<1> DEFINE At(i) == IF i <= k - 1 THEN i ELSE i + 1
<1>6. ASSUME NEW i \in DOMAIN q
      PROVE  At(i) \in DOMAIN p /\ q[i] = p[At(i)]
  <2>1. CASE i <= k - 1
    BY <2>1, <1>1, <1>2, <1>4, <1>5
  <2>2. CASE i > k - 1
    <3>1. q[i] = back[i - (k - 1)]
      BY <2>2, <1>1, <1>4, <1>5
    <3>2. i - (k - 1) \in 1 .. Len(p) - k /\ k + (i - (k - 1)) = i + 1
      BY <2>2, <1>1, <1>5
    <3>3. back[i - (k - 1)] = p[i + 1]
      BY <3>2, <1>3
    <3> QED
      BY <3>1, <3>3, <2>2, <1>1, <1>5
  <2> QED
    BY <2>1, <2>2, <1>1, <1>5
<1>7. \A i, j \in DOMAIN q : At(i) = At(j) => i = j
  BY <1>1, <1>5
<1> HIDE DEF At
<1>8. FitsPage(q, n + 1)
  BY <1>1, <1>4, <1>6, <1>7 DEF FitsPage
<1> QED
  BY <1>6, <1>8 DEF Descends, q, front, back

LEMMA MoveDescends ==
  ASSUME NEW n \in Nat, NEW p, FitsPage(p, n), NEW k \in DOMAIN p, k > 1
  PROVE  Descends([p EXCEPT ![k] = p[k - 1], ![k - 1] = p[k]], p, n)
<1> DEFINE half == [p EXCEPT ![k] = p[k - 1]]
           q == [p EXCEPT ![k] = p[k - 1], ![k - 1] = p[k]]
<1>1. /\ p \in Blocks /\ Len(p) \in Nat /\ DOMAIN p = 1 .. Len(p)
      /\ k \in 1 .. Len(p)
      /\ \A i \in 1 .. Len(p) : p[i] \in ImageBlocks /\ p[i].id \in Nat /\ p[i].id <= n
  BY BlocksAre DEF FitsPage, ImageBlocks
<1>2. k - 1 \in 1 .. Len(p) /\ k \in 1 .. Len(p)
  BY <1>1
<1>3. q = [half EXCEPT ![k - 1] = p[k]]
  OBVIOUS
<1>4. /\ half \in Blocks /\ Len(half) = Len(p)
      /\ \A i \in 1 .. Len(p) : half[i] = IF i = k THEN p[k - 1] ELSE p[i]
  BY <1>1, <1>2, ExceptSeq DEF Blocks
<1> HIDE DEF half, q
<1>5. /\ q \in Blocks /\ Len(q) = Len(p)
      /\ \A i \in 1 .. Len(p) : q[i] = IF i = k - 1 THEN p[k] ELSE half[i]
  BY <1>1, <1>2, <1>3, <1>4, ExceptSeq DEF Blocks
<1>6. DOMAIN q = 1 .. Len(p)
  BY <1>5, BlocksAre
<1> DEFINE At(i) == IF i = k THEN k - 1 ELSE IF i = k - 1 THEN k ELSE i
<1>7. \A i \in DOMAIN q : At(i) \in DOMAIN p /\ q[i] = p[At(i)]
  BY <1>1, <1>2, <1>4, <1>5, <1>6
<1>8. \A i, j \in DOMAIN q : At(i) = At(j) => i = j
  BY <1>1, <1>2, <1>6
<1> HIDE DEF At
<1>9. FitsPage(q, n + 1)
  BY <1>1, <1>5, <1>7, <1>8 DEF FitsPage
<1> QED
  BY <1>7, <1>9 DEF Descends, q

\* A list whose blocks keep their places and ids.
LEMMA SamePlacesFit ==
  ASSUME NEW n \in Nat, NEW p, FitsPage(p, n), NEW q, DOMAIN q = DOMAIN p,
         q = [i \in DOMAIN p |-> q[i]],
         \A i \in DOMAIN p : q[i] \in ImageBlocks /\ q[i].id = p[i].id
  PROVE  FitsPage(q, n + 1)
<1>1. p \in Blocks /\ Len(p) \in Nat /\ DOMAIN p = 1 .. Len(p)
  BY BlocksAre DEF FitsPage
<1>2. q \in [1 .. Len(p) -> ImageBlocks]
  BY <1>1
<1>3. q \in Blocks
  BY <1>1, <1>2, SeqDef DEF Blocks
<1>4. \A i \in DOMAIN p : p[i].id \in Nat /\ p[i].id <= n
  BY <1>1, BlocksAre DEF FitsPage, ImageBlocks
<1> QED
  BY <1>3, <1>4 DEF FitsPage

-----------------------------------------------------------------------------
(* History: the pages that undo and redo may show again *)

AllFit(pages, n) ==
  /\ pages \in Seq(Blocks)
  /\ \A i \in DOMAIN pages : FitsPage(pages[i], n)

LEMMA AllFitMore ==
  ASSUME NEW n \in Nat, NEW pages, AllFit(pages, n)
  PROVE  AllFit(pages, n + 1)
  BY FitsMore DEF AllFit

LEMMA AllFitAppend ==
  ASSUME NEW n \in Nat, NEW pages, AllFit(pages, n), NEW p, FitsPage(p, n)
  PROVE  AllFit(Append(pages, p), n)
<1> DEFINE all == Append(pages, p)
<1>1. p \in Blocks /\ pages \in Seq(Blocks)
  BY DEF AllFit, FitsPage
<1>2. Len(pages) \in Nat /\ DOMAIN pages = 1 .. Len(pages)
  BY <1>1, LenProperties
<1>3. /\ all \in Seq(Blocks) /\ Len(all) = Len(pages) + 1
      /\ \A i \in 1 .. Len(pages) : all[i] = pages[i]
      /\ all[Len(pages) + 1] = p
  BY <1>1, AppendProperties
<1>4. DOMAIN all = 1 .. Len(pages) + 1
  BY <1>3, LenProperties
<1> HIDE DEF all
<1>5. ASSUME NEW i \in DOMAIN all PROVE FitsPage(all[i], n)
  <2>1. i \in 1 .. Len(pages) \/ i = Len(pages) + 1
    BY <1>2, <1>4
  <2>2. CASE i \in 1 .. Len(pages)
    <3>1. FitsPage(pages[i], n) /\ all[i] = pages[i]
      BY <2>2, <1>2, <1>3 DEF AllFit
    <3> QED
      BY <3>1
  <2>3. CASE i = Len(pages) + 1
    <3>1. all[i] = p
      BY <2>3, <1>3
    <3> QED
      BY <3>1
  <2> QED
    BY <2>1, <2>2, <2>3
<1> QED
  BY <1>3, <1>5 DEF AllFit, all

\* A stretch of the history.
LEMMA AllFitPart ==
  ASSUME NEW n \in Nat, NEW pages, AllFit(pages, n),
         NEW a \in Int, NEW b \in Int, a >= 1, b <= Len(pages)
  PROVE  AllFit(SubSeq(pages, a, b), n)
<1> DEFINE part == SubSeq(pages, a, b)
<1>1. pages \in Seq(Blocks) /\ Len(pages) \in Nat /\ DOMAIN pages = 1 .. Len(pages)
  BY LenProperties DEF AllFit
<1>2. \A i \in a .. b : i \in 1 .. Len(pages) /\ pages[i] \in Blocks
  BY <1>1, ElementOfSeq
<1>3. /\ part \in Seq(Blocks)
      /\ Len(part) = IF a <= b THEN b - a + 1 ELSE 0
      /\ \A i \in 1 .. b - a + 1 : part[i] = pages[a + i - 1]
  BY <1>2, SubSeqProperties
<1>4. DOMAIN part = 1 .. Len(part)
  BY <1>3, LenProperties
<1> HIDE DEF part
<1>5. ASSUME NEW i \in DOMAIN part PROVE FitsPage(part[i], n)
  <2>1. i \in 1 .. b - a + 1 /\ a + i - 1 \in DOMAIN pages
    BY <1>1, <1>3, <1>4
  <2>2. part[i] = pages[a + i - 1] /\ FitsPage(pages[a + i - 1], n)
    BY <2>1, <1>3 DEF AllFit
  <2> QED
    BY <2>2
<1> QED
  BY <1>3, <1>5 DEF AllFit, part

LEMMA AllFitLast ==
  ASSUME NEW n \in Nat, NEW pages, AllFit(pages, n), NEW m \in Nat
  PROVE  AllFit(Last(pages, m), n)
<1>1. pages \in Seq(Blocks) /\ Len(pages) \in Nat
  BY LenProperties DEF AllFit
<1>2. CASE Len(pages) > m
  <2>1. Last(pages, m) = SubSeq(pages, Len(pages) - m + 1, Len(pages))
    BY <1>2 DEF Last
  <2>2. /\ Len(pages) - m + 1 \in Int /\ Len(pages) \in Int
        /\ Len(pages) - m + 1 >= 1 /\ Len(pages) <= Len(pages)
    BY <1>1, <1>2
  <2> QED
    BY <2>1, <2>2, AllFitPart
<1>3. CASE ~(Len(pages) > m)
  BY <1>3 DEF Last
<1> QED
  BY <1>2, <1>3

-----------------------------------------------------------------------------
(* The lesson editor: what a step does to the page and its queue *)

LEMMA HistoryFits ==
  ASSUME EditorInv
  PROVE  /\ queue.revision \in Nat /\ queue.revision + 1 \in Nat
         /\ FitsPage(doc.blocks, queue.revision + 1)
         /\ AllFit(doc.past, queue.revision + 1) /\ AllFit(doc.future, queue.revision + 1)
         /\ MaxPast \in Nat
  BY LessonEditorAssumption DEF EditorInv, EditorTypeOK, PagesFit, AllFit

Queues == [revision: Nat, kind: {"none", "ready", "blocked"}, saved: Nat, rejected: Nat,
           timer: BOOLEAN, sent: [revision: Nat, value: Blocks]]

LEMMA StageStep ==
  ASSUME EditorInv, NEW p, NEW known, Stage(p, known)
  PROVE  /\ queue' \in Queues /\ queue'.revision = queue.revision + 1
         /\ queue'.sent = queue.sent
         /\ saveStatus' \in {"dirty", "blocked"}
<1> DEFINE ready == Valid(p, known)
           kind == IF ready THEN "ready" ELSE "blocked"
           timer == ready /\ ~Running(queue)
           q1 == [queue EXCEPT !.revision = @ + 1]
           q2 == [q1 EXCEPT !.kind = kind]
<1>1. queue \in Queues
  BY DEF EditorInv, EditorTypeOK, Queues
<1>2. queue' = [q2 EXCEPT !.timer = timer] /\ saveStatus' \in {"dirty", "blocked"}
  BY DEF Stage
<1>3. timer \in BOOLEAN /\ kind \in {"ready", "blocked"}
  OBVIOUS
<1> HIDE DEF kind, timer
<1>4. q1 \in Queues /\ q1.revision = queue.revision + 1 /\ q1.sent = queue.sent
  BY <1>1 DEF Queues
<1> HIDE DEF q1
<1>5. q2 \in Queues /\ q2.revision = q1.revision /\ q2.sent = q1.sent
  BY <1>3, <1>4 DEF Queues
<1> HIDE DEF q2
<1>6. queue' \in Queues /\ queue'.revision = q2.revision /\ queue'.sent = q2.sent
  BY <1>2, <1>3, <1>5 DEF Queues
<1> QED
  BY <1>2, <1>4, <1>5, <1>6

\* A step that shows newDoc and makes it the next revision to save.
LEMMA EditStep ==
  ASSUME EditorInv, NEW newDoc,
         newDoc = [blocks |-> newDoc.blocks, past |-> newDoc.past,
                   future |-> newDoc.future, uploads |-> newDoc.uploads],
         FitsPage(newDoc.blocks, queue.revision + 2),
         AllFit(newDoc.past, queue.revision + 2), AllFit(newDoc.future, queue.revision + 2),
         doc' = newDoc, NEW known, Stage(newDoc.blocks, known),
         assets' \subseteq UploadIds \cup {Picture}, stored' \subseteq UploadIds \cup {Picture},
         uploading' \subseteq uploading,
         \A u \in uploading' :
            u.id \in DOMAIN newDoc.uploads /\ newDoc.uploads[u.id] = u.request =>
               /\ u.newest
               /\ \A i \in DOMAIN newDoc.blocks :
                     newDoc.blocks[i].id = u.id => newDoc.blocks[i].assetId = u.before
  PROVE  EditorInv'
<1>1. /\ queue' \in Queues /\ queue'.revision = queue.revision + 1
      /\ queue'.sent = queue.sent
      /\ saveStatus' \in {"dirty", "blocked"}
  BY StageStep
<1>2. queue.revision \in Nat /\ queue'.revision + 1 = queue.revision + 2
  BY <1>1, HistoryFits
<1>3. EditorTypeOK'
  BY <1>1 DEF EditorInv, EditorTypeOK, AllFit, Queues
<1>4. PagesFit'
  BY <1>2 DEF PagesFit, AllFit
<1>5. OwnersAreNewest'
  <2>1. \A u, v \in uploading' : u.request = v.request => u = v
    BY DEF EditorInv, OwnersAreNewest
  <2>2. \A u \in uploading' : u.id <= queue'.revision + 1
    BY <1>1, <1>2 DEF EditorInv, OwnersAreNewest, EditorTypeOK
  <2> QED
    BY <2>1, <2>2 DEF OwnersAreNewest, OwnsUpload
<1>6. IndicatorFits'
  <2>1. Running(queue)' => queue.sent.revision <= queue.revision
    BY <1>1 DEF Running, EditorInv, IndicatorFits
  <2>2. queue.sent.revision \in Nat
    BY DEF EditorInv, EditorTypeOK
  <2> QED
    BY <1>1, <1>2, <2>1, <2>2 DEF IndicatorFits
<1> QED
  BY <1>3, <1>4, <1>5, <1>6 DEF EditorInv

LEMMA EditedIs ==
  ASSUME EditorInv, NEW blocks, NEW uploads
  PROVE  Edited(blocks, uploads) =
            [blocks |-> blocks, past |-> Last(Append(doc.past, doc.blocks), MaxPast),
             future |-> <<>>, uploads |-> uploads]
<1> DEFINE past == Last(Append(doc.past, doc.blocks), MaxPast)
<1>1. doc = [blocks |-> doc.blocks, past |-> doc.past, future |-> doc.future,
             uploads |-> doc.uploads]
  BY DEF EditorInv, EditorTypeOK
<1> DEFINE d1 == [doc EXCEPT !.blocks = blocks]
           d2 == [d1 EXCEPT !.uploads = uploads]
           d3 == [d2 EXCEPT !.past = past]
           d4 == [d3 EXCEPT !.future = <<>>]
<1>2. Edited(blocks, uploads) = d4
  BY DEF Edited
<1> HIDE DEF past
<1>3. d1 = [blocks |-> blocks, past |-> doc.past, future |-> doc.future,
            uploads |-> doc.uploads]
  BY <1>1
<1> HIDE DEF d1
<1>4. d2 = [blocks |-> blocks, past |-> doc.past, future |-> doc.future, uploads |-> uploads]
  BY <1>3
<1> HIDE DEF d2
<1>5. d3 = [blocks |-> blocks, past |-> past, future |-> doc.future, uploads |-> uploads]
  BY <1>4
<1> HIDE DEF d3
<1>6. d4 = [blocks |-> blocks, past |-> past, future |-> <<>>, uploads |-> uploads]
  BY <1>5
<1> HIDE DEF d4
<1> QED
  BY <1>2, <1>6 DEF past

\* A step of history whose page fits and whose uploads are some of those there.
LEMMA EditedStep ==
  ASSUME EditorInv, NEW blocks, NEW uploads, FitsPage(blocks, queue.revision + 2),
         Edits(Edited(blocks, uploads)),
         \A b \in DOMAIN uploads : b \in DOMAIN doc.uploads /\ uploads[b] = doc.uploads[b],
         \A i \in DOMAIN blocks : blocks[i].id \in DOMAIN uploads =>
            \/ blocks[i].id = queue.revision + 2
            \/ \E j \in DOMAIN doc.blocks : /\ blocks[i].id = doc.blocks[j].id
                                           /\ blocks[i].assetId = doc.blocks[j].assetId
  PROVE  EditorInv'
<1> DEFINE past == Last(Append(doc.past, doc.blocks), MaxPast)
           newDoc == [blocks |-> blocks, past |-> past, future |-> <<>>, uploads |-> uploads]
<1>1. doc' = newDoc /\ Stage(blocks, assets) /\ UNCHANGED <<assets, stored, uploading>>
  BY EditedIs DEF Edits
<1>2. AllFit(past, queue.revision + 2) /\ AllFit(<<>>, queue.revision + 2)
  <2>1. AllFit(past, queue.revision + 1)
    BY HistoryFits, AllFitAppend, AllFitLast
  <2>2. (queue.revision + 1) + 1 = queue.revision + 2
    BY HistoryFits
  <2>3. AllFit(past, (queue.revision + 1) + 1)
    BY <2>1, HistoryFits, AllFitMore
  <2>4. AllFit(<<>>, queue.revision + 2)
    BY DEF AllFit
  <2> QED
    BY <2>2, <2>3, <2>4
<1>3. ASSUME NEW u \in uploading, u.id \in DOMAIN uploads, uploads[u.id] = u.request
      PROVE  /\ u.newest
             /\ \A i \in DOMAIN blocks : blocks[i].id = u.id => blocks[i].assetId = u.before
  <2>1. OwnsUpload(u)
    BY <1>3 DEF OwnsUpload
  <2>2. /\ u.newest /\ u.id <= queue.revision + 1
        /\ \A j \in DOMAIN doc.blocks :
              doc.blocks[j].id = u.id => doc.blocks[j].assetId = u.before
    BY <2>1 DEF EditorInv, OwnersAreNewest
  <2>3. u.id # queue.revision + 2
    BY <2>2, HistoryFits DEF EditorInv, EditorTypeOK
  <2> QED
    BY <1>3, <2>2, <2>3
<1> HIDE DEF past
<1>4. /\ newDoc.blocks = blocks /\ newDoc.past = past /\ newDoc.future = <<>>
      /\ newDoc.uploads = uploads
      /\ newDoc = [blocks |-> newDoc.blocks, past |-> newDoc.past,
                   future |-> newDoc.future, uploads |-> newDoc.uploads]
  OBVIOUS
<1>5. assets' \subseteq UploadIds \cup {Picture} /\ stored' \subseteq UploadIds \cup {Picture}
  BY <1>1 DEF EditorInv, EditorTypeOK
<1> HIDE DEF newDoc
<1> QED
  BY <1>1, <1>2, <1>3, <1>4, <1>5, EditStep

-----------------------------------------------------------------------------
(* The lesson editor: its actions *)

LEMMA DescendsStep ==
  ASSUME EditorInv, NEW blocks, Descends(blocks, doc.blocks, queue.revision + 1),
         NEW uploads, Edits(Edited(blocks, uploads)),
         \A b \in DOMAIN uploads : b \in DOMAIN doc.uploads /\ uploads[b] = doc.uploads[b]
  PROVE  EditorInv'
<1>1. (queue.revision + 1) + 1 = queue.revision + 2
  BY HistoryFits
<1>2. /\ FitsPage(blocks, queue.revision + 2)
      /\ \A i \in DOMAIN blocks :
            \/ blocks[i].id = queue.revision + 2
            \/ \E j \in DOMAIN doc.blocks : /\ blocks[i].id = doc.blocks[j].id
                                           /\ blocks[i].assetId = doc.blocks[j].assetId
  BY <1>1 DEF Descends
<1> QED
  BY <1>2, EditedStep

LEMMA WithoutIsLess ==
  ASSUME NEW uploads, NEW ids
  PROVE  /\ DOMAIN Without(uploads, ids) = DOMAIN uploads \ ids
         /\ \A b \in DOMAIN uploads \ ids : Without(uploads, ids)[b] = uploads[b]
  BY DEF Without

LEMMA AddBlockKeeps == EditorInv /\ AddBlock => EditorInv'
<1> SUFFICES ASSUME EditorInv, AddBlock PROVE EditorInv'
  OBVIOUS
<1>1. /\ NewBlock \in ImageBlocks /\ NewBlock.id = (queue.revision + 1) + 1
      /\ queue.revision + 1 \in Nat /\ FitsPage(doc.blocks, queue.revision + 1)
  BY HistoryFits DEF NewBlock, FreshId, ImageBlocks
<1>2. Descends(Append(doc.blocks, NewBlock), doc.blocks, queue.revision + 1)
  BY <1>1, AppendDescends
<1>3. Edits(Edited(Append(doc.blocks, NewBlock), doc.uploads))
  BY DEF AddBlock
<1> QED
  BY <1>2, <1>3, DescendsStep

LEMMA DuplicateKeeps ==
  ASSUME EditorInv, NEW i \in DOMAIN doc.blocks, Duplicate(i)
  PROVE  EditorInv'
<1> DEFINE copy == [doc.blocks[i] EXCEPT !.id = FreshId]
           blocks == SubSeq(doc.blocks, 1, i) \o <<copy>>
                        \o SubSeq(doc.blocks, i + 1, Len(doc.blocks))
<1>1. queue.revision + 1 \in Nat /\ FitsPage(doc.blocks, queue.revision + 1)
  BY HistoryFits
<1>2. copy \in ImageBlocks /\ copy.id = (queue.revision + 1) + 1
  <2>1. doc.blocks[i] \in ImageBlocks
    BY <1>1, BlocksAre DEF FitsPage
  <2>2. FreshId \in Nat /\ FreshId = (queue.revision + 1) + 1
    BY HistoryFits DEF FreshId
  <2> QED
    BY <2>1, <2>2 DEF ImageBlocks
<1>3. Edits(Edited(blocks, doc.uploads))
  BY DEF Duplicate
<1>4. Descends(blocks, doc.blocks, queue.revision + 1)
  <2> HIDE DEF copy
  <2> QED
    BY <1>1, <1>2, InsertDescends
<1> HIDE DEF blocks
<1> QED
  BY <1>3, <1>4, DescendsStep

LEMMA RemoveKeeps ==
  ASSUME EditorInv, NEW i \in DOMAIN doc.blocks, Remove(i)
  PROVE  EditorInv'
<1> DEFINE blocks == SubSeq(doc.blocks, 1, i - 1) \o SubSeq(doc.blocks, i + 1, Len(doc.blocks))
           uploads == Without(doc.uploads, {doc.blocks[i].id})
<1>1. queue.revision + 1 \in Nat /\ FitsPage(doc.blocks, queue.revision + 1)
  BY HistoryFits
<1>2. Edits(Edited(blocks, uploads))
  BY DEF Remove
<1>3. Descends(blocks, doc.blocks, queue.revision + 1)
  BY <1>1, RemoveDescends
<1>4. \A b \in DOMAIN uploads : b \in DOMAIN doc.uploads /\ uploads[b] = doc.uploads[b]
  BY DEF Without
<1> HIDE DEF blocks, uploads
<1> QED
  BY <1>2, <1>3, <1>4, DescendsStep

LEMMA MoveKeeps ==
  ASSUME EditorInv, NEW i \in DOMAIN doc.blocks, Move(i)
  PROVE  EditorInv'
<1> DEFINE blocks == [doc.blocks EXCEPT ![i] = doc.blocks[i - 1], ![i - 1] = doc.blocks[i]]
<1>1. queue.revision + 1 \in Nat /\ FitsPage(doc.blocks, queue.revision + 1)
  BY HistoryFits
<1>2. Edits(Edited(blocks, doc.uploads)) /\ i > 1
  BY DEF Move
<1>3. Descends(blocks, doc.blocks, queue.revision + 1)
  BY <1>1, <1>2, MoveDescends
<1> HIDE DEF blocks
<1> QED
  BY <1>2, <1>3, DescendsStep

\* A change of one block that keeps its id.
LEMMA BlockChanged ==
  ASSUME NEW n \in Nat, NEW p, FitsPage(p, n), NEW i \in DOMAIN p,
         NEW b \in ImageBlocks, b.id = p[i].id
  PROVE  /\ FitsPage([p EXCEPT ![i] = b], n + 1)
         /\ DOMAIN [p EXCEPT ![i] = b] = DOMAIN p
         /\ \A j \in DOMAIN p : [p EXCEPT ![i] = b][j] = IF j = i THEN b ELSE p[j]
<1> DEFINE q == [p EXCEPT ![i] = b]
<1>1. p \in Blocks /\ DOMAIN p = 1 .. Len(p) /\ \A j \in DOMAIN p : p[j] \in ImageBlocks
  BY BlocksAre DEF FitsPage
<1>2. DOMAIN q = DOMAIN p /\ q = [j \in DOMAIN p |-> q[j]]
  BY <1>1
<1>3. \A j \in DOMAIN p : q[j] = IF j = i THEN b ELSE p[j]
  BY <1>1
<1> HIDE DEF q
<1>4. \A j \in DOMAIN p : q[j] \in ImageBlocks /\ q[j].id = p[j].id
  BY <1>1, <1>3
<1>5. FitsPage(q, n + 1)
  BY <1>2, <1>4, SamePlacesFit
<1> QED
  BY <1>2, <1>3, <1>5 DEF q

LEMMA UpdateKeeps ==
  ASSUME EditorInv, NEW i \in DOMAIN doc.blocks, Update(i)
  PROVE  EditorInv'
<1> DEFINE b == [doc.blocks[i] EXCEPT !.caption = 1 - @]
           blocks == [doc.blocks EXCEPT ![i] = b]
<1>1. queue.revision + 1 \in Nat /\ FitsPage(doc.blocks, queue.revision + 1)
  BY HistoryFits
<1>2. b \in ImageBlocks /\ b.id = doc.blocks[i].id /\ b.assetId = doc.blocks[i].assetId
  <2>1. doc.blocks[i] \in ImageBlocks
    BY <1>1, BlocksAre DEF FitsPage
  <2>2. 1 - doc.blocks[i].caption \in {0, 1}
    BY <2>1 DEF ImageBlocks
  <2> QED
    BY <2>1, <2>2 DEF ImageBlocks
<1>3. Edits(Edited(blocks, doc.uploads))
  BY DEF Update
<1> HIDE DEF b
<1>4. /\ FitsPage(blocks, (queue.revision + 1) + 1) /\ DOMAIN blocks = DOMAIN doc.blocks
      /\ \A j \in DOMAIN doc.blocks : blocks[j] = IF j = i THEN b ELSE doc.blocks[j]
  BY <1>1, <1>2, BlockChanged
<1> HIDE DEF blocks
<1>5. Descends(blocks, doc.blocks, queue.revision + 1)
  BY <1>2, <1>4 DEF Descends
<1> QED
  BY <1>3, <1>5, DescendsStep

LEMMA PatchKeeps ==
  ASSUME EditorInv, NEW i \in DOMAIN doc.blocks, NEW asset \in assets, Patch(i, asset)
  PROVE  EditorInv'
<1> DEFINE b == [doc.blocks[i] EXCEPT !.assetId = asset]
           blocks == [doc.blocks EXCEPT ![i] = b]
           uploads == Without(doc.uploads, {doc.blocks[i].id})
<1>1. /\ queue.revision \in Nat /\ queue.revision + 1 \in Nat
      /\ FitsPage(doc.blocks, queue.revision + 1)
  BY HistoryFits
<1>2. b \in ImageBlocks /\ b.id = doc.blocks[i].id
  <2>1. doc.blocks[i] \in ImageBlocks
    BY <1>1, BlocksAre DEF FitsPage
  <2>2. asset \in UploadIds \cup {Picture, NoAsset}
    BY DEF EditorInv, EditorTypeOK
  <2> QED
    BY <2>1, <2>2 DEF ImageBlocks
<1>3. Edits(Edited(blocks, uploads))
  BY DEF Patch
<1> HIDE DEF b
<1>4. /\ FitsPage(blocks, (queue.revision + 1) + 1) /\ DOMAIN blocks = DOMAIN doc.blocks
      /\ \A j \in DOMAIN doc.blocks : blocks[j] = IF j = i THEN b ELSE doc.blocks[j]
  BY <1>1, <1>2, BlockChanged
<1>5. /\ FitsPage(blocks, queue.revision + 2)
  <2>1. (queue.revision + 1) + 1 = queue.revision + 2
    BY <1>1
  <2> HIDE DEF blocks
  <2> QED
    BY <1>4, <2>1
<1>6. /\ DOMAIN uploads = DOMAIN doc.uploads \ {doc.blocks[i].id}
      /\ \A r \in DOMAIN uploads : r \in DOMAIN doc.uploads /\ uploads[r] = doc.uploads[r]
  BY DEF Without
<1> HIDE DEF blocks, uploads
<1>7. ASSUME NEW j \in DOMAIN blocks, blocks[j].id \in DOMAIN uploads
      PROVE  \E k \in DOMAIN doc.blocks : /\ blocks[j].id = doc.blocks[k].id
                                         /\ blocks[j].assetId = doc.blocks[k].assetId
  <2>1. j # i
    BY <1>2, <1>4, <1>6, <1>7
  <2> QED
    BY <2>1, <1>4
<1> QED
  BY <1>3, <1>5, <1>6, <1>7, EditedStep

LEMMA NoUploads == DOMAIN Without(doc.uploads, DOMAIN doc.uploads) = {}
  BY DEF Without

LEMMA UndoKeeps == EditorInv /\ Undo => EditorInv'
<1> SUFFICES ASSUME EditorInv, Undo PROVE EditorInv'
  OBVIOUS
<1> DEFINE n == queue.revision + 1
           blocks == doc.past[Len(doc.past)]
           past == SubSeq(doc.past, 1, Len(doc.past) - 1)
           future == Append(doc.future, doc.blocks)
           uploads == Without(doc.uploads, DOMAIN doc.uploads)
           newDoc == [blocks |-> blocks, uploads |-> uploads, past |-> past, future |-> future]
<1>1. /\ n \in Nat /\ n + 1 = queue.revision + 2 /\ FitsPage(doc.blocks, n)
      /\ AllFit(doc.past, n) /\ AllFit(doc.future, n)
  BY HistoryFits
<1>2. Edits(newDoc) /\ doc.past # <<>>
  BY DEF Undo
<1>3. Len(doc.past) \in Nat /\ Len(doc.past) \in DOMAIN doc.past
  BY <1>1, <1>2, EmptySeq, LenProperties DEF AllFit
<1> HIDE DEF n
<1>4. FitsPage(blocks, n + 1)
  BY <1>1, <1>3, FitsMore DEF AllFit
<1>5. AllFit(past, n + 1)
  <2>1. 1 \in Int /\ Len(doc.past) - 1 \in Int /\ 1 >= 1 /\ Len(doc.past) - 1 <= Len(doc.past)
    BY <1>3
  <2>2. AllFit(past, n)
    BY <1>1, <2>1, AllFitPart
  <2> QED
    BY <1>1, <2>2, AllFitMore
<1>6. AllFit(future, n + 1)
  BY <1>1, AllFitAppend, AllFitMore
<1>7. DOMAIN uploads = {}
  BY NoUploads
<1> HIDE DEF blocks, past, future, uploads
<1>8. /\ newDoc.blocks = blocks /\ newDoc.past = past /\ newDoc.future = future
      /\ newDoc.uploads = uploads
      /\ newDoc = [blocks |-> newDoc.blocks, past |-> newDoc.past,
                   future |-> newDoc.future, uploads |-> newDoc.uploads]
  OBVIOUS
<1> HIDE DEF newDoc
<1>9. /\ doc' = newDoc /\ Stage(newDoc.blocks, assets)
      /\ assets' \subseteq UploadIds \cup {Picture} /\ stored' \subseteq UploadIds \cup {Picture}
      /\ uploading' \subseteq uploading
  BY <1>2 DEF Edits, EditorInv, EditorTypeOK
<1>10. /\ FitsPage(newDoc.blocks, queue.revision + 2)
       /\ AllFit(newDoc.past, queue.revision + 2) /\ AllFit(newDoc.future, queue.revision + 2)
  BY <1>1, <1>4, <1>5, <1>6, <1>8
<1> QED
  BY <1>7, <1>8, <1>9, <1>10, EditStep

LEMMA RedoKeeps == EditorInv /\ Redo => EditorInv'
<1> SUFFICES ASSUME EditorInv, Redo PROVE EditorInv'
  OBVIOUS
<1> DEFINE n == queue.revision + 1
           blocks == doc.future[Len(doc.future)]
           past == Last(Append(doc.past, doc.blocks), MaxPast)
           future == SubSeq(doc.future, 1, Len(doc.future) - 1)
           uploads == Without(doc.uploads, DOMAIN doc.uploads)
           newDoc == [blocks |-> blocks, uploads |-> uploads, past |-> past, future |-> future]
<1>1. /\ n \in Nat /\ n + 1 = queue.revision + 2 /\ FitsPage(doc.blocks, n)
      /\ AllFit(doc.past, n) /\ AllFit(doc.future, n)
  BY HistoryFits
<1>2. Edits(newDoc) /\ doc.future # <<>>
  BY DEF Redo
<1>3. Len(doc.future) \in Nat /\ Len(doc.future) \in DOMAIN doc.future
  BY <1>1, <1>2, EmptySeq, LenProperties DEF AllFit
<1> HIDE DEF n
<1>4. FitsPage(blocks, n + 1)
  BY <1>1, <1>3, FitsMore DEF AllFit
<1>5. AllFit(past, n + 1)
  BY <1>1, HistoryFits, AllFitAppend, AllFitLast, AllFitMore
<1>6. AllFit(future, n + 1)
  <2>1. 1 \in Int /\ Len(doc.future) - 1 \in Int /\ 1 >= 1
        /\ Len(doc.future) - 1 <= Len(doc.future)
    BY <1>3
  <2>2. AllFit(future, n)
    BY <1>1, <2>1, AllFitPart
  <2> QED
    BY <1>1, <2>2, AllFitMore
<1>7. DOMAIN uploads = {}
  BY NoUploads
<1> HIDE DEF blocks, past, future, uploads
<1>8. /\ newDoc.blocks = blocks /\ newDoc.past = past /\ newDoc.future = future
      /\ newDoc.uploads = uploads
      /\ newDoc = [blocks |-> newDoc.blocks, past |-> newDoc.past,
                   future |-> newDoc.future, uploads |-> newDoc.uploads]
  OBVIOUS
<1> HIDE DEF newDoc
<1>9. /\ doc' = newDoc /\ Stage(newDoc.blocks, assets)
      /\ assets' \subseteq UploadIds \cup {Picture} /\ stored' \subseteq UploadIds \cup {Picture}
      /\ uploading' \subseteq uploading
  BY <1>2 DEF Edits, EditorInv, EditorTypeOK
<1>10. /\ FitsPage(newDoc.blocks, queue.revision + 2)
       /\ AllFit(newDoc.past, queue.revision + 2) /\ AllFit(newDoc.future, queue.revision + 2)
  BY <1>1, <1>4, <1>5, <1>6, <1>8
<1> QED
  BY <1>7, <1>8, <1>9, <1>10, EditStep

\* The upload's result on the blocks of a page.
Patched(u) ==
  [i \in DOMAIN doc.blocks |->
     IF doc.blocks[i].id = u.id
     THEN [doc.blocks[i] EXCEPT !.assetId = u.request] ELSE doc.blocks[i]]

LEMMA PatchedFits ==
  ASSUME EditorInv, NEW u \in uploading
  PROVE  /\ FitsPage(Patched(u), queue.revision + 2)
         /\ DOMAIN Patched(u) = DOMAIN doc.blocks
         /\ \A i \in DOMAIN doc.blocks :
               /\ Patched(u)[i].id = doc.blocks[i].id
               /\ doc.blocks[i].id # u.id => Patched(u)[i] = doc.blocks[i]
               /\ doc.blocks[i].id = u.id =>
                     Patched(u)[i] = [doc.blocks[i] EXCEPT !.assetId = u.request]
<1>1. /\ queue.revision + 1 \in Nat /\ FitsPage(doc.blocks, queue.revision + 1)
      /\ (queue.revision + 1) + 1 = queue.revision + 2
  BY HistoryFits
<1>2. \A i \in DOMAIN doc.blocks : doc.blocks[i] \in ImageBlocks
  BY <1>1, BlocksAre DEF FitsPage
<1>3. u.request \in UploadIds
  BY DEF EditorInv, EditorTypeOK
<1>4. DOMAIN Patched(u) = DOMAIN doc.blocks
  BY DEF Patched
<1>5. ASSUME NEW i \in DOMAIN doc.blocks
      PROVE  /\ Patched(u)[i] \in ImageBlocks
             /\ Patched(u)[i].id = doc.blocks[i].id
             /\ doc.blocks[i].id # u.id => Patched(u)[i] = doc.blocks[i]
             /\ doc.blocks[i].id = u.id =>
                   Patched(u)[i] = [doc.blocks[i] EXCEPT !.assetId = u.request]
  <2>1. doc.blocks[i] \in ImageBlocks
    BY <1>2
  <2>2. CASE doc.blocks[i].id = u.id
    <3>1. Patched(u)[i] = [doc.blocks[i] EXCEPT !.assetId = u.request]
      BY <2>2 DEF Patched
    <3> QED
      BY <2>1, <2>2, <3>1, <1>3 DEF ImageBlocks
  <2>3. CASE doc.blocks[i].id # u.id
    <3>1. Patched(u)[i] = doc.blocks[i]
      BY <2>3 DEF Patched
    <3> QED
      BY <2>1, <2>3, <3>1
  <2> QED
    BY <2>2, <2>3
<1>6. Patched(u) = [i \in DOMAIN doc.blocks |-> Patched(u)[i]]
  BY DEF Patched
<1>7. FitsPage(Patched(u), (queue.revision + 1) + 1)
  <2> DEFINE q == Patched(u)
             p == doc.blocks
             n == queue.revision + 1
  <2>1. /\ n \in Nat /\ FitsPage(p, n) /\ DOMAIN q = DOMAIN p
        /\ q = [i \in DOMAIN p |-> q[i]]
        /\ \A i \in DOMAIN p : q[i] \in ImageBlocks /\ q[i].id = p[i].id
    BY <1>1, <1>4, <1>5, <1>6
  <2> HIDE DEF q, p, n
  <2>2. FitsPage(q, n + 1)
    BY <2>1, SamePlacesFit
  <2> QED
    BY <2>2 DEF q, n
<1> QED
  BY <1>1, <1>4, <1>5, <1>7

LEMMA HistoryGrows ==
  ASSUME EditorInv
  PROVE  /\ FitsPage(doc.blocks, queue.revision + 2)
         /\ AllFit(doc.past, queue.revision + 2) /\ AllFit(doc.future, queue.revision + 2)
         /\ AllFit(Last(Append(doc.past, doc.blocks), MaxPast), queue.revision + 2)
         /\ AllFit(<<>>, queue.revision + 2)
<1> DEFINE n == queue.revision + 1
           past == Last(Append(doc.past, doc.blocks), MaxPast)
<1>1. /\ n \in Nat /\ n + 1 = queue.revision + 2 /\ FitsPage(doc.blocks, n)
      /\ AllFit(doc.past, n) /\ AllFit(doc.future, n)
  BY HistoryFits
<1>2. AllFit(past, n)
  BY <1>1, HistoryFits, AllFitAppend, AllFitLast
<1>3. AllFit(<<>>, queue.revision + 2)
  BY DEF AllFit
<1> HIDE DEF n, past
<1>4. FitsPage(doc.blocks, n + 1) /\ AllFit(doc.past, n + 1) /\ AllFit(doc.future, n + 1)
      /\ AllFit(past, n + 1)
  BY <1>1, <1>2, FitsMore, AllFitMore
<1> QED
  BY <1>1, <1>3, <1>4 DEF past

\* The page is as it was, and so are its uploads.
LEMMA SamePageStep ==
  ASSUME EditorInv, doc' = doc, NEW known, Stage(doc.blocks, known),
         assets' \subseteq UploadIds \cup {Picture}, stored' \subseteq UploadIds \cup {Picture},
         uploading' \subseteq uploading
  PROVE  EditorInv'
<1>1. doc = [blocks |-> doc.blocks, past |-> doc.past, future |-> doc.future,
             uploads |-> doc.uploads]
  BY DEF EditorInv, EditorTypeOK
<1>2. /\ FitsPage(doc.blocks, queue.revision + 2)
      /\ AllFit(doc.past, queue.revision + 2) /\ AllFit(doc.future, queue.revision + 2)
  BY HistoryGrows
<1>3. \A u \in uploading' :
         u.id \in DOMAIN doc.uploads /\ doc.uploads[u.id] = u.request =>
            /\ u.newest
            /\ \A i \in DOMAIN doc.blocks :
                  doc.blocks[i].id = u.id => doc.blocks[i].assetId = u.before
  BY DEF EditorInv, OwnersAreNewest, OwnsUpload
<1> QED
  BY <1>1, <1>2, <1>3, EditStep

LEMMA FinishUploadKeeps ==
  ASSUME EditorInv, NEW u \in uploading, FinishUpload(u)
  PROVE  EditorInv'
<1> DEFINE uploads == Without(doc.uploads, {u.id})
           past == Last(Append(doc.past, doc.blocks), MaxPast)
           newDoc == [blocks |-> Patched(u), past |-> past, future |-> <<>>,
                      uploads |-> uploads]
<1>1. /\ uploading' = uploading \ {u} /\ assets' = assets \cup {u.request}
      /\ stored' = stored \cup {u.request}
      /\ doc' = IF OwnsUpload(u) THEN Edited(Patched(u), uploads) ELSE doc
      /\ Stage(doc'.blocks, assets')
  BY DEF FinishUpload, Patched
<1>2. assets' \subseteq UploadIds \cup {Picture} /\ stored' \subseteq UploadIds \cup {Picture}
  BY <1>1 DEF EditorInv, EditorTypeOK
<1>3. CASE ~OwnsUpload(u)
  BY <1>1, <1>2, <1>3, SamePageStep
<1>4. CASE OwnsUpload(u)
  <2>1. doc' = newDoc
    BY <1>1, <1>4, EditedIs
  <2>2. /\ DOMAIN uploads = DOMAIN doc.uploads \ {u.id}
        /\ \A b \in DOMAIN uploads : uploads[b] = doc.uploads[b]
    BY DEF Without
  <2>3. /\ FitsPage(Patched(u), queue.revision + 2)
        /\ AllFit(past, queue.revision + 2) /\ AllFit(<<>>, queue.revision + 2)
    BY PatchedFits, HistoryGrows
  <2> HIDE DEF uploads, past
  <2>4. /\ newDoc.blocks = Patched(u) /\ newDoc.past = past /\ newDoc.future = <<>>
        /\ newDoc.uploads = uploads
        /\ newDoc = [blocks |-> newDoc.blocks, past |-> newDoc.past,
                     future |-> newDoc.future, uploads |-> newDoc.uploads]
    OBVIOUS
  <2> HIDE DEF newDoc
  <2>5. ASSUME NEW v \in uploading', v.id \in DOMAIN newDoc.uploads,
               newDoc.uploads[v.id] = v.request
        PROVE  /\ v.newest
               /\ \A i \in DOMAIN newDoc.blocks :
                     newDoc.blocks[i].id = v.id => newDoc.blocks[i].assetId = v.before
    <3>1. v \in uploading /\ OwnsUpload(v) /\ v.id # u.id
      BY <2>2, <2>4, <2>5, <1>1 DEF OwnsUpload
    <3>2. /\ v.newest
          /\ \A i \in DOMAIN doc.blocks :
                doc.blocks[i].id = v.id => doc.blocks[i].assetId = v.before
      BY <3>1 DEF EditorInv, OwnersAreNewest
    <3>3. ASSUME NEW i \in DOMAIN newDoc.blocks, newDoc.blocks[i].id = v.id
          PROVE  newDoc.blocks[i].assetId = v.before
      <4>1. i \in DOMAIN doc.blocks /\ doc.blocks[i].id = v.id
        <5>1. newDoc.blocks = Patched(u) /\ DOMAIN Patched(u) = DOMAIN doc.blocks
          BY <2>4, PatchedFits
        <5>2. i \in DOMAIN doc.blocks /\ Patched(u)[i].id = v.id
          BY <5>1, <3>3
        <5>3. Patched(u)[i].id = doc.blocks[i].id
          BY <5>2, PatchedFits
        <5> QED
          BY <5>2, <5>3
      <4>2. newDoc.blocks[i] = doc.blocks[i]
        BY <4>1, <3>1, <2>4, PatchedFits
      <4> QED
        BY <4>1, <4>2, <3>2
    <3> QED
      BY <3>2, <3>3
  <2>6. Stage(newDoc.blocks, assets')
    BY <1>1, <2>1
  <2> QED
    BY <1>1, <1>2, <2>1, <2>3, <2>4, <2>5, <2>6, EditStep
<1> QED
  BY <1>3, <1>4

LEMMA RefreshAssetsKeeps == EditorInv /\ RefreshAssets => EditorInv'
<1> SUFFICES ASSUME EditorInv, RefreshAssets PROVE EditorInv'
  OBVIOUS
<1>1. /\ doc' = doc /\ Stage(doc.blocks, assets') /\ uploading' \subseteq uploading
      /\ assets' \subseteq UploadIds \cup {Picture} /\ stored' \subseteq UploadIds \cup {Picture}
  BY DEF RefreshAssets, EditorInv, EditorTypeOK
<1> QED
  BY <1>1, SamePageStep

\* A step that leaves the pages and the queue alone, and at most the uploads moves.
LEMMA UploadStep ==
  ASSUME EditorInv, NEW uploads,
         doc' = [blocks |-> doc.blocks, past |-> doc.past, future |-> doc.future,
                 uploads |-> uploads],
         UNCHANGED <<queue, saveStatus, lesson, overtaken>>,
         assets' \subseteq UploadIds \cup {Picture}, stored' \subseteq UploadIds \cup {Picture},
         uploading' \subseteq [request: UploadIds, id: Nat, newest: BOOLEAN,
                               before: UploadIds \cup {Picture, NoAsset}],
         \A u, v \in uploading' : u.request = v.request => u = v,
         \A u \in uploading' :
            /\ u.id <= queue.revision + 1
            /\ u.id \in DOMAIN uploads /\ uploads[u.id] = u.request =>
                  /\ u.newest
                  /\ \A i \in DOMAIN doc.blocks :
                        doc.blocks[i].id = u.id => doc.blocks[i].assetId = u.before
  PROVE  EditorInv'
<1>1. /\ doc'.blocks = doc.blocks /\ doc'.past = doc.past /\ doc'.future = doc.future
      /\ doc'.uploads = uploads
  OBVIOUS
<1>2. EditorTypeOK'
  <2>1. doc' = [blocks |-> doc'.blocks, past |-> doc'.past, future |-> doc'.future,
                uploads |-> doc'.uploads]
    BY <1>1
  <2> QED
    BY <1>1, <2>1 DEF EditorInv, EditorTypeOK
<1>3. PagesFit'
  BY <1>1 DEF EditorInv, PagesFit
<1>4. OwnersAreNewest'
  BY <1>1 DEF OwnersAreNewest, OwnsUpload
<1>5. IndicatorFits'
  BY <1>1 DEF EditorInv, IndicatorFits, Running
<1> QED
  BY <1>2, <1>3, <1>4, <1>5 DEF EditorInv

LEMMA UploadsOnly ==
  ASSUME EditorInv, NEW uploads
  PROVE  [doc EXCEPT !.uploads = uploads] =
            [blocks |-> doc.blocks, past |-> doc.past, future |-> doc.future,
             uploads |-> uploads]
<1>1. doc = [blocks |-> doc.blocks, past |-> doc.past, future |-> doc.future,
             uploads |-> doc.uploads]
  BY DEF EditorInv, EditorTypeOK
<1> QED
  BY <1>1

LEMMA FailUploadKeeps ==
  ASSUME EditorInv, NEW u \in uploading, FailUpload(u)
  PROVE  EditorInv'
<1> DEFINE uploads == IF OwnsUpload(u) THEN Without(doc.uploads, {u.id}) ELSE doc.uploads
<1>1. /\ uploading' = uploading \ {u}
      /\ UNCHANGED <<assets, queue, saveStatus, lesson, overtaken>>
      /\ stored' \subseteq stored \cup {u.request}
  BY DEF FailUpload
<1>2. doc' = [blocks |-> doc.blocks, past |-> doc.past, future |-> doc.future,
              uploads |-> uploads]
  <2>1. CASE OwnsUpload(u)
    BY <2>1, UploadsOnly DEF FailUpload
  <2>2. CASE ~OwnsUpload(u)
    BY <2>2 DEF FailUpload, EditorInv, EditorTypeOK
  <2> QED
    BY <2>1, <2>2
<1>3. \A b \in DOMAIN uploads : b \in DOMAIN doc.uploads /\ uploads[b] = doc.uploads[b]
  BY DEF Without
<1> HIDE DEF uploads
<1>4. /\ assets' \subseteq UploadIds \cup {Picture} /\ stored' \subseteq UploadIds \cup {Picture}
      /\ uploading' \subseteq [request: UploadIds, id: Nat, newest: BOOLEAN,
                               before: UploadIds \cup {Picture, NoAsset}]
  BY <1>1 DEF EditorInv, EditorTypeOK
<1>5. \A v, w \in uploading' : v.request = w.request => v = w
  BY <1>1 DEF EditorInv, OwnersAreNewest
<1>6. \A v \in uploading' :
         /\ v.id <= queue.revision + 1
         /\ v.id \in DOMAIN uploads /\ uploads[v.id] = v.request =>
               /\ v.newest
               /\ \A i \in DOMAIN doc.blocks :
                     doc.blocks[i].id = v.id => doc.blocks[i].assetId = v.before
  BY <1>1, <1>3 DEF EditorInv, OwnersAreNewest, OwnsUpload
<1> QED
  BY <1>1, <1>2, <1>4, <1>5, <1>6, UploadStep

LEMMA StartUploadKeeps ==
  ASSUME EditorInv, NEW i \in DOMAIN doc.blocks, NEW r \in UploadIds, StartUpload(i, r)
  PROVE  EditorInv'
<1> DEFINE block == doc.blocks[i]
           uploads == Owned(doc.uploads, block.id, r)
           Older(u) == [u EXCEPT !.newest = @ /\ u.id # block.id]
           new == [request |-> r, id |-> block.id, before |-> block.assetId, newest |-> TRUE]
           Records == [request: UploadIds, id: Nat, newest: BOOLEAN,
                       before: UploadIds \cup {Picture, NoAsset}]
<1>1. /\ \A u \in uploading : u.request # r
      /\ doc' = [doc EXCEPT !.uploads = uploads]
      /\ uploading' = {Older(u) : u \in uploading} \cup {new}
      /\ UNCHANGED <<assets, stored, queue, saveStatus, lesson, overtaken>>
  BY DEF StartUpload
<1>2. doc' = [blocks |-> doc.blocks, past |-> doc.past, future |-> doc.future,
              uploads |-> uploads]
  BY <1>1, UploadsOnly
<1>3. /\ FitsPage(doc.blocks, queue.revision + 1) /\ queue.revision + 1 \in Nat
      /\ block \in ImageBlocks /\ block.id <= queue.revision + 1
  BY HistoryFits, BlocksAre DEF FitsPage
<1>4. uploading \subseteq Records
  BY DEF EditorInv, EditorTypeOK
<1>5. /\ \A u \in uploading :
            /\ Older(u).request = u.request /\ Older(u).id = u.id
            /\ Older(u).before = u.before
      /\ \A u \in uploading : u.newest /\ u.id # block.id => Older(u).newest
      /\ \A u \in uploading : Older(u) \in Records
  <2>1. \A u \in uploading : /\ Older(u).request = u.request /\ Older(u).id = u.id
                             /\ Older(u).before = u.before
    BY <1>4
  <2>2. \A u \in uploading : Older(u) \in Records
    <3>1. \A u \in Records, z \in BOOLEAN : [u EXCEPT !.newest = z] \in Records
      OBVIOUS
    <3>2. \A u \in Records : (u.newest /\ u.id # block.id) \in BOOLEAN
      OBVIOUS
    <3> QED
      BY <1>4, <3>1, <3>2
  <2>3. \A u \in uploading : u.newest /\ u.id # block.id => Older(u).newest
    <3>1. ASSUME NEW u \in uploading, u.newest, u.id # block.id
          PROVE  Older(u).newest
      <4>1. u \in Records
        BY <1>4
      <4> QED
        BY <3>1, <4>1
    <3> QED
      BY <3>1
  <2> QED
    BY <2>1, <2>2, <2>3
<1>6. /\ new \in Records /\ new.request = r /\ new.id = block.id
      /\ new.before = block.assetId /\ new.newest
  BY <1>3 DEF ImageBlocks
<1>7. /\ block.id \in DOMAIN uploads /\ uploads[block.id] = r
      /\ \A b \in DOMAIN uploads : b # block.id =>
            b \in DOMAIN doc.uploads /\ uploads[b] = doc.uploads[b]
  BY DEF Owned
<1> HIDE DEF uploads, Older, new, Records
<1>8. \A u, v \in uploading' : u.request = v.request => u = v
  <2> SUFFICES ASSUME NEW u \in uploading', NEW v \in uploading', u.request = v.request
               PROVE  u = v
    OBVIOUS
  <2>1. \A w \in uploading' : w = new \/ \E x \in uploading : w = Older(x)
    BY <1>1
  <2>2. CASE u = new /\ v = new
    BY <2>2
  <2>3. CASE u = new /\ \E x \in uploading : v = Older(x)
    BY <2>3, <1>1, <1>5, <1>6
  <2>4. CASE v = new /\ \E x \in uploading : u = Older(x)
    BY <2>4, <1>1, <1>5, <1>6
  <2>5. ASSUME NEW x \in uploading, NEW y \in uploading, u = Older(x), v = Older(y)
        PROVE  u = v
    BY <2>5, <1>5 DEF EditorInv, OwnersAreNewest
  <2> QED
    BY <2>1, <2>2, <2>3, <2>4, <2>5
<1>9. ASSUME NEW u \in uploading'
      PROVE  /\ u.id <= queue.revision + 1
             /\ u.id \in DOMAIN uploads /\ uploads[u.id] = u.request =>
                   /\ u.newest
                   /\ \A j \in DOMAIN doc.blocks :
                         doc.blocks[j].id = u.id => doc.blocks[j].assetId = u.before
  <2>1. CASE u = new
    <3>1. \A j \in DOMAIN doc.blocks : doc.blocks[j].id = block.id => j = i
      BY <1>3 DEF FitsPage
    <3> QED
      BY <2>1, <3>1, <1>3, <1>6
  <2>2. ASSUME NEW x \in uploading, u = Older(x)
        PROVE  /\ u.id <= queue.revision + 1
               /\ u.id \in DOMAIN uploads /\ uploads[u.id] = u.request =>
                     /\ u.newest
                     /\ \A j \in DOMAIN doc.blocks :
                           doc.blocks[j].id = u.id => doc.blocks[j].assetId = u.before
    <3>1. /\ x.id <= queue.revision + 1
          /\ OwnsUpload(x) =>
                /\ x.newest
                /\ \A j \in DOMAIN doc.blocks :
                      doc.blocks[j].id = x.id => doc.blocks[j].assetId = x.before
      BY DEF EditorInv, OwnersAreNewest
    <3>2. ASSUME x.id \in DOMAIN uploads, uploads[x.id] = x.request
          PROVE  OwnsUpload(x) /\ x.id # block.id
      BY <3>2, <1>1, <1>7 DEF OwnsUpload
    <3>3. /\ u.id = x.id /\ u.request = x.request /\ u.before = x.before
          /\ x.newest /\ x.id # block.id => u.newest
      BY <2>2, <1>5
    <3> QED
      BY <3>1, <3>2, <3>3
  <2> QED
    BY <2>1, <2>2, <1>1
<1>10. /\ uploading' \subseteq Records
       /\ assets' \subseteq UploadIds \cup {Picture} /\ stored' \subseteq UploadIds \cup {Picture}
  BY <1>1, <1>5, <1>6 DEF EditorInv, EditorTypeOK
<1> QED
  BY <1>1, <1>2, <1>8, <1>9, <1>10, UploadStep DEF Records

-----------------------------------------------------------------------------
(* The autosave queue *)

\* A step of the queue that leaves the revision to save alone.
LEMMA QueueStep ==
  ASSUME EditorInv, UNCHANGED <<doc, assets, stored, uploading>>,
         queue' \in Queues, queue'.revision = queue.revision,
         saveStatus' \in {"idle", "dirty", "blocked", "saving", "saved", "failed"},
         IndicatorFits'
  PROVE  EditorInv'
<1>1. EditorTypeOK'
  BY DEF EditorInv, EditorTypeOK, Queues
<1>2. PagesFit'
  BY DEF EditorInv, PagesFit
<1>3. OwnersAreNewest'
  BY DEF EditorInv, OwnersAreNewest, OwnsUpload
<1> QED
  BY <1>1, <1>2, <1>3 DEF EditorInv

LEMMA QueueTyped ==
  ASSUME EditorInv
  PROVE  /\ queue \in Queues /\ queue.revision \in Nat /\ doc.blocks \in Blocks
         /\ saveStatus \in {"idle", "dirty", "blocked", "saving", "saved", "failed"}
         /\ NoSave \in [revision: Nat, value: Blocks]
<1>1. NoSave \in [revision: Nat, value: Blocks]
  BY EmptySeq DEF NoSave, Blocks
<1> QED
  BY <1>1 DEF EditorInv, EditorTypeOK, PagesFit, FitsPage, Queues

LEMMA SendingIs ==
  ASSUME EditorInv, NEW q \in Queues, q.revision = queue.revision
  PROVE  /\ Sending(q) \in Queues /\ Sending(q).revision = queue.revision
         /\ Sending(q).sent = [revision |-> queue.revision, value |-> doc.blocks]
<1> DEFINE sent == [revision |-> q.revision, value |-> doc.blocks]
           q1 == [q EXCEPT !.timer = FALSE]
<1>1. sent \in [revision: Nat, value: Blocks]
  BY QueueTyped DEF Queues
<1>2. Sending(q) = [q1 EXCEPT !.sent = sent]
  BY DEF Sending
<1>3. sent = [revision |-> queue.revision, value |-> doc.blocks]
  OBVIOUS
<1>4. q1 \in Queues /\ q1.revision = queue.revision
  BY DEF Queues
<1> HIDE DEF q1, sent
<1>5. [q1 EXCEPT !.sent = sent] \in Queues /\ [q1 EXCEPT !.sent = sent].sent = sent
      /\ [q1 EXCEPT !.sent = sent].revision = q1.revision
  BY <1>1, <1>4 DEF Queues
<1> QED
  BY <1>2, <1>3, <1>4, <1>5

LEMMA SendStep ==
  ASSUME EditorInv, UNCHANGED <<doc, assets, stored, uploading>>,
         NEW q \in Queues, q.revision = queue.revision,
         queue' = Sending(q), saveStatus' = "saving"
  PROVE  EditorInv'
<1>1. /\ queue' \in Queues /\ queue'.revision = queue.revision
      /\ queue'.sent = [revision |-> queue.revision, value |-> doc.blocks]
  BY SendingIs
<1>2. IndicatorFits'
  BY <1>1, QueueTyped DEF IndicatorFits
<1> QED
  BY <1>1, <1>2, QueueStep

LEMMA TimerFiresKeeps == EditorInv /\ TimerFires => EditorInv'
<1> SUFFICES ASSUME EditorInv, TimerFires PROVE EditorInv'
  OBVIOUS
<1>1. UNCHANGED <<doc, assets, stored, uploading, lesson, overtaken>>
  BY DEF TimerFires
<1>2. CASE CanFlush
  BY <1>1, <1>2, QueueTyped, SendStep DEF TimerFires
<1>3. CASE ~CanFlush
  <2>1. queue' = [queue EXCEPT !.timer = FALSE] /\ saveStatus' = saveStatus
    BY <1>3 DEF TimerFires
  <2>2. /\ queue' \in Queues /\ queue'.revision = queue.revision
        /\ queue'.sent = queue.sent
    BY <2>1, QueueTyped DEF Queues
  <2>3. IndicatorFits'
    BY <1>1, <2>1, <2>2 DEF EditorInv, IndicatorFits, Running
  <2> QED
    BY <1>1, <2>1, <2>2, <2>3, QueueTyped, QueueStep
<1> QED
  BY <1>2, <1>3

LEMMA RetryKeeps == EditorInv /\ Retry => EditorInv'
<1> SUFFICES ASSUME EditorInv, Retry PROVE EditorInv'
  OBVIOUS
<1>1. /\ UNCHANGED <<doc, assets, stored, uploading>>
      /\ queue' = Sending(queue) /\ saveStatus' = "saving"
  BY DEF Retry
<1> QED
  BY <1>1, QueueTyped, SendStep

\* The queue after the answer, without what flush() sends again.
LEMMA AnsweredQueue ==
  ASSUME EditorInv, NEW answer
  PROVE  LET q == [queue EXCEPT !.sent = NoSave,
                                !.saved = IF answer = "ok" THEN queue.sent.revision ELSE @]
         IN  /\ q \in Queues /\ q.revision = queue.revision /\ q.sent = NoSave
             /\ LET r == [q EXCEPT !.rejected = queue.sent.revision] IN
                r \in Queues /\ r.revision = queue.revision /\ r.sent = NoSave
<1> DEFINE saved == IF answer = "ok" THEN queue.sent.revision ELSE queue.saved
           q1 == [queue EXCEPT !.sent = NoSave]
           q == [queue EXCEPT !.sent = NoSave,
                              !.saved = IF answer = "ok" THEN queue.sent.revision ELSE @]
           r == [q EXCEPT !.rejected = queue.sent.revision]
<1>1. queue \in Queues /\ NoSave \in [revision: Nat, value: Blocks]
  BY QueueTyped
<1>2. queue.sent.revision \in Nat /\ saved \in Nat
  BY <1>1 DEF Queues
<1>3. q1 \in Queues /\ q1.revision = queue.revision /\ q1.sent = NoSave /\ q1.saved = queue.saved
  BY <1>1 DEF Queues
<1>4. q = [q1 EXCEPT !.saved = saved]
  BY <1>1 DEF Queues
<1> HIDE DEF q1, saved, q
<1>5. q \in Queues /\ q.revision = queue.revision /\ q.sent = NoSave
  BY <1>2, <1>3, <1>4 DEF Queues
<1>6. r \in Queues /\ r.revision = queue.revision /\ r.sent = NoSave
  BY <1>2, <1>5 DEF Queues
<1> QED
  BY <1>5, <1>6 DEF q

\* An answer to a save: what the indicator says is still true, provided the
\* API stores what was sent whenever the answer is "ok".
LEMMA AnswerKeeps ==
  ASSUME EditorInv, NEW answer, SaveAnswered(answer),
         answer = "ok" => lesson' = queue.sent.value,
         answer # "ok" => lesson' = lesson /\ overtaken' = overtaken
  PROVE  EditorInv'
<1> DEFINE q == [queue EXCEPT !.sent = NoSave,
                              !.saved = IF answer = "ok" THEN queue.sent.revision ELSE @]
           r == [q EXCEPT !.rejected = queue.sent.revision]
<1>1. /\ q \in Queues /\ q.revision = queue.revision /\ q.sent = NoSave
      /\ r \in Queues /\ r.revision = queue.revision /\ r.sent = NoSave
  BY AnsweredQueue
<1>2. /\ Running(queue) /\ UNCHANGED <<doc, assets, stored, uploading>>
      /\ IF Superseded(queue)
         THEN /\ queue' = IF FlushesAgain(queue) THEN Sending(q) ELSE q
              /\ saveStatus' = IF FlushesAgain(queue) THEN "saving" ELSE saveStatus
         ELSE /\ queue' = IF answer = "refused" THEN r ELSE q
              /\ saveStatus' = IF answer = "ok" THEN "saved" ELSE "failed"
  BY DEF SaveAnswered
<1> HIDE DEF q, r
<1>3. /\ saveStatus \in {"saving", "dirty", "blocked"}
      /\ queue.sent.revision = queue.revision => queue.sent.value = doc.blocks
  BY <1>2 DEF EditorInv, IndicatorFits
<1>4. CASE Superseded(queue) /\ FlushesAgain(queue)
  BY <1>1, <1>2, <1>4, SendStep
<1>5. CASE Superseded(queue) /\ ~FlushesAgain(queue)
  <2>1. queue' = q /\ saveStatus' = saveStatus
    BY <1>2, <1>5
  <2>2. IndicatorFits'
    BY <1>1, <1>3, <2>1 DEF IndicatorFits, Running
  <2> QED
    BY <1>1, <1>2, <1>3, <2>1, <2>2, QueueStep
<1>6. CASE ~Superseded(queue)
  <2>1. /\ queue' \in Queues /\ queue'.revision = queue.revision /\ queue'.sent = NoSave
        /\ saveStatus' = IF answer = "ok" THEN "saved" ELSE "failed"
    BY <1>1, <1>2, <1>6
  <2>2. IndicatorFits'
    BY <1>2, <1>3, <1>6, <2>1 DEF IndicatorFits, Running, Superseded
  <2> QED
    BY <1>2, <2>1, <2>2, QueueStep
<1> QED
  BY <1>4, <1>5, <1>6

LEMMA SaveStoredKeeps == EditorInv /\ SaveStored => EditorInv'
<1> SUFFICES ASSUME EditorInv, SaveStored PROVE EditorInv'
  OBVIOUS
<1>1. SaveAnswered("ok") /\ lesson' = queue.sent.value
  BY DEF SaveStored
<1> QED
  BY <1>1, AnswerKeeps

LEMMA SaveRejectedKeeps == EditorInv /\ SaveRejected => EditorInv'
<1> SUFFICES ASSUME EditorInv, SaveRejected PROVE EditorInv'
  OBVIOUS
<1>1. lesson' = lesson /\ overtaken' = overtaken
  BY DEF SaveRejected
<1>2. CASE SaveAnswered("refused")
  BY <1>1, <1>2, AnswerKeeps
<1>3. CASE SaveAnswered("failed")
  BY <1>1, <1>3, AnswerKeeps
<1> QED
  BY <1>2, <1>3 DEF SaveRejected

LEMMA SaveLostKeeps == EditorInv /\ SaveLost => EditorInv'
<1> SUFFICES ASSUME EditorInv, SaveLost PROVE EditorInv'
  OBVIOUS
<1>1. SaveAnswered("failed") /\ lesson' = lesson /\ overtaken' = overtaken
  BY DEF SaveLost
<1> QED
  BY <1>1, AnswerKeeps

LEMMA LateSaveKeeps == EditorInv /\ LateSave => EditorInv'
<1> SUFFICES ASSUME EditorInv, LateSave PROVE EditorInv'
  OBVIOUS
<1>1. UNCHANGED <<doc, assets, stored, uploading, queue, saveStatus>> /\ overtaken' = TRUE
  BY DEF LateSave
<1>2. IndicatorFits'
  BY <1>1 DEF EditorInv, IndicatorFits, Running
<1> QED
  BY <1>1, <1>2, QueueTyped, QueueStep

-----------------------------------------------------------------------------
(* The lesson editor: the theorems *)

LEMMA EditorInitHolds == EditorInit => EditorInv
<1> SUFFICES ASSUME EditorInit PROVE EditorInv
  OBVIOUS
<1> DEFINE Block(picture) == [id |-> 1, assetId |-> picture, caption |-> 0]
<1>1. PICK picture \in {Picture, NoAsset} :
         doc = [blocks |-> <<Block(picture)>>, past |-> <<>>, future |-> <<>>,
                uploads |-> [b \in {} |-> NoAsset]]
  BY DEF EditorInit
<1>2. /\ doc.blocks = <<Block(picture)>> /\ doc.past = <<>> /\ doc.future = <<>>
      /\ doc = [blocks |-> doc.blocks, past |-> doc.past, future |-> doc.future,
                uploads |-> doc.uploads]
  BY <1>1
<1>3. Block(picture) \in ImageBlocks /\ Block(picture).id = 1
  BY DEF ImageBlocks
<1> HIDE DEF Block
<1>4. FitsPage(doc.blocks, 1)
  BY <1>2, <1>3 DEF FitsPage, Blocks
<1>5. /\ assets = {Picture} /\ stored = {Picture} /\ uploading = {} /\ lesson = doc.blocks
  BY DEF EditorInit
<1>6. NoSave \in [revision: Nat, value: Blocks]
  BY EmptySeq DEF NoSave, Blocks
<1>7. EmptyQueue \in Queues /\ EmptyQueue.revision = 0 /\ EmptyQueue.sent = NoSave
  BY <1>6 DEF EmptyQueue, Queues
<1>8. /\ queue \in Queues /\ queue.revision \in {0, 1} /\ queue.sent = NoSave
      /\ saveStatus \in {"idle", "blocked"}
  <2>1. CASE Valid(doc.blocks, assets)
    BY <1>7, <2>1 DEF EditorInit
  <2>2. CASE ~Valid(doc.blocks, assets)
    <3> DEFINE q1 == [EmptyQueue EXCEPT !.revision = 1]
    <3>1. queue = [q1 EXCEPT !.kind = "blocked"] /\ saveStatus = "blocked"
      BY <2>2 DEF EditorInit
    <3>2. q1 \in Queues /\ q1.revision = 1 /\ q1.sent = NoSave
      BY <1>7 DEF Queues
    <3> HIDE DEF q1
    <3> QED
      BY <3>1, <3>2 DEF Queues
  <2> QED
    BY <2>1, <2>2
<1>9. FitsPage(doc.blocks, queue.revision + 1)
  <2>1. CASE queue.revision = 0
    BY <1>4, <2>1
  <2>2. CASE queue.revision = 1
    BY <1>4, <2>2, FitsMore
  <2> QED
    BY <1>8, <2>1, <2>2
<1>10. EditorTypeOK
  BY <1>2, <1>5, <1>8, EmptySeq DEF EditorTypeOK, Queues
<1>11. PagesFit
  BY <1>2, <1>9, EmptySeq DEF PagesFit
<1>12. OwnersAreNewest
  BY <1>5 DEF OwnersAreNewest
<1>13. IndicatorFits
  BY <1>5, <1>8 DEF IndicatorFits, Running
<1> QED
  BY <1>10, <1>11, <1>12, <1>13 DEF EditorInv

LEMMA EditorStutter == EditorInv /\ UNCHANGED editorVars => EditorInv'
  BY DEF EditorInv, EditorTypeOK, PagesFit, OwnersAreNewest, OwnsUpload, IndicatorFits,
         Running, editorVars

LEMMA EditorInductive == EditorInv /\ [EditorNext]_editorVars => EditorInv'
<1> SUFFICES ASSUME EditorInv, [EditorNext]_editorVars PROVE EditorInv'
  OBVIOUS
<1>1. CASE AddBlock
  BY <1>1, AddBlockKeeps
<1>2. ASSUME NEW i \in DOMAIN doc.blocks, EditBlock(i) PROVE EditorInv'
  BY <1>2, DuplicateKeeps, RemoveKeeps, MoveKeeps, UpdateKeeps, PatchKeeps,
     StartUploadKeeps
     DEF EditBlock
<1>3. CASE Undo
  BY <1>3, UndoKeeps
<1>4. CASE Redo
  BY <1>4, RedoKeeps
<1>5. ASSUME NEW u \in uploading, FinishUpload(u) \/ FailUpload(u) PROVE EditorInv'
  BY <1>5, FinishUploadKeeps, FailUploadKeeps
<1>6. CASE RefreshAssets
  BY <1>6, RefreshAssetsKeeps
<1>7. CASE TimerFires
  BY <1>7, TimerFiresKeeps
<1>8. CASE Retry
  BY <1>8, RetryKeeps
<1>9. CASE SaveStored
  BY <1>9, SaveStoredKeeps
<1>10. CASE SaveRejected
  BY <1>10, SaveRejectedKeeps
<1>11. CASE SaveLost
  BY <1>11, SaveLostKeeps
<1>12. CASE LateSave
  BY <1>12, LateSaveKeeps
<1>13. CASE UNCHANGED editorVars
  BY <1>13, EditorStutter
<1> QED
  BY <1>1, <1>2, <1>3, <1>4, <1>5, <1>6, <1>7, <1>8, <1>9, <1>10, <1>11, <1>12, <1>13
     DEF EditorNext

\* The invariant behind both theorems: block ids are given out once, the upload
\* that owns a block is its newest, and the indicator tells what the API stores.
THEOREM EditorInvHolds == EditorSpec => []EditorInv
<1>1. EditorInit => EditorInv
  BY EditorInitHolds
<1>2. EditorInv /\ [EditorNext]_editorVars => EditorInv'
  BY EditorInductive
<1> QED
  BY <1>1, <1>2, PTL DEF EditorSpec

\* Whatever answers to saves were lost, late or superseded, the page lets the
\* operator go without a warning only when the API stores what it shows, or a
\* save that was given up has been applied after a later one.
THEOREM GuardHolds == EditorSpec => []GuardCoversUnsaved
<1>1. EditorInv => GuardCoversUnsaved
  <2> SUFFICES ASSUME EditorInv, ~Dirty PROVE lesson = doc.blocks \/ overtaken
    BY DEF GuardCoversUnsaved
  <2>1. saveStatus \in {"idle", "saved"}
    BY DEF Dirty, EditorInv, EditorTypeOK
  <2> QED
    BY <2>1 DEF EditorInv, IndicatorFits
<1> QED
  BY <1>1, EditorInvHolds, PTL

\* The action of UploadsGiveWay.
Lands(u) ==
  doc'.blocks # doc.blocks =>
     /\ u.newest
     /\ \A i \in DOMAIN doc.blocks :
           doc'.blocks[i] =
              IF doc.blocks[i].id = u.id /\ doc.blocks[i].assetId = u.before
              THEN [doc.blocks[i] EXCEPT !.assetId = u.request]
              ELSE doc.blocks[i]

LEMMA FinishLands ==
  ASSUME EditorInv, NEW u \in uploading, FinishUpload(u)
  PROVE  Lands(u)
<1> SUFFICES ASSUME doc'.blocks # doc.blocks
             PROVE  /\ u.newest
                    /\ \A i \in DOMAIN doc.blocks :
                          doc'.blocks[i] =
                             IF doc.blocks[i].id = u.id /\ doc.blocks[i].assetId = u.before
                             THEN [doc.blocks[i] EXCEPT !.assetId = u.request]
                             ELSE doc.blocks[i]
  BY DEF Lands
<1>1. OwnsUpload(u) /\ doc' = Edited(Patched(u), Without(doc.uploads, {u.id}))
  BY DEF FinishUpload, Patched
<1>2. doc'.blocks = Patched(u)
  BY <1>1, EditedIs
<1>3. /\ u.newest
      /\ \A i \in DOMAIN doc.blocks :
            doc.blocks[i].id = u.id => doc.blocks[i].assetId = u.before
  BY <1>1 DEF EditorInv, OwnersAreNewest
<1> QED
  BY <1>2, <1>3, PatchedFits

LEMMA UploadsLand ==
  ASSUME EditorInv, [EditorNext]_editorVars, NEW u \in uploading \ uploading'
  PROVE  Lands(u)
<1>1. CASE doc'.blocks = doc.blocks
  BY <1>1 DEF Lands
<1>2. CASE uploading' = uploading
  BY <1>2
<1>3. ASSUME NEW v \in uploading, FinishUpload(v) PROVE Lands(u)
  <2>1. u = v
    BY <1>3 DEF FinishUpload
  <2> QED
    BY <1>3, <2>1, FinishLands
<1>4. ASSUME NEW v \in uploading, FailUpload(v) PROVE Lands(u)
  <2>1. doc'.blocks = doc.blocks
    <3>1. CASE OwnsUpload(v)
      BY <1>4, <3>1, UploadsOnly DEF FailUpload
    <3>2. CASE ~OwnsUpload(v)
      BY <1>4, <3>2 DEF FailUpload
    <3> QED
      BY <3>1, <3>2
  <2> QED
    BY <2>1, <1>1
<1>5. ASSUME NEW i \in DOMAIN doc.blocks, NEW r \in UploadIds, StartUpload(i, r)
      PROVE  Lands(u)
  <2>1. doc' = [doc EXCEPT !.uploads = Owned(doc.uploads, doc.blocks[i].id, r)]
    BY <1>5 DEF StartUpload
  <2>2. doc'.blocks = doc.blocks
    BY <2>1, UploadsOnly
  <2> QED
    BY <2>2, <1>1
<1>6. ASSUME NEW i \in DOMAIN doc.blocks, EditBlock(i) PROVE Lands(u)
  BY <1>2, <1>5, <1>6 DEF EditBlock, Duplicate, Remove, Move, Update, Patch, Edits
<1>7. CASE AddBlock \/ Undo \/ Redo
  BY <1>2, <1>7 DEF AddBlock, Undo, Redo, Edits
<1>8. CASE RefreshAssets \/ TimerFires \/ Retry \/ LateSave
  BY <1>2, <1>8 DEF RefreshAssets, TimerFires, Retry, LateSave
<1>9. CASE SaveStored \/ SaveRejected \/ SaveLost
  BY <1>2, <1>9 DEF SaveStored, SaveRejected, SaveLost, SaveAnswered
<1>10. CASE UNCHANGED editorVars
  BY <1>2, <1>10 DEF editorVars
<1> QED
  BY <1>3, <1>4, <1>6, <1>7, <1>8, <1>9, <1>10 DEF EditorNext

\* The result of an upload reaches only the block it was started for, changes
\* only its asset, and gives way to later uploads and to an asset chosen since.
THEOREM UploadsYield == EditorSpec => UploadsGiveWay
<1>1. EditorInv /\ [EditorNext]_editorVars =>
         [\A u \in uploading \ uploading' : Lands(u)]_editorVars
  BY UploadsLand
<1>2. [][\A u \in uploading \ uploading' : Lands(u)]_editorVars => UploadsGiveWay
  <2>1. [\A u \in uploading \ uploading' : Lands(u)]_editorVars =>
           [\A u \in uploading \ uploading' : doc'.blocks # doc.blocks =>
               /\ u.newest
               /\ \A i \in DOMAIN doc.blocks :
                     doc'.blocks[i] =
                        IF doc.blocks[i].id = u.id /\ doc.blocks[i].assetId = u.before
                        THEN [doc.blocks[i] EXCEPT !.assetId = u.request]
                        ELSE doc.blocks[i]]_editorVars
    BY DEF Lands
  <2> QED
    BY <2>1, PTL DEF UploadsGiveWay
<1> QED
  BY <1>1, <1>2, EditorInvHolds, PTL DEF EditorSpec
=============================================================================
