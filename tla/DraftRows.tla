------------------------------- MODULE DraftRows -------------------------------
(***************************************************************************)
(* The rows of one CourseVersion and the statement sequences by which      *)
(* DraftContentService creates, deletes and reorders them.  Source:        *)
(* apps/api/src/admin/draft/draft-content.service.ts.                      *)
(*                                                                         *)
(* PostgreSQL checks a unique constraint row by row as a statement writes, *)
(* so every statement is a step that may collide, the single rows of a     *)
(* mass update included.  A value t is a transaction's view of the         *)
(* version: its rows, and whether all statements so far went through.      *)
(***************************************************************************)
EXTENDS Integers, SequencesExt

POSITION_OFFSET == 1000000

\* ModuleRow: [id, position, title].
\* LessonRow: [id, module, contentId, position, body, assessments].

\* @@unique([courseVersionId, position])
ModulesFit(modules) ==
    \A m, n \in modules : m.position = n.position => m = n

\* @@unique([moduleId, position]), @@unique([moduleId, contentId])
LessonsFit(lessons) ==
    \A l, k \in lessons :
        l.module = k.module /\ (l.position = k.position \/ l.contentId = k.contentId)
            => l = k

Transaction(version) == [modules |-> version.modules, lessons |-> version.lessons, ok |-> TRUE]

WithModules(t, modules) ==
    [t EXCEPT !.modules = modules, !.ok = t.ok /\ ModulesFit(modules)]
WithLessons(t, lessons) ==
    [t EXCEPT !.lessons = lessons, !.ok = t.ok /\ LessonsFit(lessons)]

InOrder(rows) ==
    CHOOSE seq \in SetToSeqs(rows) :
        \A i, j \in DOMAIN seq : i < j => seq[i].position < seq[j].position
LastPosition(rows) == IF rows = {} THEN 0 ELSE Max({r.position : r \in rows})
LessonsOf(t, module) == {l \in t.lessons : l.module = module}
RowOf(rows, id) == CHOOSE r \in rows : r.id = id

\* position: { increment: POSITION_OFFSET } for the rows of `moved`, in any
\* order: none may land on a row that has not moved yet.
Lifted(moved) == {[r EXCEPT !.position = @ + POSITION_OFFSET] : r \in moved}
LandsFree(moved) ==
    \A r, s \in moved : r # s => r.position + POSITION_OFFSET # s.position

LiftModules(t, moved) ==
    LET lifted == WithModules(t, (t.modules \ moved) \cup Lifted(moved))
    IN  [lifted EXCEPT !.ok = @ /\ LandsFree(moved)]
LiftLessons(t, moved) ==
    LET lifted == WithLessons(t, (t.lessons \ moved) \cup Lifted(moved))
    IN  [lifted EXCEPT !.ok =
            @ /\ \A l \in moved : LandsFree({k \in moved : k.module = l.module})]

\* One UPDATE: u is [id, position], or [id, module, contentId, position]; and
\* a sequence of them, one after the other.
UpdateModule(t, u) ==
    LET m == RowOf(t.modules, u.id)
    IN  WithModules(t, (t.modules \ {m}) \cup {[m EXCEPT !.position = u.position]})
UpdateLesson(t, u) ==
    LET l == RowOf(t.lessons, u.id)
    IN  WithLessons(t, (t.lessons \ {l}) \cup
            {[l EXCEPT !.module = u.module, !.contentId = u.contentId, !.position = u.position]})

UpdateModules(t, updates) ==
    LET after[i \in 0 .. Len(updates)] ==
            IF i = 0 THEN t ELSE UpdateModule(after[i - 1], updates[i])
    IN  after[Len(updates)]
UpdateLessons(t, updates) ==
    LET after[i \in 0 .. Len(updates)] ==
            IF i = 0 THEN t ELSE UpdateLesson(after[i - 1], updates[i])
    IN  after[Len(updates)]

-----------------------------------------------------------------------------
createModule(t, id, title) ==
    WithModules(t, t.modules \cup
        {[id |-> id, position |-> LastPosition(t.modules) + 1, title |-> title]})

createLesson(t, id, module, contentId, body) ==
    WithLessons(t, t.lessons \cup
        {[id |-> id, module |-> module, contentId |-> contentId,
          position |-> LastPosition(LessonsOf(t, module)) + 1,
          body |-> body, assessments |-> 0]})

\* The siblings after a deleted row are lifted out of the way and then set,
\* in their order, to one less than they had.
CloseRanks(siblings) ==
    LET seq == InOrder(siblings)
    IN  [i \in DOMAIN seq |-> [seq[i] EXCEPT !.position = @ - 1]]
CloseModules(t, position) ==
    LET after == {n \in t.modules : n.position > position}
    IN  UpdateModules(LiftModules(t, after), CloseRanks(after))
CloseLessons(t, module, position) ==
    LET after == {k \in LessonsOf(t, module) : k.position > position}
    IN  UpdateLessons(LiftLessons(t, after), CloseRanks(after))

deleteModuleAlone(t, m) == CloseModules([t EXCEPT !.modules = @ \ {m}], m.position)
deleteModule(t, m) ==
    CloseModules([t EXCEPT !.modules = @ \ {m},
                           !.lessons = {l \in @ : l.module # m.id}], m.position)
deleteLesson(t, l) ==
    CloseLessons([t EXCEPT !.lessons = @ \ {l}], l.module, l.position)

\* order: a sequence of [id, lessons], lessons a sequence of content ids.
\* All lessons it names, by their places.
Places(order) == UNION {{i} \X DOMAIN order[i].lessons : i \in DOMAIN order}
AllLessons(order) == [place \in Places(order) |-> order[place[1]].lessons[place[2]]]

\* The order names every row of the draft, and each one once.
namesOnlyKnownRows(actual, expected) == Range(actual) \subseteq expected
assertPermutation(actual, expected) ==
    /\ IsInjective(actual)
    /\ Range(actual) = expected

Permutes(order, t) ==
    /\ assertPermutation([i \in DOMAIN order |-> order[i].id], {m.id : m \in t.modules})
    /\ assertPermutation(AllLessons(order), {l.contentId : l \in t.lessons})
    /\ \A l, k \in t.lessons : l.contentId = k.contentId => l = k

PlaceModulesAtOnce(t, order) ==
    UpdateModules(t, [i \in DOMAIN order |-> [id |-> order[i].id, position |-> i]])
PlaceModules(t, order) ==
    UpdateModules(LiftModules(t, t.modules),
                  [i \in DOMAIN order |-> [id |-> order[i].id, position |-> i]])

\* A lesson gives up its content id before any lesson moves.
TemporaryId(l) == <<"reorder", l.id>>
Unname(t) ==
    LET seq == SetToSeq(t.lessons)
    IN  UpdateLessons(t, [i \in DOMAIN seq |->
                             [seq[i] EXCEPT !.contentId = TemporaryId(seq[i])]])

\* The lessons' rows as they were read are found by content id.
Placements(lessons, item) ==
    [j \in DOMAIN item.lessons |->
        LET l == CHOOSE k \in lessons : k.contentId = item.lessons[j]
        IN  [l EXCEPT !.module = item.id, !.position = j]]
PlaceLessons(t, lessons, order) ==
    LET placed[i \in 0 .. Len(order)] ==
            IF i = 0 THEN t
            ELSE UpdateLessons(placed[i - 1], Placements(lessons, order[i]))
    IN  placed[Len(order)]

reorder(t, order) ==
    LET placed == PlaceModules(t, order)
    IN  PlaceLessons(Unname(LiftLessons(placed, placed.lessons)), t.lessons, order)

-----------------------------------------------------------------------------
(* Positions *)

Contiguous(rows) == {r.position : r \in rows} = 1 .. Cardinality(rows)
PositionsAreContiguous(t) ==
    /\ Contiguous(t.modules)
    /\ \A m \in t.modules : Contiguous(LessonsOf(t, m.id))

-----------------------------------------------------------------------------
(* What every statement leaves in the rows *)

IsModule(m) == m = [id |-> m.id, position |-> m.position, title |-> m.title]
IsLesson(l) ==
    l = [id |-> l.id, module |-> l.module, contentId |-> l.contentId,
         position |-> l.position, body |-> l.body, assessments |-> l.assessments]

KeyedById(rows) == \A r, s \in rows : r.id = s.id => r = s
AreModules(rows) == (\A m \in rows : IsModule(m)) /\ KeyedById(rows)
AreLessons(rows) == (\A l \in rows : IsLesson(l)) /\ KeyedById(rows)

Sound(t) ==
    /\ AreModules(t.modules) /\ AreLessons(t.lessons)
    /\ IsFiniteSet(t.modules) /\ IsFiniteSet(t.lessons)
    /\ ModulesFit(t.modules) /\ LessonsFit(t.lessons)
    /\ \A l \in t.lessons : \E m \in t.modules : l.module = m.id

\* Row ids are counted in each version; no position is far beyond their number.
Within(t, version, serial, contentIds, bodies) ==
    /\ \A r \in t.modules \cup t.lessons :
          r.id \in {version} \X (1 .. serial) /\ r.position \in 1 .. serial + 1
    /\ \A l \in t.lessons : l.contentId \in contentIds /\ l.body \in bodies

\* The shape of an order: sequences of [id, lessons], of content ids.
IsList(seq) == Len(seq) \in Nat /\ seq = [i \in 1 .. Len(seq) |-> seq[i]]
IsOrder(order) == IsList(order) /\ \A i \in 1 .. Len(order) : IsList(order[i].lessons)
=============================================================================
