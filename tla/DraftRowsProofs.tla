---------------------------- MODULE DraftRowsProofs ----------------------------
(***************************************************************************)
(* What the statement sequences of DraftRows compute, for any number of    *)
(* modules and lessons: no statement meets a row of another, and what has  *)
(* positions without a gap keeps them so.                                  *)
(*                                                                         *)
(* A sequence of updates is a recursive function of the number of          *)
(* statements run; that it exists, and what it is after each of them, is   *)
(* proved by induction over a set of numbers.                              *)
(***************************************************************************)
EXTENDS DraftRows, FiniteSetTheorems, WellFoundedInduction, TLAPS

(* Numbers *)

LEMMA LeastExists ==
  ASSUME NEW S \in SUBSET Nat, S # {}
  PROVE  \E x \in S : \A y \in S : x <= y
<1> DEFINE R == {ss \in Nat \X Nat : ss[1] < ss[2]}
<1>1. IsWellFoundedOn(R, Nat)
  BY NatLessThanWellFounded DEF OpToRel
<1>2. \A x, y \in Nat : y < x => <<y, x>> \in R
  OBVIOUS
<1> HIDE DEF R
<1>3. PICK x \in S : \A y \in S : ~(<<y, x>> \in R)
  BY <1>1, WFMin
<1>4. \A y \in S : ~(y < x)
  <2> SUFFICES ASSUME NEW y \in S, y < x PROVE FALSE
    OBVIOUS
  <2>1. x \in Nat /\ y \in Nat
    OBVIOUS
  <2>2. <<y, x>> \in R
    BY <1>2, <2>1
  <2> QED
    BY <1>3, <2>2, Zenon
<1>5. \A y \in S : y \in Nat /\ x \in Nat
  OBVIOUS
<1> QED
  BY <1>4, <1>5

\* Induction over a set of numbers.
LEMMA EveryNumber ==
  ASSUME NEW S, 0 \in S, \A k \in Nat : k \in S => k + 1 \in S
  PROVE  Nat \subseteq S
<1> SUFFICES ASSUME Nat \ S # {} PROVE FALSE
  OBVIOUS
<1>1. PICK k \in Nat \ S : \A j \in Nat \ S : k <= j
  BY LeastExists
<1>2. k # 0 /\ k - 1 \in Nat
  OBVIOUS
<1>3. k - 1 \in S
  BY <1>1, <1>2
<1> QED
  BY <1>2, <1>3

LEMMA EveryNumberUpTo ==
  ASSUME NEW n \in Nat, NEW S, 0 \in S, \A k \in 0 .. n - 1 : k \in S => k + 1 \in S
  PROVE  0 .. n \subseteq S
<1> DEFINE T == S \cup {k \in Nat : k > n}
<1>1. 0 \in T /\ \A k \in Nat : k \in T => k + 1 \in T
  <2> SUFFICES ASSUME NEW k \in Nat, k \in T PROVE k + 1 \in T
    OBVIOUS
  <2>1. CASE k \in 0 .. n - 1
    BY <2>1
  <2>2. CASE k >= n
    BY <2>2
  <2> QED
    BY <2>1, <2>2
<1> HIDE DEF T
<1>2. Nat \subseteq T
  BY <1>1, EveryNumber
<1> QED
  BY <1>2 DEF T

LEMMA GreatestExists ==
  ASSUME NEW n \in Nat, NEW S \in SUBSET (0 .. n), S # {}
  PROVE  \E x \in S : \A y \in S : x >= y
<1> DEFINE T == {n - x : x \in S}
<1>1. T \in SUBSET Nat /\ T # {}
  <2>1. \A x \in S : n - x \in Nat
    OBVIOUS
  <2> QED
    BY <2>1
<1>2. PICK z \in T : \A y \in T : z <= y
  BY <1>1, LeastExists
<1>3. PICK x \in S : z = n - x
  OBVIOUS
<1>4. ASSUME NEW y \in S PROVE x >= y
  <2>1. n - y \in T
    OBVIOUS
  <2>2. n - x <= n - y
    BY <1>2, <1>3, <2>1
  <2>3. x \in 0 .. n /\ y \in 0 .. n
    OBVIOUS
  <2> QED
    BY <2>2, <2>3
<1> QED
  BY <1>4

-----------------------------------------------------------------------------
(* Rows *)

\* A transaction whose statements all went through.
IsTransaction(t) ==
    /\ t = [modules |-> t.modules, lessons |-> t.lessons, ok |-> t.ok]
    /\ t.ok = TRUE

\* A row with another position.
Moved(r, p) == [r EXCEPT !.position = p]

LEMMA ModuleMoved ==
  ASSUME NEW m, IsModule(m), NEW p
  PROVE  /\ IsModule(Moved(m, p)) /\ Moved(m, p).id = m.id
         /\ Moved(m, p).title = m.title /\ Moved(m, p).position = p
         /\ Moved(m, m.position) = m
         /\ \A q : Moved(Moved(m, p), q) = Moved(m, q)
<1>1. \A q : Moved(m, q) = [id |-> m.id, position |-> q, title |-> m.title]
  BY DEF IsModule, Moved
<1> DEFINE k == Moved(m, p)
<1>2. IsModule(k) /\ k.id = m.id /\ k.title = m.title /\ k.position = p
  BY <1>1 DEF IsModule
<1>3. \A q : Moved(k, q) = [id |-> k.id, position |-> q, title |-> k.title]
  <2> HIDE DEF k
  <2> QED
    BY <1>2 DEF IsModule, Moved
<1>4. Moved(m, m.position) = m
  BY <1>1 DEF IsModule
<1>5. \A q : Moved(k, q) = Moved(m, q)
  <2> HIDE DEF k
  <2> QED
    BY <1>1, <1>2, <1>3
<1> QED
  BY <1>2, <1>4, <1>5

\* What the four columns an update sets make of a lesson.
Placed(l, module, contentId, position) ==
    [l EXCEPT !.module = module, !.contentId = contentId, !.position = position]

LEMMA PlacedIs ==
  ASSUME NEW l, IsLesson(l), NEW x, NEW c, NEW p
  PROVE  Placed(l, x, c, p) =
           [id |-> l.id, module |-> x, contentId |-> c, position |-> p, body |-> l.body,
            assessments |-> l.assessments]
<1> DEFINE a == [l EXCEPT !.module = x]
           b == [a EXCEPT !.contentId = c]
<1>1. a = [id |-> l.id, module |-> x, contentId |-> l.contentId, position |-> l.position,
           body |-> l.body, assessments |-> l.assessments]
  BY DEF IsLesson
<1>2. Placed(l, x, c, p) = [b EXCEPT !.position = p]
  BY DEF Placed
<1> HIDE DEF a
<1>3. b = [id |-> l.id, module |-> x, contentId |-> c, position |-> l.position,
           body |-> l.body, assessments |-> l.assessments]
  BY <1>1
<1> HIDE DEF b
<1> QED
  BY <1>2, <1>3

LEMMA LessonPlaced ==
  ASSUME NEW l, IsLesson(l), NEW x, NEW c, NEW p
  PROVE  LET k == Placed(l, x, c, p) IN
         /\ IsLesson(k) /\ k.id = l.id /\ k.body = l.body /\ k.assessments = l.assessments
         /\ k.module = x /\ k.contentId = c /\ k.position = p
         /\ Placed(l, l.module, l.contentId, l.position) = l
         /\ \A y, d, q : Placed(k, y, d, q) = Placed(l, y, d, q)
         /\ Moved(l, p) = Placed(l, l.module, l.contentId, p)
<1>1. \A y, d, q : Placed(l, y, d, q) =
        [id |-> l.id, module |-> y, contentId |-> d, position |-> q, body |-> l.body,
         assessments |-> l.assessments]
  BY PlacedIs
<1> DEFINE k == Placed(l, x, c, p)
<1>2. /\ IsLesson(k) /\ k.id = l.id /\ k.body = l.body /\ k.assessments = l.assessments
      /\ k.module = x /\ k.contentId = c /\ k.position = p
  BY <1>1 DEF IsLesson
<1>3. \A y, d, q : Placed(k, y, d, q) =
        [id |-> k.id, module |-> y, contentId |-> d, position |-> q, body |-> k.body,
         assessments |-> k.assessments]
  <2> HIDE DEF k
  <2> QED
    BY <1>2, PlacedIs
<1>4. Placed(l, l.module, l.contentId, l.position) = l
  BY <1>1 DEF IsLesson
<1>5. \A y, d, q : Placed(k, y, d, q) = Placed(l, y, d, q)
  <2> HIDE DEF k
  <2> QED
    BY <1>1, <1>2, <1>3
<1>6. Moved(l, p) = Placed(l, l.module, l.contentId, p)
  BY <1>1 DEF IsLesson, Moved
<1> QED
  BY <1>2, <1>4, <1>5, <1>6

-----------------------------------------------------------------------------
(* Updates of modules, one after the other *)

ModuleTrace(f, t, updates, n) ==
    f = [i \in 0 .. n |-> IF i = 0 THEN t
                          ELSE UpdateModule(f[i - 1], updates[i])]

LEMMA ModuleTraceExists ==
  ASSUME NEW t, NEW updates, NEW n \in Nat
  PROVE  \E f : ModuleTrace(f, t, updates, n)
<1> DEFINE S == {k \in Nat : \E f : ModuleTrace(f, t, updates, k)}
<1>1. 0 \in S
  <2>1. ModuleTrace([i \in 0 .. 0 |-> t], t, updates, 0)
    BY DEF ModuleTrace
  <2> QED
    BY <2>1
<1>2. ASSUME NEW k \in Nat, k \in S PROVE k + 1 \in S
  <2>1. PICK f : ModuleTrace(f, t, updates, k)
    BY <1>2
  <2> DEFINE u == UpdateModule(f[k], updates[k + 1])
             g == [i \in 0 .. k + 1 |-> IF i = k + 1 THEN u ELSE f[i]]
  <2>2. /\ g[0] = t /\ g[k + 1] = u /\ g[k] = f[k]
        /\ \A i \in 1 .. k : g[i] = UpdateModule(g[i - 1], updates[i])
    <3>1. f[0] = t /\ \A i \in 1 .. k :
                        f[i] = UpdateModule(f[i - 1], updates[i])
      BY <2>1 DEF ModuleTrace
    <3> HIDE DEF u
    <3>2. \A i \in 0 .. k : g[i] = f[i]
      OBVIOUS
    <3>3. \A i \in 1 .. k : i \in 0 .. k /\ i - 1 \in 0 .. k
      OBVIOUS
    <3> HIDE DEF g
    <3>4. g[0] = t /\ g[k] = f[k]
      BY <3>1, <3>2
    <3>5. g[k + 1] = u
      BY DEF g
    <3>6. \A i \in 1 .. k : g[i] = UpdateModule(g[i - 1], updates[i])
      BY <3>1, <3>2, <3>3
    <3> QED
      BY <3>4, <3>5, <3>6
  <2>3. ModuleTrace(g, t, updates, k + 1)
    <3>1. g = [i \in 0 .. k + 1 |-> g[i]]
      OBVIOUS
    <3> HIDE DEF g
    <3>2. ASSUME NEW i \in 0 .. k + 1
          PROVE g[i] = IF i = 0 THEN t
                       ELSE UpdateModule(g[i - 1], updates[i])
      <4>1. i = 0 \/ i \in 1 .. k \/ (i = k + 1 /\ i # 0 /\ i - 1 = k)
        OBVIOUS
      <4> QED
        BY <2>2, <4>1
    <3> QED
      BY <3>1, <3>2 DEF ModuleTrace
  <2> QED
    BY <2>3
<1> HIDE DEF S
<1>3. Nat \subseteq S
  BY <1>1, <1>2, EveryNumber
<1> QED
  BY <1>3 DEF S

\* f[i] is the view after the first i updates.
ModuleRun(f, t, updates, n) ==
    /\ UpdateModules(t, updates) = f[n] /\ f[0] = t
    /\ \A i \in 0 .. n - 1 : f[i + 1] = UpdateModule(f[i], updates[i + 1])

LEMMA ModuleTraceRuns ==
  ASSUME NEW t, NEW updates, NEW n \in Nat, Len(updates) = n
  PROVE  \E f : ModuleRun(f, t, updates, n)
<1> DEFINE f == CHOOSE g : ModuleTrace(g, t, updates, n)
<1>1. ModuleTrace(f, t, updates, n)
  BY ModuleTraceExists
<1>2. UpdateModules(t, updates) = f[n]
  BY DEF UpdateModules, ModuleTrace
<1> HIDE DEF f
<1>3. f[0] = t
  BY <1>1 DEF ModuleTrace
<1>4. ASSUME NEW i \in 0 .. n - 1
      PROVE f[i + 1] = UpdateModule(f[i], updates[i + 1])
  <2>1. i + 1 \in 0 .. n /\ i + 1 # 0 /\ (i + 1) - 1 = i
    OBVIOUS
  <2> QED
    BY <1>1, <2>1 DEF ModuleTrace
<1> QED
  BY <1>2, <1>3, <1>4 DEF ModuleRun

\* A module after the first k updates.
Assigns(updates, k, r) == \E i \in 1 .. k : updates[i].id = r.id
AfterModules(updates, k, m) ==
    IF Assigns(updates, k, m)
    THEN Moved(m, updates[CHOOSE i \in 1 .. k : updates[i].id = m.id].position)
    ELSE m

ModulesAfter(rows, updates, k) == {AfterModules(updates, k, m) : m \in rows}

\* Every update has a row of its own, and a position that no other row has or gets.
ModuleUpdatesFit(rows, updates, n) ==
    /\ \A i \in 1 .. n : \E m \in rows : m.id = updates[i].id
    /\ \A i, j \in 1 .. n : updates[i].id = updates[j].id => i = j
    /\ \A i, j \in 1 .. n : updates[i].position = updates[j].position => i = j
    /\ \A i \in 1 .. n, m \in rows : m.position = updates[i].position => m.id = updates[i].id

LEMMA AfterModulesIs ==
  ASSUME NEW rows, NEW updates, NEW n \in Nat, ModuleUpdatesFit(rows, updates, n),
         NEW k \in 0 .. n, NEW m \in rows, IsModule(m)
  PROVE  LET a == AfterModules(updates, k, m) IN
         /\ IsModule(a) /\ a.id = m.id /\ a.title = m.title
         /\ \A i \in 1 .. k : updates[i].id = m.id =>
               a = Moved(m, updates[i].position) /\ a.position = updates[i].position
         /\ ~Assigns(updates, k, m) => a = m
<1>1. CASE Assigns(updates, k, m)
  <2>1. PICK i \in 1 .. k : updates[i].id = m.id
    BY <1>1 DEF Assigns
  <2>2. \A j \in 1 .. k : updates[j].id = m.id => j = i
    BY <2>1 DEF ModuleUpdatesFit
  <2>3. (CHOOSE j \in 1 .. k : updates[j].id = m.id) = i
    BY <2>1, <2>2
  <2>4. AfterModules(updates, k, m) = Moved(m, updates[i].position)
    BY <1>1, <2>3 DEF AfterModules
  <2> QED
    BY <1>1, <2>1, <2>2, <2>4, ModuleMoved
<1>2. CASE ~Assigns(updates, k, m)
  BY <1>2 DEF AfterModules, Assigns
<1> QED
  BY <1>1, <1>2

\* One more update.
LEMMA OneModuleMore ==
  ASSUME NEW rows, AreModules(rows), NEW updates, NEW n \in Nat,
         ModuleUpdatesFit(rows, updates, n), NEW k \in 0 .. n - 1, NEW r \in rows,
         r.id = updates[k + 1].id
  PROVE  /\ AfterModules(updates, k, r) = r
         /\ AfterModules(updates, k + 1, r) = Moved(r, updates[k + 1].position)
         /\ \A m \in rows : m # r => /\ AfterModules(updates, k + 1, m) = AfterModules(updates, k, m)
                                     /\ m.id # r.id
<1>0. k \in 0 .. n /\ k + 1 \in 0 .. n /\ k + 1 \in 1 .. n /\ k + 1 \in 1 .. k + 1
      /\ \A i \in 1 .. k : i \in 1 .. n /\ i \in 1 .. k + 1 /\ i # k + 1
  OBVIOUS
<1>1. ~Assigns(updates, k, r)
  BY <1>0 DEF Assigns, ModuleUpdatesFit
<1>2. AfterModules(updates, k, r) = r
  BY <1>0, <1>1, AfterModulesIs DEF AreModules
<1>3. AfterModules(updates, k + 1, r) = Moved(r, updates[k + 1].position)
  BY <1>0, AfterModulesIs DEF AreModules
<1>4. ASSUME NEW m \in rows, m # r
      PROVE AfterModules(updates, k + 1, m) = AfterModules(updates, k, m) /\ m.id # r.id
  <2>1. m.id # r.id
    BY <1>4 DEF AreModules, KeyedById
  <2>2. CASE Assigns(updates, k, m)
    <3>1. PICK i \in 1 .. k : updates[i].id = m.id
      BY <2>2 DEF Assigns
    <3>2. i \in 1 .. k + 1 /\ IsModule(m)
      BY <1>0 DEF AreModules
    <3>3. AfterModules(updates, k, m) = Moved(m, updates[i].position)
      BY <1>0, <3>1, <3>2, AfterModulesIs
    <3>4. AfterModules(updates, k + 1, m) = Moved(m, updates[i].position)
      BY <1>0, <3>1, <3>2, AfterModulesIs
    <3> QED
      BY <2>1, <3>3, <3>4
  <2>3. CASE ~Assigns(updates, k, m)
    <3>1. ~Assigns(updates, k + 1, m)
      <4> SUFFICES ASSUME NEW i \in 1 .. k + 1, updates[i].id = m.id PROVE FALSE
        BY DEF Assigns
      <4>1. i = k + 1 \/ i \in 1 .. k
        OBVIOUS
      <4> QED
        BY <2>1, <2>3, <4>1 DEF Assigns
    <3> QED
      BY <2>1, <2>3, <3>1 DEF AfterModules
  <2> QED
    BY <2>1, <2>2, <2>3
<1> QED
  BY <1>2, <1>3, <1>4

\* At no time are two rows in one position.
LEMMA AfterModulesFit ==
  ASSUME NEW rows, AreModules(rows), ModulesFit(rows), NEW updates, NEW n \in Nat,
         ModuleUpdatesFit(rows, updates, n), NEW k \in 0 .. n
  PROVE  ModulesFit(ModulesAfter(rows, updates, k))
<1> SUFFICES ASSUME NEW m \in rows, NEW l \in rows,
                    AfterModules(updates, k, m).position = AfterModules(updates, k, l).position
             PROVE  AfterModules(updates, k, m) = AfterModules(updates, k, l)
  BY DEF ModulesFit, ModulesAfter
<1>0. \A i \in 1 .. k : i \in 1 .. n
  OBVIOUS
<1>1. \A x \in rows : (\E i \in 1 .. k : updates[i].id = x.id) \/ AfterModules(updates, k, x) = x
  BY AfterModulesIs DEF AreModules, Assigns
<1>2. \A x \in rows, i \in 1 .. k : updates[i].id = x.id =>
         AfterModules(updates, k, x).position = updates[i].position
  BY AfterModulesIs DEF AreModules
<1>3. m.id = l.id => m = l
  BY DEF AreModules, KeyedById
<1>4. CASE \E i \in 1 .. k : updates[i].id = m.id
  <2>1. PICK i \in 1 .. k : updates[i].id = m.id
    BY <1>4
  <2>2. CASE \E j \in 1 .. k : updates[j].id = l.id
    BY <1>0, <1>2, <1>3, <2>1, <2>2 DEF ModuleUpdatesFit
  <2>3. CASE AfterModules(updates, k, l) = l
    BY <1>0, <1>2, <1>3, <2>1, <2>3 DEF ModuleUpdatesFit
  <2> QED
    BY <1>1, <2>2, <2>3
<1>5. CASE AfterModules(updates, k, m) = m
  <2>1. CASE \E j \in 1 .. k : updates[j].id = l.id
    BY <1>0, <1>2, <1>3, <1>5, <2>1 DEF ModuleUpdatesFit
  <2>2. CASE AfterModules(updates, k, l) = l
    BY <1>5, <2>2 DEF ModulesFit
  <2> QED
    BY <1>1, <2>1, <2>2
<1> QED
  BY <1>1, <1>4, <1>5

\* A statement that goes through.
LEMMA ModulesWritten ==
  ASSUME NEW t, IsTransaction(t), NEW M, ModulesFit(M)
  PROVE  WithModules(t, M) = [modules |-> M, lessons |-> t.lessons, ok |-> TRUE]
<1> DEFINE u == [t EXCEPT !.modules = M]
<1>1. u = [modules |-> M, lessons |-> t.lessons, ok |-> t.ok]
  BY DEF IsTransaction
<1>2. WithModules(t, M) = [u EXCEPT !.ok = TRUE]
  BY DEF WithModules, IsTransaction
<1> HIDE DEF u
<1> QED
  BY <1>1, <1>2

LEMMA UpdatingModule ==
  ASSUME NEW t, NEW rows, AreModules(rows), ModulesFit(rows), NEW updates, NEW n \in Nat,
         ModuleUpdatesFit(rows, updates, n), NEW k \in 0 .. n - 1, IsTransaction(t),
         t.modules = ModulesAfter(rows, updates, k)
  PROVE  UpdateModule(t, updates[k + 1]) =
           [modules |-> ModulesAfter(rows, updates, k + 1),
            lessons |-> t.lessons, ok |-> TRUE]
<1> DEFINE N == ModulesAfter(rows, updates, k)
           M == ModulesAfter(rows, updates, k + 1)
<1>0. k \in 0 .. n /\ k + 1 \in 0 .. n /\ k + 1 \in 1 .. n
  OBVIOUS
<1>1. PICK r \in rows : r.id = updates[k + 1].id
  BY <1>0 DEF ModuleUpdatesFit
<1>2. /\ AfterModules(updates, k, r) = r
      /\ AfterModules(updates, k + 1, r) = Moved(r, updates[k + 1].position)
      /\ \A m \in rows : m # r => /\ AfterModules(updates, k + 1, m) = AfterModules(updates, k, m)
                                  /\ m.id # r.id
  BY <1>1, OneModuleMore
<1>3. \A m \in rows : AfterModules(updates, k, m).id = m.id
  BY <1>0, AfterModulesIs DEF AreModules
<1>4. r \in N /\ \A x \in N : x.id = r.id => x = r
  BY <1>2, <1>3 DEF ModulesAfter
<1>5. RowOf(N, updates[k + 1].id) = r
  BY <1>1, <1>4 DEF RowOf
<1>6. (N \ {r}) \cup {Moved(r, updates[k + 1].position)} = M
  BY <1>2, <1>3 DEF ModulesAfter
<1>7. ModulesFit(M)
  BY <1>0, AfterModulesFit
<1> HIDE DEF M, N
<1>8. UpdateModule(t, updates[k + 1]) = WithModules(t, M)
  BY <1>5, <1>6 DEF UpdateModule, Moved, N
<1>9. WithModules(t, M) = [modules |-> M, lessons |-> t.lessons, ok |-> TRUE]
  BY <1>7, ModulesWritten
<1> QED
  BY <1>8, <1>9 DEF M

\* All of them.
LEMMA ModulesUpdated ==
  ASSUME NEW t, IsTransaction(t), AreModules(t.modules), ModulesFit(t.modules),
         NEW updates, NEW n \in Nat, Len(updates) = n, ModuleUpdatesFit(t.modules, updates, n)
  PROVE  UpdateModules(t, updates) =
           [modules |-> ModulesAfter(t.modules, updates, n),
            lessons |-> t.lessons, ok |-> TRUE]
<1> DEFINE At(k) == [modules |-> ModulesAfter(t.modules, updates, k),
                     lessons |-> t.lessons, ok |-> TRUE]
<1>0. PICK f : ModuleRun(f, t, updates, n)
  BY ModuleTraceRuns
<1>1. /\ UpdateModules(t, updates) = f[n] /\ f[0] = t
      /\ \A i \in 0 .. n - 1 : f[i + 1] = UpdateModule(f[i], updates[i + 1])
  BY <1>0 DEF ModuleRun
<1> DEFINE S == {k \in 0 .. n : f[k] = At(k)}
<1>2. 0 \in S
  <2>1. \A m \in t.modules : AfterModules(updates, 0, m) = m
    BY DEF AfterModules, Assigns
  <2>2. t = At(0)
    BY <2>1 DEF IsTransaction, ModulesAfter
  <2> HIDE DEF At
  <2> QED
    BY <1>1, <2>2
<1>3. ASSUME NEW k \in 0 .. n - 1, k \in S PROVE k + 1 \in S
  <2>1. f[k] = At(k)
    BY <1>3
  <2>2. IsTransaction(f[k]) /\ f[k].lessons = t.lessons
        /\ f[k].modules = ModulesAfter(t.modules, updates, k)
    BY <2>1 DEF IsTransaction
  <2> DEFINE u == f[k]
  <2>3. UpdateModule(u, updates[k + 1]) = At(k + 1)
    <3>1. /\ IsTransaction(u)
          /\ u.modules = ModulesAfter(t.modules, updates, k)
      BY <2>2
    <3> HIDE DEF u
    <3>2. UpdateModule(u, updates[k + 1]) =
            [modules |-> ModulesAfter(t.modules, updates, k + 1),
             lessons |-> u.lessons, ok |-> TRUE]
      BY <1>3, <3>1, UpdatingModule
    <3> QED
      BY <2>2, <3>2 DEF u
  <2> HIDE DEF At
  <2>4. f[k + 1] = At(k + 1) /\ k + 1 \in 0 .. n
    BY <1>1, <2>3
  <2> QED
    BY <2>4
<1>4. n \in S
  <2> HIDE DEF S
  <2>1. 0 .. n \subseteq S
    BY <1>2, <1>3, EveryNumberUpTo
  <2> QED
    BY <2>1
<1>5. f[n] = At(n)
  <2> HIDE DEF At
  <2> QED
    BY <1>4
<1> QED
  BY <1>1, <1>5
-----------------------------------------------------------------------------
(* Updates of lessons, one after the other *)

LessonTrace(f, t, updates, n) ==
    f = [i \in 0 .. n |-> IF i = 0 THEN t
                          ELSE UpdateLesson(f[i - 1], updates[i])]

LEMMA LessonTraceExists ==
  ASSUME NEW t, NEW updates, NEW n \in Nat
  PROVE  \E f : LessonTrace(f, t, updates, n)
<1> DEFINE S == {k \in Nat : \E f : LessonTrace(f, t, updates, k)}
<1>1. 0 \in S
  <2>1. LessonTrace([i \in 0 .. 0 |-> t], t, updates, 0)
    BY DEF LessonTrace
  <2> QED
    BY <2>1
<1>2. ASSUME NEW k \in Nat, k \in S PROVE k + 1 \in S
  <2>1. PICK f : LessonTrace(f, t, updates, k)
    BY <1>2
  <2> DEFINE u == UpdateLesson(f[k], updates[k + 1])
             g == [i \in 0 .. k + 1 |-> IF i = k + 1 THEN u ELSE f[i]]
  <2>2. /\ g[0] = t /\ g[k + 1] = u /\ g[k] = f[k]
        /\ \A i \in 1 .. k : g[i] = UpdateLesson(g[i - 1], updates[i])
    <3>1. f[0] = t /\ \A i \in 1 .. k :
                        f[i] = UpdateLesson(f[i - 1], updates[i])
      BY <2>1 DEF LessonTrace
    <3> HIDE DEF u
    <3>2. \A i \in 0 .. k : g[i] = f[i]
      OBVIOUS
    <3>3. \A i \in 1 .. k : i \in 0 .. k /\ i - 1 \in 0 .. k
      OBVIOUS
    <3> HIDE DEF g
    <3>4. g[0] = t /\ g[k] = f[k]
      BY <3>1, <3>2
    <3>5. g[k + 1] = u
      BY DEF g
    <3>6. \A i \in 1 .. k : g[i] = UpdateLesson(g[i - 1], updates[i])
      BY <3>1, <3>2, <3>3
    <3> QED
      BY <3>4, <3>5, <3>6
  <2>3. LessonTrace(g, t, updates, k + 1)
    <3>1. g = [i \in 0 .. k + 1 |-> g[i]]
      OBVIOUS
    <3> HIDE DEF g
    <3>2. ASSUME NEW i \in 0 .. k + 1
          PROVE g[i] = IF i = 0 THEN t
                       ELSE UpdateLesson(g[i - 1], updates[i])
      <4>1. i = 0 \/ i \in 1 .. k \/ (i = k + 1 /\ i # 0 /\ i - 1 = k)
        OBVIOUS
      <4> QED
        BY <2>2, <4>1
    <3> QED
      BY <3>1, <3>2 DEF LessonTrace
  <2> QED
    BY <2>3
<1> HIDE DEF S
<1>3. Nat \subseteq S
  BY <1>1, <1>2, EveryNumber
<1> QED
  BY <1>3 DEF S

\* f[i] is the view after the first i updates.
LessonRun(f, t, updates, n) ==
    /\ UpdateLessons(t, updates) = f[n] /\ f[0] = t
    /\ \A i \in 0 .. n - 1 : f[i + 1] = UpdateLesson(f[i], updates[i + 1])

LEMMA LessonTraceRuns ==
  ASSUME NEW t, NEW updates, NEW n \in Nat, Len(updates) = n
  PROVE  \E f : LessonRun(f, t, updates, n)
<1> DEFINE f == CHOOSE g : LessonTrace(g, t, updates, n)
<1>1. LessonTrace(f, t, updates, n)
  BY LessonTraceExists
<1>2. UpdateLessons(t, updates) = f[n]
  BY DEF UpdateLessons, LessonTrace
<1> HIDE DEF f
<1>3. f[0] = t
  BY <1>1 DEF LessonTrace
<1>4. ASSUME NEW i \in 0 .. n - 1
      PROVE f[i + 1] = UpdateLesson(f[i], updates[i + 1])
  <2>1. i + 1 \in 0 .. n /\ i + 1 # 0 /\ (i + 1) - 1 = i
    OBVIOUS
  <2> QED
    BY <1>1, <2>1 DEF LessonTrace
<1> QED
  BY <1>2, <1>3, <1>4 DEF LessonRun

\* A lesson after an update of its own.
Put(l, u) == Placed(l, u.module, u.contentId, u.position)

LEMMA PutIs ==
  ASSUME NEW l, IsLesson(l), NEW u
  PROVE  LET k == Put(l, u) IN
         /\ IsLesson(k) /\ k.id = l.id /\ k.body = l.body /\ k.assessments = l.assessments
         /\ k.module = u.module /\ k.contentId = u.contentId /\ k.position = u.position
BY LessonPlaced DEF Put

\* A lesson after the first k updates.
AfterLessons(updates, k, m) ==
    IF Assigns(updates, k, m)
    THEN Put(m, updates[CHOOSE i \in 1 .. k : updates[i].id = m.id])
    ELSE m

LessonsAfter(rows, updates, k) == {AfterLessons(updates, k, m) : m \in rows}

\* Every update has a row of its own, and a position and a content id that no
\* other row of that module has or gets.
Clashes(r, s) == r.module = s.module /\ (r.position = s.position \/ r.contentId = s.contentId)
LessonUpdatesFit(rows, updates, n) ==
    /\ \A i \in 1 .. n : \E m \in rows : m.id = updates[i].id
    /\ \A i, j \in 1 .. n : updates[i].id = updates[j].id => i = j
    /\ \A i, j \in 1 .. n : Clashes(updates[i], updates[j]) => i = j
    /\ \A i \in 1 .. n, m \in rows : Clashes(m, updates[i]) => m.id = updates[i].id

LEMMA AfterLessonsIs ==
  ASSUME NEW rows, NEW updates, NEW n \in Nat, LessonUpdatesFit(rows, updates, n),
         NEW k \in 0 .. n, NEW m \in rows, IsLesson(m)
  PROVE  LET a == AfterLessons(updates, k, m) IN
         /\ IsLesson(a) /\ a.id = m.id /\ a.body = m.body /\ a.assessments = m.assessments
         /\ \A i \in 1 .. k : updates[i].id = m.id =>
               a = Put(m, updates[i])
         /\ ~Assigns(updates, k, m) => a = m
<1>1. CASE Assigns(updates, k, m)
  <2>1. PICK i \in 1 .. k : updates[i].id = m.id
    BY <1>1 DEF Assigns
  <2>2. \A j \in 1 .. k : updates[j].id = m.id => j = i
    BY <2>1 DEF LessonUpdatesFit
  <2>3. (CHOOSE j \in 1 .. k : updates[j].id = m.id) = i
    BY <2>1, <2>2
  <2>4. AfterLessons(updates, k, m) = Put(m, updates[i])
    BY <1>1, <2>3 DEF AfterLessons
  <2> QED
    BY <1>1, <2>1, <2>2, <2>4, PutIs
<1>2. CASE ~Assigns(updates, k, m)
  BY <1>2 DEF AfterLessons, Assigns
<1> QED
  BY <1>1, <1>2

\* One more update.
LEMMA OneLessonMore ==
  ASSUME NEW rows, AreLessons(rows), NEW updates, NEW n \in Nat,
         LessonUpdatesFit(rows, updates, n), NEW k \in 0 .. n - 1, NEW r \in rows,
         r.id = updates[k + 1].id
  PROVE  /\ AfterLessons(updates, k, r) = r
         /\ AfterLessons(updates, k + 1, r) = Put(r, updates[k + 1])
         /\ \A m \in rows : m # r => /\ AfterLessons(updates, k + 1, m) = AfterLessons(updates, k, m)
                                     /\ m.id # r.id
<1>0. k \in 0 .. n /\ k + 1 \in 0 .. n /\ k + 1 \in 1 .. n /\ k + 1 \in 1 .. k + 1
      /\ \A i \in 1 .. k : i \in 1 .. n /\ i \in 1 .. k + 1 /\ i # k + 1
  OBVIOUS
<1>1. ~Assigns(updates, k, r)
  BY <1>0 DEF Assigns, LessonUpdatesFit
<1>2. AfterLessons(updates, k, r) = r
  BY <1>0, <1>1, AfterLessonsIs DEF AreLessons
<1>3. AfterLessons(updates, k + 1, r) = Put(r, updates[k + 1])
  BY <1>0, AfterLessonsIs DEF AreLessons
<1>4. ASSUME NEW m \in rows, m # r
      PROVE AfterLessons(updates, k + 1, m) = AfterLessons(updates, k, m) /\ m.id # r.id
  <2>1. m.id # r.id
    BY <1>4 DEF AreLessons, KeyedById
  <2>2. CASE Assigns(updates, k, m)
    <3>1. PICK i \in 1 .. k : updates[i].id = m.id
      BY <2>2 DEF Assigns
    <3>2. i \in 1 .. k + 1 /\ IsLesson(m)
      BY <1>0 DEF AreLessons
    <3>3. AfterLessons(updates, k, m) = Put(m, updates[i])
      BY <1>0, <3>1, <3>2, AfterLessonsIs
    <3>4. AfterLessons(updates, k + 1, m) = Put(m, updates[i])
      BY <1>0, <3>1, <3>2, AfterLessonsIs
    <3> QED
      BY <2>1, <3>3, <3>4
  <2>3. CASE ~Assigns(updates, k, m)
    <3>1. ~Assigns(updates, k + 1, m)
      <4> SUFFICES ASSUME NEW i \in 1 .. k + 1, updates[i].id = m.id PROVE FALSE
        BY DEF Assigns
      <4>1. i = k + 1 \/ i \in 1 .. k
        OBVIOUS
      <4> QED
        BY <2>1, <2>3, <4>1 DEF Assigns
    <3> QED
      BY <2>1, <2>3, <3>1 DEF AfterLessons
  <2> QED
    BY <2>1, <2>2, <2>3
<1> QED
  BY <1>2, <1>3, <1>4

\* At no time do two rows of a module share a position or a content id.
LEMMA AfterLessonsFit ==
  ASSUME NEW rows, AreLessons(rows), LessonsFit(rows), NEW updates, NEW n \in Nat,
         LessonUpdatesFit(rows, updates, n), NEW k \in 0 .. n
  PROVE  LessonsFit(LessonsAfter(rows, updates, k))
<1> SUFFICES ASSUME NEW m \in rows, NEW l \in rows,
                    Clashes(AfterLessons(updates, k, m), AfterLessons(updates, k, l))
             PROVE  AfterLessons(updates, k, m) = AfterLessons(updates, k, l)
  BY DEF LessonsFit, LessonsAfter, Clashes
<1>0. \A i \in 1 .. k : i \in 1 .. n
  OBVIOUS
<1>1. \A x \in rows : (\E i \in 1 .. k : updates[i].id = x.id) \/ AfterLessons(updates, k, x) = x
  BY AfterLessonsIs DEF AreLessons, Assigns
<1>2. ASSUME NEW x \in rows, NEW i \in 1 .. k, updates[i].id = x.id
      PROVE  LET a == AfterLessons(updates, k, x) IN
             /\ a.module = updates[i].module /\ a.contentId = updates[i].contentId
             /\ a.position = updates[i].position
  <2>1. AfterLessons(updates, k, x) = Put(x, updates[i])
    BY <1>2, AfterLessonsIs DEF AreLessons
  <2> QED
    BY <2>1, PutIs DEF AreLessons
<1>3. m.id = l.id => m = l
  BY DEF AreLessons, KeyedById
<1>4. CASE \E i \in 1 .. k : updates[i].id = m.id
  <2>1. PICK i \in 1 .. k : updates[i].id = m.id
    BY <1>4
  <2>2. CASE \E j \in 1 .. k : updates[j].id = l.id
    <3>1. PICK j \in 1 .. k : updates[j].id = l.id
      BY <2>2
    <3>2. Clashes(updates[i], updates[j])
      BY <1>2, <2>1, <3>1 DEF Clashes
    <3> QED
      BY <1>0, <1>3, <2>1, <3>1, <3>2 DEF LessonUpdatesFit
  <2>3. CASE AfterLessons(updates, k, l) = l
    <3>1. Clashes(l, updates[i])
      BY <1>2, <2>1, <2>3 DEF Clashes
    <3> QED
      BY <1>0, <1>3, <2>1, <3>1 DEF LessonUpdatesFit
  <2> QED
    BY <1>1, <2>2, <2>3
<1>5. CASE AfterLessons(updates, k, m) = m
  <2>1. CASE \E j \in 1 .. k : updates[j].id = l.id
    <3>1. PICK j \in 1 .. k : updates[j].id = l.id
      BY <2>1
    <3>2. Clashes(m, updates[j])
      BY <1>2, <1>5, <3>1 DEF Clashes
    <3> QED
      BY <1>0, <1>3, <3>1, <3>2 DEF LessonUpdatesFit
  <2>2. CASE AfterLessons(updates, k, l) = l
    BY <1>5, <2>2 DEF LessonsFit, Clashes
  <2> QED
    BY <1>1, <2>1, <2>2
<1> QED
  BY <1>1, <1>4, <1>5

\* A statement that goes through.
LEMMA LessonsWritten ==
  ASSUME NEW t, IsTransaction(t), NEW M, LessonsFit(M)
  PROVE  WithLessons(t, M) = [modules |-> t.modules, lessons |-> M, ok |-> TRUE]
<1> DEFINE u == [t EXCEPT !.lessons = M]
<1>1. u = [modules |-> t.modules, lessons |-> M, ok |-> t.ok]
  BY DEF IsTransaction
<1>2. WithLessons(t, M) = [u EXCEPT !.ok = TRUE]
  BY DEF WithLessons, IsTransaction
<1> HIDE DEF u
<1> QED
  BY <1>1, <1>2

LEMMA UpdatingLesson ==
  ASSUME NEW t, NEW rows, AreLessons(rows), LessonsFit(rows), NEW updates, NEW n \in Nat,
         LessonUpdatesFit(rows, updates, n), NEW k \in 0 .. n - 1, IsTransaction(t),
         t.lessons = LessonsAfter(rows, updates, k)
  PROVE  UpdateLesson(t, updates[k + 1]) =
           [modules |-> t.modules,
            lessons |-> LessonsAfter(rows, updates, k + 1), ok |-> TRUE]
<1> DEFINE N == LessonsAfter(rows, updates, k)
           M == LessonsAfter(rows, updates, k + 1)
<1>0. k \in 0 .. n /\ k + 1 \in 0 .. n /\ k + 1 \in 1 .. n
  OBVIOUS
<1>1. PICK r \in rows : r.id = updates[k + 1].id
  BY <1>0 DEF LessonUpdatesFit
<1>2. /\ AfterLessons(updates, k, r) = r
      /\ AfterLessons(updates, k + 1, r) = Put(r, updates[k + 1])
      /\ \A m \in rows : m # r => /\ AfterLessons(updates, k + 1, m) = AfterLessons(updates, k, m)
                                  /\ m.id # r.id
  BY <1>1, OneLessonMore
<1>3. \A m \in rows : AfterLessons(updates, k, m).id = m.id
  BY <1>0, AfterLessonsIs DEF AreLessons
<1>4. r \in N /\ \A x \in N : x.id = r.id => x = r
  BY <1>2, <1>3 DEF LessonsAfter
<1>5. RowOf(N, updates[k + 1].id) = r
  BY <1>1, <1>4 DEF RowOf
<1>6. (N \ {r}) \cup {Put(r, updates[k + 1])} = M
  BY <1>2, <1>3 DEF LessonsAfter
<1>7. LessonsFit(M)
  BY <1>0, AfterLessonsFit
<1> HIDE DEF M, N
<1>8. UpdateLesson(t, updates[k + 1]) = WithLessons(t, M)
  BY <1>5, <1>6 DEF UpdateLesson, Placed, Put, N
<1>9. WithLessons(t, M) = [modules |-> t.modules, lessons |-> M, ok |-> TRUE]
  BY <1>7, LessonsWritten
<1> QED
  BY <1>8, <1>9 DEF M

\* All of them.
LEMMA LessonsUpdated ==
  ASSUME NEW t, IsTransaction(t), AreLessons(t.lessons), LessonsFit(t.lessons),
         NEW updates, NEW n \in Nat, Len(updates) = n, LessonUpdatesFit(t.lessons, updates, n)
  PROVE  UpdateLessons(t, updates) =
           [modules |-> t.modules,
            lessons |-> LessonsAfter(t.lessons, updates, n), ok |-> TRUE]
<1> DEFINE At(k) == [modules |-> t.modules,
                     lessons |-> LessonsAfter(t.lessons, updates, k), ok |-> TRUE]
<1>0. PICK f : LessonRun(f, t, updates, n)
  BY LessonTraceRuns
<1>1. /\ UpdateLessons(t, updates) = f[n] /\ f[0] = t
      /\ \A i \in 0 .. n - 1 : f[i + 1] = UpdateLesson(f[i], updates[i + 1])
  BY <1>0 DEF LessonRun
<1> DEFINE S == {k \in 0 .. n : f[k] = At(k)}
<1>2. 0 \in S
  <2>1. \A m \in t.lessons : AfterLessons(updates, 0, m) = m
    BY DEF AfterLessons, Assigns
  <2>2. t = At(0)
    BY <2>1 DEF IsTransaction, LessonsAfter
  <2> HIDE DEF At
  <2> QED
    BY <1>1, <2>2
<1>3. ASSUME NEW k \in 0 .. n - 1, k \in S PROVE k + 1 \in S
  <2>1. f[k] = At(k)
    BY <1>3
  <2>2. IsTransaction(f[k]) /\ f[k].modules = t.modules
        /\ f[k].lessons = LessonsAfter(t.lessons, updates, k)
    BY <2>1 DEF IsTransaction
  <2> DEFINE u == f[k]
  <2>3. UpdateLesson(u, updates[k + 1]) = At(k + 1)
    <3>1. /\ IsTransaction(u)
          /\ u.lessons = LessonsAfter(t.lessons, updates, k)
      BY <2>2
    <3> HIDE DEF u
    <3>2. UpdateLesson(u, updates[k + 1]) =
            [modules |-> u.modules,
             lessons |-> LessonsAfter(t.lessons, updates, k + 1), ok |-> TRUE]
      BY <1>3, <3>1, UpdatingLesson
    <3> QED
      BY <2>2, <3>2 DEF u
  <2> HIDE DEF At
  <2>4. f[k + 1] = At(k + 1) /\ k + 1 \in 0 .. n
    BY <1>1, <2>3
  <2> QED
    BY <2>4
<1>4. n \in S
  <2> HIDE DEF S
  <2>1. 0 .. n \subseteq S
    BY <1>2, <1>3, EveryNumberUpTo
  <2> QED
    BY <2>1
<1>5. f[n] = At(n)
  <2> HIDE DEF At
  <2> QED
    BY <1>4
<1> QED
  BY <1>1, <1>5

-----------------------------------------------------------------------------
(* Rows lifted out of the way *)

Low(rows) == \A r \in rows : r.position \in 1 .. POSITION_OFFSET
Raise(rows, moved) == (rows \ moved) \cup Lifted(moved)
High(r) == Moved(r, r.position + POSITION_OFFSET)

LEMMA OffsetIsNatural == POSITION_OFFSET \in Nat \ {0}
BY DEF POSITION_OFFSET

LEMMA LiftedIs ==
  ASSUME NEW moved
  PROVE  /\ \A s \in Lifted(moved) : \E r \in moved : s = High(r)
         /\ \A r \in moved : High(r) \in Lifted(moved)
BY DEF Lifted, High, Moved

LEMMA NoneInTheWay ==
  ASSUME NEW moved, Low(moved)
  PROVE  LandsFree(moved)
<1> SUFFICES ASSUME NEW r \in moved, NEW s \in moved PROVE r.position + POSITION_OFFSET # s.position
  BY DEF LandsFree
<1> QED
  BY OffsetIsNatural DEF Low

LEMMA ModulesRaised ==
  ASSUME NEW rows, AreModules(rows), ModulesFit(rows), Low(rows), NEW moved \in SUBSET rows
  PROVE  AreModules(Raise(rows, moved)) /\ ModulesFit(Raise(rows, moved))
<1> DEFINE new == Raise(rows, moved)
<1>1. \A s \in new : \/ s \in rows \ moved
                     \/ \E r \in moved : s = High(r)
  BY LiftedIs DEF Raise
<1>2. ASSUME NEW r \in rows
      PROVE  /\ IsModule(r) /\ IsModule(High(r)) /\ High(r).id = r.id
             /\ High(r).position = r.position + POSITION_OFFSET
  BY ModuleMoved DEF AreModules, High
<1>3. \A r \in rows : r.position \in 1 .. POSITION_OFFSET
  BY DEF Low
<1> HIDE DEF new
<1>4. \A s \in new : IsModule(s)
  BY <1>1, <1>2
<1>5. \A s \in new : \E r \in rows : s.id = r.id /\ (IF r \in moved THEN s = High(r) ELSE s = r)
  BY <1>1, <1>2
<1>6. KeyedById(new)
  BY <1>5 DEF KeyedById, AreModules
<1>7. ModulesFit(new)
  <2> SUFFICES ASSUME NEW s \in new, NEW z \in new, s.position = z.position PROVE s = z
    BY DEF ModulesFit
  <2>1. PICK r \in rows : s.id = r.id /\ (IF r \in moved THEN s = High(r) ELSE s = r)
    BY <1>5
  <2>2. PICK q \in rows : z.id = q.id /\ (IF q \in moved THEN z = High(q) ELSE z = q)
    BY <1>5
  <2>3. r.position = q.position
    BY <1>2, <1>3, <2>1, <2>2, OffsetIsNatural
  <2>4. r = q
    BY <2>3 DEF ModulesFit
  <2> QED
    BY <2>1, <2>2, <2>4
<1> QED
  BY <1>4, <1>6, <1>7 DEF AreModules, new

LEMMA ModulesLifted ==
  ASSUME NEW t, IsTransaction(t), AreModules(t.modules), ModulesFit(t.modules),
         Low(t.modules), NEW moved \in SUBSET t.modules
  PROVE  LiftModules(t, moved) =
           [modules |-> Raise(t.modules, moved), lessons |-> t.lessons, ok |-> TRUE]
<1> DEFINE M == Raise(t.modules, moved)
           lifted == WithModules(t, M)
<1>1. LandsFree(moved)
  BY NoneInTheWay DEF Low
<1>2. ModulesFit(M)
  BY ModulesRaised
<1>3. LiftModules(t, moved) = [lifted EXCEPT !.ok = @ /\ LandsFree(moved)]
  BY DEF LiftModules, Raise
<1> HIDE DEF M
<1>4. lifted = [modules |-> M, lessons |-> t.lessons, ok |-> TRUE]
  BY <1>2, ModulesWritten
<1> HIDE DEF lifted
<1> QED
  BY <1>1, <1>3, <1>4 DEF M

LEMMA LessonsRaised ==
  ASSUME NEW rows, AreLessons(rows), LessonsFit(rows), Low(rows), NEW moved \in SUBSET rows
  PROVE  AreLessons(Raise(rows, moved)) /\ LessonsFit(Raise(rows, moved))
<1> DEFINE new == Raise(rows, moved)
<1>1. \A s \in new : \/ s \in rows \ moved
                     \/ \E r \in moved : s = High(r)
  BY LiftedIs DEF Raise
<1>2. ASSUME NEW r \in rows
      PROVE  /\ IsLesson(r) /\ IsLesson(High(r)) /\ High(r).id = r.id
             /\ High(r).module = r.module /\ High(r).contentId = r.contentId
             /\ High(r).position = r.position + POSITION_OFFSET
  <2>1. IsLesson(r)
    BY DEF AreLessons
  <2>2. High(r) = Placed(r, r.module, r.contentId, r.position + POSITION_OFFSET)
    BY <2>1, LessonPlaced DEF High
  <2> QED
    BY <2>1, <2>2, LessonPlaced
<1>3. \A r \in rows : r.position \in 1 .. POSITION_OFFSET
  BY DEF Low
<1> HIDE DEF new
<1>4. \A s \in new : IsLesson(s)
  BY <1>1, <1>2
<1>5. \A s \in new : \E r \in rows : s.id = r.id /\ (IF r \in moved THEN s = High(r) ELSE s = r)
  BY <1>1, <1>2
<1>6. KeyedById(new)
  BY <1>5 DEF KeyedById, AreLessons
<1>7. LessonsFit(new)
  <2> SUFFICES ASSUME NEW s \in new, NEW z \in new, s.module = z.module,
                      s.position = z.position \/ s.contentId = z.contentId
               PROVE  s = z
    BY DEF LessonsFit
  <2>1. PICK r \in rows : s.id = r.id /\ (IF r \in moved THEN s = High(r) ELSE s = r)
    BY <1>5
  <2>2. PICK q \in rows : z.id = q.id /\ (IF q \in moved THEN z = High(q) ELSE z = q)
    BY <1>5
  <2>3. r.module = q.module /\ (s.contentId = z.contentId => r.contentId = q.contentId)
    BY <1>2, <2>1, <2>2
  <2>4. s.position = z.position => r.position = q.position
    BY <1>2, <1>3, <2>1, <2>2, OffsetIsNatural
  <2>5. r = q
    BY <2>3, <2>4 DEF LessonsFit
  <2> QED
    BY <2>1, <2>2, <2>5
<1> QED
  BY <1>4, <1>6, <1>7 DEF AreLessons, new

LEMMA LessonsLifted ==
  ASSUME NEW t, IsTransaction(t), AreLessons(t.lessons), LessonsFit(t.lessons),
         Low(t.lessons), NEW moved \in SUBSET t.lessons
  PROVE  LiftLessons(t, moved) =
           [modules |-> t.modules, lessons |-> Raise(t.lessons, moved), ok |-> TRUE]
<1> DEFINE M == Raise(t.lessons, moved)
           lifted == WithLessons(t, M)
           free == \A l \in moved : LandsFree({k \in moved : k.module = l.module})
<1>1. free
  <2> SUFFICES ASSUME NEW l \in moved PROVE LandsFree({k \in moved : k.module = l.module})
    OBVIOUS
  <2>1. Low({k \in moved : k.module = l.module})
    BY DEF Low
  <2> QED
    BY <2>1, NoneInTheWay
<1>2. LessonsFit(M)
  BY LessonsRaised
<1>3. LiftLessons(t, moved) = [lifted EXCEPT !.ok = @ /\ free]
  BY DEF LiftLessons, Raise
<1> HIDE DEF M, free
<1>4. lifted = [modules |-> t.modules, lessons |-> M, ok |-> TRUE]
  BY <1>2, LessonsWritten
<1> HIDE DEF lifted
<1> QED
  BY <1>1, <1>3, <1>4 DEF M

-----------------------------------------------------------------------------
(* Rows in their order *)

Apart(rows) == \A r, s \in rows : r.position = s.position => r = s
Numbered(rows) == \A r \in rows : r.position \in Nat
UpTo(rows, r) == {s \in rows : s.position <= r.position}

\* Rows with different positions can be ordered by them: a row's place is the
\* number of rows up to it.
LEMMA OrderExists ==
  ASSUME NEW rows, IsFiniteSet(rows), Apart(rows), Numbered(rows)
  PROVE  \E seq \in SetToSeqs(rows) :
            \A i, j \in DOMAIN seq : i < j => seq[i].position < seq[j].position
<1> DEFINE n == Cardinality(rows)
           rank == [r \in rows |-> Cardinality(UpTo(rows, r))]
<1>1. n \in Nat
  BY FS_CardinalityType
<1>2. \A r \in rows : /\ UpTo(rows, r) \in SUBSET rows /\ IsFiniteSet(UpTo(rows, r))
                      /\ rank[r] \in 1 .. n
  <2> SUFFICES ASSUME NEW r \in rows
               PROVE  /\ UpTo(rows, r) \in SUBSET rows /\ IsFiniteSet(UpTo(rows, r))
                      /\ rank[r] \in 1 .. n
    OBVIOUS
  <2>1. UpTo(rows, r) \in SUBSET rows /\ r \in UpTo(rows, r)
    BY DEF UpTo, Numbered
  <2>2. IsFiniteSet(UpTo(rows, r)) /\ Cardinality(UpTo(rows, r)) <= n
    BY <2>1, FS_Subset
  <2>3. Cardinality(UpTo(rows, r)) \in Nat /\ Cardinality(UpTo(rows, r)) # 0
    BY <2>1, <2>2, FS_CardinalityType, FS_EmptySet
  <2> QED
    BY <1>1, <2>1, <2>2, <2>3
<1>3. ASSUME NEW r \in rows, NEW s \in rows, r.position < s.position PROVE rank[r] < rank[s]
  <2>1. UpTo(rows, r) \in SUBSET UpTo(rows, s) /\ s \in UpTo(rows, s) /\ s \notin UpTo(rows, r)
    BY <1>3 DEF UpTo, Numbered
  <2>2. Cardinality(UpTo(rows, r)) <= Cardinality(UpTo(rows, s))
        /\ Cardinality(UpTo(rows, r)) # Cardinality(UpTo(rows, s))
    BY <1>2, <2>1, FS_Subset
  <2>3. rank[r] \in 1 .. n /\ rank[s] \in 1 .. n
    BY <1>2
  <2> QED
    BY <2>2, <2>3, <1>1
<1>4. \A r, s \in rows : rank[r] = rank[s] => r = s
  <2> SUFFICES ASSUME NEW r \in rows, NEW s \in rows, rank[r] = rank[s] PROVE r = s
    OBVIOUS
  <2>1. rank[r] \in 1 .. n
    BY <1>2
  <2>2. ~(r.position < s.position) /\ ~(s.position < r.position)
    BY <1>1, <1>3, <2>1
  <2> QED
    BY <2>2 DEF Apart, Numbered
<1>5. rank \in Injection(rows, 1 .. n)
  <2> HIDE DEF n
  <2>1. rank \in [rows -> 1 .. n] /\ DOMAIN rank = rows
    BY <1>2
  <2> HIDE DEF rank
  <2> QED
    BY <1>4, <2>1 DEF Injection, IsInjective
<1>6. rank \in Surjection(rows, 1 .. n)
  <2>1. IsFiniteSet(1 .. n) /\ Cardinality(1 .. n) = n
    BY <1>1, FS_Interval
  <2> HIDE DEF rank
  <2> QED
    BY <1>5, <2>1, FS_Injection
<1>7. \A i \in 1 .. n : \E r \in rows : rank[r] = i
  <2> HIDE DEF rank, n
  <2> QED
    BY <1>6 DEF Surjection
<1> DEFINE seq == [i \in 1 .. n |-> CHOOSE r \in rows : rank[r] = i]
<1>8. \A i \in 1 .. n : seq[i] \in rows /\ rank[seq[i]] = i
  <2> HIDE DEF rank, n
  <2> QED
    BY <1>7
<1>9. seq \in SetToSeqs(rows) /\ DOMAIN seq = 1 .. n
  <2> HIDE DEF rank
  <2>1. seq \in [1 .. n -> rows]
    BY <1>8
  <2> HIDE DEF seq
  <2>2. \A i, j \in 1 .. n : i # j => seq[i] # seq[j]
    BY <1>8
  <2> QED
    BY <2>1, <2>2 DEF SetToSeqs
<1>10. ASSUME NEW i \in 1 .. n, NEW j \in 1 .. n, i < j
       PROVE  seq[i].position < seq[j].position
  <2> HIDE DEF n
  <2> DEFINE a == seq[i]  b == seq[j]
  <2>1. a \in rows /\ b \in rows /\ rank[a] < rank[b]
    BY <1>8, <1>10
  <2> HIDE DEF a, b, rank
  <2>2. a.position \in Nat /\ b.position \in Nat
    BY <2>1 DEF Numbered
  <2>3. ~(b.position < a.position) /\ a.position # b.position
    <3>1. rank[a] \in 1 .. n /\ rank[b] \in 1 .. n
      BY <1>2, <2>1
    <3>2. rank[a] # rank[b] /\ ~(rank[b] < rank[a])
      BY <1>1, <2>1, <3>1 DEF n
    <3> QED
      BY <1>3, <2>1, <3>2 DEF Apart
  <2> QED
    BY <2>2, <2>3 DEF a, b
<1> HIDE DEF seq
<1> QED
  BY <1>9, <1>10

LEMMA EveryRowInOrder ==
  ASSUME NEW rows, IsFiniteSet(rows), Apart(rows), Numbered(rows)
  PROVE  LET seq == InOrder(rows)
             n   == Cardinality(rows)
         IN  /\ n \in Nat /\ seq \in [1 .. n -> rows]
             /\ \A i, j \in 1 .. n : seq[i] = seq[j] => i = j
             /\ \A r \in rows : \E i \in 1 .. n : seq[i] = r
<1> DEFINE seq == InOrder(rows)
           n   == Cardinality(rows)
<1>1. n \in Nat
  BY FS_CardinalityType
<1>2. seq \in SetToSeqs(rows)
  BY OrderExists DEF InOrder
<1>3. seq \in [1 .. n -> rows] /\ \A i, j \in 1 .. n : seq[i] = seq[j] => i = j
  BY <1>2 DEF SetToSeqs
<1> HIDE DEF seq
<1>4. seq \in Injection(1 .. n, rows)
  BY <1>3 DEF Injection, IsInjective
<1>5. seq \in Surjection(1 .. n, rows)
  <2>1. IsFiniteSet(1 .. n) /\ Cardinality(1 .. n) = n
    BY <1>1, FS_Interval
  <2> QED
    BY <1>4, <2>1, FS_Injection
<1>6. \A r \in rows : \E i \in 1 .. n : seq[i] = r
  BY <1>5 DEF Surjection
<1> QED
  BY <1>1, <1>3, <1>6 DEF seq

-----------------------------------------------------------------------------
(* Ranks closed *)

LEMMA LengthOf ==
  ASSUME NEW n \in Nat, NEW seq, seq = [i \in 1 .. n |-> seq[i]]
  PROVE  Len(seq) = n
<1>1. seq \in [1 .. n -> {seq[i] : i \in 1 .. n}]
  OBVIOUS
<1> QED
  BY <1>1

ClosedUp(r, p) == IF r.position > p THEN Moved(r, r.position - 1) ELSE r
ClosedModules(rows, p) == {ClosedUp(r, p) : r \in rows}
ClosedLessons(rows, module, p) ==
    {IF l.module = module THEN ClosedUp(l, p) ELSE l : l \in rows}

LEMMA RanksClosed ==
  ASSUME NEW rows, IsFiniteSet(rows), Apart(rows), Numbered(rows)
  PROVE  LET updates == CloseRanks(rows)
             n       == Cardinality(rows)
         IN  /\ n \in Nat /\ Len(updates) = n
             /\ \A i \in 1 .. n : \E r \in rows : updates[i] = Moved(r, r.position - 1)
             /\ \A r \in rows : \E i \in 1 .. n : updates[i] = Moved(r, r.position - 1)
             /\ \A i, j \in 1 .. n, r \in rows :
                   updates[i] = Moved(r, r.position - 1) /\ updates[j] = Moved(r, r.position - 1)
                     /\ (\A a, b \in rows : Moved(a, a.position - 1) = Moved(b, b.position - 1) => a = b)
                   => i = j
<1> DEFINE seq == InOrder(rows)
           n   == Cardinality(rows)
           updates == CloseRanks(rows)
<1>1. /\ n \in Nat /\ seq \in [1 .. n -> rows]
      /\ \A i, j \in 1 .. n : seq[i] = seq[j] => i = j
      /\ \A r \in rows : \E i \in 1 .. n : seq[i] = r
  BY EveryRowInOrder
<1>2. updates = [i \in 1 .. n |-> Moved(seq[i], seq[i].position - 1)]
  BY <1>1 DEF CloseRanks, Moved
<1> HIDE DEF seq, updates, n
<1>3. Len(updates) = n
  BY <1>1, <1>2, LengthOf
<1>4. \A i \in 1 .. n : seq[i] \in rows /\ updates[i] = Moved(seq[i], seq[i].position - 1)
  BY <1>1, <1>2
<1>5. \A r \in rows : \E i \in 1 .. n : updates[i] = Moved(r, r.position - 1)
  BY <1>1, <1>4
<1>6. ASSUME NEW i \in 1 .. n, NEW j \in 1 .. n, NEW r \in rows,
             updates[i] = Moved(r, r.position - 1), updates[j] = Moved(r, r.position - 1),
             \A a, b \in rows : Moved(a, a.position - 1) = Moved(b, b.position - 1) => a = b
      PROVE  i = j
  <2>1. seq[i] = r /\ seq[j] = r
    BY <1>4, <1>6
  <2> QED
    BY <1>1, <2>1
<1> QED
  BY <1>1, <1>3, <1>4, <1>5, <1>6 DEF updates, n

LEMMA ModulesClosed ==
  ASSUME NEW t, IsTransaction(t), AreModules(t.modules), ModulesFit(t.modules),
         Low(t.modules), IsFiniteSet(t.modules), NEW p \in 1 .. POSITION_OFFSET,
         \A m \in t.modules : m.position # p
  PROVE  CloseModules(t, p) =
           [modules |-> ClosedModules(t.modules, p), lessons |-> t.lessons, ok |-> TRUE]
<1> DEFINE rows    == t.modules
           after   == {n \in rows : n.position > p}
           M       == Raise(rows, after)
           updates == CloseRanks(after)
           n       == Cardinality(after)
           u       == LiftModules(t, after)
<1>1. after \in SUBSET rows /\ IsFiniteSet(after)
  BY FS_Subset
<1>2. u = [modules |-> M, lessons |-> t.lessons, ok |-> TRUE]
  BY <1>1, ModulesLifted
<1>3. AreModules(M) /\ ModulesFit(M)
  BY <1>1, ModulesRaised
<1>4. \A r \in rows : /\ r.position \in Nat /\ r.position <= POSITION_OFFSET
                      /\ IsModule(r) /\ r.position # p
  BY OffsetIsNatural DEF Low, AreModules
<1>5. Apart(after) /\ Numbered(after)
  BY <1>4 DEF Apart, Numbered, ModulesFit
<1>6. \A r \in rows : /\ Moved(r, r.position - 1).id = r.id
                      /\ Moved(r, r.position - 1).position = r.position - 1
                      /\ High(r).id = r.id /\ High(r).position = r.position + POSITION_OFFSET
                      /\ Moved(High(r), r.position - 1) = Moved(r, r.position - 1)
  BY <1>4, ModuleMoved DEF High
<1>7. /\ n \in Nat /\ Len(updates) = n
      /\ \A i \in 1 .. n : \E r \in after : updates[i] = Moved(r, r.position - 1)
      /\ \A r \in after : \E i \in 1 .. n : updates[i] = Moved(r, r.position - 1)
      /\ \A i, j \in 1 .. n, r \in after :
            updates[i] = Moved(r, r.position - 1) /\ updates[j] = Moved(r, r.position - 1) => i = j
  <2>1. \A a, b \in after : Moved(a, a.position - 1) = Moved(b, b.position - 1) => a = b
    BY <1>1, <1>6 DEF AreModules, KeyedById
  <2> HIDE DEF after
  <2> QED
    BY <1>1, <1>5, <2>1, RanksClosed
<1>8. CloseModules(t, p) = UpdateModules(u, updates)
  BY DEF CloseModules
<1>9. \A s \in M : s \in rows \ after \/ \E r \in after : s = High(r)
  BY LiftedIs DEF Raise
<1>10. \A r \in rows : r \in after <=> r.position > p
  OBVIOUS
<1>11. \A r, s \in rows : (r.id = s.id => r = s) /\ (r.position = s.position => r = s)
  BY DEF AreModules, KeyedById, ModulesFit
<1> HIDE DEF u, updates, n, after
<1>12. /\ \A i \in 1 .. n : \E r \in after :
             /\ updates[i] = Moved(r, r.position - 1) /\ r \in rows
             /\ updates[i].id = r.id /\ updates[i].position = r.position - 1
       /\ \A s \in M : \E r \in rows :
             /\ s.id = r.id
             /\ IF r \in after THEN s = High(r) /\ s.position = r.position + POSITION_OFFSET
                               ELSE s = r
  BY <1>1, <1>6, <1>7, <1>9
<1>13. ModuleUpdatesFit(M, updates, n)
  <2>1. \A r \in after : High(r) \in M
    BY LiftedIs DEF Raise
  <2>2. \A i \in 1 .. n : \E m \in M : m.id = updates[i].id
    BY <1>6, <1>12, <2>1
  <2>3. ASSUME NEW i \in 1 .. n, NEW j \in 1 .. n,
               updates[i].id = updates[j].id \/ updates[i].position = updates[j].position
        PROVE  i = j
    <3>1. PICK r \in after : /\ updates[i] = Moved(r, r.position - 1) /\ r \in rows
                             /\ updates[i].id = r.id /\ updates[i].position = r.position - 1
      BY <1>12
    <3>2. PICK s \in after : /\ updates[j] = Moved(s, s.position - 1) /\ s \in rows
                             /\ updates[j].id = s.id /\ updates[j].position = s.position - 1
      BY <1>12
    <3>3. r.id = s.id \/ r.position = s.position
      BY <1>4, <2>3, <3>1, <3>2
    <3>4. r = s
      BY <1>11, <3>1, <3>2, <3>3
    <3> QED
      BY <1>7, <3>1, <3>2, <3>4
  <2>4. ASSUME NEW i \in 1 .. n, NEW m \in M, m.position = updates[i].position
        PROVE  FALSE
    <3>1. PICK r \in after : r \in rows /\ updates[i].position = r.position - 1
      BY <1>12
    <3>2. PICK s \in rows : IF s \in after THEN m.position = s.position + POSITION_OFFSET ELSE m = s
      BY <1>12
    <3>3. r.position > p /\ r.position <= POSITION_OFFSET /\ r.position \in Nat /\ s.position \in Nat
          /\ s.position # p /\ p \in Nat
      BY <1>4, <1>10, <3>1, OffsetIsNatural
    <3>4. CASE s \in after
      BY <2>4, <3>1, <3>2, <3>3, <3>4, OffsetIsNatural
    <3>5. CASE s \notin after
      BY <1>10, <2>4, <3>1, <3>2, <3>3, <3>5
    <3> QED
      BY <3>4, <3>5
  <2> QED
    BY <2>2, <2>3, <2>4 DEF ModuleUpdatesFit
<1>14. UpdateModules(u, updates) =
         [modules |-> ModulesAfter(M, updates, n), lessons |-> t.lessons, ok |-> TRUE]
  <2>1. IsTransaction(u) /\ u.modules = M /\ u.lessons = t.lessons
    BY <1>2 DEF IsTransaction
  <2> HIDE DEF M
  <2>2. /\ AreModules(u.modules) /\ ModulesFit(u.modules)
        /\ ModuleUpdatesFit(u.modules, updates, n) /\ n \in Nat /\ Len(updates) = n
    BY <1>3, <1>7, <1>13, <2>1
  <2>3. UpdateModules(u, updates) =
          [modules |-> ModulesAfter(u.modules, updates, n), lessons |-> u.lessons, ok |-> TRUE]
    BY <2>1, <2>2, ModulesUpdated
  <2> QED
    BY <2>1, <2>3
<1>15. ModulesAfter(M, updates, n) = ClosedModules(rows, p)
  <2> DEFINE Up(r) == IF r \in after THEN High(r) ELSE r
  <2>1. \A r \in rows : Up(r) \in M
    BY LiftedIs DEF Raise
  <2>2. ASSUME NEW r \in rows PROVE AfterModules(updates, n, Up(r)) = ClosedUp(r, p)
    <3>1. IsModule(Up(r)) /\ Up(r).id = r.id
      BY <1>3, <1>6, <2>1 DEF AreModules
    <3>2. n \in 0 .. n
      BY <1>7
    <3>3. CASE r \in after
      <4>1. PICK i \in 1 .. n : updates[i] = Moved(r, r.position - 1)
        BY <1>7, <3>3
      <4>2. updates[i].id = Up(r).id /\ updates[i].position = r.position - 1
        BY <1>6, <3>1, <4>1
      <4>3. AfterModules(updates, n, Up(r)) = Moved(Up(r), r.position - 1)
        <5> HIDE DEF Up
        <5> QED
          BY <1>7, <1>13, <2>1, <3>1, <3>2, <4>2, AfterModulesIs
      <4> QED
        BY <1>6, <1>10, <3>3, <4>3 DEF ClosedUp
    <3>4. CASE r \notin after
      <4>1. Up(r) = r
        BY <3>4
      <4>2. ~Assigns(updates, n, r)
        BY <1>1, <1>11, <1>12, <3>4 DEF Assigns
      <4>3. AfterModules(updates, n, r) = r
        BY <4>2 DEF AfterModules
      <4> QED
        BY <1>10, <3>4, <4>1, <4>3 DEF ClosedUp
    <3> QED
      BY <3>3, <3>4
  <2>3. \A s \in M : \E r \in rows : s = Up(r)
    BY <1>12
  <2> HIDE DEF M, Up
  <2> QED
    BY <2>1, <2>2, <2>3 DEF ModulesAfter, ClosedModules
<1> QED
  BY <1>8, <1>14, <1>15

LEMMA LessonsClosed ==
  ASSUME NEW t, IsTransaction(t), AreLessons(t.lessons), LessonsFit(t.lessons),
         Low(t.lessons), IsFiniteSet(t.lessons), NEW x, NEW p \in 1 .. POSITION_OFFSET,
         \A l \in t.lessons : l.module = x => l.position # p
  PROVE  CloseLessons(t, x, p) =
           [modules |-> t.modules, lessons |-> ClosedLessons(t.lessons, x, p), ok |-> TRUE]
<1> DEFINE rows    == t.lessons
           after   == {k \in LessonsOf(t, x) : k.position > p}
           M       == Raise(rows, after)
           updates == CloseRanks(after)
           n       == Cardinality(after)
           u       == LiftLessons(t, after)
<1>1. after \in SUBSET rows /\ IsFiniteSet(after)
  BY FS_Subset DEF LessonsOf
<1>2. u = [modules |-> t.modules, lessons |-> M, ok |-> TRUE]
  BY <1>1, LessonsLifted
<1>3. AreLessons(M) /\ LessonsFit(M)
  BY <1>1, LessonsRaised
<1>4. \A r \in rows : /\ r.position \in Nat /\ r.position <= POSITION_OFFSET
                      /\ IsLesson(r) /\ (r.module = x => r.position # p)
  BY OffsetIsNatural DEF Low, AreLessons
<1>5. Apart(after) /\ Numbered(after)
  BY <1>4 DEF Apart, Numbered, LessonsFit, LessonsOf
<1>6. ASSUME NEW r \in rows
      PROVE  LET d == Moved(r, r.position - 1) IN
             /\ d.id = r.id /\ d.module = r.module /\ d.contentId = r.contentId
             /\ d.position = r.position - 1
             /\ High(r).id = r.id /\ High(r).position = r.position + POSITION_OFFSET
             /\ High(r).module = r.module /\ High(r).contentId = r.contentId
             /\ Put(High(r), d) = d
  <2> DEFINE d == Moved(r, r.position - 1)
             h == High(r)
  <2>1. IsLesson(r)
    BY <1>4
  <2>2. d = Placed(r, r.module, r.contentId, r.position - 1)
    BY <2>1, LessonPlaced
  <2>3. h = Placed(r, r.module, r.contentId, r.position + POSITION_OFFSET)
    BY <2>1, LessonPlaced DEF High
  <2>4. /\ d.id = r.id /\ d.module = r.module /\ d.contentId = r.contentId
        /\ d.position = r.position - 1
    BY <2>1, <2>2, LessonPlaced
  <2>5. /\ h.id = r.id /\ h.position = r.position + POSITION_OFFSET
        /\ h.module = r.module /\ h.contentId = r.contentId
    BY <2>1, <2>3, LessonPlaced
  <2>6. Placed(h, r.module, r.contentId, r.position - 1) = d
    <3>1. \A y, c, q : Placed(h, y, c, q) = Placed(r, y, c, q)
      BY <2>1, <2>3, LessonPlaced
    <3> QED
      BY <2>2, <3>1
  <2>7. Put(h, d) = d
    <3> HIDE DEF h, d
    <3> QED
      BY <2>4, <2>6 DEF Put
  <2> QED
    BY <2>4, <2>5, <2>7
<1>7. /\ n \in Nat /\ Len(updates) = n
      /\ \A i \in 1 .. n : \E r \in after : updates[i] = Moved(r, r.position - 1)
      /\ \A r \in after : \E i \in 1 .. n : updates[i] = Moved(r, r.position - 1)
      /\ \A i, j \in 1 .. n, r \in after :
            updates[i] = Moved(r, r.position - 1) /\ updates[j] = Moved(r, r.position - 1) => i = j
  <2>1. \A a, b \in after : Moved(a, a.position - 1) = Moved(b, b.position - 1) => a = b
    BY <1>1, <1>6 DEF AreLessons, KeyedById
  <2> HIDE DEF after
  <2> QED
    BY <1>1, <1>5, <2>1, RanksClosed
<1>8. CloseLessons(t, x, p) = UpdateLessons(u, updates)
  BY DEF CloseLessons
<1>9. \A s \in M : s \in rows \ after \/ \E r \in after : s = High(r)
  BY LiftedIs DEF Raise
<1>10. \A r \in rows : r \in after <=> (r.module = x /\ r.position > p)
  BY DEF LessonsOf
<1>11. \A r, s \in rows : /\ r.id = s.id => r = s
                          /\ Clashes(r, s) => r = s
  BY DEF AreLessons, KeyedById, LessonsFit, Clashes
<1> HIDE DEF u, updates, n, after
<1>12. /\ \A i \in 1 .. n : \E r \in after :
             /\ updates[i] = Moved(r, r.position - 1) /\ r \in rows
             /\ updates[i].id = r.id /\ updates[i].position = r.position - 1
             /\ updates[i].module = r.module /\ updates[i].contentId = r.contentId
       /\ \A s \in M : \E r \in rows :
             /\ s.id = r.id /\ s.module = r.module /\ s.contentId = r.contentId
             /\ IF r \in after THEN s = High(r) /\ s.position = r.position + POSITION_OFFSET
                               ELSE s = r
  BY <1>1, <1>6, <1>7, <1>9
<1>13. LessonUpdatesFit(M, updates, n)
  <2>1. \A r \in after : High(r) \in M
    BY LiftedIs DEF Raise
  <2>2. \A i \in 1 .. n : \E m \in M : m.id = updates[i].id
    BY <1>6, <1>12, <2>1
  <2>3. ASSUME NEW i \in 1 .. n, NEW j \in 1 .. n,
               updates[i].id = updates[j].id \/ Clashes(updates[i], updates[j])
        PROVE  i = j
    <3>1. PICK r \in after : /\ updates[i] = Moved(r, r.position - 1) /\ r \in rows
                             /\ updates[i].id = r.id /\ updates[i].position = r.position - 1
                             /\ updates[i].module = r.module /\ updates[i].contentId = r.contentId
      BY <1>12
    <3>2. PICK s \in after : /\ updates[j] = Moved(s, s.position - 1) /\ s \in rows
                             /\ updates[j].id = s.id /\ updates[j].position = s.position - 1
                             /\ updates[j].module = s.module /\ updates[j].contentId = s.contentId
      BY <1>12
    <3>3. r.position \in Nat /\ s.position \in Nat
      BY <1>4, <3>1, <3>2
    <3>4. r.id = s.id \/ Clashes(r, s)
      BY <2>3, <3>1, <3>2, <3>3 DEF Clashes
    <3>5. r = s
      BY <1>11, <3>1, <3>2, <3>4
    <3> QED
      BY <1>7, <3>1, <3>2, <3>5
  <2>4. ASSUME NEW i \in 1 .. n, NEW m \in M, Clashes(m, updates[i])
        PROVE  m.id = updates[i].id
    <3>1. PICK r \in after : /\ r \in rows /\ updates[i].id = r.id
                             /\ updates[i].position = r.position - 1
                             /\ updates[i].module = r.module /\ updates[i].contentId = r.contentId
      BY <1>12
    <3>2. PICK s \in rows : /\ m.id = s.id /\ m.module = s.module /\ m.contentId = s.contentId
                            /\ IF s \in after THEN m.position = s.position + POSITION_OFFSET
                                              ELSE m = s
      BY <1>12
    <3>3. CASE m.contentId = updates[i].contentId
      BY <1>11, <2>4, <3>1, <3>2, <3>3 DEF Clashes
    <3>4. CASE m.position = updates[i].position
      <4>1. r.module = x /\ s.module = x
        BY <1>10, <2>4, <3>1, <3>2 DEF Clashes
      <4>2. r.position > p /\ r.position <= POSITION_OFFSET /\ r.position \in Nat
            /\ s.position \in Nat /\ s.position # p /\ p \in Nat
        BY <1>4, <1>10, <3>1, <4>1, OffsetIsNatural
      <4>3. CASE s \in after
        BY <3>1, <3>2, <3>4, <4>2, <4>3, OffsetIsNatural
      <4>4. CASE s \notin after
        BY <1>10, <3>1, <3>2, <3>4, <4>1, <4>2, <4>4
      <4> QED
        BY <4>3, <4>4
    <3> QED
      BY <2>4, <3>3, <3>4 DEF Clashes
  <2> QED
    BY <2>2, <2>3, <2>4 DEF LessonUpdatesFit
<1>14. UpdateLessons(u, updates) =
         [modules |-> t.modules, lessons |-> LessonsAfter(M, updates, n), ok |-> TRUE]
  <2>1. IsTransaction(u) /\ u.lessons = M /\ u.modules = t.modules
    BY <1>2 DEF IsTransaction
  <2> HIDE DEF M
  <2>2. /\ AreLessons(u.lessons) /\ LessonsFit(u.lessons)
        /\ LessonUpdatesFit(u.lessons, updates, n) /\ n \in Nat /\ Len(updates) = n
    BY <1>3, <1>7, <1>13, <2>1
  <2>3. UpdateLessons(u, updates) =
          [modules |-> u.modules, lessons |-> LessonsAfter(u.lessons, updates, n), ok |-> TRUE]
    BY <2>1, <2>2, LessonsUpdated
  <2> QED
    BY <2>1, <2>3
<1>15. LessonsAfter(M, updates, n) = ClosedLessons(rows, x, p)
  <2> DEFINE Up(r) == IF r \in after THEN High(r) ELSE r
             Closed(r) == IF r.module = x THEN ClosedUp(r, p) ELSE r
  <2>1. \A r \in rows : Up(r) \in M
    BY LiftedIs DEF Raise
  <2>2. ASSUME NEW r \in rows PROVE AfterLessons(updates, n, Up(r)) = Closed(r)
    <3>1. IsLesson(Up(r)) /\ Up(r).id = r.id
      BY <1>3, <1>6, <2>1 DEF AreLessons
    <3>2. n \in 0 .. n
      BY <1>7
    <3>3. CASE r \in after
      <4>1. PICK i \in 1 .. n : updates[i] = Moved(r, r.position - 1)
        BY <1>7, <3>3
      <4>2. updates[i].id = Up(r).id
        BY <1>6, <3>1, <4>1
      <4>3. AfterLessons(updates, n, Up(r)) = Put(Up(r), updates[i])
        <5> HIDE DEF Up
        <5> QED
          BY <1>7, <1>13, <2>1, <3>1, <3>2, <4>2, AfterLessonsIs
      <4>4. Put(High(r), Moved(r, r.position - 1)) = Moved(r, r.position - 1)
        BY <1>6
      <4> QED
        BY <1>10, <3>3, <4>1, <4>3, <4>4 DEF ClosedUp
    <3>4. CASE r \notin after
      <4>1. Up(r) = r
        BY <3>4
      <4>2. ~Assigns(updates, n, r)
        BY <1>1, <1>11, <1>12, <3>4 DEF Assigns
      <4>3. AfterLessons(updates, n, r) = r
        BY <4>2 DEF AfterLessons
      <4> QED
        BY <1>10, <3>4, <4>1, <4>3 DEF ClosedUp
    <3> QED
      BY <3>3, <3>4
  <2>3. \A s \in M : \E r \in rows : s = Up(r)
    BY <1>12
  <2>4. ClosedLessons(rows, x, p) = {Closed(r) : r \in rows}
    BY DEF ClosedLessons
  <2> HIDE DEF M, Up, Closed
  <2> QED
    BY <2>1, <2>2, <2>3, <2>4 DEF LessonsAfter
<1> QED
  BY <1>8, <1>14, <1>15

-----------------------------------------------------------------------------
(* Counting rows *)

\* Rows with the same ids are as many.
LEMMA SameIds ==
  ASSUME NEW rows, NEW new, IsFiniteSet(rows), KeyedById(rows), KeyedById(new),
         \A r \in rows : \E s \in new : s.id = r.id,
         \A s \in new : \E r \in rows : s.id = r.id
  PROVE  IsFiniteSet(new) /\ Cardinality(new) = Cardinality(rows)
<1> DEFINE f == [r \in rows |-> CHOOSE s \in new : s.id = r.id]
<1>1. \A r \in rows : f[r] \in new /\ f[r].id = r.id
  OBVIOUS
<1>2. f \in [rows -> new] /\ DOMAIN f = rows
  BY <1>1
<1> HIDE DEF f
<1>3. \A r, s \in rows : f[r] = f[s] => r = s
  BY <1>1 DEF KeyedById
<1>4. \A s \in new : \E r \in rows : f[r] = s
  BY <1>1 DEF KeyedById
<1>5. f \in Bijection(rows, new)
  BY <1>2, <1>3, <1>4 DEF Bijection, Injection, Surjection, IsInjective
<1>6. ExistsBijection(rows, new)
  BY <1>5 DEF ExistsBijection
<1> QED
  BY <1>6, FS_Bijection

\* A row is taken out, and those after it close up.
LEMMA ClosingLeavesNoGap ==
  ASSUME NEW rows, IsFiniteSet(rows), KeyedById(rows), Apart(rows), Contiguous(rows),
         NEW r \in rows, NEW new, KeyedById(new),
         \A s \in rows : s # r => \E q \in new :
             /\ q.id = s.id
             /\ q.position = IF s.position > r.position THEN s.position - 1 ELSE s.position,
         \A q \in new : \E s \in rows :
             /\ s # r /\ q.id = s.id
             /\ q.position = IF s.position > r.position THEN s.position - 1 ELSE s.position
  PROVE  Contiguous(new)
<1> DEFINE n == Cardinality(rows)
<1>1. n \in Nat
  BY FS_CardinalityType
<1>2. IsFiniteSet(rows \ {r}) /\ Cardinality(rows \ {r}) = n - 1
  BY FS_RemoveElement
<1>3. Cardinality(new) = n - 1
  <2> DEFINE rest == rows \ {r}
  <2>1. /\ KeyedById(rest)
        /\ \A s \in rest : \E q \in new : q.id = s.id
        /\ \A q \in new : \E s \in rest : q.id = s.id
    BY DEF KeyedById
  <2> HIDE DEF rest
  <2>2. IsFiniteSet(rest) /\ Cardinality(rest) = n - 1
    BY <1>2 DEF rest
  <2> QED
    BY <2>1, <2>2, SameIds
<1>4. \A s \in rows : s.position \in 1 .. n
  BY DEF Contiguous
<1>5. \A k \in 1 .. n : \E s \in rows : s.position = k
  BY DEF Contiguous
<1>6. \A s \in rows : s # r => s.position # r.position
  BY DEF Apart
<1>7. ASSUME NEW q \in new PROVE q.position \in 1 .. n - 1
  <2>1. PICK s \in rows :
             /\ s # r /\ q.id = s.id
             /\ q.position = IF s.position > r.position THEN s.position - 1 ELSE s.position
    OBVIOUS
  <2>2. s.position \in 1 .. n /\ r.position \in 1 .. n /\ s.position # r.position
    BY <1>4, <1>6, <2>1
  <2> HIDE DEF n
  <2> QED
    BY <1>1, <2>1, <2>2
<1>8. ASSUME NEW k \in 1 .. n - 1 PROVE \E q \in new : q.position = k
  <2>0. r.position \in 1 .. n
    BY <1>4
  <2> HIDE DEF n
  <2>1. CASE k < r.position
    <3>1. k \in 1 .. n
      BY <1>1
    <3>2. PICK s \in rows : s.position = k
      BY <1>5, <3>1
    <3>3. s # r /\ ~(s.position > r.position)
      BY <1>1, <2>0, <2>1, <3>2
    <3> QED
      BY <3>2, <3>3
  <2>2. CASE k >= r.position
    <3>1. k + 1 \in 1 .. n
      BY <1>1
    <3>2. PICK s \in rows : s.position = k + 1
      BY <1>5, <3>1
    <3>3. s # r /\ s.position > r.position /\ s.position - 1 = k
      BY <1>1, <2>0, <2>2, <3>2
    <3> QED
      BY <3>2, <3>3
  <2> QED
    BY <1>1, <2>0, <2>1, <2>2
<1> QED
  BY <1>3, <1>7, <1>8 DEF Contiguous

\* A row is put after the last.
LEMMA LastIs ==
  ASSUME NEW rows, NEW n \in Nat, \A r \in rows : r.position \in 1 .. n
  PROVE  /\ LastPosition(rows) \in 0 .. n
         /\ \A r \in rows : r.position <= LastPosition(rows)
         /\ rows # {} => \E r \in rows : r.position = LastPosition(rows)
<1>1. CASE rows = {}
  BY <1>1 DEF LastPosition
<1>2. CASE rows # {}
  <2> DEFINE S == {r.position : r \in rows}
  <2>1. S \in SUBSET (0 .. n) /\ S # {}
    <3>1. \A r \in rows : r.position \in 0 .. n
      OBVIOUS
    <3> QED
      BY <1>2, <3>1
  <2>2. \A r \in rows : r.position \in S
    OBVIOUS
  <2>3. \A z \in S : \E r \in rows : r.position = z
    OBVIOUS
  <2>4. LastPosition(rows) = Max(S)
    BY <1>2 DEF LastPosition
  <2> HIDE DEF S
  <2>5. \E z \in S : \A y \in S : z >= y
    BY <2>1, GreatestExists
  <2>6. Max(S) \in S /\ \A y \in S : Max(S) >= y
    BY <2>5 DEF Max
  <2> QED
    BY <1>2, <2>1, <2>2, <2>3, <2>4, <2>6
<1> QED
  BY <1>1, <1>2

LEMMA AppendingLeavesNoGap ==
  ASSUME NEW rows, IsFiniteSet(rows), Contiguous(rows), NEW r, r \notin rows,
         r.position = LastPosition(rows) + 1
  PROVE  Contiguous(rows \cup {r})
<1> DEFINE n == Cardinality(rows)
<1>1. n \in Nat /\ Cardinality(rows \cup {r}) = n + 1
  BY FS_CardinalityType, FS_AddElement
<1>2. {s.position : s \in rows} = 1 .. n
  BY DEF Contiguous
<1>3. \A s \in rows : s.position \in 1 .. n
  BY <1>2
<1>4. \A k \in 1 .. n : \E s \in rows : s.position = k
  BY <1>2
<1>5. LastPosition(rows) = n
  <2> HIDE DEF n
  <2>1. LastPosition(rows) \in 0 .. n /\ \A s \in rows : s.position <= LastPosition(rows)
    BY <1>1, <1>3, LastIs
  <2>2. CASE n = 0
    BY <2>1, <2>2
  <2>3. CASE n # 0
    <3>1. PICK s \in rows : s.position = n
      BY <1>1, <1>4, <2>3
    <3> QED
      BY <1>1, <2>1, <3>1
  <2> QED
    BY <2>2, <2>3
<1>6. {s.position : s \in rows \cup {r}} = {s.position : s \in rows} \cup {n + 1}
  BY <1>5
<1>7. (1 .. n) \cup {n + 1} = 1 .. n + 1
  <2> HIDE DEF n
  <2> QED
    BY <1>1
<1> QED
  BY <1>1, <1>2, <1>6, <1>7 DEF Contiguous

-----------------------------------------------------------------------------
(* Deleting and creating *)

\* A view in which all went through, and its rows as they should be.
GoesThrough(u, v, n, C, B) == u.ok = TRUE /\ Sound(u) /\ Within(u, v, n, C, B)

\* Rows taken out of a view.
Keeping(t, M, L) == [t EXCEPT !.modules = M, !.lessons = L]
KeepingLessons(t, L) == [t EXCEPT !.lessons = L]

LEMMA KeepingIs ==
  ASSUME NEW t, IsTransaction(t), NEW M, NEW L
  PROVE  /\ Keeping(t, M, L) = [modules |-> M, lessons |-> L, ok |-> TRUE]
         /\ KeepingLessons(t, L) = [modules |-> t.modules, lessons |-> L, ok |-> TRUE]
<1> DEFINE w == [t EXCEPT !.modules = M]
<1>1. w = [modules |-> M, lessons |-> t.lessons, ok |-> t.ok]
  BY DEF IsTransaction
<1>2. KeepingLessons(t, L) = [modules |-> t.modules, lessons |-> L, ok |-> t.ok]
  BY DEF IsTransaction, KeepingLessons
<1>3. Keeping(t, M, L) = [w EXCEPT !.lessons = L]
  BY DEF Keeping
<1>4. [w EXCEPT !.lessons = L] = [modules |-> M, lessons |-> L, ok |-> t.ok]
  <2> HIDE DEF w
  <2> QED
    BY <1>1
<1>5. \A N, K : [modules |-> N, lessons |-> K, ok |-> t.ok] =
                [modules |-> N, lessons |-> K, ok |-> TRUE]
  BY Zenon DEF IsTransaction
<1> QED
  BY <1>2, <1>3, <1>4, <1>5

LEMMA ModuleClosesUp ==
  ASSUME NEW r, IsModule(r), NEW p
  PROVE  /\ IsModule(ClosedUp(r, p)) /\ ClosedUp(r, p).id = r.id
         /\ ClosedUp(r, p).position = IF r.position > p THEN r.position - 1 ELSE r.position
BY ModuleMoved DEF ClosedUp

LEMMA LessonClosesUp ==
  ASSUME NEW r, IsLesson(r), NEW p
  PROVE  LET c == ClosedUp(r, p) IN
         /\ IsLesson(c) /\ c.id = r.id /\ c.module = r.module /\ c.contentId = r.contentId
         /\ c.body = r.body
         /\ c.position = IF r.position > p THEN r.position - 1 ELSE r.position
<1>1. Moved(r, r.position - 1) = Placed(r, r.module, r.contentId, r.position - 1)
  BY LessonPlaced
<1> DEFINE k == Moved(r, r.position - 1)
<1>2. /\ IsLesson(k) /\ k.id = r.id /\ k.module = r.module /\ k.contentId = r.contentId
      /\ k.body = r.body /\ k.position = r.position - 1
  BY <1>1, LessonPlaced
<1> HIDE DEF k
<1> QED
  BY <1>2 DEF ClosedUp, k

LEMMA WithinIsLow ==
  ASSUME NEW t, NEW v, NEW n \in Nat, n + 1 <= POSITION_OFFSET, NEW C, NEW B,
         Within(t, v, n, C, B)
  PROVE  /\ Low(t.modules) /\ Low(t.lessons)
         /\ \A r \in t.modules \cup t.lessons : r.position \in 1 .. n + 1
BY OffsetIsNatural DEF Low, Within

\* deleteModule(): the lessons go with their module, and its siblings close up.
LEMMA ModuleDeleted ==
  ASSUME NEW t, IsTransaction(t), Sound(t), NEW v, NEW n \in Nat,
         n + 1 <= POSITION_OFFSET, NEW C, NEW B, Within(t, v, n, C, B), NEW m \in t.modules
  PROVE  /\ GoesThrough(deleteModule(t, m), v, n, C, B)
         /\ PositionsAreContiguous(t) => PositionsAreContiguous(deleteModule(t, m))
<1> DEFINE p    == m.position
           rows == t.modules \ {m}
           kept == {l \in t.lessons : l.module # m.id}
           new  == ClosedModules(rows, p)
           u    == [modules |-> rows, lessons |-> kept, ok |-> TRUE]
<1>1. u = Keeping(t, rows, kept)
  <2> HIDE DEF rows, kept
  <2> QED
    BY KeepingIs
<1>2. deleteModule(t, m) = CloseModules(u, p)
  <2>1. deleteModule(t, m) = CloseModules(Keeping(t, rows, kept), p)
    BY DEF deleteModule, Keeping
  <2> HIDE DEF u, rows, kept
  <2> QED
    BY <1>1, <2>1
<1>3. /\ AreModules(rows) /\ ModulesFit(rows) /\ IsFiniteSet(rows) /\ Low(rows)
      /\ p \in 1 .. POSITION_OFFSET /\ \A r \in rows : r.position # p
  <2>1. IsFiniteSet(rows)
    BY FS_Subset DEF Sound
  <2> QED
    BY <2>1, WithinIsLow DEF Sound, AreModules, KeyedById, ModulesFit, Low
<1>4. deleteModule(t, m) = [modules |-> new, lessons |-> kept, ok |-> TRUE]
  <2>1. IsTransaction(u) /\ u.modules = rows /\ u.lessons = kept
    BY DEF IsTransaction
  <2> HIDE DEF u, rows, p, kept
  <2>2. /\ AreModules(u.modules) /\ ModulesFit(u.modules) /\ IsFiniteSet(u.modules)
        /\ Low(u.modules) /\ \A r \in u.modules : r.position # p
    BY <1>3, <2>1
  <2>3. CloseModules(u, p) =
          [modules |-> ClosedModules(u.modules, p), lessons |-> u.lessons, ok |-> TRUE]
    BY <1>3, <2>1, <2>2, ModulesClosed
  <2> QED
    BY <1>2, <2>1, <2>3
<1>5. \A r \in rows : /\ IsModule(ClosedUp(r, p)) /\ ClosedUp(r, p).id = r.id
                      /\ ClosedUp(r, p).position = IF r.position > p THEN r.position - 1 ELSE r.position
  BY <1>3, ModuleClosesUp DEF AreModules
<1>6. /\ \A q \in new : \E r \in rows : q = ClosedUp(r, p)
      /\ \A r \in rows : ClosedUp(r, p) \in new
  BY DEF ClosedModules
<1>7. \A r \in t.modules : r.position \in 1 .. n + 1 /\ r.id \in {v} \X (1 .. n)
  BY DEF Within
<1> DEFINE d == deleteModule(t, m)
<1>8. d.modules = new /\ d.lessons = kept /\ d.ok = TRUE
  BY <1>4
<1> HIDE DEF d, new
<1>9. AreModules(new)
  <2>1. \A q \in new : IsModule(q)
    BY <1>5, <1>6
  <2>2. KeyedById(new)
    <3> HIDE DEF rows
    <3> QED
      BY <1>3, <1>5, <1>6 DEF AreModules, KeyedById
  <2> QED
    BY <2>1, <2>2 DEF AreModules
<1>10. IsFiniteSet(new)
  <2>1. \A r \in rows : \E q \in new : q.id = r.id
    BY <1>5, <1>6
  <2>2. \A q \in new : \E r \in rows : q.id = r.id
    BY <1>5, <1>6
  <2> HIDE DEF rows
  <2> QED
    BY <1>3, <1>9, <2>1, <2>2, SameIds DEF AreModules
<1>11. \A q \in new : \E r \in t.modules :
          /\ r # m /\ q.id = r.id
          /\ q.position = IF r.position > p THEN r.position - 1 ELSE r.position
  BY <1>5, <1>6
<1>12. ModulesFit(new)
  <2> SUFFICES ASSUME NEW q \in new, NEW z \in new, q.position = z.position PROVE q = z
    BY DEF ModulesFit
  <2>1. PICK r \in rows : q = ClosedUp(r, p)
    BY <1>6
  <2>2. PICK s \in rows : z = ClosedUp(s, p)
    BY <1>6
  <2>3. r.position = s.position
    BY <1>3, <1>5, <1>7, <2>1, <2>2
  <2> QED
    BY <1>3, <2>1, <2>2, <2>3 DEF ModulesFit
<1>13. \A q \in new : q.id \in {v} \X (1 .. n) /\ q.position \in 1 .. n + 1
  <2> SUFFICES ASSUME NEW q \in new PROVE q.id \in {v} \X (1 .. n) /\ q.position \in 1 .. n + 1
    OBVIOUS
  <2>1. PICK r \in t.modules :
          /\ r # m /\ q.id = r.id
          /\ q.position = IF r.position > p THEN r.position - 1 ELSE r.position
    BY <1>11
  <2> QED
    BY <1>3, <1>7, <2>1
<1>14. Sound(d)
  <2>1. AreLessons(kept) /\ LessonsFit(kept) /\ IsFiniteSet(kept)
    <3>1. IsFiniteSet(kept)
      BY FS_Subset DEF Sound
    <3> QED
      BY <3>1 DEF Sound, AreLessons, LessonsFit, KeyedById
  <2>2. ASSUME NEW l \in kept PROVE \E q \in new : l.module = q.id
    <3>1. PICK r \in t.modules : l.module = r.id
      BY DEF Sound
    <3>2. r \in rows
      BY <3>1
    <3> QED
      BY <1>5, <1>6, <3>1, <3>2
  <2> QED
    BY <1>8, <1>9, <1>10, <1>12, <2>1, <2>2 DEF Sound
<1>15. Within(d, v, n, C, B)
  BY <1>8, <1>13 DEF Within
<1>16. ASSUME PositionsAreContiguous(t) PROVE PositionsAreContiguous(d)
  <2>1. Contiguous(new)
    <3>1. \A r \in t.modules : r # m => \E q \in new :
            /\ q.id = r.id
            /\ q.position = IF r.position > p THEN r.position - 1 ELSE r.position
      BY <1>5, <1>6
    <3>2. /\ IsFiniteSet(t.modules) /\ KeyedById(t.modules) /\ Apart(t.modules)
          /\ Contiguous(t.modules) /\ KeyedById(new)
      BY <1>9, <1>16 DEF Sound, AreModules, Apart, ModulesFit, PositionsAreContiguous
    <3> QED
      BY <1>11, <3>1, <3>2, ClosingLeavesNoGap
  <2>2. ASSUME NEW q \in new PROVE Contiguous(LessonsOf(d, q.id))
    <3>1. PICK r \in rows : q.id = r.id
      BY <1>5, <1>6
    <3>2. r.id # m.id
      BY <3>1 DEF Sound, AreModules, KeyedById
    <3>3. LessonsOf(d, r.id) = LessonsOf(t, r.id)
      BY <1>8, <3>2 DEF LessonsOf
    <3> QED
      BY <1>16, <3>1, <3>3 DEF PositionsAreContiguous
  <2> QED
    BY <1>8, <2>1, <2>2 DEF PositionsAreContiguous
<1> QED
  BY <1>8, <1>14, <1>15, <1>16 DEF GoesThrough, d

\* deleteLesson(): the lessons after it in its module close up.
LEMMA LessonDeleted ==
  ASSUME NEW t, IsTransaction(t), Sound(t), NEW v, NEW n \in Nat,
         n + 1 <= POSITION_OFFSET, NEW C, NEW B, Within(t, v, n, C, B), NEW l \in t.lessons
  PROVE  /\ GoesThrough(deleteLesson(t, l), v, n, C, B)
         /\ PositionsAreContiguous(t) => PositionsAreContiguous(deleteLesson(t, l))
<1> DEFINE p    == l.position
           x    == l.module
           rows == t.lessons \ {l}
           new  == ClosedLessons(rows, x, p)
           u    == [modules |-> t.modules, lessons |-> rows, ok |-> TRUE]
           Closed(r) == IF r.module = x THEN ClosedUp(r, p) ELSE r
<1>1. u = KeepingLessons(t, rows)
  <2> HIDE DEF rows
  <2> QED
    BY KeepingIs
<1>2. deleteLesson(t, l) = CloseLessons(u, x, p)
  <2>1. deleteLesson(t, l) = CloseLessons(KeepingLessons(t, rows), x, p)
    BY DEF deleteLesson, KeepingLessons
  <2> HIDE DEF u, rows
  <2> QED
    BY <1>1, <2>1
<1>3. /\ AreLessons(rows) /\ LessonsFit(rows) /\ IsFiniteSet(rows) /\ Low(rows)
      /\ p \in 1 .. POSITION_OFFSET /\ \A r \in rows : r.module = x => r.position # p
  <2>1. IsFiniteSet(rows)
    BY FS_Subset DEF Sound
  <2> QED
    BY <2>1, WithinIsLow DEF Sound, AreLessons, KeyedById, LessonsFit, Low
<1>4. deleteLesson(t, l) = [modules |-> t.modules, lessons |-> new, ok |-> TRUE]
  <2>1. IsTransaction(u) /\ u.modules = t.modules /\ u.lessons = rows
    BY DEF IsTransaction
  <2> HIDE DEF u, rows, p, x
  <2>2. /\ AreLessons(u.lessons) /\ LessonsFit(u.lessons) /\ IsFiniteSet(u.lessons)
        /\ Low(u.lessons) /\ \A r \in u.lessons : r.module = x => r.position # p
    BY <1>3, <2>1
  <2>3. CloseLessons(u, x, p) =
          [modules |-> u.modules, lessons |-> ClosedLessons(u.lessons, x, p), ok |-> TRUE]
    BY <1>3, <2>1, <2>2, LessonsClosed
  <2> QED
    BY <1>2, <2>1, <2>3
<1>5. ASSUME NEW r \in rows
      PROVE  /\ IsLesson(Closed(r)) /\ Closed(r).id = r.id /\ Closed(r).module = r.module
             /\ Closed(r).contentId = r.contentId /\ Closed(r).body = r.body
             /\ Closed(r).position =
                  IF r.module = x /\ r.position > p THEN r.position - 1 ELSE r.position
  <2>1. IsLesson(r)
    BY <1>3 DEF AreLessons
  <2>2. CASE r.module = x
    BY <2>1, <2>2, LessonClosesUp
  <2>3. CASE r.module # x
    BY <2>1, <2>3
  <2> QED
    BY <2>2, <2>3
<1>6. /\ \A q \in new : \E r \in rows : q = Closed(r)
      /\ \A r \in rows : Closed(r) \in new
  BY DEF ClosedLessons
<1>7. \A r \in t.lessons : r.position \in 1 .. n + 1 /\ r.id \in {v} \X (1 .. n)
  BY DEF Within
<1> DEFINE d == deleteLesson(t, l)
<1>8. d.modules = t.modules /\ d.lessons = new /\ d.ok = TRUE
  BY <1>4
<1> HIDE DEF d, new, Closed
<1>9. AreLessons(new)
  <2>1. \A q \in new : IsLesson(q)
    BY <1>5, <1>6
  <2>2. KeyedById(new)
    <3> HIDE DEF rows
    <3> QED
      BY <1>3, <1>5, <1>6 DEF AreLessons, KeyedById
  <2> QED
    BY <2>1, <2>2 DEF AreLessons
<1>10. IsFiniteSet(new)
  <2>1. \A r \in rows : \E q \in new : q.id = r.id
    BY <1>5, <1>6
  <2>2. \A q \in new : \E r \in rows : q.id = r.id
    BY <1>5, <1>6
  <2> HIDE DEF rows
  <2> QED
    BY <1>3, <1>9, <2>1, <2>2, SameIds DEF AreLessons
<1>11. \A q \in new : \E r \in t.lessons :
          /\ r # l /\ q.id = r.id /\ q.module = r.module /\ q.contentId = r.contentId
          /\ q.body = r.body
          /\ q.position = IF r.module = x /\ r.position > p THEN r.position - 1 ELSE r.position
  BY <1>5, <1>6
<1>12. LessonsFit(new)
  <2> SUFFICES ASSUME NEW q \in new, NEW z \in new, Clashes(q, z) PROVE q = z
    BY DEF LessonsFit, Clashes
  <2>1. PICK r \in rows : q = Closed(r)
    BY <1>6
  <2>2. PICK s \in rows : z = Closed(s)
    BY <1>6
  <2>3. r.position \in 1 .. n + 1 /\ s.position \in 1 .. n + 1 /\ p \in Nat
        /\ (r.module = x => r.position # p) /\ (s.module = x => s.position # p)
    BY <1>3, <1>7, OffsetIsNatural
  <2>4. /\ q.module = r.module /\ q.contentId = r.contentId
        /\ q.position = IF r.module = x /\ r.position > p THEN r.position - 1 ELSE r.position
    BY <1>5, <2>1
  <2>5. /\ z.module = s.module /\ z.contentId = s.contentId
        /\ z.position = IF s.module = x /\ s.position > p THEN s.position - 1 ELSE s.position
    BY <1>5, <2>2
  <2>6. r.module = s.module /\ (q.position = z.position => r.position = s.position)
    <3> DEFINE i == r.position  j == s.position
    <3>1. r.module = s.module
      BY <2>4, <2>5 DEF Clashes
    <3>2. i \in Nat /\ j \in Nat /\ p \in Nat
      BY <2>3
    <3>3. CASE r.module = x
      <4>1. /\ i # p /\ j # p
            /\ q.position = IF i > p THEN i - 1 ELSE i
            /\ z.position = IF j > p THEN j - 1 ELSE j
        BY <2>3, <2>4, <2>5, <3>1, <3>3
      <4> HIDE DEF i, j, p
      <4>2. q.position = z.position => i = j
        BY <3>2, <4>1
      <4> QED
        BY <3>1, <4>2 DEF i, j
    <3>4. CASE r.module # x
      BY <2>4, <2>5, <3>1, <3>4
    <3> QED
      BY <3>3, <3>4
  <2>7. r = s
    BY <1>3, <2>4, <2>5, <2>6 DEF LessonsFit, Clashes
  <2> QED
    BY <2>1, <2>2, <2>7
<1>13. \A q \in new : /\ q.id \in {v} \X (1 .. n) /\ q.position \in 1 .. n + 1
                      /\ q.contentId \in C /\ q.body \in B
  <2> SUFFICES ASSUME NEW q \in new
               PROVE  /\ q.id \in {v} \X (1 .. n) /\ q.position \in 1 .. n + 1
                      /\ q.contentId \in C /\ q.body \in B
    OBVIOUS
  <2>1. PICK r \in t.lessons :
          /\ r # l /\ q.id = r.id /\ q.module = r.module /\ q.contentId = r.contentId
          /\ q.body = r.body
          /\ q.position = IF r.module = x /\ r.position > p THEN r.position - 1 ELSE r.position
    BY <1>11
  <2>2. r.contentId \in C /\ r.body \in B
    BY DEF Within
  <2> QED
    BY <1>3, <1>7, <2>1, <2>2
<1>14. Sound(d)
  <2>1. ASSUME NEW q \in new PROVE \E m \in t.modules : q.module = m.id
    BY <1>11 DEF Sound
  <2> QED
    BY <1>8, <1>9, <1>10, <1>12, <2>1 DEF Sound
<1>15. Within(d, v, n, C, B)
  BY <1>8, <1>13 DEF Within
<1>16. ASSUME PositionsAreContiguous(t) PROVE PositionsAreContiguous(d)
  <2>1. ASSUME NEW m \in t.modules PROVE Contiguous(LessonsOf(d, m.id))
    <3> DEFINE before == LessonsOf(t, m.id)
               now    == LessonsOf(d, m.id)
    <3>1. Contiguous(before)
      BY <1>16 DEF PositionsAreContiguous
    <3>2. now = {q \in new : q.module = m.id}
      BY <1>8 DEF LessonsOf
    <3>3. CASE m.id = x
      <4>1. /\ IsFiniteSet(before) /\ KeyedById(before) /\ Apart(before) /\ l \in before
        <5>1. IsFiniteSet(before)
          BY FS_Subset DEF Sound, LessonsOf
        <5> QED
          BY <3>3, <5>1 DEF Sound, AreLessons, KeyedById, Apart, LessonsFit, LessonsOf
      <4>2. KeyedById(now)
        BY <1>9, <3>2 DEF AreLessons, KeyedById
      <4>3. \A s \in before : s # l => s \in rows /\ s.module = x
        BY <3>3 DEF LessonsOf
      <4>4. \A s \in before : s # l => \E q \in now :
              /\ q.id = s.id
              /\ q.position = IF s.position > p THEN s.position - 1 ELSE s.position
        <5> HIDE DEF rows, before, now
        <5> QED
          BY <1>5, <1>6, <3>2, <3>3, <4>3
      <4>5. \A q \in now : \E s \in before :
              /\ s # l /\ q.id = s.id
              /\ q.position = IF s.position > p THEN s.position - 1 ELSE s.position
        <5> SUFFICES ASSUME NEW q \in now
                     PROVE  \E s \in before :
                              /\ s # l /\ q.id = s.id
                              /\ q.position = IF s.position > p THEN s.position - 1 ELSE s.position
          OBVIOUS
        <5>1. PICK r \in t.lessons :
                /\ r # l /\ q.id = r.id /\ q.module = r.module
                /\ q.position = IF r.module = x /\ r.position > p THEN r.position - 1 ELSE r.position
          BY <1>11, <3>2
        <5>2. r.module = x /\ r \in before
          BY <3>2, <3>3, <5>1 DEF LessonsOf
        <5> QED
          BY <5>1, <5>2
      <4> HIDE DEF before, now
      <4>6. Contiguous(now)
        BY <3>1, <4>1, <4>2, <4>4, <4>5, ClosingLeavesNoGap
      <4> QED
        BY <4>6 DEF now
    <3>4. CASE m.id # x
      <4>1. now = before
        <5>1. \A q \in now : q \in before
          BY <1>6, <1>5, <3>2, <3>4 DEF Closed, LessonsOf
        <5>2. \A q \in before : q \in now
          BY <1>6, <1>5, <3>2, <3>4 DEF Closed, LessonsOf
        <5> QED
          BY <5>1, <5>2
      <4> QED
        BY <3>1, <4>1
    <3> QED
      BY <3>3, <3>4
  <2> QED
    BY <1>8, <1>16, <2>1 DEF PositionsAreContiguous
<1> QED
  BY <1>8, <1>14, <1>15, <1>16 DEF GoesThrough, d

LEMMA MoreIds ==
  ASSUME NEW t, NEW v, NEW n \in Nat, NEW C, NEW B, Within(t, v, n, C, B)
  PROVE  /\ \A r \in t.modules \cup t.lessons :
               /\ r.id \in {v} \X (1 .. n + 1) /\ r.position \in 1 .. (n + 1) + 1
               /\ r.id # <<v, n + 1>>
         /\ <<v, n + 1>> \in {v} \X (1 .. n + 1)
<1>1. (1 .. n) \subseteq 1 .. n + 1 /\ (1 .. n + 1) \subseteq 1 .. (n + 1) + 1
      /\ n + 1 \notin 1 .. n /\ n + 1 \in 1 .. n + 1
  OBVIOUS
<1>2. \A r \in t.modules \cup t.lessons : r.id \in {v} \X (1 .. n) /\ r.position \in 1 .. n + 1
  BY DEF Within
<1>3. \A i \in {v} \X (1 .. n) : i[1] = v /\ i[2] \in 1 .. n /\ i = <<i[1], i[2]>>
  OBVIOUS
<1> QED
  BY <1>1, <1>2, <1>3

\* createModule(): the new module is the last.
LEMMA ModuleCreated ==
  ASSUME NEW t, IsTransaction(t), Sound(t), NEW v, NEW n \in Nat,
         NEW C, NEW B, Within(t, v, n, C, B), NEW title
  PROVE  LET d == createModule(t, <<v, n + 1>>, title)
         IN  /\ GoesThrough(d, v, n + 1, C, B)
             /\ PositionsAreContiguous(t) => PositionsAreContiguous(d)
<1> DEFINE id  == <<v, n + 1>>
           p   == LastPosition(t.modules) + 1
           m   == [id |-> id, position |-> p, title |-> title]
           new == t.modules \cup {m}
           d   == createModule(t, id, title)
<1>1. m.id = id /\ m.position = p /\ IsModule(m)
  BY DEF IsModule
<1>2. d = WithModules(t, new)
  BY DEF createModule
<1> HIDE DEF m, id
<1>3. \A r \in t.modules : r.position \in 1 .. n + 1
  BY DEF Within
<1>4. /\ LastPosition(t.modules) \in 0 .. n + 1
      /\ \A r \in t.modules : r.position <= LastPosition(t.modules)
  BY <1>3, LastIs
<1>5. p \in 1 .. (n + 1) + 1 /\ \A r \in t.modules : r.position # p
  BY <1>3, <1>4
<1>6. ModulesFit(new)
  BY <1>1, <1>5 DEF ModulesFit, Sound
<1>7. /\ \A r \in t.modules \cup t.lessons :
            /\ r.id \in {v} \X (1 .. n + 1) /\ r.position \in 1 .. (n + 1) + 1 /\ r.id # id
      /\ id \in {v} \X (1 .. n + 1)
  BY MoreIds DEF id
<1>8. AreModules(new)
  BY <1>1, <1>7 DEF AreModules, KeyedById, Sound
<1>9. IsFiniteSet(new)
  BY FS_AddElement DEF Sound
<1>10. m \notin t.modules
  BY <1>1, <1>7
<1> HIDE DEF d, new
<1>11. d = [modules |-> new, lessons |-> t.lessons, ok |-> TRUE]
  BY <1>2, <1>6, ModulesWritten
<1>12. d.modules = new /\ d.lessons = t.lessons /\ d.ok = TRUE
  BY <1>11
<1>13. Sound(d)
  BY <1>6, <1>8, <1>9, <1>12 DEF Sound, new
<1>14. Within(d, v, n + 1, C, B)
  <2>1. \A r \in new \cup t.lessons :
           r.id \in {v} \X (1 .. n + 1) /\ r.position \in 1 .. (n + 1) + 1
    BY <1>1, <1>5, <1>7 DEF new
  <2> QED
    BY <1>12, <2>1 DEF Within
<1>15. ASSUME PositionsAreContiguous(t) PROVE PositionsAreContiguous(d)
  <2>1. Contiguous(new)
    BY <1>1, <1>10, <1>15, AppendingLeavesNoGap DEF Sound, PositionsAreContiguous, new
  <2>2. ASSUME NEW k \in t.modules PROVE Contiguous(LessonsOf(d, k.id))
    <3>1. LessonsOf(d, k.id) = LessonsOf(t, k.id)
      BY <1>12 DEF LessonsOf
    <3> QED
      BY <1>15, <3>1 DEF PositionsAreContiguous
  <2>3. Contiguous(LessonsOf(d, m.id))
    <3>1. LessonsOf(d, m.id) = {}
      <4>1. \A l \in t.lessons : \E k \in t.modules : l.module = k.id
        BY DEF Sound
      <4> QED
        BY <1>1, <1>7, <1>12, <4>1 DEF LessonsOf
    <3>2. Cardinality({}) = 0 /\ 1 .. 0 = {}
      BY FS_EmptySet
    <3> QED
      BY <3>1, <3>2 DEF Contiguous
  <2> QED
    BY <1>12, <2>1, <2>2, <2>3 DEF PositionsAreContiguous, new
<1> QED
  BY <1>12, <1>13, <1>14, <1>15 DEF GoesThrough, d, id

\* createLesson(): the new lesson is the last of its module.
LEMMA LessonCreated ==
  ASSUME NEW t, IsTransaction(t), Sound(t), NEW v, NEW n \in Nat,
         NEW C, NEW B, Within(t, v, n, C, B), NEW x, \E m \in t.modules : x = m.id,
         NEW c \in C, \A l \in t.lessons : l.contentId # c, NEW body \in B
  PROVE  LET d == createLesson(t, <<v, n + 1>>, x, c, body)
         IN  /\ GoesThrough(d, v, n + 1, C, B)
             /\ PositionsAreContiguous(t) => PositionsAreContiguous(d)
<1> DEFINE id  == <<v, n + 1>>
           own == LessonsOf(t, x)
           p   == LastPosition(own) + 1
           l   == [id |-> id, module |-> x, contentId |-> c, position |-> p,
                   body |-> body, assessments |-> 0]
           new == t.lessons \cup {l}
           d   == createLesson(t, id, x, c, body)
<1>1. /\ l.id = id /\ l.position = p /\ l.module = x /\ l.contentId = c /\ l.body = body
      /\ IsLesson(l)
  BY DEF IsLesson
<1>2. d = WithLessons(t, new)
  BY DEF createLesson
<1> HIDE DEF l, id
<1>3. /\ \A r \in own : r \in t.lessons /\ r.module = x /\ r.position \in 1 .. n + 1
      /\ \A r \in t.lessons : r.module = x => r \in own
  BY DEF Within, LessonsOf
<1>4. /\ LastPosition(own) \in 0 .. n + 1
      /\ \A r \in own : r.position <= LastPosition(own)
  <2> HIDE DEF own
  <2> QED
    BY <1>3, LastIs
<1>5. p \in 1 .. (n + 1) + 1 /\ \A r \in own : r.position # p
  <2> HIDE DEF own
  <2> QED
    BY <1>3, <1>4
<1>6. LessonsFit(new)
  BY <1>1, <1>3, <1>5 DEF LessonsFit, Sound
<1>7. /\ \A r \in t.modules \cup t.lessons :
            /\ r.id \in {v} \X (1 .. n + 1) /\ r.position \in 1 .. (n + 1) + 1 /\ r.id # id
      /\ id \in {v} \X (1 .. n + 1)
  BY MoreIds DEF id
<1>8. AreLessons(new)
  BY <1>1, <1>7 DEF AreLessons, KeyedById, Sound
<1>9. IsFiniteSet(new)
  BY FS_AddElement DEF Sound
<1>10. l \notin t.lessons
  BY <1>1, <1>7
<1> HIDE DEF d, new, own
<1>11. d = [modules |-> t.modules, lessons |-> new, ok |-> TRUE]
  BY <1>2, <1>6, LessonsWritten
<1>12. d.modules = t.modules /\ d.lessons = new /\ d.ok = TRUE
  BY <1>11
<1>13. Sound(d)
  BY <1>1, <1>6, <1>8, <1>9, <1>12 DEF Sound, new
<1>14. Within(d, v, n + 1, C, B)
  <2>1. \A r \in t.modules \cup new :
           r.id \in {v} \X (1 .. n + 1) /\ r.position \in 1 .. (n + 1) + 1
    BY <1>1, <1>5, <1>7 DEF new
  <2>2. \A r \in new : r.contentId \in C /\ r.body \in B
    BY <1>1 DEF new, Within
  <2> QED
    BY <1>12, <2>1, <2>2 DEF Within
<1>15. ASSUME PositionsAreContiguous(t), NEW k \in t.modules PROVE Contiguous(LessonsOf(d, k.id))
  <2>1. CASE k.id = x
    <3>1. LessonsOf(d, k.id) = own \cup {l}
      BY <1>1, <1>12, <2>1 DEF LessonsOf, own, new
    <3>2. IsFiniteSet(own) /\ Contiguous(own)
      BY <1>15, <2>1, FS_Subset DEF Sound, LessonsOf, own, PositionsAreContiguous
    <3>3. l \notin own
      BY <1>3, <1>10
    <3>4. Contiguous(own \cup {l})
      BY <1>1, <3>2, <3>3, AppendingLeavesNoGap
    <3> QED
      BY <3>1, <3>4
  <2>2. CASE k.id # x
    <3>1. LessonsOf(d, k.id) = LessonsOf(t, k.id)
      BY <1>1, <1>12, <2>2 DEF LessonsOf, new
    <3> QED
      BY <1>15, <3>1 DEF PositionsAreContiguous
  <2> QED
    BY <2>1, <2>2
<1>16. PositionsAreContiguous(t) => PositionsAreContiguous(d)
  BY <1>12, <1>15 DEF PositionsAreContiguous
<1> QED
  BY <1>12, <1>13, <1>14, <1>16 DEF GoesThrough, d, id

-----------------------------------------------------------------------------
(* Lessons placed, one module after the other *)

PlacingTrace(f, t, lessons, order, n) ==
    f = [i \in 0 .. n |-> IF i = 0 THEN t
                          ELSE UpdateLessons(f[i - 1], Placements(lessons, order[i]))]

LEMMA PlacingTraceExists ==
  ASSUME NEW t, NEW lessons, NEW order, NEW n \in Nat
  PROVE  \E f : PlacingTrace(f, t, lessons, order, n)
<1> DEFINE S == {k \in Nat : \E f : PlacingTrace(f, t, lessons, order, k)}
<1>1. 0 \in S
  <2>1. PlacingTrace([i \in 0 .. 0 |-> t], t, lessons, order, 0)
    BY DEF PlacingTrace
  <2> QED
    BY <2>1
<1>2. ASSUME NEW k \in Nat, k \in S PROVE k + 1 \in S
  <2>1. PICK f : PlacingTrace(f, t, lessons, order, k)
    BY <1>2
  <2> DEFINE u == UpdateLessons(f[k], Placements(lessons, order[k + 1]))
             g == [i \in 0 .. k + 1 |-> IF i = k + 1 THEN u ELSE f[i]]
  <2>2. /\ g[0] = t /\ g[k + 1] = u /\ g[k] = f[k]
        /\ \A i \in 1 .. k : g[i] = UpdateLessons(g[i - 1], Placements(lessons, order[i]))
    <3>1. f[0] = t /\ \A i \in 1 .. k :
                        f[i] = UpdateLessons(f[i - 1], Placements(lessons, order[i]))
      BY <2>1 DEF PlacingTrace
    <3> HIDE DEF u
    <3>2. \A i \in 0 .. k : g[i] = f[i]
      OBVIOUS
    <3>3. \A i \in 1 .. k : i \in 0 .. k /\ i - 1 \in 0 .. k
      OBVIOUS
    <3> HIDE DEF g
    <3>4. g[0] = t /\ g[k] = f[k]
      BY <3>1, <3>2
    <3>5. g[k + 1] = u
      BY DEF g
    <3>6. \A i \in 1 .. k : g[i] = UpdateLessons(g[i - 1], Placements(lessons, order[i]))
      BY <3>1, <3>2, <3>3
    <3> QED
      BY <3>4, <3>5, <3>6
  <2>3. PlacingTrace(g, t, lessons, order, k + 1)
    <3>1. g = [i \in 0 .. k + 1 |-> g[i]]
      OBVIOUS
    <3> HIDE DEF g
    <3>2. ASSUME NEW i \in 0 .. k + 1
          PROVE g[i] = IF i = 0 THEN t
                       ELSE UpdateLessons(g[i - 1], Placements(lessons, order[i]))
      <4>1. i = 0 \/ i \in 1 .. k \/ (i = k + 1 /\ i # 0 /\ i - 1 = k)
        OBVIOUS
      <4> QED
        BY <2>2, <4>1
    <3> QED
      BY <3>1, <3>2 DEF PlacingTrace
  <2> QED
    BY <2>3
<1> HIDE DEF S
<1>3. Nat \subseteq S
  BY <1>1, <1>2, EveryNumber
<1> QED
  BY <1>3 DEF S

\* f[i] is the view after the first i modules' lessons are placed.
PlacingRun(f, t, lessons, order, n) ==
    /\ PlaceLessons(t, lessons, order) = f[n] /\ f[0] = t
    /\ \A i \in 0 .. n - 1 : f[i + 1] = UpdateLessons(f[i], Placements(lessons, order[i + 1]))

LEMMA PlacingTraceRuns ==
  ASSUME NEW t, NEW lessons, NEW order, NEW n \in Nat, Len(order) = n
  PROVE  \E f : PlacingRun(f, t, lessons, order, n)
<1> DEFINE f == CHOOSE g : PlacingTrace(g, t, lessons, order, n)
<1>1. PlacingTrace(f, t, lessons, order, n)
  BY PlacingTraceExists
<1>2. PlaceLessons(t, lessons, order) = f[n]
  BY DEF PlaceLessons, PlacingTrace
<1> HIDE DEF f
<1>3. f[0] = t
  BY <1>1 DEF PlacingTrace
<1>4. ASSUME NEW i \in 0 .. n - 1
      PROVE f[i + 1] = UpdateLessons(f[i], Placements(lessons, order[i + 1]))
  <2>1. i + 1 \in 0 .. n /\ i + 1 # 0 /\ (i + 1) - 1 = i
    OBVIOUS
  <2> QED
    BY <1>1, <2>1 DEF PlacingTrace
<1> QED
  BY <1>2, <1>3, <1>4 DEF PlacingRun

-----------------------------------------------------------------------------
(* An order of all rows *)

\* Rows apart, in all positions from one to k.
LEMMA AllRanksTaken ==
  ASSUME NEW rows, NEW k \in Nat, Apart(rows), \A r \in rows : r.position \in 1 .. k,
         \A i \in 1 .. k : \E r \in rows : r.position = i
  PROVE  Contiguous(rows)
<1> DEFINE f == [i \in 1 .. k |-> CHOOSE r \in rows : r.position = i]
<1>1. \A i \in 1 .. k : f[i] \in rows /\ f[i].position = i
  OBVIOUS
<1>2. f \in [1 .. k -> rows] /\ DOMAIN f = 1 .. k
  BY <1>1
<1> HIDE DEF f
<1>3. \A i, j \in 1 .. k : f[i] = f[j] => i = j
  BY <1>1
<1>4. \A r \in rows : \E i \in 1 .. k : f[i] = r
  BY <1>1 DEF Apart
<1>5. f \in Bijection(1 .. k, rows)
  BY <1>2, <1>3, <1>4 DEF Bijection, Injection, Surjection, IsInjective
<1>6. ExistsBijection(1 .. k, rows)
  BY <1>5 DEF ExistsBijection
<1>7. Cardinality(rows) = k
  BY <1>6, FS_CountingElements
<1>8. {r.position : r \in rows} = 1 .. k
  OBVIOUS
<1> QED
  BY <1>7, <1>8 DEF Contiguous

\* There are no more different ids than have been given.
LEMMA FewIds ==
  ASSUME NEW k \in Nat, NEW n \in Nat, NEW v, NEW f,
         \A i \in 1 .. k : f[i] \in {v} \X (1 .. n),
         \A i, j \in 1 .. k : f[i] = f[j] => i = j
  PROVE  k <= n
<1> DEFINE g == [i \in 1 .. k |-> f[i][2]]
<1>1. \A i \in 1 .. k : f[i][2] \in 1 .. n /\ f[i] = <<v, f[i][2]>>
  OBVIOUS
<1>2. g \in [1 .. k -> 1 .. n] /\ DOMAIN g = 1 .. k
  BY <1>1
<1>3. \A i, j \in 1 .. k : g[i] = g[j] => i = j
  BY <1>1
<1> HIDE DEF g
<1>4. g \in Injection(1 .. k, 1 .. n)
  BY <1>2, <1>3 DEF Injection, IsInjective
<1>5. IsFiniteSet(1 .. n) /\ Cardinality(1 .. n) = n /\ Cardinality(1 .. k) = k
  BY FS_Interval
<1>6. Cardinality(1 .. k) <= Cardinality(1 .. n)
  BY <1>4, <1>5, FS_Injection
<1> QED
  BY <1>5, <1>6

Width(order, i) == Len(order[i].lessons)

\* What a permutation of all rows says of each of them.
Arranged(order, t) ==
    /\ Len(order) \in Nat /\ order = [i \in 1 .. Len(order) |-> order[i]]
    /\ \A i \in 1 .. Len(order) :
          /\ Width(order, i) \in Nat
          /\ order[i].lessons = [j \in 1 .. Width(order, i) |-> order[i].lessons[j]]
          /\ \E m \in t.modules : m.id = order[i].id
          /\ \A j \in 1 .. Width(order, i) :
                \E l \in t.lessons : l.contentId = order[i].lessons[j]
    /\ \A i, j \in 1 .. Len(order) : order[i].id = order[j].id => i = j
    /\ \A m \in t.modules : \E i \in 1 .. Len(order) : order[i].id = m.id
    /\ \A a, c \in 1 .. Len(order) : \A b \in 1 .. Width(order, a), d \in 1 .. Width(order, c) :
          order[a].lessons[b] = order[c].lessons[d] => a = c /\ b = d
    /\ \A l \in t.lessons : \E i \in 1 .. Len(order) : \E j \in 1 .. Width(order, i) :
          order[i].lessons[j] = l.contentId
    /\ \A l, k \in t.lessons : l.contentId = k.contentId => l = k

LEMMA PermutationArranges ==
  ASSUME NEW t, NEW order, IsOrder(order), Permutes(order, t)
  PROVE  Arranged(order, t)
<1> DEFINE K == Len(order)
           ids == [i \in DOMAIN order |-> order[i].id]
           places == Places(order)
           all == AllLessons(order)
<1>1. K \in Nat /\ order = [i \in 1 .. K |-> order[i]] /\ DOMAIN order = 1 .. K
  BY DEF IsOrder, IsList
<1>2. \A i \in 1 .. K : /\ Width(order, i) \in Nat
                        /\ order[i].lessons = [j \in 1 .. Width(order, i) |-> order[i].lessons[j]]
                        /\ DOMAIN order[i].lessons = 1 .. Width(order, i)
  BY DEF IsOrder, IsList, Width
<1>3. IsInjective(ids) /\ Range(ids) = {m.id : m \in t.modules}
  BY DEF Permutes, assertPermutation
<1>4. IsInjective(all) /\ Range(all) = {l.contentId : l \in t.lessons}
  BY DEF Permutes, assertPermutation
<1>5. \A i, j \in 1 .. K : order[i].id = order[j].id => i = j
  BY <1>1, <1>3 DEF IsInjective
<1>6. \A i \in 1 .. K : \E m \in t.modules : m.id = order[i].id
  <2>1. \A i \in 1 .. K : order[i].id \in Range(ids)
    BY <1>1 DEF Range
  <2> QED
    BY <1>3, <2>1
<1>7. \A m \in t.modules : \E i \in 1 .. K : order[i].id = m.id
  <2>1. \A y \in Range(ids) : \E i \in 1 .. K : order[i].id = y
    BY <1>1 DEF Range
  <2> QED
    BY <1>3, <2>1
<1>8. /\ \A a \in 1 .. K : \A b \in 1 .. Width(order, a) : <<a, b>> \in places
      /\ \A q \in places : \E a \in 1 .. K : \E b \in 1 .. Width(order, a) : q = <<a, b>>
  <2> DEFINE Of(i) == {i} \X DOMAIN order[i].lessons
  <2>1. places = UNION {Of(i) : i \in 1 .. K}
    BY <1>1 DEF Places
  <2>2. ASSUME NEW a \in 1 .. K, NEW b \in 1 .. Width(order, a) PROVE <<a, b>> \in places
    <3>1. <<a, b>> \in Of(a)
      BY <1>2
    <3> HIDE DEF Of
    <3> QED
      BY <2>1, <3>1
  <2>3. ASSUME NEW q \in places
        PROVE  \E a \in 1 .. K : \E b \in 1 .. Width(order, a) : q = <<a, b>>
    <3>1. PICK a \in 1 .. K : q \in Of(a)
      <4> HIDE DEF Of
      <4> QED
        BY <2>1
    <3>2. q \in {a} \X (1 .. Width(order, a))
      BY <1>2, <3>1
    <3>3. q = <<a, q[2]>> /\ q[2] \in 1 .. Width(order, a)
      BY <3>2
    <3> QED
      BY <3>3
  <2> QED
    BY <2>2, <2>3
<1>9. DOMAIN all = places /\ \A q \in places : all[q] = order[q[1]].lessons[q[2]]
  BY DEF AllLessons
<1> HIDE DEF all, places, ids
<1>10. \A a \in 1 .. K : \A b \in 1 .. Width(order, a) :
          <<a, b>> \in places /\ all[<<a, b>>] = order[a].lessons[b]
  BY <1>8, <1>9
<1>11. ASSUME NEW a \in 1 .. K, NEW c \in 1 .. K, NEW b \in 1 .. Width(order, a),
              NEW d \in 1 .. Width(order, c), order[a].lessons[b] = order[c].lessons[d]
       PROVE  a = c /\ b = d
  <2>1. all[<<a, b>>] = all[<<c, d>>] /\ <<a, b>> \in DOMAIN all /\ <<c, d>> \in DOMAIN all
    BY <1>9, <1>10, <1>11
  <2>2. <<a, b>> = <<c, d>>
    BY <1>4, <2>1 DEF IsInjective
  <2> QED
    BY <2>2
<1>12. ASSUME NEW a \in 1 .. K, NEW b \in 1 .. Width(order, a)
       PROVE  \E l \in t.lessons : l.contentId = order[a].lessons[b]
  <2>1. order[a].lessons[b] \in Range(all)
    BY <1>9, <1>10 DEF Range
  <2> QED
    BY <1>4, <2>1
<1>13. ASSUME NEW l \in t.lessons
       PROVE  \E i \in 1 .. K : \E j \in 1 .. Width(order, i) : order[i].lessons[j] = l.contentId
  <2>1. l.contentId \in Range(all)
    BY <1>4
  <2>2. PICK q \in places : all[q] = l.contentId
    BY <1>9, <2>1 DEF Range
  <2>3. PICK a \in 1 .. K : \E b \in 1 .. Width(order, a) : q = <<a, b>>
    BY <1>8
  <2>4. PICK b \in 1 .. Width(order, a) : q = <<a, b>>
    BY <2>3
  <2> QED
    BY <1>10, <2>2, <2>4
<1>14. \A l, k \in t.lessons : l.contentId = k.contentId => l = k
  BY DEF Permutes
<1>15. \A a, c \in 1 .. K : \A b \in 1 .. Width(order, a), d \in 1 .. Width(order, c) :
          order[a].lessons[b] = order[c].lessons[d] => a = c /\ b = d
  BY <1>11
<1> HIDE DEF K
<1> QED
  BY <1>1, <1>2, <1>5, <1>6, <1>7, <1>12, <1>13, <1>14, <1>15 DEF Arranged, K

LEMMA OrderIsShort ==
  ASSUME NEW t, NEW order, Arranged(order, t), NEW v, NEW n \in Nat, NEW C, NEW B,
         Within(t, v, n, C, B), KeyedById(t.lessons)
  PROVE  Len(order) <= n /\ \A a \in 1 .. Len(order) : Width(order, a) <= n
<1> DEFINE K == Len(order)
<1>1. Len(order) <= n
  <2> DEFINE f == [i \in 1 .. K |-> order[i].id]
  <2>1. K \in Nat /\ \A i, j \in 1 .. K : order[i].id = order[j].id => i = j
    BY DEF Arranged
  <2>2. \A i \in 1 .. K : order[i].id \in {v} \X (1 .. n)
    <3>1. \A i \in 1 .. K : \E m \in t.modules : m.id = order[i].id
      BY DEF Arranged
    <3> QED
      BY <3>1 DEF Within
  <2>3. \A i \in 1 .. K : f[i] \in {v} \X (1 .. n)
    BY <2>2
  <2>4. \A i, j \in 1 .. K : f[i] = f[j] => i = j
    BY <2>1
  <2> HIDE DEF f
  <2> QED
    BY <2>1, <2>3, <2>4, FewIds
<1>2. ASSUME NEW a \in 1 .. K PROVE Width(order, a) <= n
  <2> DEFINE w == Width(order, a)
             f == [j \in 1 .. w |->
                     (CHOOSE l \in t.lessons : l.contentId = order[a].lessons[j]).id]
  <2>1. w \in Nat /\ \A j \in 1 .. w : \E l \in t.lessons : l.contentId = order[a].lessons[j]
    BY DEF Arranged
  <2>2. \A b, d \in 1 .. w : order[a].lessons[b] = order[a].lessons[d] => b = d
    BY DEF Arranged
  <2>3. \A j \in 1 .. w : \E l \in t.lessons : l.contentId = order[a].lessons[j] /\ f[j] = l.id
    BY <2>1
  <2>4. \A l \in t.lessons : l.id \in {v} \X (1 .. n)
    BY DEF Within
  <2>5. \A l, k \in t.lessons : l.contentId = k.contentId => l = k
    BY DEF Arranged
  <2> HIDE DEF f, w
  <2>6. \A j \in 1 .. w : f[j] \in {v} \X (1 .. n)
    BY <2>3, <2>4
  <2>7. \A b, d \in 1 .. w : f[b] = f[d] => b = d
    BY <2>2, <2>3 DEF KeyedById
  <2> QED
    BY <2>1, <2>6, <2>7, FewIds DEF w
<1> QED
  BY <1>1, <1>2

\* The modules in their new order.
RankIn(order, m) == CHOOSE i \in 1 .. Len(order) : order[i].id = m.id
Ranked(rows, order) == {Moved(m, RankIn(order, m)) : m \in rows}

LEMMA RankInIs ==
  ASSUME NEW t, NEW order, Arranged(order, t), NEW m \in t.modules
  PROVE  /\ RankIn(order, m) \in 1 .. Len(order) /\ order[RankIn(order, m)].id = m.id
         /\ \A i \in 1 .. Len(order) : order[i].id = m.id => i = RankIn(order, m)
<1>1. /\ \E i \in 1 .. Len(order) : order[i].id = m.id
      /\ \A i, j \in 1 .. Len(order) : order[i].id = order[j].id => i = j
  BY DEF Arranged
<1> QED
  BY <1>1 DEF RankIn

LEMMA ModulesPlaced ==
  ASSUME NEW t, IsTransaction(t), Sound(t), NEW order, Arranged(order, t),
         Low(t.modules), Len(order) <= POSITION_OFFSET
  PROVE  PlaceModules(t, order) =
           [modules |-> Ranked(t.modules, order), lessons |-> t.lessons, ok |-> TRUE]
<1> DEFINE rows == t.modules
           K    == Len(order)
           M    == Raise(rows, rows)
           updates == [i \in DOMAIN order |-> [id |-> order[i].id, position |-> i]]
           u    == LiftModules(t, rows)
<1>1. u = [modules |-> M, lessons |-> t.lessons, ok |-> TRUE]
  BY ModulesLifted DEF Sound
<1>2. AreModules(rows) /\ AreModules(M) /\ ModulesFit(M)
  BY ModulesRaised DEF Sound
<1>3. K \in Nat /\ order = [i \in 1 .. K |-> order[i]] /\ DOMAIN order = 1 .. K
  BY DEF Arranged
<1>4. updates = [i \in 1 .. K |-> updates[i]]
  BY <1>3
<1>5. \A i \in 1 .. K : updates[i].id = order[i].id /\ updates[i].position = i
  BY <1>3
<1>6. PlaceModules(t, order) = UpdateModules(u, updates)
  BY DEF PlaceModules
<1> HIDE DEF updates, u, K
<1>7. Len(updates) = K
  BY <1>3, <1>4, LengthOf
<1>8. /\ \A s \in M : \E r \in rows : s = High(r)
      /\ \A r \in rows : High(r) \in M
  BY LiftedIs DEF Raise
<1>9. ASSUME NEW r \in rows
      PROVE  /\ IsModule(r) /\ High(r).id = r.id /\ IsModule(High(r))
             /\ High(r).position = r.position + POSITION_OFFSET
             /\ \A p : Moved(High(r), p) = Moved(r, p)
  BY <1>2, ModuleMoved DEF AreModules, High
<1>10. /\ \A i, j \in 1 .. K : order[i].id = order[j].id => i = j
       /\ \A i \in 1 .. K : \E m \in rows : m.id = order[i].id
  BY DEF Arranged, K
<1>11. \A r \in rows : /\ RankIn(order, r) \in 1 .. K /\ order[RankIn(order, r)].id = r.id
  BY RankInIs DEF K
<1>12. ModuleUpdatesFit(M, updates, K)
  <2>1. \A i \in 1 .. K : \E m \in M : m.id = updates[i].id
    BY <1>5, <1>8, <1>9, <1>10
  <2>2. /\ \A i, j \in 1 .. K : updates[i].id = updates[j].id => i = j
        /\ \A i, j \in 1 .. K : updates[i].position = updates[j].position => i = j
    BY <1>5, <1>10
  <2>3. ASSUME NEW i \in 1 .. K, NEW m \in M, m.position = updates[i].position PROVE FALSE
    <3>1. PICK r \in rows : m = High(r)
      BY <1>8
    <3>2. m.position = r.position + POSITION_OFFSET /\ r.position \in 1 .. POSITION_OFFSET
      BY <1>9, <3>1 DEF Low
    <3>3. K <= POSITION_OFFSET
      BY DEF K
    <3>4. updates[i].position = i /\ i \in 1 .. K /\ K \in Nat
      BY <1>3, <1>5
    <3> DEFINE q == r.position
    <3>5. i = q + POSITION_OFFSET /\ q \in 1 .. POSITION_OFFSET
      BY <2>3, <3>2, <3>4
    <3> HIDE DEF q
    <3> QED
      BY <3>3, <3>4, <3>5, OffsetIsNatural
  <2> QED
    BY <2>1, <2>2, <2>3 DEF ModuleUpdatesFit
<1>13. UpdateModules(u, updates) =
         [modules |-> ModulesAfter(M, updates, K), lessons |-> t.lessons, ok |-> TRUE]
  <2>1. IsTransaction(u) /\ u.modules = M /\ u.lessons = t.lessons
    BY <1>1 DEF IsTransaction
  <2> HIDE DEF M
  <2>2. /\ AreModules(u.modules) /\ ModulesFit(u.modules)
        /\ ModuleUpdatesFit(u.modules, updates, K) /\ K \in Nat /\ Len(updates) = K
    BY <1>2, <1>3, <1>7, <1>12, <2>1
  <2>3. UpdateModules(u, updates) =
          [modules |-> ModulesAfter(u.modules, updates, K), lessons |-> u.lessons, ok |-> TRUE]
    BY <2>1, <2>2, ModulesUpdated
  <2> QED
    BY <2>1, <2>3
<1>14. ModulesAfter(M, updates, K) = Ranked(rows, order)
  <2>1. ASSUME NEW r \in rows
        PROVE  AfterModules(updates, K, High(r)) = Moved(r, RankIn(order, r))
    <3> DEFINE i == RankIn(order, r)
               s == High(r)
    <3>1. /\ i \in 1 .. K /\ updates[i].id = s.id /\ updates[i].position = i
          /\ s \in M /\ IsModule(s) /\ K \in 0 .. K
      BY <1>3, <1>5, <1>8, <1>9, <1>11
    <3> HIDE DEF s, i
    <3>2. AfterModules(updates, K, s) = Moved(s, updates[i].position)
      BY <1>3, <1>12, <3>1, AfterModulesIs
    <3> QED
      BY <1>9, <3>1, <3>2 DEF s, i
  <2> HIDE DEF M
  <2> QED
    BY <1>8, <2>1 DEF ModulesAfter, Ranked
<1> QED
  BY <1>6, <1>13, <1>14

\* The lessons without their content ids.
Unnamed(rows) == {Placed(l, l.module, TemporaryId(l), l.position) : l \in rows}

LEMMA EveryRowListed ==
  ASSUME NEW rows, IsFiniteSet(rows)
  PROVE  LET seq == SetToSeq(rows)
             n   == Cardinality(rows)
         IN  /\ n \in Nat /\ seq \in [1 .. n -> rows]
             /\ \A i, j \in 1 .. n : seq[i] = seq[j] => i = j
             /\ \A r \in rows : \E i \in 1 .. n : seq[i] = r
<1> DEFINE seq == SetToSeq(rows)
           n   == Cardinality(rows)
<1>1. n \in Nat /\ ExistsBijection(1 .. n, rows)
  BY FS_CardinalityType
<1>2. \E f \in [1 .. n -> rows] : IsInjective(f)
  BY <1>1 DEF ExistsBijection, Bijection, Injection
<1>3. seq \in [1 .. n -> rows] /\ IsInjective(seq)
  BY <1>2 DEF SetToSeq
<1> HIDE DEF seq
<1>4. seq \in Injection(1 .. n, rows)
  BY <1>3 DEF Injection
<1>5. seq \in Surjection(1 .. n, rows)
  <2>1. IsFiniteSet(1 .. n) /\ Cardinality(1 .. n) = n
    BY <1>1, FS_Interval
  <2> QED
    BY <1>4, <2>1, FS_Injection
<1>6. \A r \in rows : \E i \in 1 .. n : seq[i] = r
  BY <1>5 DEF Surjection
<1>7. \A i, j \in 1 .. n : seq[i] = seq[j] => i = j
  BY <1>3 DEF IsInjective
<1> QED
  BY <1>1, <1>3, <1>6, <1>7 DEF seq

LEMMA LessonUnnamed ==
  ASSUME NEW l, IsLesson(l)
  PROVE  LET e == [l EXCEPT !.contentId = TemporaryId(l)] IN
         /\ e = Placed(l, l.module, TemporaryId(l), l.position)
         /\ e.id = l.id /\ e.module = l.module /\ e.position = l.position
         /\ e.contentId = TemporaryId(l)
         /\ IsLesson(e) /\ Put(l, e) = e
<1> DEFINE c == TemporaryId(l)
           e == [l EXCEPT !.contentId = c]
<1> HIDE DEF c
<1>1. e = Placed(l, l.module, c, l.position)
  <2>1. e = [id |-> l.id, module |-> l.module, contentId |-> c, position |-> l.position,
             body |-> l.body, assessments |-> l.assessments]
    BY DEF IsLesson
  <2>2. Placed(l, l.module, c, l.position) =
          [id |-> l.id, module |-> l.module, contentId |-> c, position |-> l.position,
           body |-> l.body, assessments |-> l.assessments]
    BY PlacedIs
  <2> HIDE DEF e
  <2> QED
    BY <2>1, <2>2
<1> HIDE DEF e
<1>2. /\ e.id = l.id /\ e.module = l.module /\ e.position = l.position /\ e.contentId = c
      /\ IsLesson(e)
  BY <1>1, LessonPlaced
<1>3. Put(l, e) = e
  BY <1>1, <1>2 DEF Put
<1> QED
  BY <1>1, <1>2, <1>3 DEF e, c

LEMMA LessonsUnnamed ==
  ASSUME NEW t, IsTransaction(t), AreLessons(t.lessons), LessonsFit(t.lessons),
         IsFiniteSet(t.lessons), \A l, k \in t.lessons : TemporaryId(k) # l.contentId
  PROVE  Unname(t) = [modules |-> t.modules, lessons |-> Unnamed(t.lessons), ok |-> TRUE]
<1> DEFINE rows == t.lessons
           n    == Cardinality(rows)
           seq  == SetToSeq(rows)
           Free(l) == [l EXCEPT !.contentId = TemporaryId(l)]
           updates == [i \in DOMAIN seq |-> Free(seq[i])]
<1>1. /\ n \in Nat /\ seq \in [1 .. n -> rows]
      /\ \A i, j \in 1 .. n : seq[i] = seq[j] => i = j
      /\ \A r \in rows : \E i \in 1 .. n : seq[i] = r
  BY EveryRowListed
<1>2. Unname(t) = UpdateLessons(t, updates)
  BY DEF Unname
<1>3. \A l \in rows : /\ Free(l) = Placed(l, l.module, TemporaryId(l), l.position)
                      /\ Free(l).id = l.id /\ Free(l).module = l.module
                      /\ Free(l).position = l.position /\ Free(l).contentId = TemporaryId(l)
                      /\ Put(l, Free(l)) = Free(l) /\ IsLesson(l)
  BY LessonUnnamed DEF AreLessons
<1> HIDE DEF seq, n, Free
<1>4. /\ updates = [i \in 1 .. n |-> updates[i]]
      /\ \A i \in 1 .. n : updates[i] = Free(seq[i]) /\ seq[i] \in rows
  BY <1>1
<1> HIDE DEF updates
<1>5. Len(updates) = n
  BY <1>1, <1>4, LengthOf
<1>6. \A l, k \in rows : /\ l.id = k.id => l = k
                         /\ Clashes(l, k) => l = k
                         /\ TemporaryId(l) = TemporaryId(k) => l.id = k.id
  BY DEF AreLessons, KeyedById, LessonsFit, Clashes, TemporaryId
<1>7. LessonUpdatesFit(rows, updates, n)
  <2>1. \A i \in 1 .. n : \E m \in rows : m.id = updates[i].id
    BY <1>3, <1>4
  <2>2. ASSUME NEW i \in 1 .. n, NEW j \in 1 .. n,
               updates[i].id = updates[j].id \/ Clashes(updates[i], updates[j])
        PROVE  i = j
    <3> DEFINE l == seq[i]  k == seq[j]
    <3>1. l \in rows /\ k \in rows /\ updates[i] = Free(l) /\ updates[j] = Free(k)
      BY <1>4
    <3>2. CASE updates[i].id = updates[j].id
      BY <1>1, <1>3, <1>6, <3>1, <3>2
    <3>3. CASE Clashes(updates[i], updates[j])
      <4> HIDE DEF l, k
      <4>1. l.id = k.id \/ Clashes(l, k)
        BY <1>3, <1>6, <3>1, <3>3 DEF Clashes
      <4> QED
        BY <1>1, <1>6, <3>1, <4>1 DEF l, k
    <3> QED
      BY <2>2, <3>2, <3>3
  <2>3. ASSUME NEW i \in 1 .. n, NEW m \in rows, Clashes(m, updates[i])
        PROVE  m.id = updates[i].id
    <3> DEFINE l == seq[i]
    <3>1. l \in rows /\ updates[i] = Free(l)
      BY <1>4
    <3> HIDE DEF l
    <3>2. Clashes(m, l)
      BY <1>3, <2>3, <3>1 DEF Clashes
    <3> QED
      BY <1>3, <1>6, <3>1, <3>2
  <2> QED
    BY <2>1, <2>2, <2>3 DEF LessonUpdatesFit
<1>8. UpdateLessons(t, updates) =
        [modules |-> t.modules, lessons |-> LessonsAfter(rows, updates, n), ok |-> TRUE]
  BY <1>1, <1>5, <1>7, LessonsUpdated
<1>9. LessonsAfter(rows, updates, n) = Unnamed(rows)
  <2>1. ASSUME NEW l \in rows PROVE AfterLessons(updates, n, l) = Free(l)
    <3>1. PICK i \in 1 .. n : updates[i] = Free(l)
      BY <1>1, <1>4
    <3>2. updates[i].id = l.id /\ IsLesson(l) /\ n \in 0 .. n
      BY <1>1, <1>3, <3>1
    <3>3. AfterLessons(updates, n, l) = Put(l, updates[i])
      BY <1>1, <1>7, <3>2, AfterLessonsIs
    <3> QED
      BY <1>3, <3>1, <3>3
  <2> QED
    BY <1>3, <2>1 DEF LessonsAfter, Unnamed
<1> QED
  BY <1>2, <1>8, <1>9

\* The lessons as they wait for their place, and in it.
HomeIn(order, l) ==
    CHOOSE a \in 1 .. Len(order) :
        \E b \in 1 .. Width(order, a) : order[a].lessons[b] = l.contentId
SeatIn(order, l) ==
    CHOOSE b \in 1 .. Width(order, HomeIn(order, l)) :
        order[HomeIn(order, l)].lessons[b] = l.contentId
Waiting(l) == Placed(l, l.module, TemporaryId(l), l.position + POSITION_OFFSET)
Seated(order, l) ==
    Placed(l, order[HomeIn(order, l)].id, l.contentId, SeatIn(order, l))
SeatAt(order, i, l) == IF HomeIn(order, l) <= i THEN Seated(order, l) ELSE Waiting(l)
SeatedUpTo(rows, order, i) == {SeatAt(order, i, l) : l \in rows}

\* What the placing relies on.
CanPlace(t, order) ==
    /\ Arranged(order, t) /\ AreLessons(t.lessons) /\ LessonsFit(t.lessons) /\ Low(t.lessons)
    /\ \A a \in 1 .. Len(order) : Width(order, a) <= POSITION_OFFSET
    /\ \A l, k \in t.lessons : TemporaryId(k) # l.contentId

LEMMA HomeIs ==
  ASSUME NEW t, NEW order, CanPlace(t, order), NEW l \in t.lessons
  PROVE  LET a == HomeIn(order, l)
             b == SeatIn(order, l)
         IN  /\ a \in 1 .. Len(order) /\ b \in 1 .. Width(order, a)
             /\ order[a].lessons[b] = l.contentId
             /\ \A c \in 1 .. Len(order) : \A d \in 1 .. Width(order, c) :
                   order[c].lessons[d] = l.contentId => c = a /\ d = b
<1> DEFINE a == HomeIn(order, l)
           b == SeatIn(order, l)
<1>1. \E c \in 1 .. Len(order) : \E d \in 1 .. Width(order, c) : order[c].lessons[d] = l.contentId
  BY DEF CanPlace, Arranged
<1>2. a \in 1 .. Len(order) /\ \E d \in 1 .. Width(order, a) : order[a].lessons[d] = l.contentId
  BY <1>1 DEF HomeIn
<1>3. b \in 1 .. Width(order, a) /\ order[a].lessons[b] = l.contentId
  BY <1>2 DEF SeatIn
<1>4. \A c, e \in 1 .. Len(order) : \A d \in 1 .. Width(order, c), f \in 1 .. Width(order, e) :
         order[c].lessons[d] = order[e].lessons[f] => c = e /\ d = f
  BY DEF CanPlace, Arranged
<1> HIDE DEF a, b
<1>5. \A c \in 1 .. Len(order) : \A d \in 1 .. Width(order, c) :
         order[c].lessons[d] = l.contentId => c = a /\ d = b
  BY <1>2, <1>3, <1>4
<1> QED
  BY <1>2, <1>3, <1>5 DEF a, b

\* Different lessons have different seats.
LEMMA SeatIsTaken ==
  ASSUME NEW t, NEW order, CanPlace(t, order), NEW l \in t.lessons, NEW k \in t.lessons,
         HomeIn(order, l) = HomeIn(order, k), SeatIn(order, l) = SeatIn(order, k)
  PROVE  l = k
<1>1. l.contentId = k.contentId
  BY HomeIs
<1> QED
  BY <1>1 DEF CanPlace, Arranged

LEMMA WaitingIs ==
  ASSUME NEW t, NEW order, CanPlace(t, order), NEW l \in t.lessons
  PROVE  LET w == Waiting(l) IN
         /\ IsLesson(w) /\ w.id = l.id /\ w.body = l.body /\ w.assessments = l.assessments
         /\ w.module = l.module
         /\ w.contentId = TemporaryId(l) /\ w.position = l.position + POSITION_OFFSET
BY LessonPlaced DEF Waiting, CanPlace, AreLessons

LEMMA SeatedIs ==
  ASSUME NEW t, NEW order, CanPlace(t, order), NEW l \in t.lessons
  PROVE  LET s == Seated(order, l) IN
         /\ IsLesson(s) /\ s.id = l.id /\ s.body = l.body /\ s.assessments = l.assessments
         /\ s.module = order[HomeIn(order, l)].id
         /\ s.contentId = l.contentId /\ s.position = SeatIn(order, l)
BY LessonPlaced DEF Seated, CanPlace, AreLessons

\* At whatever point of the placing, no lesson is in the way of another.
LEMMA NoneClash ==
  ASSUME NEW t, NEW order, CanPlace(t, order), NEW l \in t.lessons, NEW k \in t.lessons,
         NEW x \in {Seated(order, l), Waiting(l)}, NEW y \in {Seated(order, k), Waiting(k)},
         Clashes(x, y)
  PROVE  l = k
<1> DEFINE a == HomeIn(order, l)  b == SeatIn(order, l)
           c == HomeIn(order, k)  d == SeatIn(order, k)
<1>1. /\ a \in 1 .. Len(order) /\ b \in 1 .. Width(order, a)
      /\ c \in 1 .. Len(order) /\ d \in 1 .. Width(order, c)
  BY HomeIs
<1>2. \A e \in 1 .. Len(order) : Width(order, e) \in Nat /\ Width(order, e) <= POSITION_OFFSET
  BY DEF CanPlace, Arranged
<1>3. b \in Nat /\ b <= POSITION_OFFSET /\ d \in Nat /\ d <= POSITION_OFFSET
  <2> HIDE DEF a, b, c, d
  <2> QED
    BY <1>1, <1>2, OffsetIsNatural
<1>4. l.position \in 1 .. POSITION_OFFSET /\ k.position \in 1 .. POSITION_OFFSET
  BY DEF CanPlace, Low
<1>5. l.contentId = k.contentId => l = k
  BY DEF CanPlace, Arranged
<1>6. Clashes(l, k) => l = k
  BY DEF CanPlace, LessonsFit, Clashes
<1>7. l.id = k.id => l = k
  BY DEF CanPlace, AreLessons, KeyedById
<1>8. TemporaryId(l) # k.contentId /\ TemporaryId(k) # l.contentId
  BY DEF CanPlace
<1>9. TemporaryId(l) = TemporaryId(k) => l.id = k.id
  BY DEF TemporaryId
<1>10. a = c /\ b = d => l = k
  BY SeatIsTaken
<1>11. order[a].id = order[c].id => a = c
  BY <1>1 DEF CanPlace, Arranged
<1>12. CASE x = Seated(order, l) /\ y = Seated(order, k)
  <2>1. /\ x.module = order[a].id /\ x.contentId = l.contentId /\ x.position = b
        /\ y.module = order[c].id /\ y.contentId = k.contentId /\ y.position = d
    BY <1>12, SeatedIs
  <2> HIDE DEF a, b, c, d
  <2> QED
    BY <1>5, <1>10, <1>11, <2>1 DEF Clashes
<1>13. CASE x = Seated(order, l) /\ y = Waiting(k)
  <2>1. /\ x.contentId = l.contentId /\ x.position = b
        /\ y.contentId = TemporaryId(k) /\ y.position = k.position + POSITION_OFFSET
    BY <1>13, SeatedIs, WaitingIs
  <2> HIDE DEF a, b, c, d
  <2>2. x.position # y.position
    BY <1>3, <1>4, <2>1, OffsetIsNatural
  <2> QED
    BY <1>8, <2>1, <2>2 DEF Clashes
<1>14. CASE x = Waiting(l) /\ y = Seated(order, k)
  <2>1. /\ x.contentId = TemporaryId(l) /\ x.position = l.position + POSITION_OFFSET
        /\ y.contentId = k.contentId /\ y.position = d
    BY <1>14, SeatedIs, WaitingIs
  <2> HIDE DEF a, b, c, d
  <2>2. x.position # y.position
    BY <1>3, <1>4, <2>1, OffsetIsNatural
  <2> QED
    BY <1>8, <2>1, <2>2 DEF Clashes
<1>15. CASE x = Waiting(l) /\ y = Waiting(k)
  <2>1. /\ x.module = l.module /\ x.contentId = TemporaryId(l)
        /\ x.position = l.position + POSITION_OFFSET
        /\ y.module = k.module /\ y.contentId = TemporaryId(k)
        /\ y.position = k.position + POSITION_OFFSET
    BY <1>15, WaitingIs
  <2>2. x.position = y.position => l.position = k.position
    BY <1>4, <2>1, OffsetIsNatural
  <2> QED
    BY <1>6, <1>7, <1>9, <2>1, <2>2 DEF Clashes
<1> QED
  BY <1>12, <1>13, <1>14, <1>15

LEMMA SeatAtIs ==
  ASSUME NEW t, NEW order, CanPlace(t, order), NEW i, NEW l \in t.lessons
  PROVE  LET s == SeatAt(order, i, l) IN
         /\ IsLesson(s) /\ s.id = l.id /\ s \in {Seated(order, l), Waiting(l)}
BY WaitingIs, SeatedIs DEF SeatAt

LEMMA SeatedUpToFit ==
  ASSUME NEW t, NEW order, CanPlace(t, order), NEW i
  PROVE  /\ AreLessons(SeatedUpTo(t.lessons, order, i))
         /\ LessonsFit(SeatedUpTo(t.lessons, order, i))
<1> DEFINE rows == SeatedUpTo(t.lessons, order, i)
<1>1. \A s \in rows : \E l \in t.lessons : s = SeatAt(order, i, l)
  BY DEF SeatedUpTo
<1> HIDE DEF rows
<1>2. \A l, k \in t.lessons : l.id = k.id => l = k
  BY DEF CanPlace, AreLessons, KeyedById
<1>3. AreLessons(rows)
  <2>1. \A s \in rows : IsLesson(s)
    BY <1>1, SeatAtIs
  <2>2. KeyedById(rows)
    BY <1>1, <1>2, SeatAtIs DEF KeyedById
  <2> QED
    BY <2>1, <2>2 DEF AreLessons
<1>4. LessonsFit(rows)
  <2> SUFFICES ASSUME NEW s \in rows, NEW z \in rows, Clashes(s, z) PROVE s = z
    BY DEF LessonsFit, Clashes
  <2>1. PICK l \in t.lessons : s = SeatAt(order, i, l)
    BY <1>1
  <2>2. PICK k \in t.lessons : z = SeatAt(order, i, k)
    BY <1>1
  <2>3. s \in {Seated(order, l), Waiting(l)} /\ z \in {Seated(order, k), Waiting(k)}
    BY <2>1, <2>2, SeatAtIs
  <2>4. l = k
    BY <2>3, NoneClash
  <2> QED
    BY <2>1, <2>2, <2>4
<1> QED
  BY <1>3, <1>4 DEF rows

\* One module's updates: its lessons in their seats.
LEMMA PlacementsAre ==
  ASSUME NEW t, NEW order, CanPlace(t, order), NEW a \in 1 .. Len(order)
  PROVE  LET updates == Placements(t.lessons, order[a])
             w       == Width(order, a)
         IN  /\ w \in Nat /\ Len(updates) = w
             /\ \A j \in 1 .. w : \E l \in t.lessons :
                   /\ HomeIn(order, l) = a /\ SeatIn(order, l) = j
                   /\ updates[j] = Seated(order, l)
<1> DEFINE updates == Placements(t.lessons, order[a])
           w       == Width(order, a)
           Of(j)   == CHOOSE k \in t.lessons : k.contentId = order[a].lessons[j]
           Up(l, j) == [l EXCEPT !.module = order[a].id, !.position = j]
<1>1. w \in Nat /\ DOMAIN order[a].lessons = 1 .. w
  <2>1. w \in Nat /\ order[a].lessons = [j \in 1 .. w |-> order[a].lessons[j]]
    BY DEF CanPlace, Arranged
  <2> QED
    BY <2>1
<1>2. updates = [j \in 1 .. w |-> Up(Of(j), j)]
  BY <1>1 DEF Placements
<1>3. \A j \in 1 .. w : Of(j) \in t.lessons /\ Of(j).contentId = order[a].lessons[j]
  <2>1. \A j \in 1 .. w : \E l \in t.lessons : l.contentId = order[a].lessons[j]
    BY DEF CanPlace, Arranged
  <2> QED
    BY <2>1
<1>4. ASSUME NEW l \in t.lessons, NEW j PROVE Up(l, j) = Placed(l, order[a].id, l.contentId, j)
  <2> DEFINE e == [l EXCEPT !.module = order[a].id]
  <2>1. IsLesson(l)
    BY DEF CanPlace, AreLessons
  <2>2. e = [id |-> l.id, module |-> order[a].id, contentId |-> l.contentId,
             position |-> l.position, body |-> l.body, assessments |-> l.assessments]
    BY <2>1 DEF IsLesson
  <2>3. Up(l, j) = [e EXCEPT !.position = j]
    OBVIOUS
  <2> HIDE DEF e
  <2>4. [e EXCEPT !.position = j] =
          [id |-> l.id, module |-> order[a].id, contentId |-> l.contentId,
           position |-> j, body |-> l.body, assessments |-> l.assessments]
    BY <2>2
  <2>5. Placed(l, order[a].id, l.contentId, j) =
          [id |-> l.id, module |-> order[a].id, contentId |-> l.contentId,
           position |-> j, body |-> l.body, assessments |-> l.assessments]
    BY <2>1, PlacedIs
  <2> HIDE DEF Up
  <2> QED
    BY <2>3, <2>4, <2>5
<1> HIDE DEF Of, Up
<1>5. ASSUME NEW j \in 1 .. w
      PROVE  /\ HomeIn(order, Of(j)) = a /\ SeatIn(order, Of(j)) = j
             /\ Up(Of(j), j) = Seated(order, Of(j))
  <2> DEFINE l == Of(j)
  <2>1. l \in t.lessons /\ l.contentId = order[a].lessons[j]
    BY <1>3
  <2> HIDE DEF l
  <2>2. HomeIn(order, l) = a /\ SeatIn(order, l) = j
    BY <2>1, HomeIs
  <2>3. Up(l, j) = Seated(order, l)
    BY <1>4, <2>1, <2>2 DEF Seated
  <2> QED
    BY <2>2, <2>3 DEF l
<1> HIDE DEF updates
<1>6. Len(updates) = w
  BY <1>1, <1>2, LengthOf
<1>7. \A j \in 1 .. w : updates[j] = Up(Of(j), j)
  BY <1>2
<1> HIDE DEF w
<1> QED
  BY <1>1, <1>3, <1>5, <1>6, <1>7 DEF updates, w

LEMMA ItemPlaced ==
  ASSUME NEW t, NEW order, CanPlace(t, order), NEW i \in 0 .. Len(order) - 1,
         NEW u, IsTransaction(u), u.lessons = SeatedUpTo(t.lessons, order, i)
  PROVE  UpdateLessons(u, Placements(t.lessons, order[i + 1])) =
           [modules |-> u.modules, lessons |-> SeatedUpTo(t.lessons, order, i + 1), ok |-> TRUE]
<1> DEFINE a       == i + 1
           rows    == SeatedUpTo(t.lessons, order, i)
           updates == Placements(t.lessons, order[a])
           w       == Width(order, a)
<1>0. Len(order) \in Nat
  BY DEF CanPlace, Arranged
<1>1. a \in 1 .. Len(order) /\ a \in Nat /\ ~(a <= i) /\ i \in Nat
      /\ \A c \in Nat : c <= a <=> (c <= i \/ c = a)
  BY <1>0
<1>2. /\ w \in Nat /\ Len(updates) = w
      /\ \A j \in 1 .. w : \E l \in t.lessons :
            /\ HomeIn(order, l) = a /\ SeatIn(order, l) = j /\ updates[j] = Seated(order, l)
  <2> HIDE DEF a
  <2> QED
    BY <1>1, PlacementsAre
<1>3. AreLessons(rows) /\ LessonsFit(rows)
  BY SeatedUpToFit
<1>4. /\ \A s \in rows : \E l \in t.lessons : s = SeatAt(order, i, l)
      /\ \A l \in t.lessons : SeatAt(order, i, l) \in rows
  BY DEF SeatedUpTo
<1>5. \A l \in t.lessons : /\ IsLesson(SeatAt(order, i, l)) /\ SeatAt(order, i, l).id = l.id
                           /\ SeatAt(order, i, l) \in {Seated(order, l), Waiting(l)}
  BY SeatAtIs
<1>6. \A l \in t.lessons : /\ Seated(order, l).id = l.id
                           /\ HomeIn(order, l) \in 1 .. Len(order) /\ HomeIn(order, l) \in Nat
                           /\ SeatIn(order, l) \in 1 .. Width(order, HomeIn(order, l))
  BY <1>0, SeatedIs, HomeIs
<1>7. \A l, k \in t.lessons : l.id = k.id => l = k
  BY DEF CanPlace, AreLessons, KeyedById
<1> HIDE DEF rows, updates, w, a
<1>8. LessonUpdatesFit(rows, updates, w)
  <2>1. \A j \in 1 .. w : \E s \in rows : s.id = updates[j].id
    BY <1>2, <1>4, <1>5, <1>6
  <2>2. ASSUME NEW j \in 1 .. w, NEW b \in 1 .. w,
               updates[j].id = updates[b].id \/ Clashes(updates[j], updates[b])
        PROVE  j = b
    <3>1. PICK l \in t.lessons : SeatIn(order, l) = j /\ updates[j] = Seated(order, l)
      BY <1>2
    <3>2. PICK k \in t.lessons : SeatIn(order, k) = b /\ updates[b] = Seated(order, k)
      BY <1>2
    <3>3. CASE updates[j].id = updates[b].id
      BY <1>6, <1>7, <3>1, <3>2, <3>3
    <3>4. CASE Clashes(updates[j], updates[b])
      <4>1. l = k
        BY <3>1, <3>2, <3>4, NoneClash
      <4> QED
        BY <3>1, <3>2, <4>1
    <3> QED
      BY <2>2, <3>3, <3>4
  <2>3. ASSUME NEW j \in 1 .. w, NEW s \in rows, Clashes(s, updates[j])
        PROVE  s.id = updates[j].id
    <3>1. PICK l \in t.lessons : SeatIn(order, l) = j /\ updates[j] = Seated(order, l)
      BY <1>2
    <3>2. PICK k \in t.lessons : s = SeatAt(order, i, k)
      BY <1>4
    <3>3. s \in {Seated(order, k), Waiting(k)} /\ s.id = k.id
      BY <1>5, <3>2
    <3>4. k = l
      BY <2>3, <3>1, <3>3, NoneClash
    <3> QED
      BY <1>6, <3>1, <3>3, <3>4
  <2> QED
    BY <2>1, <2>2, <2>3 DEF LessonUpdatesFit
<1>9. UpdateLessons(u, updates) =
        [modules |-> u.modules, lessons |-> LessonsAfter(rows, updates, w), ok |-> TRUE]
  <2>1. /\ AreLessons(u.lessons) /\ LessonsFit(u.lessons) /\ LessonUpdatesFit(u.lessons, updates, w)
        /\ w \in Nat /\ Len(updates) = w
    BY <1>2, <1>3, <1>8 DEF rows
  <2>2. UpdateLessons(u, updates) =
          [modules |-> u.modules, lessons |-> LessonsAfter(u.lessons, updates, w), ok |-> TRUE]
    BY <2>1, LessonsUpdated
  <2> QED
    BY <2>2 DEF rows
<1>10. ASSUME NEW l \in t.lessons
       PROVE  AfterLessons(updates, w, SeatAt(order, i, l)) = SeatAt(order, a, l)
  <2> DEFINE s == SeatAt(order, i, l)
  <2>1. s \in rows /\ IsLesson(s) /\ s.id = l.id /\ w \in 0 .. w
    BY <1>2, <1>4, <1>5
  <2>2. CASE HomeIn(order, l) = a
    <3>1. SeatIn(order, l) \in 1 .. w
      BY <1>6, <2>2 DEF w
    <3>2. PICK k \in t.lessons : /\ HomeIn(order, k) = a /\ SeatIn(order, k) = SeatIn(order, l)
                                 /\ updates[SeatIn(order, l)] = Seated(order, k)
      BY <1>2, <3>1
    <3>3. k = l
      BY <2>2, <3>2, SeatIsTaken
    <3> DEFINE d == updates[SeatIn(order, l)]
    <3>4. d = Seated(order, l) /\ d.id = s.id
      BY <1>6, <2>1, <3>2, <3>3
    <3> HIDE DEF s
    <3>5. AfterLessons(updates, w, s) = Put(s, d)
      BY <1>2, <1>8, <2>1, <3>1, <3>4, AfterLessonsIs
    <3>6. s = Waiting(l) /\ SeatAt(order, a, l) = Seated(order, l)
      BY <1>1, <2>2 DEF SeatAt, s
    <3>7. Put(Waiting(l), Seated(order, l)) = Seated(order, l)
      <4> DEFINE x == order[HomeIn(order, l)].id
                 p == SeatIn(order, l)
      <4>1. IsLesson(l)
        BY DEF CanPlace, AreLessons
      <4>2. /\ Seated(order, l).module = x /\ Seated(order, l).contentId = l.contentId
            /\ Seated(order, l).position = p
        BY SeatedIs
      <4> HIDE DEF x, p
      <4>3. \A y, c, q : Placed(Waiting(l), y, c, q) = Placed(l, y, c, q)
        BY <4>1, LessonPlaced DEF Waiting
      <4> QED
        BY <4>2, <4>3 DEF Put, Seated, x, p
    <3> QED
      BY <3>4, <3>5, <3>6, <3>7 DEF s
  <2>3. CASE HomeIn(order, l) # a
    <3>1. ~Assigns(updates, w, s)
      <4> SUFFICES ASSUME NEW j \in 1 .. w, updates[j].id = s.id PROVE FALSE
        BY DEF Assigns
      <4>1. PICK k \in t.lessons : HomeIn(order, k) = a /\ updates[j] = Seated(order, k)
        BY <1>2
      <4>2. k = l
        BY <1>6, <1>7, <2>1, <4>1
      <4> QED
        BY <2>3, <4>1, <4>2
    <3>2. AfterLessons(updates, w, s) = s
      BY <3>1 DEF AfterLessons
    <3>3. SeatAt(order, a, l) = s
      BY <1>1, <1>6, <2>3 DEF SeatAt
    <3> QED
      BY <3>2, <3>3
  <2> QED
    BY <2>2, <2>3
<1>11. LessonsAfter(rows, updates, w) = SeatedUpTo(t.lessons, order, a)
  BY <1>4, <1>10 DEF LessonsAfter, SeatedUpTo
<1> QED
  BY <1>9, <1>11 DEF updates, a

LEMMA AllPlaced ==
  ASSUME NEW t, NEW order, CanPlace(t, order),
         NEW u, IsTransaction(u), u.lessons = SeatedUpTo(t.lessons, order, 0)
  PROVE  PlaceLessons(u, t.lessons, order) =
           [modules |-> u.modules, lessons |-> SeatedUpTo(t.lessons, order, Len(order)),
            ok |-> TRUE]
<1> DEFINE n     == Len(order)
           At(k) == [modules |-> u.modules, lessons |-> SeatedUpTo(t.lessons, order, k),
                     ok |-> TRUE]
<1>0. n \in Nat
  BY DEF CanPlace, Arranged
<1>1. PICK f : PlacingRun(f, u, t.lessons, order, n)
  BY <1>0, PlacingTraceRuns
<1>2. /\ PlaceLessons(u, t.lessons, order) = f[n] /\ f[0] = u
      /\ \A i \in 0 .. n - 1 : f[i + 1] = UpdateLessons(f[i], Placements(t.lessons, order[i + 1]))
  BY <1>1 DEF PlacingRun
<1> DEFINE S == {k \in 0 .. n : f[k] = At(k)}
<1>3. 0 \in S
  <2>1. u = [modules |-> u.modules, lessons |-> u.lessons, ok |-> TRUE]
    BY Zenon DEF IsTransaction
  <2>2. u = At(0)
    BY <2>1
  <2> HIDE DEF At
  <2> QED
    BY <1>0, <1>2, <2>2
<1>4. ASSUME NEW k \in 0 .. n - 1, k \in S PROVE k + 1 \in S
  <2> DEFINE w == f[k]
  <2>1. w = At(k)
    BY <1>4
  <2>2. IsTransaction(w) /\ w.modules = u.modules
        /\ w.lessons = SeatedUpTo(t.lessons, order, k)
    <3> HIDE DEF w
    <3> QED
      BY <2>1 DEF IsTransaction
  <2>3. UpdateLessons(w, Placements(t.lessons, order[k + 1])) = At(k + 1)
    <3> HIDE DEF w
    <3>1. UpdateLessons(w, Placements(t.lessons, order[k + 1])) =
            [modules |-> w.modules, lessons |-> SeatedUpTo(t.lessons, order, k + 1), ok |-> TRUE]
      BY <2>2, ItemPlaced
    <3> QED
      BY <2>2, <3>1
  <2> HIDE DEF At
  <2>4. f[k + 1] = At(k + 1) /\ k + 1 \in 0 .. n
    BY <1>0, <1>2, <2>3
  <2> QED
    BY <2>4
<1>5. n \in S
  <2> HIDE DEF S, n
  <2>1. 0 .. n \subseteq S
    BY <1>0, <1>3, <1>4, EveryNumberUpTo
  <2> QED
    BY <1>0, <2>1
<1>6. f[n] = At(n)
  <2> HIDE DEF At
  <2> QED
    BY <1>5
<1> QED
  BY <1>2, <1>6

\* Lifted and without their names they all wait; at the end all are seated.
LEMMA FirstAllWait ==
  ASSUME NEW t, NEW order, CanPlace(t, order)
  PROVE  /\ Unnamed(Raise(t.lessons, t.lessons)) = SeatedUpTo(t.lessons, order, 0)
         /\ SeatedUpTo(t.lessons, order, Len(order)) = {Seated(order, l) : l \in t.lessons}
<1> DEFINE rows == t.lessons
           Named(l) == Placed(l, l.module, TemporaryId(l), l.position)
<1>0. Len(order) \in Nat
  BY DEF CanPlace, Arranged
<1>1. ASSUME NEW l \in rows PROVE HomeIn(order, l) \in 1 .. Len(order)
  BY HomeIs
<1>2. ASSUME NEW l \in rows PROVE SeatAt(order, 0, l) = Waiting(l)
  BY <1>0, <1>1 DEF SeatAt
<1>3. ASSUME NEW l \in rows PROVE SeatAt(order, Len(order), l) = Seated(order, l)
  BY <1>0, <1>1 DEF SeatAt
<1>4. ASSUME NEW l \in rows PROVE Named(High(l)) = Waiting(l)
  <2> DEFINE h == High(l)
             p == l.position + POSITION_OFFSET
  <2>1. IsLesson(l)
    BY DEF CanPlace, AreLessons
  <2>2. h = Placed(l, l.module, l.contentId, p)
    BY <2>1, LessonPlaced DEF High
  <2> HIDE DEF h, p
  <2>3. /\ h.id = l.id /\ h.module = l.module /\ h.position = p
        /\ \A y, d, q : Placed(h, y, d, q) = Placed(l, y, d, q)
    BY <2>1, <2>2, LessonPlaced
  <2>4. TemporaryId(h) = TemporaryId(l)
    BY <2>3 DEF TemporaryId
  <2>5. Named(h) = Placed(l, l.module, TemporaryId(l), p)
    BY <2>3, <2>4
  <2> QED
    BY <2>5 DEF Waiting, h, p
<1>5. /\ \A s \in Raise(rows, rows) : \E l \in rows : s = High(l)
      /\ \A l \in rows : High(l) \in Raise(rows, rows)
  BY LiftedIs DEF Raise
<1>6. Unnamed(Raise(rows, rows)) = {Named(s) : s \in Raise(rows, rows)}
  BY DEF Unnamed
<1> HIDE DEF Named
<1>7. {Named(s) : s \in Raise(rows, rows)} = {SeatAt(order, 0, l) : l \in rows}
  BY <1>2, <1>4, <1>5
<1>8. {SeatAt(order, Len(order), l) : l \in rows} = {Seated(order, l) : l \in rows}
  BY <1>3
<1> QED
  BY <1>6, <1>7, <1>8 DEF SeatedUpTo

\* reorder(): no statement collides, and the rows are as the order says.
LEMMA ReorderIs ==
  ASSUME NEW t, IsTransaction(t), Sound(t), NEW order, Arranged(order, t),
         Low(t.modules), CanPlace(t, order), Len(order) <= POSITION_OFFSET
  PROVE  reorder(t, order) =
           [modules |-> Ranked(t.modules, order),
            lessons |-> {Seated(order, l) : l \in t.lessons}, ok |-> TRUE]
<1> DEFINE M  == Ranked(t.modules, order)
           L  == t.lessons
           H  == Raise(L, L)
           W  == SeatedUpTo(L, order, 0)
           p  == PlaceModules(t, order)
           q  == LiftLessons(p, p.lessons)
           u  == Unname(q)
<1>1. reorder(t, order) = PlaceLessons(u, L, order)
  BY DEF reorder
<1>2. p = [modules |-> M, lessons |-> L, ok |-> TRUE]
  BY ModulesPlaced
<1>3. AreLessons(L) /\ LessonsFit(L) /\ IsFiniteSet(L) /\ Low(L)
      /\ \A l, k \in L : TemporaryId(k) # l.contentId
  BY DEF Sound, CanPlace
<1> HIDE DEF p, M
<1>4. IsTransaction(p) /\ p.lessons = L /\ p.modules = M
  BY <1>2 DEF IsTransaction
<1>5. q = [modules |-> M, lessons |-> H, ok |-> TRUE]
  <2>1. AreLessons(p.lessons) /\ LessonsFit(p.lessons) /\ Low(p.lessons)
    BY <1>3, <1>4
  <2>2. LiftLessons(p, p.lessons) =
          [modules |-> p.modules, lessons |-> Raise(p.lessons, p.lessons), ok |-> TRUE]
    BY <1>4, <2>1, LessonsLifted
  <2> QED
    BY <1>4, <2>2
<1> HIDE DEF q
<1>6. IsTransaction(q) /\ q.lessons = H /\ q.modules = M
  <2> HIDE DEF H
  <2> QED
    BY <1>5 DEF IsTransaction
<1>7. AreLessons(H) /\ LessonsFit(H)
  BY <1>3, LessonsRaised
<1>8. /\ \A s \in H : \E l \in L : s = High(l)
      /\ \A l \in L : High(l) \in H
  BY LiftedIs DEF Raise
<1>9. \A l \in L : High(l).id = l.id /\ High(l).contentId = l.contentId
  <2> SUFFICES ASSUME NEW l \in L
               PROVE  High(l).id = l.id /\ High(l).contentId = l.contentId
    OBVIOUS
  <2>1. IsLesson(l)
    BY <1>3 DEF AreLessons
  <2>2. High(l) = Placed(l, l.module, l.contentId, l.position + POSITION_OFFSET)
    BY <2>1, LessonPlaced DEF High
  <2> QED
    BY <2>1, <2>2, LessonPlaced
<1> HIDE DEF H
<1>10. IsFiniteSet(H)
  <2>1. KeyedById(L) /\ KeyedById(H)
    BY <1>3, <1>7 DEF AreLessons
  <2>2. \A r \in L : \E s \in H : s.id = r.id
    BY <1>8, <1>9
  <2>3. \A s \in H : \E r \in L : s.id = r.id
    BY <1>8, <1>9
  <2> QED
    BY <1>3, <2>1, <2>2, <2>3, SameIds
<1>11. \A l, k \in H : TemporaryId(k) # l.contentId
  BY <1>3, <1>8, <1>9 DEF TemporaryId
<1>12. u = [modules |-> M, lessons |-> W, ok |-> TRUE]
  <2>1. /\ AreLessons(q.lessons) /\ LessonsFit(q.lessons) /\ IsFiniteSet(q.lessons)
        /\ \A l, k \in q.lessons : TemporaryId(k) # l.contentId
    BY <1>6, <1>7, <1>10, <1>11
  <2>2. u = [modules |-> q.modules, lessons |-> Unnamed(q.lessons), ok |-> TRUE]
    BY <1>6, <2>1, LessonsUnnamed
  <2>3. Unnamed(H) = W
    BY FirstAllWait DEF H
  <2> HIDE DEF W
  <2> QED
    BY <1>6, <2>2, <2>3
<1> HIDE DEF u
<1>13. IsTransaction(u) /\ u.lessons = W /\ u.modules = M
  <2> HIDE DEF W
  <2> QED
    BY <1>12 DEF IsTransaction
<1>14. PlaceLessons(u, L, order) =
         [modules |-> u.modules, lessons |-> SeatedUpTo(L, order, Len(order)), ok |-> TRUE]
  BY <1>13, AllPlaced
<1>15. SeatedUpTo(L, order, Len(order)) = {Seated(order, l) : l \in L}
  BY FirstAllWait
<1> QED
  BY <1>1, <1>13, <1>14, <1>15 DEF M

\* A reorder that names every row once: whatever the arrangement, no statement
\* collides, and every position from one is taken.
THEOREM Reordered ==
  ASSUME NEW t, IsTransaction(t), Sound(t), NEW v, NEW n \in Nat,
         n + 1 <= POSITION_OFFSET, NEW C, NEW B, Within(t, v, n, C, B),
         NEW order, IsOrder(order), Permutes(order, t),
         \A l, k \in t.lessons : TemporaryId(k) # l.contentId
  PROVE  /\ GoesThrough(reorder(t, order), v, n, C, B)
         /\ PositionsAreContiguous(reorder(t, order))
<1> DEFINE rows == t.modules
           M    == Ranked(t.modules, order)
           L    == {Seated(order, l) : l \in t.lessons}
           K    == Len(order)
           d    == reorder(t, order)
<1>1. Arranged(order, t)
  BY PermutationArranges
<1>2. K \in Nat /\ K <= n /\ \A a \in 1 .. K : Width(order, a) <= n /\ Width(order, a) \in Nat
  <2>1. K <= n /\ \A a \in 1 .. K : Width(order, a) <= n
    BY <1>1, OrderIsShort DEF Sound, AreLessons
  <2>2. K \in Nat /\ \A a \in 1 .. K : Width(order, a) \in Nat
    BY <1>1 DEF Arranged
  <2> QED
    BY <2>1, <2>2
<1>3. Low(t.modules) /\ Low(t.lessons)
  BY WithinIsLow
<1>4. CanPlace(t, order)
  <2>1. \A a \in 1 .. K : Width(order, a) <= POSITION_OFFSET
    <3> HIDE DEF K
    <3> QED
      BY <1>2, OffsetIsNatural
  <2> QED
    BY <1>1, <1>3, <2>1 DEF CanPlace, Sound
<1>5. d = [modules |-> M, lessons |-> L, ok |-> TRUE]
  <2>1. K <= POSITION_OFFSET
    <3> HIDE DEF K
    <3> QED
      BY <1>2, OffsetIsNatural
  <2> QED
    BY <1>1, <1>3, <1>4, <2>1, ReorderIs
<1>6. \A m \in rows : /\ IsModule(Moved(m, RankIn(order, m)))
                      /\ Moved(m, RankIn(order, m)).id = m.id
                      /\ Moved(m, RankIn(order, m)).position = RankIn(order, m)
                      /\ RankIn(order, m) \in 1 .. K
                      /\ order[RankIn(order, m)].id = m.id
  BY <1>1, ModuleMoved, RankInIs DEF Sound, AreModules
<1>7. /\ \A q \in M : \E m \in rows : q = Moved(m, RankIn(order, m))
      /\ \A m \in rows : Moved(m, RankIn(order, m)) \in M
  BY DEF Ranked
<1>8. \A l \in t.lessons :
         /\ IsLesson(Seated(order, l)) /\ Seated(order, l).id = l.id
         /\ Seated(order, l).body = l.body /\ Seated(order, l).contentId = l.contentId
         /\ Seated(order, l).module = order[HomeIn(order, l)].id
         /\ Seated(order, l).position = SeatIn(order, l)
         /\ HomeIn(order, l) \in 1 .. K
         /\ SeatIn(order, l) \in 1 .. Width(order, HomeIn(order, l))
  BY <1>4, SeatedIs, HomeIs
<1>9. /\ \A s \in L : \E l \in t.lessons : s = Seated(order, l)
      /\ \A l \in t.lessons : Seated(order, l) \in L
  OBVIOUS
<1>10. d.modules = M /\ d.lessons = L /\ d.ok = TRUE
  <2> HIDE DEF d, M, L
  <2> QED
    BY <1>5
<1> HIDE DEF d, M, L, K, rows
<1>11. AreModules(M) /\ IsFiniteSet(M) /\ Apart(M)
  <2>1. \A q \in M : IsModule(q)
    BY <1>6, <1>7
  <2>2. KeyedById(rows) /\ IsFiniteSet(rows)
    BY DEF Sound, AreModules, rows
  <2>3. KeyedById(M)
    BY <1>6, <1>7, <2>2 DEF KeyedById
  <2>4. Apart(M)
    BY <1>6, <1>7, <2>2 DEF KeyedById, Apart
  <2>5. \A m \in rows : \E q \in M : q.id = m.id
    BY <1>6, <1>7
  <2>6. \A q \in M : \E m \in rows : q.id = m.id
    BY <1>6, <1>7
  <2>7. IsFiniteSet(M)
    BY <2>2, <2>3, <2>5, <2>6, SameIds
  <2> QED
    BY <2>1, <2>3, <2>4, <2>7 DEF AreModules
<1>12. AreLessons(L) /\ IsFiniteSet(L) /\ LessonsFit(L)
  <2>1. \A q \in L : IsLesson(q)
    BY <1>8, <1>9
  <2>2. KeyedById(t.lessons) /\ IsFiniteSet(t.lessons)
    BY DEF Sound, AreLessons
  <2>3. KeyedById(L)
    BY <1>8, <1>9, <2>2 DEF KeyedById
  <2>4. \A m \in t.lessons : \E q \in L : q.id = m.id
    BY <1>8, <1>9
  <2>5. \A q \in L : \E m \in t.lessons : q.id = m.id
    BY <1>8, <1>9
  <2>6. IsFiniteSet(L)
    BY <2>2, <2>3, <2>4, <2>5, SameIds
  <2>7. LessonsFit(L)
    <3> SUFFICES ASSUME NEW q \in L, NEW z \in L, Clashes(q, z) PROVE q = z
      BY DEF LessonsFit, Clashes
    <3>1. PICK l \in t.lessons : q = Seated(order, l)
      BY <1>9
    <3>2. PICK k \in t.lessons : z = Seated(order, k)
      BY <1>9
    <3>3. l = k
      BY <1>4, <3>1, <3>2, NoneClash
    <3> QED
      BY <3>1, <3>2, <3>3
  <2> QED
    BY <2>1, <2>3, <2>6, <2>7 DEF AreLessons
<1>13. \A m \in rows : m.id \in {v} \X (1 .. n)
  BY DEF Within, rows
<1>14. \A l \in t.lessons : l.id \in {v} \X (1 .. n) /\ l.contentId \in C /\ l.body \in B
  BY DEF Within
<1>15. \A q \in M : q.id \in {v} \X (1 .. n) /\ q.position \in 1 .. K
  BY <1>6, <1>7, <1>13
<1>16. \A q \in L : /\ q.id \in {v} \X (1 .. n) /\ q.contentId \in C /\ q.body \in B
                    /\ \E a \in 1 .. K : q.position \in 1 .. Width(order, a)
  BY <1>8, <1>9, <1>14
<1>17. Within(d, v, n, C, B)
  <2>1. \A q \in M : q.position \in 1 .. n + 1
    BY <1>2, <1>15
  <2>2. \A q \in L : q.position \in 1 .. n + 1
    BY <1>2, <1>16
  <2> QED
    BY <1>10, <1>15, <1>16, <2>1, <2>2 DEF Within
<1>18. Sound(d)
  <2>1. ModulesFit(M)
    BY <1>11 DEF Apart, ModulesFit
  <2>2. ASSUME NEW q \in L PROVE \E m \in M : q.module = m.id
    <3>1. PICK l \in t.lessons : q = Seated(order, l)
      BY <1>9
    <3>2. q.module = order[HomeIn(order, l)].id /\ HomeIn(order, l) \in 1 .. K
      BY <1>8, <3>1
    <3>3. \E m \in rows : m.id = order[HomeIn(order, l)].id
      BY <1>1, <3>2 DEF Arranged, K, rows
    <3> QED
      BY <1>6, <1>7, <3>2, <3>3
  <2> QED
    BY <1>10, <1>11, <1>12, <2>1, <2>2 DEF Sound
<1>19. Contiguous(M)
  <2>1. ASSUME NEW i \in 1 .. K PROVE \E q \in M : q.position = i
    <3>1. \E m \in rows : m.id = order[i].id
      BY <1>1 DEF Arranged, K, rows
    <3>2. PICK m \in rows : m.id = order[i].id
      BY <3>1
    <3>3. i = RankIn(order, m)
      BY <1>1, <3>2, RankInIs DEF K, rows
    <3> QED
      BY <1>6, <1>7, <3>2, <3>3
  <2>2. \A q \in M : q.position \in 1 .. K
    BY <1>15
  <2> QED
    BY <1>2, <1>11, <2>1, <2>2, AllRanksTaken
<1>20. ASSUME NEW m \in M PROVE Contiguous(LessonsOf(d, m.id))
  <2>1. PICK r \in rows : m = Moved(r, RankIn(order, r))
    BY <1>7
  <2> DEFINE a == RankIn(order, r)
             S == LessonsOf(d, m.id)
             w == Width(order, a)
  <2>2. a \in 1 .. K /\ order[a].id = m.id
    BY <1>6, <2>1
  <2>3. /\ \A q \in S : q \in L /\ q.module = m.id
        /\ \A q \in L : q.module = m.id => q \in S
    BY <1>10 DEF LessonsOf
  <2>4. \A i, j \in 1 .. K : order[i].id = order[j].id => i = j
    BY <1>1 DEF Arranged, K
  <2> HIDE DEF a, S
  <2>5. ASSUME NEW q \in S PROVE q.position \in 1 .. w
    <3>1. PICK l \in t.lessons : q = Seated(order, l)
      BY <1>9, <2>3
    <3>2. HomeIn(order, l) = a
      BY <1>8, <2>2, <2>3, <2>4, <3>1
    <3> QED
      BY <1>8, <3>1, <3>2
  <2>6. ASSUME NEW j \in 1 .. w PROVE \E q \in S : q.position = j
    <3>0. \A c \in 1 .. K : \A i \in 1 .. Width(order, c) :
             \E l \in t.lessons : l.contentId = order[c].lessons[i]
      BY <1>1 DEF Arranged, K
    <3>1. \E l \in t.lessons : l.contentId = order[a].lessons[j]
      BY <2>2, <3>0
    <3>2. PICK l \in t.lessons : order[a].lessons[j] = l.contentId
      BY <3>1
    <3>3. HomeIn(order, l) = a /\ SeatIn(order, l) = j
      BY <1>4, <2>2, <3>2, HomeIs DEF K
    <3> QED
      BY <1>8, <1>9, <2>2, <2>3, <3>3
  <2>7. Apart(S)
    BY <1>12, <2>3 DEF LessonsFit, Apart
  <2>8. w \in Nat
    BY <1>2, <2>2
  <2> HIDE DEF w
  <2> QED
    BY <2>5, <2>6, <2>7, <2>8, AllRanksTaken DEF S
<1>21. PositionsAreContiguous(d)
  BY <1>10, <1>19, <1>20 DEF PositionsAreContiguous
<1> QED
  BY <1>10, <1>17, <1>18, <1>21 DEF GoesThrough, d
=============================================================================
