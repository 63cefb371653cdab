SPECIFICATION Spec
CONSTANTS
  Procs = {p1, p2}
  Courses = {c1, c2}
  a = a
  b = b
  Lessons = {a}
  Syllabi <- OneSyllabus
  RequestIds = {r1, r2}
  NoLesson = NoLesson
  MaxVersion = 1
  MaxRevision = 1
  MaxGeneration = 2
CONSTRAINT ProgressOrSecondCourse
SYMMETRY Symmetry
INVARIANTS
  RestartsAreOnRecord
  OneActiveCourse
