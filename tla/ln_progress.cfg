SPECIFICATION Spec
CONSTANTS
  Procs = {p1, p2}
  Courses = {c1}
  a = a
  b = b
  Lessons = {a, b}
  Syllabi <- ABSyllabi
  RequestIds = {r1}
  NoLesson = NoLesson
  MaxVersion = 2
  MaxRevision = 3
  MaxGeneration = 1
CONSTRAINT EarlyRestart
SYMMETRY Symmetry
INVARIANTS
  TypeOK
  ReadingPositionExists
  RevisionNamesState
  AchievementIsRecorded
  OneActivityPerLesson
PROPERTY WritesActOnWhatWasSeen
