\* A student who may try two IDs while an instructor registers and deletes
\* them; the instructor has no grade column, and passwords are not told apart.
CONSTANTS
  StuHandler = {h1}
  InsHandler = {h2}
  StudentID = {s1, s2}
  OtherText = otherText
  InstructorID = {i0, i3}
  Administrator = i0
  Enlisted = {i3}
  Teacher = {i0}
  Grade = {none}
  NotEnrolled = none
  NoRow = noRow
  DefaultPwd = default
  OwnPwd = default
  Empty = empty
  Nobody = nobody
  Pending = pending
  InitTables <- AllEnrolled
  InitBoard <- AnyBoard
  MaxFaults = 1
SPECIFICATION Spec
INVARIANTS LoginSound
PROPERTIES MutualWaitOnlyByNoGreeting Answered
CHECK_DEADLOCK FALSE
