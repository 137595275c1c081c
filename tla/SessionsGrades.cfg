\* Two instructors at work on one record, one failure.
CONSTANTS
  StuHandler = {}
  InsHandler = {h1, h2}
  StudentID = {s1}
  OtherText = otherText
  InstructorID = {i0, i1}
  Administrator = i0
  Enlisted = {i0, i1}
  Teacher = {i0, i1}
  Grade = {none, g1}
  NotEnrolled = none
  NoRow = noRow
  DefaultPwd = default
  OwnPwd = own
  Empty = empty
  Nobody = nobody
  Pending = pending
  InitTables <- OneEnrolled
  InitBoard <- BoardPosted
  MaxFaults = 1
SPECIFICATION Spec
INVARIANTS TypeOK
PROPERTIES WritesAuthorized ImplementsGradebook
CHECK_DEADLOCK FALSE
