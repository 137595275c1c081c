\* A student logs in before there is any notification.
CONSTANTS
  StuHandler = {h1}
  InsHandler = {}
  StudentID = {s1}
  OtherText = otherText
  InstructorID = {i0}
  Administrator = i0
  Enlisted = {i0}
  Teacher = {i0}
  Grade = {none, g1}
  NotEnrolled = none
  NoRow = noRow
  DefaultPwd = default
  OwnPwd = own
  Empty = empty
  Nobody = nobody
  Pending = pending
  InitTables <- OneEnrolled
  InitBoard <- BoardEmpty
  MaxFaults = 0
SPECIFICATION Spec
PROPERTIES AskedForCommand
CHECK_DEADLOCK FALSE
