\* An instructor who is not the administrator deletes a record.
CONSTANTS
  StuHandler = {}
  InsHandler = {h1}
  StudentID = {s1}
  OtherText = otherText
  InstructorID = {i0, i1}
  Administrator = i0
  Enlisted = {i0, i1}
  Teacher = {i0, i1}
  Grade = {none, g1}
  NotEnrolled = none
  NoRow = noRow
  DefaultPwd = default
  OwnPwd = own
  Empty = empty
  Nobody = nobody
  Pending = pending
  InitTables <- OneEnrolled
  InitBoard <- BoardPosted
  MaxFaults = 0
SPECIFICATION Spec
PROPERTIES OnlyAdministratorDeletes
CHECK_DEADLOCK FALSE
