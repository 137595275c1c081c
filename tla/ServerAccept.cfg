\* No failures: the accept loop alone.
CONSTANTS
  Student = {s1}
  Instructor = {i1}
  Stranger = {x1}
  Listener = msock
  NoClient = noClient
  QLen = 2
  MaxFaults = 0
SPECIFICATION Spec
PROPERTIES ServedWhileOthersStay
CHECK_DEADLOCK FALSE
