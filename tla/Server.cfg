\* A student, an instructor and a stranger; one failure anywhere.
CONSTANTS
  Student = {s1}
  Instructor = {i1}
  Stranger = {x1}
  Listener = msock
  NoClient = noClient
  QLen = 2
  MaxFaults = 1
SPECIFICATION Spec
INVARIANTS TypeOK Isolation NoLostZombie HandedOverOnce RestartableOnceAlone
PROPERTIES ImplementsReception ServedIfOthersLeave PortFreedUnlessSender
CHECK_DEADLOCK FALSE
