\* Three senders starting in any order, two of which may fail.
CONSTANTS
  Sender = {f1, f2, f3}
  Receiver = {r1}
  NoOne = noOne
  Dead = dead
  MaxFaults = 2
SPECIFICATION Spec
INVARIANTS TypeOK LookupFindsSender NoStaleMapping
PROPERTIES StartedLeadsToService
CHECK_DEADLOCK FALSE
