\* Sessions of up to five queries.
CONSTANTS
  Unset = unset
  Null = null
  MaxQueries = 5
SPECIFICATION Spec
INVARIANTS TypeOK OneStatement OwnResult 
CHECK_DEADLOCK FALSE
