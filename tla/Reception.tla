----------------------------- MODULE Reception ------------------------------
(***************************************************************************)
(* What the server promises of its connections: they are served in the     *)
(* order in which they came, each by one session and once.  Closing turns  *)
(* away who waits and lets the sessions go on; the server opens again      *)
(* only when they have all ended.                                          *)
(*                                                                         *)
(* Module Server has the processes, descriptors and signals that do it.    *)
(***************************************************************************)
EXTENDS Naturals, Sequences

CONSTANTS
  Client,   \* connections
  Capacity  \* how many can wait

VARIABLES
  open,     \* whether the server runs
  seen,     \* all connections there have been
  waiting,  \* those not served yet, in order
  serving   \* those with a session

vars == <<open, seen, waiting, serving>>

Init ==
  /\ open = TRUE
  /\ seen = {}
  /\ waiting = << >>
  /\ serving = {}

Arrive(c) ==
  /\ open
  /\ c \notin seen
  /\ Len(waiting) < Capacity
  /\ seen' = seen \cup {c}
  /\ waiting' = Append(waiting, c)
  /\ UNCHANGED <<open, serving>>

Serve ==
  /\ open
  /\ waiting # << >>
  /\ Head(waiting) \notin serving
  /\ serving' = serving \cup {Head(waiting)}
  /\ waiting' = Tail(waiting)
  /\ UNCHANGED <<open, seen>>

End(c) ==
  /\ c \in serving
  /\ serving' = serving \ {c}
  /\ UNCHANGED <<open, seen, waiting>>

Close ==
  /\ open
  /\ open' = FALSE
  /\ waiting' = << >>
  /\ UNCHANGED <<seen, serving>>

Reopen ==
  /\ ~open
  /\ serving = {}
  /\ open' = TRUE
  /\ UNCHANGED <<seen, waiting, serving>>

Next ==
  \/ Serve
  \/ Close
  \/ Reopen
  \/ \E c \in Client : Arrive(c) \/ End(c)

Spec == Init /\ [][Next]_vars
=============================================================================
