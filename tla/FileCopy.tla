------------------------------ MODULE FileCopy ------------------------------
(***************************************************************************)
(* What file transfer promises: a file that a receiver reports as          *)
(* downloaded is the file of the sender, as far as its blocks got through  *)
(* at all.  Nothing is promised of a sender that several receivers use, or *)
(* that has run out of FILEs.  Module FileTransfer has the calls that      *)
(* carry it out.                                                           *)
(***************************************************************************)
CONSTANTS
  Receiver,  \* those who fetch files
  Sender,    \* those who have them
  Reaches,   \* the sender of each receiver
  File,      \* the names of the files
  Genuine,   \* what a copy of each file may be
  Mixed,     \* any other copy
  NoCopy     \* no copy that was reported as downloaded

VARIABLES
  copies,    \* the copies reported as downloaded, by receiver and name
  spent      \* the senders that have run out of FILEs

Shares(r) == \E q \in Receiver \ {r} : Reaches[q] = Reaches[r]

Init ==
  /\ copies = [r \in Receiver |-> [f \in File |-> NoCopy]]
  /\ spent = {}

Deliver(r, f) ==
  /\ \E c \in Genuine[f] : copies' = [copies EXCEPT ![r][f] = c]
  /\ UNCHANGED spent

DeliverMixed(r, f) ==
  /\ Shares(r) \/ Reaches[r] \in spent
  /\ copies' = [copies EXCEPT ![r][f] = Mixed]
  /\ UNCHANGED spent

(* Fetching a file again destroys the copy there was.                      *)
Overwrite(r, f) ==
  /\ copies' = [copies EXCEPT ![r][f] = NoCopy]
  /\ UNCHANGED spent

RunOut(s) ==
  /\ spent' = spent \cup {s}
  /\ UNCHANGED copies

Next ==
  \/ \E r \in Receiver, f \in File :
       Deliver(r, f) \/ DeliverMixed(r, f) \/ Overwrite(r, f)
  \/ \E s \in Sender : RunOut(s)

Spec == Init /\ [][Next]_<<copies, spent>>
=============================================================================
