---------------------------- MODULE FileTransfer ----------------------------
(***************************************************************************)
(* File transfer over RPC: calls of freceiver() that have connected to a   *)
(* file sender (freceiver.cpp, file_cif.cpp, file_clnt.cpp), and the       *)
(* procedures those senders run (fsender.cpp, file_sif.cpp, file_srp.cpp). *)
(*                                                                         *)
(* A sender carries out one request at a time, of whichever receiver, and  *)
(* keeps one FILE pointer for all of them.  A receiver names a file, which *)
(* makes the sender open it, then asks for one block after another until   *)
(* a block is short.  A call may fail, or time out after 25 s; the request *)
(* of a call that timed out is carried out all the same, later.            *)
(*                                                                         *)
(* A file is a number of full blocks of BUFSIZE bytes and a short one,     *)
(* possibly without a byte, which ends it.                                 *)
(***************************************************************************)
EXTENDS Naturals, Sequences

CONSTANTS
  Sender,
  Receiver,
  Reaches,    \* the sender each receiver is connected to
  File,       \* file names
  Present,    \* those that the senders can read
  Blocks,     \* the number of full blocks of a file
  Stack,      \* what may be left of a block when the reply is encoded
  Garbage,    \* a block that is not the file's
  WrongName,  \* the text "Wrong file name", sent in place of a block
  NoFile,     \* the null FILE pointer
  NoReply,
  Failure,    \* the call did not succeed
  MaxOpen,    \* FILEs a process can have open
  Lists,      \* how many names the receivers may have in their lists
  MaxFaults   \* bound on timeouts and killed processes

VARIABLES
  alive,      \* the senders still running
  fp,         \* fpS of each sender
  leaked,     \* FILEs of a sender that are open and that nothing points to
  pc,         \* where each receiver is
  names,      \* how many names its list may still have
  cur,        \* the file it is fetching
  asked,      \* its call the sender has not carried out yet
  late,       \* names of earlier, timed out calls not carried out yet
  reply,      \* the sender's answer to its call
  copy,       \* the blocks written to its local files
  status,     \* what it has said of them
  disturbed,  \* history: another receiver's request came in between
  faults

sender == <<alive, fp, leaked>>
receiver == <<names, cur, copy, status>>
vars == <<alive, fp, leaked, pc, names, cur, asked, late, reply, copy, status,
          disturbed, faults>>

Piece == (File \X Nat) \cup {Garbage, WrongName}

ASSUME TransferAssumption ==
  /\ Reaches \in [Receiver -> Sender]
  /\ Present \subseteq File
  /\ Blocks \in [File -> Nat]
  /\ Stack \subseteq {"intact", "garbled", "refused"}
  /\ Garbage \notin File \X Nat
  /\ NoFile \notin [file : File, pos : Nat, open : BOOLEAN]
  /\ NoReply \notin [full : BOOLEAN, piece : Piece] \cup [found : BOOLEAN]
  /\ Failure \notin [full : BOOLEAN, piece : Piece] \cup [found : BOOLEAN]
  /\ NoReply # Failure
  /\ MaxOpen \in Nat \ {0}
  /\ Lists \subseteq [Receiver -> Nat]
  /\ MaxFaults \in Nat

Init ==
  /\ alive = [s \in Sender |-> TRUE]
  /\ fp = [s \in Sender |-> NoFile]
  /\ leaked = [s \in Sender |-> 0]
  /\ names \in Lists
  /\ pc = [r \in Receiver |-> IF names[r] = 0 THEN "done" ELSE "idle"]
  /\ \E f \in File : cur = [r \in Receiver |-> f]
  /\ asked = [r \in Receiver |-> "none"]
  /\ late = [r \in Receiver |-> <<>>]
  /\ reply = [r \in Receiver |-> NoReply]
  /\ copy = [r \in Receiver |-> [f \in File |-> <<>>]]
  /\ status = [r \in Receiver |-> [f \in File |-> "none"]]
  /\ disturbed = [r \in Receiver |-> FALSE]
  /\ faults = 0

-----------------------------------------------------------------------------
(* The sender.  A request is carried out in one step: svc_run() handles    *)
(* one at a time.                                                          *)

IsOpen(s) == fp[s] # NoFile /\ fp[s].open

OpenFiles(s) == leaked[s] + (IF IsOpen(s) THEN 1 ELSE 0)

(* Between the opening of its file and the end of its call, a receiver     *)
(* depends on the pointer.                                                 *)
InProgress(r) ==
  \/ pc[r] = "checking" /\ asked[r] = "none"
  \/ pc[r] = "reading"

(* A request of r reaches the sender while others depend on its pointer.   *)
Disturb(r) ==
  {q \in Receiver \ {r} : Reaches[q] = Reaches[r] /\ InProgress(q)}

(* A file that is open already is not opened again.                        *)
CheckNameOnce(s, f) ==
  /\ fp' = [fp EXCEPT ![s] =
              IF IsOpen(s) /\ @.file = f THEN @
              ELSE IF f \in Present /\ OpenFiles(s) < MaxOpen
              THEN [file |-> f, pos |-> 0, open |-> TRUE]
              ELSE NoFile]
  /\ leaked' = [leaked EXCEPT ![s] =
                  IF IsOpen(s) /\ fp[s].file = f THEN @ ELSE OpenFiles(s)]
  /\ UNCHANGED alive

(* checkfilename_s() opens the file over whatever the pointer was; when    *)
(* no more FILEs can be opened it is left null, and the answer is 1.       *)
CheckName(s, f) ==
  /\ fp' = [fp EXCEPT ![s] =
              IF f \in Present /\ OpenFiles(s) < MaxOpen
              THEN [file |-> f, pos |-> 0, open |-> TRUE]
              ELSE NoFile]
  /\ leaked' = [leaked EXCEPT ![s] = OpenFiles(s)]
  /\ UNCHANGED alive

(* The reply, unless nobody waits for it any more.                         *)
Answers(r, a) ==
  reply' = [reply EXCEPT ![r] = IF pc[r] = "dead" THEN @ ELSE a]

(* The request of a call that timed out; the reply is thrown away.         *)
ServeLate(r) ==
  /\ alive[Reaches[r]]
  /\ late[r] # <<>>
  /\ CheckName(Reaches[r], Head(late[r]))
  /\ late' = [late EXCEPT ![r] = Tail(@)]
  /\ disturbed' = [q \in Receiver |-> disturbed[q] \/ q \in Disturb(r)]
  /\ UNCHANGED <<pc, receiver, asked, reply, faults>>

ServeCheck(r) ==
  /\ alive[Reaches[r]]
  /\ late[r] = <<>>
  /\ asked[r] = "check"
  /\ CheckName(Reaches[r], cur[r])
  /\ Answers(r, [found |-> cur[r] \in Present])
  /\ asked' = [asked EXCEPT ![r] = "none"]
  /\ disturbed' = [q \in Receiver |->
                     q # r /\ (disturbed[q] \/ q \in Disturb(r))]
  /\ UNCHANGED <<pc, receiver, late, faults>>

(* The block is a local array of fileread_s() (file_srp.cpp:29), encoded   *)
(* as a C string after the function has returned: it may be intact, or     *)
(* overwritten in part, or too long by what follows it, which makes        *)
(* svc_sendreply() report an error.  Its size is always right.             *)
Encoded(full, p) ==
  {[full |-> full, piece |-> p] : x \in Stack \cap {"intact"}}
    \cup {[full |-> full, piece |-> Garbage] : x \in Stack \cap {"garbled"}}
    \cup {Failure : x \in Stack \cap {"refused"}}

(* A short block does not close the FILE.                                  *)
ReadNoClose(r, s) ==
  /\ IsOpen(s)
  /\ LET full == fp[s].pos < Blocks[fp[s].file]
     IN  /\ fp' = [fp EXCEPT ![s].pos = @ + 1]
         /\ \E a \in Encoded(full, <<fp[s].file, fp[s].pos + 1>>) :
              Answers(r, a)
  /\ UNCHANGED <<alive, leaked>>

(* fread() of the next block of an open FILE; a short one closes it, and   *)
(* the pointer is kept.                                                    *)
ReadOpen(r, s) ==
  /\ IsOpen(s)
  /\ LET full == fp[s].pos < Blocks[fp[s].file]
     IN  /\ fp' = [fp EXCEPT ![s] =
                      [file |-> @.file, pos |-> @.pos + 1, open |-> full]]
         /\ \E a \in Encoded(full, <<fp[s].file, fp[s].pos + 1>>) :
              Answers(r, a)
  /\ UNCHANGED <<alive, leaked>>

ReadNull(r, s) ==
  /\ fp[s] = NoFile
  /\ \E a \in Encoded(FALSE, WrongName) : Answers(r, a)
  /\ UNCHANGED sender

(* fread() of a FILE that was closed, and fclose() of it again: the        *)
(* process dies, or it gets away with reading nothing.                     *)
ReadClosed(r, s) ==
  /\ fp[s] # NoFile /\ ~fp[s].open
  /\ \/ /\ alive' = [alive EXCEPT ![s] = FALSE]
        /\ UNCHANGED reply
     \/ /\ \E a \in Encoded(FALSE, Garbage) : Answers(r, a)
        /\ UNCHANGED alive
  /\ UNCHANGED <<fp, leaked>>

ServeRead(r) ==
  /\ alive[Reaches[r]]
  /\ late[r] = <<>>
  /\ asked[r] = "read"
  /\ \/ ReadOpen(r, Reaches[r])
     \/ ReadNull(r, Reaches[r])
     \/ ReadClosed(r, Reaches[r])
  /\ asked' = [asked EXCEPT ![r] = "none"]
  /\ disturbed' = [q \in Receiver |-> disturbed[q] \/ q \in Disturb(r)]
  /\ UNCHANGED <<pc, receiver, late, faults>>

-----------------------------------------------------------------------------
(* The receiver.  The list of names it is given is chosen as it goes.      *)

(* The next name of the list.                                              *)
Ask(r) ==
  /\ pc[r] = "idle"
  /\ names[r] > 0
  /\ names' = [names EXCEPT ![r] = @ - 1]
  /\ \E f \in File : cur' = [cur EXCEPT ![r] = f]
  /\ pc' = [pc EXCEPT ![r] = "checking"]
  /\ asked' = [asked EXCEPT ![r] = "check"]
  /\ reply' = [reply EXCEPT ![r] = NoReply]
  /\ UNCHANGED <<sender, late, copy, status, disturbed, faults>>

(* The list is at its end.                                                 *)
Leave(r) ==
  /\ pc[r] = "idle"
  /\ pc' = [pc EXCEPT ![r] = "done"]
  /\ UNCHANGED <<sender, receiver, asked, late, reply, disturbed, faults>>

CallRead(r) ==
  /\ asked' = [asked EXCEPT ![r] = "read"]
  /\ reply' = [reply EXCEPT ![r] = NoReply]

(* The local file is opened with "a": it keeps what it has.                *)
BeginAppend(r) ==
  /\ pc[r] = "checking"
  /\ reply[r] = [found |-> TRUE]
  /\ pc' = [pc EXCEPT ![r] = "reading"]
  /\ status' = [status EXCEPT ![r][cur[r]] = "part"]
  /\ CallRead(r)
  /\ UNCHANGED <<sender, names, cur, late, copy, disturbed, faults>>

(* The file is there: fopen(filename, "w") empties the local one.          *)
Begin(r) ==
  /\ pc[r] = "checking"
  /\ reply[r] = [found |-> TRUE]
  /\ pc' = [pc EXCEPT ![r] = "reading"]
  /\ copy' = [copy EXCEPT ![r][cur[r]] = <<>>]
  /\ status' = [status EXCEPT ![r][cur[r]] = "part"]
  /\ CallRead(r)
  /\ UNCHANGED <<sender, names, cur, late, disturbed, faults>>

(* The file is not there: "failed to get file".                            *)
Absent(r) ==
  /\ pc[r] = "checking"
  /\ reply[r] = [found |-> FALSE]
  /\ pc' = [pc EXCEPT ![r] = "idle"]
  /\ UNCHANGED <<sender, receiver, asked, late, reply, disturbed, faults>>

HasBlock(r) == pc[r] = "reading" /\ reply[r] \notin {NoReply, Failure}

(* fwrite() of the sz bytes that the reply says it has.                    *)
Store(r) == copy' = [copy EXCEPT ![r][cur[r]] = Append(@, reply[r].piece)]

FullBlock(r) ==
  /\ HasBlock(r)
  /\ reply[r].full
  /\ Store(r)
  /\ CallRead(r)
  /\ UNCHANGED <<sender, pc, names, cur, late, status, disturbed, faults>>

(* Only a block without a byte ends the loop.                              *)
ShortGoesOn(r) ==
  /\ HasBlock(r)
  /\ ~reply[r].full
  /\ UNCHANGED copy
  /\ CallRead(r)
  /\ UNCHANGED <<sender, pc, names, cur, late, status, disturbed, faults>>

(* sz < BUFSIZE: the file is "downloaded".  What is "mixed" was fetched    *)
(* while others used the sender.                                           *)
ShortBlock(r) ==
  /\ HasBlock(r)
  /\ ~reply[r].full
  /\ Store(r)
  /\ pc' = [pc EXCEPT ![r] = "idle"]
  /\ status' = [status EXCEPT ![r][cur[r]] =
                  IF disturbed[r] THEN "mixed" ELSE "whole"]
  /\ UNCHANGED <<sender, names, cur, asked, late, reply, disturbed, faults>>

(* A reply that says so, or the end of the connection with the sender.     *)
CallFails(r) ==
  /\ pc[r] \in {"checking", "reading"}
  /\ reply[r] = Failure \/ (reply[r] = NoReply /\ ~alive[Reaches[r]])
  /\ asked' = [asked EXCEPT ![r] = "none"]
  /\ UNCHANGED <<late, faults>>

(* 25 s have passed, with the request not carried out or the reply under   *)
(* way.                                                                    *)
CallTimesOut(r) ==
  /\ pc[r] \in {"checking", "reading"}
  /\ faults < MaxFaults
  /\ faults' = faults + 1
  /\ IF asked[r] = "check"
     THEN /\ late' = [late EXCEPT ![r] = Append(@, cur[r])]
          /\ asked' = [asked EXCEPT ![r] = "none"]
     ELSE UNCHANGED <<late, asked>>

(* checkfilename() returns 0 for it, which reads as "failed to get file";  *)
(* fileread() dereferences the NULL it is given, and the process dies.     *)
NoResult(r) ==
  /\ CallFails(r) \/ CallTimesOut(r)
  /\ pc' = [pc EXCEPT ![r] = IF @ = "checking" THEN "idle" ELSE "dead"]
  /\ reply' = [reply EXCEPT ![r] = NoReply]
  /\ UNCHANGED <<sender, receiver, disturbed>>

(* The process ends, or dies of a local file it cannot open.               *)
Killed(r) ==
  /\ pc[r] \in {"checking", "reading"}
  /\ faults < MaxFaults
  /\ faults' = faults + 1
  /\ pc' = [pc EXCEPT ![r] = "dead"]
  /\ reply' = [reply EXCEPT ![r] = NoReply]
  /\ UNCHANGED <<sender, receiver, asked, late, disturbed>>

SenderKilled(s) ==
  /\ alive[s]
  /\ faults < MaxFaults
  /\ faults' = faults + 1
  /\ alive' = [alive EXCEPT ![s] = FALSE]
  /\ UNCHANGED <<fp, leaked, pc, receiver, asked, late, reply, disturbed>>

Serve(r) == ServeLate(r) \/ ServeCheck(r) \/ ServeRead(r)

Receive(r) ==
  Begin(r) \/ Absent(r) \/ FullBlock(r) \/ ShortBlock(r) \/ NoResult(r)

Next ==
  \/ \E r \in Receiver :
       Ask(r) \/ Leave(r) \/ Serve(r) \/ Receive(r) \/ Killed(r)
  \/ \E s \in Sender : SenderKilled(s)

(* A sender that runs gets to each of its receivers, and a receiver that   *)
(* has a result goes on.                                                   *)
Fairness ==
  \A r \in Receiver : WF_vars(Serve(r)) /\ WF_vars(Receive(r))

Spec == Init /\ [][Next]_vars /\ Fairness

-----------------------------------------------------------------------------
(* Properties.                                                             *)

(* Every variable has its type, a FILE is open only up to its short block, *)
(* and no sender has more FILEs open than a process can have.              *)
TypeOK ==
  /\ alive \in [Sender -> BOOLEAN]
  /\ fp \in [Sender -> [file : File, pos : Nat, open : BOOLEAN] \cup {NoFile}]
  /\ leaked \in [Sender -> Nat]
  /\ \A s \in Sender :
       /\ IsOpen(s) => fp[s].pos <= Blocks[fp[s].file]
       /\ OpenFiles(s) <= MaxOpen
  /\ pc \in [Receiver -> {"idle", "checking", "reading", "done", "dead"}]
  /\ names \in [Receiver -> Nat]
  /\ cur \in [Receiver -> File]
  /\ asked \in [Receiver -> {"none", "check", "read"}]
  /\ late \in [Receiver -> Seq(File)]
  /\ reply \in [Receiver -> [full : BOOLEAN, piece : Piece]
                            \cup [found : BOOLEAN] \cup {NoReply, Failure}]
  /\ copy \in [Receiver -> [File -> Seq(Piece)]]
  /\ status \in [Receiver -> [File -> {"none", "part", "mixed", "whole"}]]
  /\ disturbed \in [Receiver -> BOOLEAN]
  /\ faults \in 0 .. MaxFaults

Said == {"mixed", "whole"}

(* A file fetched while nobody else used the sender has all the blocks of  *)
(* the original in their order, each as far as the stack let it be sent    *)
(* (file_srp.cpp:27-49, freceiver.cpp:26-47): whatever other receivers did *)
(* to the pointer before, whatever calls had timed out or clients died,    *)
(* unless the sender had run out of FILEs.                                 *)
UndisturbedIsFaithful ==
  \A r \in Receiver, f \in File :
    status[r][f] = "whole" /\ leaked[Reaches[r]] < MaxOpen =>
      /\ f \in Present
      /\ Len(copy[r][f]) = Blocks[f] + 1
      /\ \A i \in 1 .. Blocks[f] + 1 :
           \/ copy[r][f][i] = <<f, i>>
           \/ "garbled" \in Stack /\ copy[r][f][i] = Garbage

Alone(r) == \A q \in Receiver \ {r} : Reaches[q] # Reaches[r]

(* The sender of a single receiver closes every FILE it opens, but for one *)
(* per call that was cut off (file_srp.cpp:18,39).                         *)
LeaksOnlyByFaults ==
  \A r \in Receiver : Alone(r) => leaked[Reaches[r]] <= faults

(* A sender loses a FILE, one of the few that its process can have, only   *)
(* when a request opens another file while a transfer is under way or      *)
(* after one was cut short: freceiver() goes on to the short block that    *)
(* closes the file whatever it gets in between (freceiver.cpp:31-40).      *)
LostOnlyInUse ==
  [][\A s \in Sender :
       leaked'[s] > leaked[s] =>
         \/ faults > 0
         \/ \E r \in Receiver :
              Reaches[r] = s /\ (InProgress(r) \/ pc[r] = "dead")]_vars

(* All the blocks of a file, as the stack may let them be sent.            *)
Genuine ==
  [f \in Present |->
     {c \in [1 .. Blocks[f] + 1 ->
               ({f} \X (1 .. Blocks[f] + 1)) \cup {Garbage}] :
        \A i \in 1 .. Blocks[f] + 1 :
          c[i] = <<f, i>> \/ ("garbled" \in Stack /\ c[i] = Garbage)}]

Copies ==
  [r \in Receiver |->
     [f \in Present |->
        IF status[r][f] \notin Said THEN <<>>
        ELSE IF copy[r][f] \in Genuine[f] THEN copy[r][f] ELSE Garbage]]

Copy ==
  INSTANCE FileCopy WITH
    File <- Present,
    Mixed <- Garbage,
    NoCopy <- <<>>,
    copies <- Copies,
    spent <- {s \in Sender : leaked[s] >= MaxOpen}

(* A receiver with a sender of its own gets whole files or none, whatever  *)
(* calls fail or time out and whatever becomes of the blocks on the stack  *)
(* of the sender (file_srp.cpp:29,45), until that sender has run out of    *)
(* FILEs; whoever shares one may get any mixture.                          *)
ImplementsFileCopy == Copy!Spec

(* No receiver waits for ever: each name it asks for is fetched or given   *)
(* up, or the receiver ends.                                               *)
CallEnds ==
  \A r \in Receiver :
    pc[r] \in {"checking", "reading"} ~> pc[r] \in {"idle", "done", "dead"}
=============================================================================
