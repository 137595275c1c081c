------------------------- MODULE FileTransferProofs -------------------------
(***************************************************************************)
(* Proofs about module FileTransfer, for any senders, receivers and files. *)
(*                                                                         *)
(* The argument: as long as no request of another receiver comes in, the   *)
(* position of the FILE and the length of the local copy move together, by *)
(* one block per call, and the block that is under way is the one between  *)
(* them.                                                                   *)
(***************************************************************************)
EXTENDS FileTransfer, SequenceTheorems, TLAPS

BlockReply == [full : BOOLEAN, piece : Piece]

NameReply == [found : BOOLEAN]

Replies == [Receiver -> BlockReply \cup NameReply \cup {NoReply, Failure}]

(* A receiver has one call under way, of the kind that it waits for.       *)
CallsOf(r) ==
  /\ asked[r] = "check" => pc[r] \in {"checking", "dead"}
  /\ asked[r] = "read" => pc[r] \in {"reading", "dead"}
  /\ asked[r] # "none" /\ pc[r] # "dead" => reply[r] = NoReply
  /\ pc[r] = "checking" => reply[r] \in NameReply \cup {NoReply}
  /\ pc[r] = "checking" /\ reply[r] = [found |-> TRUE] => cur[r] \in Present
  /\ pc[r] = "checking" /\ asked[r] = "none" => reply[r] # NoReply
  /\ pc[r] = "reading" => /\ reply[r] \in BlockReply \cup {NoReply, Failure}
                          /\ status[r][cur[r]] = "part"
                          /\ cur[r] \in Present
  /\ InProgress(r) => late[r] = <<>>

(* The piece is block i of file f, as far as the stack let it be sent.     *)
Faithful(p, f, i) == p = <<f, i>> \/ ("garbled" \in Stack /\ p = Garbage)

(* The first n blocks of the local copy are those of the file.             *)
CopiedUpTo(r, f, n) ==
  /\ f \in Present
  /\ Len(copy[r][f]) = n
  /\ \A i \in 1 .. n : Faithful(copy[r][f][i], f, i)

At(s, f, n) == fp[s] = [file |-> f, pos |-> n, open |-> TRUE]

(* The FILE is where the copy is, or a block further on.                   *)
InStepOf(r) ==
  LET f == cur[r]
      s == Reaches[r]
      n == Len(copy[r][f])
  IN  /\ pc[r] = "checking" /\ reply[r] = [found |-> TRUE] =>
           f \in Present /\ At(s, f, 0)
      /\ pc[r] = "reading" =>
           /\ CopiedUpTo(r, f, n)
           /\ asked[r] = "read" => At(s, f, n)
           /\ reply[r] \in BlockReply =>
                /\ Faithful(reply[r].piece, f, n + 1)
                /\ reply[r].full => At(s, f, n + 1)
                /\ ~reply[r].full => n = Blocks[f]

(* What one receiver has, unless others came in between.                   *)
FaithfulOf(r) ==
  leaked[Reaches[r]] < MaxOpen =>
    /\ ~disturbed[r] => InStepOf(r)
    /\ \A f \in File :
         status[r][f] = "whole" => CopiedUpTo(r, f, Blocks[f] + 1)

IInv == TypeOK /\ \A r \in Receiver : CallsOf(r) /\ FaithfulOf(r)

(* The next open, or the next late request, leaks the FILE that is open.   *)
Abandoned(r) ==
  /\ IsOpen(Reaches[r])
  /\ ~InProgress(r)
  /\ pc[r] = "dead" => late[r] # <<>> \/ asked[r] = "check"

(* The FILEs that a receiver by itself leaks, and those it still may.      *)
DebtOf(r) ==
  Alone(r) =>
    /\ ~disturbed[r]
    /\ leaked[Reaches[r]] + Len(late[r]) + (IF Abandoned(r) THEN 1 ELSE 0)
         <= faults
    /\ pc[r] = "checking" /\ reply[r] = [found |-> FALSE] =>
         ~IsOpen(Reaches[r])
    /\ pc[r] = "reading" /\ reply[r] \in BlockReply /\ ~reply[r].full =>
         ~IsOpen(Reaches[r])

Debts == \A r \in Receiver : DebtOf(r)

-----------------------------------------------------------------------------
(* What Encoded() can be, and that the sender of a step opens at most one  *)
(* FILE.                                                                   *)

(* A reply that carries a block is one of the three that Stack allows.     *)
LEMMA EncodedReply ==
  ASSUME NEW full \in BOOLEAN, NEW p \in Piece, NEW a \in Encoded(full, p)
  PROVE  /\ a \in BlockReply \cup {Failure}
         /\ a # Failure => /\ a.full = full
                           /\ \/ a.piece = p
                              \/ "garbled" \in Stack /\ a.piece = Garbage
BY DEF Encoded, Piece, BlockReply

(* The initial states satisfy the invariants.                              *)
LEMMA InitIInv == Init => IInv /\ Debts
<1> SUFFICES ASSUME Init PROVE IInv /\ Debts
  OBVIOUS
<1> USE TransferAssumption DEF Init
<1>1. TypeOK
  BY DEF TypeOK, IsOpen, OpenFiles
<1>2. ASSUME NEW r \in Receiver
      PROVE  CallsOf(r) /\ FaithfulOf(r) /\ DebtOf(r)
  <2>1. pc[r] \in {"idle", "done"} /\ asked[r] = "none" /\ late[r] = <<>>
    OBVIOUS
  <2>2. CallsOf(r) /\ FaithfulOf(r)
    BY <2>1 DEF CallsOf, FaithfulOf, InStepOf, InProgress
  <2>3. DebtOf(r)
    BY <2>1 DEF DebtOf, Abandoned, IsOpen
  <2> QED
    BY <2>2, <2>3
<1> QED
  BY <1>1, <1>2 DEF IInv, Debts

(* A checkfilename() leaves a sender well typed.                           *)
LEMMA CheckNameType ==
  ASSUME TypeOK, NEW s \in Sender, NEW f \in File, CheckName(s, f)
  PROVE  /\ alive' \in [Sender -> BOOLEAN]
         /\ fp' \in [Sender ->
                      [file : File, pos : Nat, open : BOOLEAN] \cup {NoFile}]
         /\ leaked' \in [Sender -> Nat]
         /\ \A t \in Sender :
              /\ IsOpen(t)' => fp'[t].pos <= Blocks[fp'[t].file]
              /\ OpenFiles(t)' <= MaxOpen
BY TransferAssumption DEF TypeOK, CheckName, IsOpen, OpenFiles

(* Every step keeps the types.                                             *)
LEMMA StepTypeOK ==
  ASSUME TypeOK, \A r \in Receiver : CallsOf(r), [Next]_vars
  PROVE  TypeOK'
<1> USE TransferAssumption
<1>1. ASSUME NEW r \in Receiver, ServeLate(r)
      PROVE  TypeOK'
  <2>1. Reaches[r] \in Sender /\ Head(late[r]) \in File
    BY <1>1 DEF TypeOK, ServeLate
  <2>2. CheckName(Reaches[r], Head(late[r]))
    BY <1>1 DEF ServeLate
  <2>3. late' \in [Receiver -> Seq(File)]
    BY <1>1 DEF TypeOK, ServeLate
  <2>4. disturbed' \in [Receiver -> BOOLEAN]
    BY <1>1 DEF TypeOK, ServeLate
  <2> QED
    BY <1>1, <2>1, <2>2, <2>3, <2>4, CheckNameType
    DEF TypeOK, ServeLate, receiver
<1>2. ASSUME NEW r \in Receiver, ServeCheck(r)
      PROVE  TypeOK'
  <2>1. Reaches[r] \in Sender /\ cur[r] \in File
    BY DEF TypeOK
  <2>2. CheckName(Reaches[r], cur[r])
    BY <1>2 DEF ServeCheck
  <2>3. reply' \in Replies
    BY <1>2 DEF TypeOK, ServeCheck, Answers, Replies, BlockReply, NameReply
  <2>4. disturbed' \in [Receiver -> BOOLEAN]
    BY <1>2 DEF TypeOK, ServeCheck
  <2>5. asked' \in [Receiver -> {"none", "check", "read"}]
    BY <1>2 DEF TypeOK, ServeCheck
  <2> QED
    BY <1>2, <2>1, <2>2, <2>3, <2>4, <2>5, CheckNameType
    DEF TypeOK, ServeCheck, receiver, Replies, BlockReply, NameReply
<1>3. ASSUME NEW r \in Receiver, ServeRead(r)
      PROVE  TypeOK'
  <2> DEFINE s == Reaches[r]
  <2>1. s \in Sender
    BY DEF TypeOK
  <2>2. /\ disturbed' \in [Receiver -> BOOLEAN]
        /\ asked' \in [Receiver -> {"none", "check", "read"}]
        /\ UNCHANGED <<pc, receiver, late, faults>>
    BY <1>3 DEF TypeOK, ServeRead
  <2>3. CASE ReadOpen(r, s)
    <3> DEFINE full == fp[s].pos < Blocks[fp[s].file]
               p == <<fp[s].file, fp[s].pos + 1>>
    <3>1. /\ fp[s] \in [file : File, pos : Nat, open : BOOLEAN]
          /\ fp[s].open
          /\ full \in BOOLEAN
          /\ p \in Piece
      BY <2>1, <2>3 DEF TypeOK, ReadOpen, IsOpen, Piece
    <3>2. PICK a \in Encoded(full, p) : Answers(r, a)
      BY <2>3 DEF ReadOpen
    <3>3. reply' \in Replies
      <4>1. a \in BlockReply \cup {Failure}
        BY <3>1, <3>2, EncodedReply
      <4> QED
        BY <3>2, <4>1 DEF TypeOK, Answers, Replies, BlockReply, NameReply
    <3>4. fp' = [fp EXCEPT ![s] = [file |-> fp[s].file, pos |-> fp[s].pos + 1,
                                   open |-> full]]
      BY <2>3, <3>1 DEF ReadOpen
    <3>5. UNCHANGED <<alive, leaked>>
      BY <2>3 DEF ReadOpen
    <3>6. /\ fp' \in [Sender -> [file : File, pos : Nat, open : BOOLEAN]
                                  \cup {NoFile}]
          /\ \A t \in Sender :
               /\ IsOpen(t)' => fp'[t].pos <= Blocks[fp'[t].file]
               /\ OpenFiles(t)' <= MaxOpen
      <4>1. /\ fp[s].file \in File
            /\ fp[s].pos \in Nat
            /\ Blocks[fp[s].file] \in Nat
        BY <3>1
      <4>2. [file |-> fp[s].file, pos |-> fp[s].pos + 1, open |-> full]
              \in [file : File, pos : Nat, open : BOOLEAN]
        BY <3>1, <4>1
      <4>3. fp' \in [Sender -> [file : File, pos : Nat, open : BOOLEAN]
                                  \cup {NoFile}]
        BY <3>4, <4>2 DEF TypeOK
      <4>4. /\ fp'[s].open => full
            /\ fp'[s].pos = fp[s].pos + 1
            /\ fp'[s].file = fp[s].file
            /\ IsOpen(s)
        <5>1. fp'[s] = [file |-> fp[s].file, pos |-> fp[s].pos + 1,
                        open |-> full]
          BY <2>1, <3>4 DEF TypeOK
        <5>2. fp'[s].open = full
          BY <5>1
        <5>3. fp'[s].pos = fp[s].pos + 1 /\ fp'[s].file = fp[s].file
          BY <5>1
        <5>4. IsOpen(s)
          BY <2>3 DEF ReadOpen
        <5> HIDE DEF full
        <5> QED
          BY <5>2, <5>3, <5>4
      <4>5. ASSUME NEW t \in Sender, t # s
            PROVE  fp'[t] = fp[t]
        BY <3>4, <4>5 DEF TypeOK
      <4>6. ASSUME NEW t \in Sender
            PROVE  /\ IsOpen(t)' => fp'[t].pos <= Blocks[fp'[t].file]
                   /\ OpenFiles(t)' <= MaxOpen
        <5>1. CASE t = s
          BY <2>1, <3>5, <4>1, <4>4, <5>1 DEF TypeOK, IsOpen, OpenFiles
        <5>2. CASE t # s
          BY <3>5, <4>5, <5>2 DEF TypeOK, IsOpen, OpenFiles
        <5> QED
          BY <5>1, <5>2
      <4> QED
        BY <4>3, <4>6
    <3> QED
      BY <2>2, <3>3, <3>5, <3>6
      DEF TypeOK, receiver, Replies, BlockReply, NameReply
  <2>4. ASSUME UNCHANGED <<fp, leaked>>,
               alive' \in [Sender -> BOOLEAN],
               reply' \in Replies
        PROVE  TypeOK'
    BY <2>2, <2>4
    DEF TypeOK, IsOpen, OpenFiles, receiver, Replies, BlockReply, NameReply
  <2>5. CASE ReadNull(r, s)
    <3>1. PICK a \in Encoded(FALSE, WrongName) : Answers(r, a)
      BY <2>5 DEF ReadNull
    <3>2. a \in BlockReply \cup {Failure}
      BY <3>1, EncodedReply DEF Piece
    <3> QED
      BY <2>4, <2>5, <3>1, <3>2
      DEF TypeOK, ReadNull, sender, Answers, Replies, BlockReply, NameReply
  <2>6. CASE ReadClosed(r, s)
    <3>1. ASSUME NEW a \in Encoded(FALSE, Garbage), Answers(r, a)
          PROVE  reply' \in Replies
      <4>1. a \in BlockReply \cup {Failure}
        BY EncodedReply DEF Piece
      <4> QED
        BY <3>1, <4>1 DEF TypeOK, Answers, Replies, BlockReply, NameReply
    <3>2. reply' \in Replies
      BY <2>6, <3>1 DEF ReadClosed, TypeOK, Replies, BlockReply, NameReply
    <3>3. alive' \in [Sender -> BOOLEAN]
      BY <2>6 DEF ReadClosed, TypeOK
    <3> QED
      BY <2>4, <2>6, <3>2, <3>3 DEF ReadClosed
  <2> QED
    BY <1>3, <2>3, <2>5, <2>6 DEF ServeRead
<1>4. ASSUME UNCHANGED <<fp, leaked>>, alive' \in [Sender -> BOOLEAN]
      PROVE  /\ fp' \in [Sender -> [file : File, pos : Nat, open : BOOLEAN]
                                     \cup {NoFile}]
             /\ leaked' \in [Sender -> Nat]
             /\ \A s \in Sender :
                  /\ IsOpen(s)' => fp'[s].pos <= Blocks[fp'[s].file]
                  /\ OpenFiles(s)' <= MaxOpen
  BY <1>4 DEF TypeOK, IsOpen, OpenFiles
<1>5. ASSUME NEW r \in Receiver, Ask(r)
      PROVE  TypeOK'
  BY <1>4, <1>5 DEF TypeOK, Ask, sender
<1>6. ASSUME NEW r \in Receiver, Leave(r)
      PROVE  TypeOK'
  BY <1>4, <1>6 DEF TypeOK, Leave, sender, receiver
<1>7. ASSUME NEW r \in Receiver, Begin(r)
      PROVE  TypeOK'
  BY <1>4, <1>7 DEF TypeOK, Begin, CallRead, sender
<1>8. ASSUME NEW r \in Receiver, Absent(r)
      PROVE  TypeOK'
  BY <1>4, <1>8 DEF TypeOK, Absent, sender, receiver
<1>9. ASSUME NEW r \in Receiver, HasBlock(r)
      PROVE  reply[r] \in BlockReply
  BY <1>9 DEF HasBlock, CallsOf
<1>10. ASSUME NEW r \in Receiver, FullBlock(r)
       PROVE  TypeOK'
  <2>1. reply[r].piece \in Piece
    BY <1>9, <1>10 DEF FullBlock, BlockReply
  <2>2. copy' \in [Receiver -> [File -> Seq(Piece)]]
    BY <1>10, <2>1 DEF FullBlock, Store, TypeOK
  <2> QED
    BY <1>4, <1>10, <2>2 DEF TypeOK, FullBlock, CallRead, sender
<1>11. ASSUME NEW r \in Receiver, ShortBlock(r)
       PROVE  TypeOK'
  <2>1. reply[r].piece \in Piece
    BY <1>9, <1>11 DEF ShortBlock, BlockReply
  <2>2. copy' \in [Receiver -> [File -> Seq(Piece)]]
    BY <1>11, <2>1 DEF ShortBlock, Store, TypeOK
  <2>3. status' \in [Receiver -> [File -> {"none", "part", "mixed", "whole"}]]
    BY <1>11 DEF ShortBlock, TypeOK
  <2> QED
    BY <1>4, <1>11, <2>2, <2>3 DEF TypeOK, ShortBlock, sender
<1>12. ASSUME NEW r \in Receiver, NoResult(r)
       PROVE  TypeOK'
  <2>1. CASE CallFails(r)
    BY <1>4, <1>12, <2>1 DEF TypeOK, NoResult, CallFails, sender, receiver
  <2>2. CASE CallTimesOut(r)
    <3>1. /\ late' \in [Receiver -> Seq(File)]
          /\ asked' \in [Receiver -> {"none", "check", "read"}]
          /\ faults' \in 0 .. MaxFaults
      <4>1. faults' \in 0 .. MaxFaults
        BY <2>2 DEF TypeOK, CallTimesOut
      <4>2. Append(late[r], cur[r]) \in Seq(File)
        BY DEF TypeOK
      <4>3. CASE asked[r] = "check"
        <5>1. /\ late' = [late EXCEPT ![r] = Append(late[r], cur[r])]
              /\ asked' = [asked EXCEPT ![r] = "none"]
          BY <2>2, <4>3 DEF CallTimesOut
        <5> QED
          BY <4>1, <4>2, <5>1 DEF TypeOK
      <4>4. CASE asked[r] # "check"
        BY <2>2, <4>1, <4>4 DEF TypeOK, CallTimesOut
      <4> QED
        BY <4>3, <4>4
    <3> QED
      BY <1>4, <1>12, <3>1 DEF TypeOK, NoResult, sender, receiver
  <2> QED
    BY <1>12, <2>1, <2>2 DEF NoResult
<1>13. ASSUME NEW r \in Receiver, Killed(r)
       PROVE  TypeOK'
  BY <1>4, <1>13 DEF TypeOK, Killed, sender, receiver
<1>14. ASSUME NEW s \in Sender, SenderKilled(s)
       PROVE  TypeOK'
  BY <1>4, <1>14 DEF TypeOK, SenderKilled, receiver
<1>15. ASSUME UNCHANGED vars
       PROVE  TypeOK'
  BY <1>4, <1>15 DEF TypeOK, vars
<1> QED
  BY <1>1, <1>2, <1>3, <1>5, <1>6, <1>7, <1>8, <1>10, <1>11, <1>12, <1>13,
     <1>14, <1>15
  DEF Next, Serve, Receive

(* A fileread() is answered by a block, by a failure, or not at all.       *)
LEMMA ReadAnswer ==
  ASSUME TypeOK, NEW r \in Receiver, ServeRead(r)
  PROVE  UNCHANGED reply \/ \E a \in BlockReply \cup {Failure} : Answers(r, a)
<1> DEFINE s == Reaches[r]
<1>1. CASE ReadOpen(r, s)
  <2> DEFINE full == fp[s].pos < Blocks[fp[s].file]
             p == <<fp[s].file, fp[s].pos + 1>>
  <2>1. full \in BOOLEAN /\ p \in Piece
    BY <1>1, TransferAssumption DEF TypeOK, ReadOpen, IsOpen, Piece
  <2>2. PICK a \in Encoded(full, p) : Answers(r, a)
    BY <1>1 DEF ReadOpen
  <2> QED
    BY <2>1, <2>2, EncodedReply
<1>2. CASE ReadNull(r, s)
  BY <1>2, EncodedReply DEF ReadNull, Piece
<1>3. CASE ReadClosed(r, s)
  BY <1>3, EncodedReply DEF ReadClosed, Piece
<1> QED
  BY <1>1, <1>2, <1>3 DEF ServeRead

Step(r) == Ask(r) \/ Leave(r) \/ Serve(r) \/ Receive(r) \/ Killed(r)

Of(r) == <<pc[r], names[r], cur[r], asked[r], late[r], reply[r], copy[r],
           status[r]>>

(* The request or the step of a receiver changes nothing that another has. *)
LEMMA OthersKeep ==
  ASSUME TypeOK, TypeOK', NEW r \in Receiver, Step(r),
         NEW q \in Receiver \ {r}
  PROVE  UNCHANGED Of(q)
<1> USE DEF Of, TypeOK
<1>1. CASE Ask(r)
  BY <1>1 DEF Ask
<1>2. CASE Leave(r)
  BY <1>2 DEF Leave, receiver
<1>3. CASE ServeLate(r)
  BY <1>3 DEF ServeLate, receiver
<1>4. CASE ServeCheck(r)
  BY <1>4 DEF ServeCheck, Answers, receiver
<1>5. CASE ServeRead(r)
  <2>1. ASSUME NEW a, Answers(r, a)
        PROVE  UNCHANGED reply[q]
    BY <2>1 DEF Answers
  <2>2. UNCHANGED reply[q]
    BY <1>5, <2>1, ReadAnswer
  <2> QED
    BY <1>5, <2>2 DEF ServeRead, receiver
<1>6. CASE Begin(r)
  BY <1>6 DEF Begin, CallRead
<1>7. CASE Absent(r)
  BY <1>7 DEF Absent, receiver
<1>8. CASE FullBlock(r)
  BY <1>8 DEF FullBlock, CallRead, Store
<1>9. CASE ShortBlock(r)
  BY <1>9 DEF ShortBlock, Store
<1>10. CASE NoResult(r)
  <2>1. UNCHANGED late[q] /\ UNCHANGED asked[q]
    <3>1. CASE CallFails(r)
      BY <3>1 DEF CallFails
    <3>2. CASE CallTimesOut(r)
      BY <3>2 DEF CallTimesOut
    <3> QED
      BY <1>10, <3>1, <3>2 DEF NoResult
  <2> QED
    BY <1>10, <2>1 DEF NoResult, receiver
<1>11. CASE Killed(r)
  BY <1>11 DEF Killed, receiver
<1> QED
  BY <1>1, <1>2, <1>3, <1>4, <1>5, <1>6, <1>7, <1>8, <1>9, <1>10, <1>11
  DEF Step, Serve, Receive

(* Every step keeps a receiver to its call.                                *)
LEMMA StepCalls ==
  ASSUME TypeOK, TypeOK', [Next]_vars, NEW q \in Receiver, CallsOf(q)
  PROVE  CallsOf(q)'
<1> USE TransferAssumption DEF CallsOf, InProgress
<1>a. /\ \A b \in BOOLEAN : [found |-> b] \in NameReply
      /\ NoReply \notin NameReply \cup BlockReply
  BY DEF NameReply, BlockReply
<1>1. CASE Ask(q)
  <2>1. pc'[q] = "checking" /\ asked'[q] = "check" /\ reply'[q] = NoReply
    BY <1>1 DEF TypeOK, Ask
  <2>2. NoReply # [found |-> TRUE]
    BY <1>a
  <2> QED
    BY <2>1, <2>2
<1>2. CASE Leave(q)
  BY <1>2 DEF TypeOK, Leave, receiver
<1>3. CASE ServeLate(q)
  BY <1>3 DEF TypeOK, ServeLate, receiver
<1>4. CASE ServeCheck(q)
  <2>1. asked[q] = "check" /\ asked'[q] = "none" /\ late'[q] = <<>>
    BY <1>4 DEF TypeOK, ServeCheck
  <2>2. pc[q] = "checking" =>
          /\ reply'[q] \in NameReply
          /\ reply'[q] = [found |-> TRUE] => cur[q] \in Present
    <3>1. pc[q] = "checking" => reply'[q] = [found |-> cur[q] \in Present]
      BY <1>4 DEF TypeOK, ServeCheck, Answers
    <3>2. (cur[q] \in Present) \in BOOLEAN
      OBVIOUS
    <3>3. ASSUME NEW b \in BOOLEAN, [found |-> b] = [found |-> TRUE]
          PROVE  b
      <4>1. [found |-> b].found = [found |-> TRUE].found
        BY <3>3
      <4> QED
        BY <4>1
    <3> QED
      BY <1>a, <3>1, <3>2, <3>3
  <2>3. UNCHANGED <<pc, cur, status>>
    BY <1>4 DEF ServeCheck, receiver
  <2> QED
    BY <1>a, <2>1, <2>2, <2>3
<1>5. CASE ServeRead(q)
  <2>1. /\ asked[q] = "read" /\ asked'[q] = "none"
        /\ UNCHANGED <<pc, cur, status, late>>
    BY <1>5 DEF TypeOK, ServeRead, receiver
  <2>2. ASSUME NEW a \in BlockReply \cup {Failure}, Answers(q, a),
               pc[q] = "reading"
        PROVE  reply'[q] \in BlockReply \cup {NoReply, Failure}
    BY <2>2 DEF TypeOK, Answers
  <2>3. pc[q] = "reading" => reply'[q] \in BlockReply \cup {NoReply, Failure}
    BY <1>5, <2>2, ReadAnswer
  <2> QED
    BY <2>1, <2>3
<1>6. CASE Begin(q)
  <2>1. asked[q] = "none" /\ late[q] = <<>> /\ cur[q] \in Present
    <3>1. [found |-> TRUE] \in NameReply
      BY <1>a
    <3>2. pc[q] = "checking" /\ reply[q] = [found |-> TRUE]
      BY <1>6 DEF Begin
    <3> QED
      BY <1>a, <3>1, <3>2
  <2>2. /\ pc'[q] = "reading" /\ asked'[q] = "read" /\ reply'[q] = NoReply
        /\ UNCHANGED <<late, cur>>
    BY <1>6 DEF TypeOK, Begin, CallRead
  <2>3. status'[q][cur[q]] = "part"
    BY <1>6 DEF TypeOK, Begin
  <2> QED
    BY <2>1, <2>2, <2>3
<1>7. CASE Absent(q)
  <2>1. asked[q] = "none"
    <3>1. [found |-> FALSE] \in NameReply
      BY <1>a
    <3>2. pc[q] = "checking" /\ reply[q] # NoReply
      BY <1>7, <1>a, <3>1 DEF Absent
    <3> QED
      BY <3>2
  <2> QED
    BY <1>7, <2>1 DEF TypeOK, Absent, receiver
<1>8. CASE FullBlock(q)
  BY <1>8 DEF TypeOK, FullBlock, HasBlock, CallRead
<1>9. CASE ShortBlock(q)
  BY <1>9 DEF TypeOK, ShortBlock, HasBlock
<1>10. CASE NoResult(q)
  BY <1>10 DEF TypeOK, NoResult, CallFails, CallTimesOut, receiver
<1>11. CASE Killed(q)
  BY <1>11 DEF TypeOK, Killed, receiver
<1>12. CASE UNCHANGED Of(q)
  BY <1>12 DEF Of
<1>13. ASSUME NEW r \in Receiver \ {q}, Step(r)
       PROVE  CallsOf(q)'
  <2>1. q \in Receiver \ {r}
    OBVIOUS
  <2>2. UNCHANGED Of(q)
    BY <1>13, <2>1, OthersKeep
  <2> QED
    BY <1>12, <2>2
<1>14. ASSUME NEW s \in Sender, SenderKilled(s)
       PROVE  CallsOf(q)'
  BY <1>12, <1>14 DEF SenderKilled, receiver, Of
<1>15. CASE UNCHANGED vars
  BY <1>12, <1>15 DEF vars, Of
<1> QED
  BY <1>1, <1>2, <1>3, <1>4, <1>5, <1>6, <1>7, <1>8, <1>9, <1>10, <1>11,
     <1>13, <1>14, <1>15
  DEF Next, Step, Serve, Receive

(* No step closes a FILE that nothing points to, nor opens one at a sender *)
(* that the receiver does not reach.                                       *)
LEMMA LeakedGrows ==
  ASSUME TypeOK, [Next]_vars, NEW s \in Sender
  PROVE  leaked[s] <= leaked'[s]
<1> USE TransferAssumption
<1>1. ASSUME NEW r \in Receiver, Serve(r)
      PROVE  leaked[s] <= leaked'[s]
  <2>1. ASSUME NEW f \in File, CheckName(Reaches[r], f)
        PROVE  leaked[s] <= leaked'[s]
    BY <2>1 DEF TypeOK, CheckName, OpenFiles
  <2>2. CASE ServeLate(r)
    BY <2>1, <2>2 DEF ServeLate, TypeOK
  <2>3. CASE ServeCheck(r)
    BY <2>1, <2>3 DEF ServeCheck, TypeOK
  <2>4. CASE ServeRead(r)
    <3>1. UNCHANGED leaked
      BY <2>4 DEF ServeRead, ReadOpen, ReadNull, ReadClosed, sender
    <3> QED
      BY <3>1 DEF TypeOK
  <2> QED
    BY <1>1, <2>2, <2>3, <2>4 DEF Serve
<1>2. CASE UNCHANGED leaked
  BY <1>2 DEF TypeOK
<1> QED
  BY <1>1, <1>2
  DEF Next, vars, sender, Ask, Leave, Receive, Begin, Absent, FullBlock,
      ShortBlock, NoResult, Killed, SenderKilled

(* The request of a receiver marks those who depend on the FILE it uses,   *)
(* and changes no FILE of another sender.                                  *)
LEMMA ServeOthers ==
  ASSUME TypeOK, NEW r \in Receiver, NEW q \in Receiver \ {r}, Serve(r)
  PROVE  /\ disturbed[q] => disturbed'[q]
         /\ ~disturbed'[q] /\ InProgress(q) => UNCHANGED fp[Reaches[q]]
<1> USE TransferAssumption DEF TypeOK
<1>1. disturbed'[q] = (disturbed[q] \/ q \in Disturb(r))
  BY DEF Serve, ServeLate, ServeCheck, ServeRead
<1>2. ASSUME Reaches[q] # Reaches[r]
      PROVE  UNCHANGED fp[Reaches[q]]
  <2>1. CASE ServeLate(r) \/ ServeCheck(r)
    BY <1>2, <2>1 DEF ServeLate, ServeCheck, CheckName
  <2>2. CASE ServeRead(r)
    <3>1. CASE ReadOpen(r, Reaches[r])
      BY <1>2, <3>1 DEF ReadOpen
    <3>2. CASE UNCHANGED fp
      BY <3>2
    <3> QED
      BY <2>2, <3>1, <3>2 DEF ServeRead, ReadNull, ReadClosed, sender
  <2> QED
    BY <2>1, <2>2 DEF Serve
<1> QED
  BY <1>1, <1>2 DEF Disturb

(* Every step keeps what a receiver has as far as it goes.                 *)
LEMMA StepFaithful ==
  ASSUME TypeOK, TypeOK', [Next]_vars, NEW q \in Receiver,
         CallsOf(q), CallsOf(q)', FaithfulOf(q)
  PROVE  FaithfulOf(q)'
<1> USE TransferAssumption
<1> DEFINE s == Reaches[q]
           f == cur[q]
           n == Len(copy[q][f])
<1>1. /\ s \in Sender /\ f \in File /\ n \in Nat
      /\ leaked[s] <= leaked'[s] /\ leaked[s] \in Nat /\ leaked'[s] \in Nat
  <2>1. s \in Sender /\ f \in File
    BY DEF TypeOK
  <2>2. copy[q][f] \in Seq(Piece)
    BY <2>1 DEF TypeOK
  <2>3. leaked[s] <= leaked'[s]
    BY <2>1, LeakedGrows
  <2>4. leaked[s] \in Nat /\ leaked'[s] \in Nat
    BY <2>1 DEF TypeOK
  <2> QED
    BY <2>1, <2>2, <2>3, <2>4
<1>2. ASSUME ~InProgress(q)'
      PROVE  InStepOf(q)'
  <2>1. [found |-> TRUE] \in NameReply
    BY DEF NameReply
  <2>2. pc'[q] # "reading" /\ (pc'[q] = "checking" => reply'[q] = NoReply)
    BY <1>2 DEF InProgress, CallsOf
  <2> QED
    BY <2>1, <2>2 DEF InStepOf, NameReply
<1>3. ASSUME UNCHANGED <<copy[q], status[q]>>, leaked'[s] < MaxOpen
      PROVE  \A g \in File :
               status'[q][g] = "whole" => CopiedUpTo(q, g, Blocks[g] + 1)'
  <2>1. leaked[s] < MaxOpen
    BY <1>1, <1>3
  <2>2. ASSUME NEW g \in File, status'[q][g] = "whole"
        PROVE  CopiedUpTo(q, g, Blocks[g] + 1)'
    <3>1. CopiedUpTo(q, g, Blocks[g] + 1)
      BY <1>3, <2>1, <2>2 DEF FaithfulOf
    <3> QED
      BY <1>3, <3>1 DEF CopiedUpTo
  <2> QED
    BY <2>2
<1>4. ASSUME UNCHANGED <<copy[q], status[q]>>, ~InProgress(q)'
      PROVE  FaithfulOf(q)'
  BY <1>2, <1>3, <1>4 DEF FaithfulOf
<1>5. ASSUME UNCHANGED Of(q), UNCHANGED fp[s], disturbed[q] => disturbed'[q]
      PROVE  FaithfulOf(q)'
  <2>1. InStepOf(q) => InStepOf(q)'
    BY <1>5 DEF Of, InStepOf, CopiedUpTo, Faithful, At
  <2> QED
    BY <1>1, <1>3, <1>5, <2>1 DEF Of, FaithfulOf
<1>6. CASE Ask(q) \/ Leave(q) \/ Absent(q) \/ Killed(q)
  <2>1. pc'[q] # "reading" /\ (pc'[q] = "checking" => asked'[q] = "check")
    <3>1. ASSUME NEW p, pc' = [pc EXCEPT ![q] = p]
          PROVE  pc'[q] = p
      BY <3>1 DEF TypeOK
    <3>2. CASE Ask(q)
      BY <3>1, <3>2 DEF Ask, TypeOK
    <3>3. CASE Leave(q) \/ Absent(q) \/ Killed(q)
      BY <3>1, <3>3 DEF Leave, Absent, Killed
    <3> QED
      BY <1>6, <3>2, <3>3
  <2>2. UNCHANGED <<copy, status>>
    BY <1>6 DEF Ask, Leave, Absent, Killed, receiver
  <2> QED
    BY <1>4, <2>1, <2>2 DEF InProgress
<1>7. CASE NoResult(q)
  <2>1. pc'[q] \in {"idle", "dead"}
    BY <1>7 DEF NoResult, CallFails, CallTimesOut, TypeOK
  <2> QED
    BY <1>4, <1>7, <2>1 DEF NoResult, receiver, InProgress
<1>8. CASE ServeLate(q)
  <2>1. late[q] # <<>> /\ UNCHANGED <<pc, asked, receiver>>
    BY <1>8 DEF ServeLate
  <2> QED
    BY <1>4, <2>1 DEF CallsOf, receiver, InProgress
<1>9. ASSUME NEW r \in Receiver \ {q}, Step(r)
      PROVE  FaithfulOf(q)'
  <2>1. UNCHANGED Of(q)
    BY <1>9, OthersKeep
  <2>2. CASE Serve(r)
    <3>1. CASE InProgress(q) /\ ~disturbed'[q]
      BY <1>5, <2>1, <2>2, <3>1, ServeOthers
    <3>2. CASE disturbed'[q]
      BY <1>3, <2>1, <3>2 DEF Of, FaithfulOf
    <3>3. CASE ~InProgress(q)
      BY <1>4, <2>1, <3>3 DEF Of, InProgress
    <3> QED
      BY <3>1, <3>2, <3>3
  <2>3. CASE UNCHANGED <<fp, disturbed>>
    BY <1>5, <2>1, <2>3
  <2> QED
    BY <1>9, <2>2, <2>3
    DEF Step, Ask, Leave, Receive, Begin, Absent, FullBlock, ShortBlock,
        NoResult, Killed, sender
<1>10. ASSUME NEW t \in Sender, SenderKilled(t)
       PROVE  FaithfulOf(q)'
  BY <1>5, <1>10 DEF SenderKilled, receiver, Of
<1>11. CASE UNCHANGED vars
  BY <1>5, <1>11 DEF vars, Of
<1>12. CASE ServeCheck(q)
  <2>1. CASE pc[q] = "dead"
    BY <1>4, <1>12, <2>1 DEF ServeCheck, receiver, InProgress
  <2>2. CASE pc[q] # "dead"
    <3>1. /\ pc'[q] = "checking" /\ pc[q] = "checking"
          /\ UNCHANGED <<cur, copy, status>>
      BY <1>12, <2>2 DEF ServeCheck, receiver, CallsOf
    <3>2. CASE leaked'[s] < MaxOpen /\ reply'[q] = [found |-> TRUE]
      <4>1. reply'[q] = [found |-> f \in Present]
        BY <1>12, <2>2 DEF ServeCheck, Answers, TypeOK
      <4>2. f \in Present
        <5>1. reply'[q].found = TRUE
          BY <3>2
        <5>2. reply'[q].found = (f \in Present)
          BY <4>1
        <5> QED
          BY <5>1, <5>2, Zenon
      <4>3. CheckName(s, f)
        BY <1>12 DEF ServeCheck
      <4>4. OpenFiles(s) < MaxOpen
        BY <1>1, <3>2, <4>3 DEF CheckName, TypeOK
      <4>5. fp'[s] = [file |-> f, pos |-> 0, open |-> TRUE]
        BY <1>1, <4>2, <4>3, <4>4 DEF CheckName, TypeOK
      <4>6. InStepOf(q)'
        BY <3>1, <4>2, <4>5 DEF InStepOf, At
      <4> QED
        BY <1>3, <3>1, <4>6 DEF FaithfulOf
    <3>3. CASE reply'[q] # [found |-> TRUE]
      <4>1. InStepOf(q)'
        BY <3>1, <3>3 DEF InStepOf
      <4> QED
        BY <1>3, <3>1, <4>1 DEF FaithfulOf
    <3> QED
      BY <3>2, <3>3 DEF FaithfulOf
  <2> QED
    BY <2>1, <2>2
<1>13. CASE ServeRead(q)
  <2>1. CASE pc[q] = "dead"
    BY <1>4, <1>13, <2>1 DEF ServeRead, receiver, InProgress
  <2>2. CASE pc[q] # "dead"
    <3>1. /\ pc'[q] = "reading" /\ pc[q] = "reading"
          /\ asked[q] = "read" /\ asked'[q] = "none" /\ reply[q] = NoReply
          /\ UNCHANGED <<cur, copy, status, Reaches>>
      BY <1>13, <2>2 DEF ServeRead, receiver, CallsOf, TypeOK
    <3>2. UNCHANGED disturbed[q]
      BY <1>13 DEF ServeRead, Disturb, TypeOK
    <3>3. ASSUME leaked'[s] < MaxOpen, ~disturbed[q]
          PROVE  InStepOf(q)'
      <4>1. CopiedUpTo(q, f, n) /\ At(s, f, n)
        BY <1>1, <3>1, <3>3 DEF FaithfulOf, InStepOf
      <4>2. /\ fp[s].file = f /\ fp[s].pos = n /\ fp[s].open
            /\ fp[s] # NoFile /\ IsOpen(s)
            /\ Blocks[f] \in Nat /\ n <= Blocks[f]
        <5>1. /\ fp[s].file = f /\ fp[s].pos = n /\ fp[s].open
              /\ fp[s] \in [file : File, pos : Nat, open : BOOLEAN]
          BY <1>1, <4>1 DEF At
        <5>2. IsOpen(s)
          BY <5>1 DEF IsOpen
        <5>3. fp[s].pos <= Blocks[fp[s].file]
          BY <1>1, <5>2 DEF TypeOK
        <5> QED
          BY <1>1, <5>1, <5>2, <5>3
      <4> DEFINE full == n < Blocks[f]
      <4>3. ReadOpen(q, s)
        BY <1>13, <4>2 DEF ServeRead, ReadNull, ReadClosed
      <4>4. PICK a \in Encoded(full, <<f, n + 1>>) : Answers(q, a)
        BY <4>2, <4>3 DEF ReadOpen
      <4>5. /\ full \in BOOLEAN
            /\ <<f, n + 1>> \in Piece
        BY <1>1 DEF Piece
      <4>6. /\ a \in BlockReply \cup {Failure}
            /\ a # Failure => a.full = full /\ Faithful(a.piece, f, n + 1)
        BY <4>4, <4>5, EncodedReply DEF Faithful
      <4>7. reply'[q] = a
        BY <2>2, <4>4 DEF Answers, TypeOK
      <4>8. fp'[s] = [file |-> f, pos |-> n + 1, open |-> full]
        BY <1>1, <4>2, <4>3 DEF ReadOpen, TypeOK
      <4>9. a.full /\ a # Failure => At(s, f, n + 1)'
        <5> HIDE DEF full
        <5>1. a.full /\ a # Failure => full = TRUE
          BY <4>5, <4>6
        <5> QED
          BY <3>1, <4>8, <5>1 DEF At
      <4>10. ~a.full /\ a # Failure => n = Blocks[f]
        <5>1. ~a.full /\ a # Failure => ~full
          BY <4>6, Zenon
        <5> QED
          BY <1>1, <4>2, <5>1
      <4>11. CopiedUpTo(q, f, n)'
        BY <3>1, <4>1 DEF CopiedUpTo, Faithful
      <4>12. Failure \notin BlockReply
        BY DEF BlockReply
      <4> HIDE DEF full
      <4> QED
        BY <3>1, <4>6, <4>7, <4>9, <4>10, <4>11, <4>12 DEF InStepOf
    <3> QED
      BY <1>3, <3>1, <3>2, <3>3 DEF FaithfulOf
  <2> QED
    BY <2>1, <2>2
<1>14. CASE Begin(q)
  <2>1. /\ pc[q] = "checking" /\ reply[q] = [found |-> TRUE]
        /\ asked'[q] = "read" /\ reply'[q] = NoReply /\ cur'[q] = f
        /\ UNCHANGED <<fp, leaked, disturbed>>
    BY <1>14 DEF Begin, CallRead, TypeOK, sender
  <2>2. /\ copy'[q][f] = <<>> /\ status'[q][f] = "part"
        /\ \A g \in File \ {f} : /\ copy'[q][g] = copy[q][g]
                                 /\ status'[q][g] = status[q][g]
    BY <1>14 DEF Begin, TypeOK
  <2>3. ASSUME InStepOf(q)
        PROVE  InStepOf(q)'
    <3>1. f \in Present /\ At(s, f, 0)
      BY <2>1, <2>3 DEF InStepOf
    <3>2. CopiedUpTo(q, f, 0)'
      BY <2>1, <2>2, <3>1 DEF CopiedUpTo
    <3>3. NoReply \notin BlockReply /\ pc'[q] = "reading"
      BY <1>14 DEF BlockReply, Begin, TypeOK
    <3> QED
      BY <2>1, <2>2, <3>1, <3>2, <3>3 DEF InStepOf, At, CopiedUpTo
  <2>4. ASSUME NEW g \in File, status'[q][g] = "whole", leaked[s] < MaxOpen
        PROVE  CopiedUpTo(q, g, Blocks[g] + 1)'
    <3>1. g # f /\ status[q][g] = "whole" /\ copy'[q][g] = copy[q][g]
      BY <2>2, <2>4
    <3> QED
      BY <2>4, <3>1 DEF FaithfulOf, CopiedUpTo, Faithful
  <2> QED
    BY <2>1, <2>3, <2>4 DEF FaithfulOf
<1>15. ASSUME NEW g \in File, g = f, NEW m \in Nat, m = n,
              Store(q), HasBlock(q), InStepOf(q)
       PROVE  /\ CopiedUpTo(q, g, m + 1)'
              /\ Len(copy'[q][g]) = m + 1
              /\ reply[q].full => At(s, g, m + 1)
              /\ ~reply[q].full => m = Blocks[g]
  <2>1. pc[q] = "reading" /\ reply[q] \in BlockReply
    BY <1>15 DEF HasBlock, CallsOf
  <2>2. /\ CopiedUpTo(q, g, m)
        /\ Faithful(reply[q].piece, g, m + 1)
        /\ reply[q].full => At(s, g, m + 1)
        /\ ~reply[q].full => m = Blocks[g]
    BY <1>15, <2>1 DEF InStepOf
  <2>3. copy[q][g] \in Seq(Piece) /\ reply[q].piece \in Piece
    BY <2>1 DEF TypeOK, BlockReply
  <2>4. copy'[q][g] = Append(copy[q][g], reply[q].piece)
    BY <1>15 DEF Store, TypeOK
  <2>5. CopiedUpTo(q, g, m + 1)'
    BY <2>2, <2>3, <2>4 DEF CopiedUpTo, Faithful
  <2> QED
    BY <2>2, <2>5 DEF CopiedUpTo
<1>16. ASSUME NEW g \in File, g # f, Store(q)
       PROVE  copy'[q][g] = copy[q][g]
  BY <1>16 DEF Store, TypeOK
<1>17. ASSUME NEW h \in File, h # f, Store(q), leaked[s] < MaxOpen,
              status[q][h] = "whole"
       PROVE  CopiedUpTo(q, h, Blocks[h] + 1)'
  BY <1>16, <1>17 DEF FaithfulOf, CopiedUpTo, Faithful
<1>18. CASE FullBlock(q)
  <2>1. /\ HasBlock(q) /\ Store(q) /\ reply[q].full
        /\ pc[q] = "reading" /\ status[q][f] = "part"
        /\ UNCHANGED <<pc, cur, status, fp, leaked, disturbed>>
        /\ reply'[q] = NoReply
    BY <1>18 DEF FullBlock, HasBlock, CallRead, CallsOf, TypeOK, sender
  <2>2. ASSUME InStepOf(q), NEW g \in File, g = f, NEW m \in Nat, m = n
        PROVE  InStepOf(q)'
    <3>1. CopiedUpTo(q, g, m + 1)' /\ Len(copy'[q][g]) = m + 1
          /\ At(s, g, m + 1)
      BY <1>15, <2>1, <2>2
    <3>2. NoReply \notin BlockReply
      BY DEF BlockReply
    <3> QED
      BY <2>1, <2>2, <3>1, <3>2 DEF InStepOf, At, CopiedUpTo
  <2>3. InStepOf(q) => InStepOf(q)'
    BY <1>1, <2>2
  <2>4. ASSUME NEW h \in File, status'[q][h] = "whole", leaked[s] < MaxOpen
        PROVE  CopiedUpTo(q, h, Blocks[h] + 1)'
    BY <1>17, <2>1, <2>4
  <2> QED
    BY <2>1, <2>3, <2>4 DEF FaithfulOf
<1>19. CASE ShortBlock(q)
  <2>1. /\ HasBlock(q) /\ Store(q) /\ ~reply[q].full /\ pc'[q] = "idle"
        /\ UNCHANGED <<leaked, disturbed>>
    BY <1>19 DEF ShortBlock, TypeOK, sender
  <2>2. /\ status'[q][f] = IF disturbed[q] THEN "mixed" ELSE "whole"
        /\ \A h \in File \ {f} : status'[q][h] = status[q][h]
    BY <1>1, <1>19 DEF ShortBlock, TypeOK
  <2>3. InStepOf(q)'
    BY <1>2, <2>1 DEF InProgress
  <2>4. ASSUME NEW h \in File, status'[q][h] = "whole", leaked[s] < MaxOpen
        PROVE  CopiedUpTo(q, h, Blocks[h] + 1)'
    <3>1. CASE h = f
      <4>1. InStepOf(q)
        BY <2>2, <2>4, <3>1 DEF FaithfulOf
      <4> QED
        BY <1>1, <1>15, <2>1, <3>1, <4>1
    <3>2. CASE h # f
      BY <1>17, <2>1, <2>2, <2>4, <3>2
    <3> QED
      BY <3>1, <3>2
  <2> QED
    BY <2>1, <2>3, <2>4 DEF FaithfulOf
<1> QED
  BY <1>6, <1>7, <1>8, <1>9, <1>10, <1>11, <1>12, <1>13, <1>14, <1>18, <1>19
  DEF Next, Step, Serve, Receive

(* The steps of another receiver, with another sender, leave a receiver's  *)
(* sender alone.                                                           *)
LEMMA AloneOthers ==
  ASSUME TypeOK, NEW q \in Receiver, Alone(q), NEW r \in Receiver \ {q},
         Step(r)
  PROVE  UNCHANGED <<fp[Reaches[q]], leaked[Reaches[q]], disturbed[q]>>
<1> USE TransferAssumption
<1>1. Reaches[q] # Reaches[r] /\ Reaches[q] \in Sender /\ Reaches[r] \in Sender
  BY DEF Alone
<1>2. ASSUME NEW f, CheckName(Reaches[r], f)
      PROVE  UNCHANGED <<fp[Reaches[q]], leaked[Reaches[q]]>>
  BY <1>1, <1>2 DEF CheckName, TypeOK
<1>3. q \notin Disturb(r)
  BY <1>1 DEF Disturb
<1>4. CASE ServeLate(r) \/ ServeCheck(r)
  <2>1. UNCHANGED disturbed[q]
    <3>1. disturbed'[q] = (disturbed[q] \/ q \in Disturb(r))
      BY <1>4 DEF ServeLate, ServeCheck
    <3>2. disturbed[q] \in BOOLEAN
      BY DEF TypeOK
    <3> QED
      BY <1>3, <3>1, <3>2, Zenon
  <2>2. \E f : CheckName(Reaches[r], f)
    BY <1>4 DEF ServeLate, ServeCheck
  <2> QED
    BY <1>2, <2>1, <2>2
<1>5. CASE ServeRead(r)
  <2>1. UNCHANGED disturbed[q]
    BY <1>3, <1>5 DEF ServeRead, TypeOK
  <2>2. UNCHANGED leaked
    BY <1>5 DEF ServeRead, ReadOpen, ReadNull, ReadClosed, sender
  <2>3. ReadOpen(r, Reaches[r]) => UNCHANGED fp[Reaches[q]]
    BY <1>1 DEF ReadOpen, TypeOK
  <2>4. UNCHANGED fp[Reaches[q]]
    BY <1>5, <2>3 DEF ServeRead, ReadNull, ReadClosed, sender
  <2> QED
    BY <2>1, <2>2, <2>4
<1>6. CASE UNCHANGED <<fp, leaked, disturbed>>
  BY <1>6
<1> QED
  BY <1>4, <1>5, <1>6
  DEF Step, Serve, Ask, Leave, Receive, Begin, Absent, FullBlock, ShortBlock,
      NoResult, Killed, sender

(* A debt of l leaked FILEs, n late names and o abandoned FILEs is covered  *)
(* by f faults, and stays so if it does not grow or a fault pays for it.    *)
LEMMA Balance ==
  ASSUME NEW l \in Nat, NEW n \in Nat, NEW m \in Nat, NEW f \in Nat,
         NEW g \in Nat, NEW o \in 0 .. 1, NEW p \in 0 .. 1,
         l + n + o <= f,
         \/ m = n /\ p <= o /\ f <= g
         \/ m = n /\ g = f + 1
         \/ m = n + 1 /\ p <= o /\ g = f + 1
  PROVE  l + m + p <= g
OBVIOUS

(* A late request leaks the FILE that is open, and may leave another.      *)
LEMMA LateBalance ==
  ASSUME NEW l \in Nat, NEW n \in Nat, NEW f \in Nat, NEW o \in 0 .. 1,
         NEW p \in 0 .. 1, l + n + o <= f
  PROVE  (l + o) + (n - 1) + p <= f
OBVIOUS

(* Every step keeps the debt of a receiver that is alone with its sender.  *)
LEMMA StepDebt ==
  ASSUME TypeOK, TypeOK', [Next]_vars, NEW q \in Receiver,
         CallsOf(q), CallsOf(q)', DebtOf(q)
  PROVE  DebtOf(q)'
<1> SUFFICES ASSUME Alone(q) PROVE DebtOf(q)'
  BY DEF DebtOf, Alone
<1> USE TransferAssumption
<1> DEFINE s == Reaches[q]
           owed == IF Abandoned(q) THEN 1 ELSE 0
<1>1. /\ s \in Sender /\ owed \in 0 .. 1 /\ owed' \in 0 .. 1
      /\ leaked[s] \in Nat /\ leaked'[s] \in Nat
      /\ faults \in Nat /\ faults' \in Nat
      /\ late[q] \in Seq(File) /\ Len(late[q]) \in Nat
      /\ late'[q] \in Seq(File) /\ Len(late'[q]) \in Nat
  BY DEF TypeOK
<1>2. /\ ~disturbed[q]
      /\ leaked[s] + Len(late[q]) + owed <= faults
      /\ pc[q] = "checking" /\ reply[q] = [found |-> FALSE] => ~IsOpen(s)
      /\ pc[q] = "reading" /\ reply[q] \in BlockReply /\ ~reply[q].full =>
           ~IsOpen(s)
  BY DEF DebtOf
<1>3. faults <= faults'
  <2>1. faults' = faults \/ faults' = faults + 1
    BY DEF Next, vars, Serve, Receive, Ask, Leave, ServeLate, ServeCheck,
           ServeRead, Begin, Absent, FullBlock, ShortBlock, NoResult, CallFails,
           CallTimesOut, Killed, SenderKilled
  <2> QED
    BY <1>1, <2>1
<1>4. ASSUME UNCHANGED Of(q),
             UNCHANGED <<fp[s], leaked[s], disturbed[q]>>
      PROVE  DebtOf(q)'
  <2>1. /\ Abandoned(q)' = Abandoned(q)
        /\ IsOpen(s)' = IsOpen(s)
    BY <1>4 DEF Of, Abandoned, IsOpen, InProgress
  <2> QED
    BY <1>1, <1>2, <1>3, <1>4, <2>1 DEF DebtOf, Of
<1>5. ASSUME NEW r \in Receiver \ {q}, Step(r)
      PROVE  DebtOf(q)'
  BY <1>4, <1>5, OthersKeep, AloneOthers
<1>6. CASE (\E t \in Sender : SenderKilled(t)) \/ UNCHANGED vars
  BY <1>4, <1>6 DEF SenderKilled, receiver, vars, Of
(* The replies that the third and the fourth part are about are of the     *)
(* steps that follow.                                                      *)
<1>7. ASSUME UNCHANGED <<fp, leaked, disturbed>>,
             pc'[q] = "checking" => reply'[q] = NoReply,
             pc'[q] = "reading" => reply'[q] = NoReply,
             \/ late'[q] = late[q] /\ (Abandoned(q)' => Abandoned(q))
             \/ late'[q] = late[q] /\ faults' = faults + 1
             \/ /\ Len(late'[q]) = Len(late[q]) + 1
                /\ Abandoned(q)' => Abandoned(q)
                /\ faults' = faults + 1
      PROVE  DebtOf(q)'
  <2>1. NoReply \notin BlockReply \cup NameReply
    BY DEF BlockReply, NameReply
  <2>2. [found |-> FALSE] \in NameReply
    BY DEF NameReply
  <2>3. leaked'[s] + Len(late'[q]) + owed' <= faults'
    <3>1. leaked'[s] = leaked[s] /\ (~Abandoned(q)' \/ Abandoned(q) => owed' <= owed)
      BY <1>7
    <3>2. \/ Len(late'[q]) = Len(late[q]) /\ owed' <= owed
          \/ Len(late'[q]) = Len(late[q]) /\ faults' = faults + 1
          \/ Len(late'[q]) = Len(late[q]) + 1 /\ owed' <= owed /\ faults' = faults + 1
      BY <1>7, <3>1
    <3>3. leaked[s] + Len(late'[q]) + owed' <= faults'
      <4> HIDE DEF owed
      <4> QED
        BY <1>1, <1>2, <1>3, <3>2, Balance
    <3> QED
      BY <3>1, <3>3
  <2> QED
    BY <1>2, <1>7, <2>1, <2>2, <2>3 DEF DebtOf
<1>8. CASE Ask(q) \/ Leave(q)
  <2>1. Abandoned(q)' => Abandoned(q)
    <3>1. pc[q] = "idle" /\ UNCHANGED fp
      BY <1>8 DEF Ask, Leave, sender
    <3>2. Abandoned(q)' => IsOpen(s)
      BY <3>1 DEF Abandoned, IsOpen
    <3> QED
      BY <3>1, <3>2 DEF Abandoned, InProgress
  <2>2. late'[q] = late[q]
    BY <1>8 DEF Ask, Leave
  <2>3. pc'[q] # "reading" /\ (pc'[q] = "checking" => reply'[q] = NoReply)
    <3>1. CASE Ask(q)
      BY <3>1 DEF Ask, TypeOK
    <3>2. CASE Leave(q)
      BY <3>2 DEF Leave, TypeOK
    <3> QED
      BY <1>8, <3>1, <3>2
  <2> QED
    BY <1>7, <1>8, <2>1, <2>2, <2>3 DEF Ask, Leave, sender
<1>9. CASE Begin(q) \/ FullBlock(q)
  <2>1. pc'[q] = "reading" /\ reply'[q] = NoReply
    BY <1>9 DEF Begin, FullBlock, HasBlock, CallRead, TypeOK
  <2>2. ~Abandoned(q)'
    BY <2>1 DEF Abandoned, InProgress
  <2> QED
    BY <1>7, <1>9, <2>1, <2>2 DEF Begin, FullBlock, sender
<1>10. CASE Absent(q) \/ ShortBlock(q)
  <2>1. pc'[q] = "idle"
    BY <1>10 DEF Absent, ShortBlock, TypeOK
  <2>2. ~IsOpen(s)
    BY <1>2, <1>10 DEF Absent, ShortBlock, HasBlock, CallsOf
  <2>3. ~Abandoned(q)'
    BY <1>10, <2>2 DEF Absent, ShortBlock, Abandoned, IsOpen, sender
  <2> QED
    BY <1>7, <1>10, <2>1, <2>3 DEF Absent, ShortBlock, receiver, sender
<1>11. CASE Killed(q)
  BY <1>7, <1>11 DEF Killed, TypeOK, sender
<1>12. CASE NoResult(q)
  <2>1. /\ pc[q] \in {"checking", "reading"}
        /\ pc'[q] = (IF pc[q] = "checking" THEN "idle" ELSE "dead")
        /\ UNCHANGED <<fp, leaked, disturbed>>
    BY <1>12 DEF NoResult, CallFails, CallTimesOut, TypeOK, sender
  <2>2. CASE pc[q] = "reading"
    <3>1. late[q] = <<>> /\ asked[q] # "check"
      BY <2>2 DEF CallsOf, InProgress
    <3>2. late'[q] = late[q] /\ asked'[q] # "check"
      BY <1>12, <3>1 DEF NoResult, CallFails, CallTimesOut, TypeOK
    <3>3. ~Abandoned(q)'
      BY <2>1, <2>2, <3>1, <3>2 DEF Abandoned
    <3> QED
      BY <1>7, <2>1, <2>2, <3>2, <3>3
  <2>3. CASE pc[q] = "checking" /\ asked[q] = "check"
    <3>1. Abandoned(q)' => Abandoned(q)
      BY <2>1, <2>3 DEF Abandoned, IsOpen, InProgress
    <3>2. CASE CallFails(q)
      BY <1>7, <2>1, <2>3, <3>1, <3>2 DEF CallFails
    <3>3. CASE CallTimesOut(q)
      <4>1. late'[q] = Append(late[q], cur[q]) /\ faults' = faults + 1
        BY <2>3, <3>3 DEF CallTimesOut, TypeOK
      <4>2. Len(late'[q]) = Len(late[q]) + 1
        BY <4>1 DEF TypeOK
      <4> QED
        BY <1>7, <2>1, <2>3, <3>1, <4>1, <4>2
    <3> QED
      BY <1>12, <3>2, <3>3 DEF NoResult
  <2>4. CASE pc[q] = "checking" /\ asked[q] # "check"
    <3>1. asked[q] = "none" /\ reply[q] \in NameReply
      BY <2>4 DEF CallsOf, TypeOK
    <3>2. Failure \notin NameReply /\ NoReply \notin NameReply
      BY DEF NameReply
    <3>3. CallTimesOut(q)
      BY <1>12, <3>1, <3>2 DEF NoResult, CallFails
    <3>4. faults' = faults + 1 /\ late'[q] = late[q]
      BY <2>4, <3>3 DEF CallTimesOut
    <3> QED
      BY <1>7, <2>1, <2>4, <3>4
  <2> QED
    BY <2>1, <2>2, <2>3, <2>4
<1>13. CASE ServeLate(q)
  <2>1. /\ late[q] # <<>> /\ late'[q] = Tail(late[q])
        /\ UNCHANGED <<pc, asked, reply, faults>>
    BY <1>13 DEF ServeLate, TypeOK
  <2>2. Len(late'[q]) = Len(late[q]) - 1
    BY <1>1, <2>1
  <2>3. ~InProgress(q)
    BY <2>1 DEF CallsOf
  <2>4. leaked'[s] = OpenFiles(s)
    BY <1>1, <1>13 DEF ServeLate, CheckName, TypeOK
  <2>5. Abandoned(q) <=> IsOpen(s)
    BY <2>1, <2>3 DEF Abandoned
  <2>6. leaked'[s] = leaked[s] + owed
    BY <2>4, <2>5 DEF OpenFiles
  <2>7. leaked'[s] + Len(late'[q]) + owed' <= faults'
    <3> HIDE DEF owed
    <3>1. leaked[s] + Len(late[q]) + owed <= faults
      BY <1>2
    <3>2. (leaked[s] + owed) + (Len(late[q]) - 1) + owed' <= faults
      BY <1>1, <3>1, LateBalance
    <3> QED
      BY <2>1, <2>2, <2>6, <3>2
  <2>8. ~disturbed'[q]
    BY <1>2, <1>13 DEF ServeLate, Disturb, TypeOK
  <2>9. pc[q] # "reading" /\ (pc[q] = "checking" => reply[q] = NoReply)
    BY <2>3 DEF InProgress, CallsOf
  <2> QED
    <3>1. [found |-> FALSE] \in NameReply /\ NoReply \notin NameReply
      BY DEF NameReply
    <3> QED
      BY <2>1, <2>7, <2>8, <2>9, <3>1 DEF DebtOf
<1>14. CASE ServeCheck(q)
  <2>1. /\ asked[q] = "check" /\ asked'[q] = "none" /\ late[q] = <<>>
        /\ UNCHANGED <<pc, late, faults>>
        /\ pc[q] \in {"checking", "dead"}
    BY <1>14 DEF ServeCheck, CallsOf, TypeOK
  <2>2. leaked'[s] = OpenFiles(s)
    BY <1>1, <1>14 DEF ServeCheck, CheckName, TypeOK
  <2>3. Abandoned(q) <=> IsOpen(s)
    BY <2>1 DEF Abandoned, InProgress
  <2>4. ~Abandoned(q)'
    BY <2>1 DEF Abandoned, InProgress
  <2>5. leaked'[s] + Len(late'[q]) + owed' <= faults'
    <3>1. leaked'[s] = leaked[s] + owed /\ owed' = 0 /\ Len(late'[q]) = 0
      BY <2>1, <2>2, <2>3, <2>4 DEF OpenFiles
    <3>2. leaked[s] + owed <= faults'
      BY <1>1, <1>2, <2>1
    <3> QED
      BY <1>1, <3>1, <3>2
  <2>6. ~disturbed'[q]
    BY <1>14 DEF ServeCheck, TypeOK
  <2>7. ASSUME pc'[q] = "checking", reply'[q] = [found |-> FALSE]
        PROVE  ~IsOpen(s)'
    <3>1. reply'[q] = [found |-> cur[q] \in Present]
      BY <1>14, <2>1, <2>7 DEF ServeCheck, Answers, TypeOK
    <3>2. cur[q] \notin Present
      <4>1. reply'[q].found = (cur[q] \in Present)
        BY <3>1
      <4>2. reply'[q].found = FALSE
        BY <2>7
      <4> QED
        BY <4>1, <4>2, Zenon
    <3> QED
      BY <1>1, <1>14, <3>2 DEF ServeCheck, CheckName, IsOpen, TypeOK
  <2> QED
    BY <2>1, <2>5, <2>6, <2>7 DEF DebtOf
<1>15. CASE ServeRead(q)
  <2>1. /\ asked[q] = "read" /\ asked'[q] = "none"
        /\ UNCHANGED <<pc, late, faults>>
        /\ pc[q] \in {"reading", "dead"}
    BY <1>15 DEF ServeRead, CallsOf, TypeOK
  <2>2. leaked'[s] = leaked[s]
    BY <1>15 DEF ServeRead, ReadOpen, ReadNull, ReadClosed, sender
  <2>3. IsOpen(s)' => IsOpen(s)
    BY <1>15 DEF ServeRead, ReadOpen, ReadNull, ReadClosed, sender, IsOpen
  <2>4. Abandoned(q)' => Abandoned(q)
    BY <2>1, <2>3 DEF Abandoned, InProgress
  <2>5. leaked'[s] + Len(late'[q]) + owed' <= faults'
    BY <1>1, <1>2, <2>1, <2>2, <2>4
  <2>6. ~disturbed'[q]
    BY <1>2, <1>15 DEF ServeRead, Disturb, TypeOK
  <2>7. ASSUME pc'[q] = "reading", reply'[q] \in BlockReply, ~reply'[q].full
        PROVE  ~IsOpen(s)'
    <3>1. CASE ReadOpen(q, s)
      <4> DEFINE full == fp[s].pos < Blocks[fp[s].file]
                 p == <<fp[s].file, fp[s].pos + 1>>
      <4>1. PICK a \in Encoded(full, p) : Answers(q, a)
        BY <3>1 DEF ReadOpen
      <4>2. full \in BOOLEAN /\ p \in Piece
        <5>1. fp[s] \in [file : File, pos : Nat, open : BOOLEAN]
          BY <1>1, <3>1 DEF ReadOpen, IsOpen, TypeOK
        <5>2. fp[s].file \in File /\ fp[s].pos + 1 \in Nat
          BY <5>1
        <5> QED
          BY <5>2 DEF Piece
      <4>3. Failure \notin BlockReply
        BY DEF BlockReply
      <4>4. reply'[q] = a
        BY <2>1, <2>7, <4>1 DEF Answers, TypeOK
      <4>5. reply'[q].full = full
        BY <2>7, <4>1, <4>2, <4>3, <4>4, EncodedReply
      <4>6. fp'[s] = [file |-> fp[s].file, pos |-> fp[s].pos + 1,
                      open |-> full]
        BY <1>1, <3>1 DEF ReadOpen, TypeOK
      <4> HIDE DEF full
      <4>7. fp'[s].open = full
        BY <4>6
      <4> QED
        BY <2>7, <4>5, <4>7, Zenon DEF IsOpen
    <3>2. CASE ReadNull(q, s) \/ ReadClosed(q, s)
      BY <3>2 DEF ReadNull, ReadClosed, sender, IsOpen
    <3> QED
      BY <1>15, <3>1, <3>2 DEF ServeRead
  <2>8. pc'[q] # "checking"
    BY <2>1
  <2> QED
    BY <2>5, <2>6, <2>7, <2>8 DEF DebtOf
<1> QED
  BY <1>5, <1>6, <1>8, <1>9, <1>10, <1>11, <1>12, <1>13, <1>14, <1>15
  DEF Next, Step, Serve, Receive

(* The two invariants hold in every reachable state.                       *)
LEMMA Invariance == Spec => [](IInv /\ Debts)
<1>1. Init => IInv /\ Debts
  BY InitIInv
<1>2. (IInv /\ Debts) /\ [Next]_vars => (IInv /\ Debts)'
  <2> SUFFICES ASSUME IInv, Debts, [Next]_vars
               PROVE  (IInv /\ Debts)'
    OBVIOUS
  <2>1. TypeOK /\ TypeOK'
    BY StepTypeOK DEF IInv
  <2>2. ASSUME NEW r \in Receiver
        PROVE  CallsOf(r)' /\ FaithfulOf(r)' /\ DebtOf(r)'
    <3>1. CallsOf(r) /\ FaithfulOf(r) /\ DebtOf(r)
      BY DEF IInv, Debts
    <3> QED
      BY <2>1, <3>1, StepCalls, StepFaithful, StepDebt
  <2> QED
    BY <2>1, <2>2 DEF IInv, Debts
<1> QED
  BY <1>1, <1>2, PTL DEF Spec

(* Every variable has its type, a FILE is open only up to its short block, *)
(* and no sender has more FILEs open than a process can have.              *)
THEOREM TypeCorrect == Spec => []TypeOK
<1>1. IInv => TypeOK
  BY DEF IInv
<1> QED
  BY <1>1, Invariance, PTL

(* A file fetched while nobody else used the sender has all the blocks of  *)
(* the original in their order (file_srp.cpp:27-49, freceiver.cpp:26-47).  *)
THEOREM UndisturbedFaithful == Spec => []UndisturbedIsFaithful
<1>1. IInv => UndisturbedIsFaithful
  <2> SUFFICES ASSUME IInv, NEW r \in Receiver, NEW f \in File,
                      status[r][f] = "whole", leaked[Reaches[r]] < MaxOpen
               PROVE  /\ f \in Present
                      /\ Len(copy[r][f]) = Blocks[f] + 1
                      /\ \A i \in 1 .. Blocks[f] + 1 :
                           \/ copy[r][f][i] = <<f, i>>
                           \/ "garbled" \in Stack /\ copy[r][f][i] = Garbage
    BY DEF UndisturbedIsFaithful
  <2>1. CopiedUpTo(r, f, Blocks[f] + 1)
    BY DEF IInv, FaithfulOf
  <2> QED
    BY <2>1 DEF CopiedUpTo, Faithful
<1> QED
  BY <1>1, Invariance, PTL

(* The FILEs of a sender that one receiver uses alone are closed, but for  *)
(* one per call that was cut off (file_srp.cpp:18,39).                     *)
LEMMA DebtCovers == IInv /\ Debts => LeaksOnlyByFaults
<1> SUFFICES ASSUME IInv, Debts, NEW r \in Receiver, Alone(r)
             PROVE  leaked[Reaches[r]] <= faults
  BY DEF LeaksOnlyByFaults
<1> DEFINE l == leaked[Reaches[r]]
           n == Len(late[r])
           o == IF Abandoned(r) THEN 1 ELSE 0
<1>1. l + n + o <= faults
  BY DEF Debts, DebtOf
<1>2. l \in Nat /\ n \in Nat /\ faults \in Nat /\ o \in 0 .. 1
  BY TransferAssumption DEF IInv, TypeOK
<1>3. l <= faults
  <2> HIDE DEF l, n, o
  <2> QED
    BY <1>1, <1>2
<1> QED
  BY <1>3

(* No sender of a single receiver runs out of FILEs without as many faults *)
(* (file_srp.cpp:18,39).                                                   *)
THEOREM LeaksCovered == Spec => []LeaksOnlyByFaults
BY DebtCovers, Invariance, PTL

-----------------------------------------------------------------------------
(* The refinement of module FileCopy.                                      *)

(* A copy that has all the blocks is one that module FileCopy may deliver. *)
LEMMA CopiedIsGenuine ==
  ASSUME NEW f \in Present, NEW c \in Seq(Piece), Len(c) = Blocks[f] + 1,
         \A i \in 1 .. Blocks[f] + 1 : Faithful(c[i], f, i)
  PROVE  c \in Genuine[f]
<1> DEFINE n == Blocks[f] + 1
           S == ({f} \X (1 .. n)) \cup {Garbage}
<1>1. c = [i \in 1 .. n |-> c[i]]
  BY LenProperties
<1>2. ASSUME NEW i \in 1 .. n
      PROVE  /\ c[i] = <<f, i>> \/ ("garbled" \in Stack /\ c[i] = Garbage)
             /\ c[i] \in S
  <2>1. c[i] = <<f, i>> \/ ("garbled" \in Stack /\ c[i] = Garbage)
    BY DEF Faithful
  <2>2. <<f, i>> \in {f} \X (1 .. n)
    OBVIOUS
  <2> QED
    BY <2>1, <2>2
<1>3. c \in [1 .. n -> S]
  <2> HIDE DEF n, S
  <2> QED
    BY <1>1, <1>2
<1> QED
  BY <1>2, <1>3 DEF Genuine

Spent == {s \in Sender : leaked[s] >= MaxOpen}

(* A request uses the FILEs of one sender at most.                         *)
LEMMA ServeSpends ==
  ASSUME TypeOK, TypeOK', [Next]_vars, NEW r \in Receiver, Serve(r)
  PROVE  Spent' = Spent \/ Spent' = Spent \cup {Reaches[r]}
<1> DEFINE s == Reaches[r]
<1>1. s \in Sender
  BY TransferAssumption
<1>2. ASSUME NEW t \in Sender, t # s
      PROVE  leaked'[t] = leaked[t]
  BY <1>2 DEF Serve, ServeLate, ServeCheck, ServeRead, CheckName, ReadOpen,
              ReadNull, ReadClosed, sender, TypeOK
<1>3. leaked[s] <= leaked'[s]
  BY <1>1, LeakedGrows
<1>4. /\ leaked[s] \in Nat /\ leaked'[s] \in Nat /\ MaxOpen \in Nat
  BY <1>1, TransferAssumption DEF TypeOK
<1>5. \A t \in Sender \ {s} : t \in Spent' <=> t \in Spent
  BY <1>2 DEF Spent
<1>6. s \in Spent => s \in Spent'
  <2> HIDE DEF s
  <2> QED
    BY <1>1, <1>3, <1>4 DEF Spent
<1>7. Spent \subseteq Sender /\ Spent' \subseteq Sender
  BY DEF Spent
<1> HIDE DEF s
<1>8. CASE s \in Spent'
  <2>1. \A t : t \in Spent' <=> t \in Spent \cup {s}
    BY <1>5, <1>7, <1>8
  <2> QED
    BY <2>1 DEF s
<1>9. CASE s \notin Spent'
  <2>1. \A t : t \in Spent' <=> t \in Spent
    BY <1>5, <1>6, <1>7, <1>9
  <2> QED
    BY <2>1
<1> QED
  BY <1>8, <1>9 DEF s

(* Whatever the stack of the senders lets through, however the receivers   *)
(* are spread over the senders and however few FILEs there are, a receiver *)
(* that is alone with a sender with FILEs left gets whole files or none: a *)
(* step delivers all the blocks, destroys a copy that is fetched again,    *)
(* loses a FILE or leaves what was reported as downloaded                  *)
(* (freceiver.cpp:26-47).                                                  *)
THEOREM TransferImplementsCopy == Spec => ImplementsFileCopy
<1> USE TransferAssumption
<1>1. Init => Copy!Init
  <2> SUFFICES ASSUME Init PROVE Copy!Init
    OBVIOUS
  <2>1. \A s \in Sender : ~ (leaked[s] >= MaxOpen)
    <3>1. leaked = [s \in Sender |-> 0]
      BY DEF Init
    <3>2. MaxOpen \in Nat /\ MaxOpen # 0
      OBVIOUS
    <3>3. ~ (0 >= MaxOpen)
      BY <3>2
    <3> QED
      BY <3>1, <3>3
  <2>2. {s \in Sender : leaked[s] >= MaxOpen} = {}
    BY <2>1
  <2>3. Copies = [r \in Receiver |-> [f \in Present |-> <<>>]]
    <3>1. \A r \in Receiver, f \in Present : status[r][f] \notin Said
      BY DEF Init, Said
    <3> QED
      BY <3>1 DEF Copies
  <2> QED
    BY <2>2, <2>3 DEF Copy!Init
<1>2. ASSUME IInv, IInv', Debts, [Next]_vars
      PROVE  [Copy!Next]_<<Copies, Spent>>
  <2> USE <1>2
  <2>a. /\ TypeOK /\ TypeOK'
        /\ \A r \in Receiver : CallsOf(r) /\ FaithfulOf(r)'
    BY DEF IInv
  <2>1. ASSUME NEW r \in Receiver, NEW f \in Present,
               NEW v \in {"none", "part", "mixed", "whole"},
               status' = [status EXCEPT ![r][f] = v],
               \A q \in Receiver, g \in Present :
                 q # r \/ g # f => copy'[q][g] = copy[q][g]
        PROVE  Copies' = [Copies EXCEPT ![r][f] =
                            IF v \notin Said THEN <<>>
                            ELSE IF copy'[r][f] \in Genuine[f]
                                 THEN copy'[r][f] ELSE Garbage]
    <3> USE <2>a
    <3>1. /\ status'[r][f] = v
          /\ \A q \in Receiver, g \in Present :
               q # r \/ g # f => status'[q][g] = status[q][g]
      BY <2>1 DEF TypeOK
    <3> DEFINE w == IF v \notin Said THEN <<>>
                    ELSE IF copy'[r][f] \in Genuine[f]
                         THEN copy'[r][f] ELSE Garbage
               row == [g \in Present |-> IF g = f THEN w ELSE Copies[r][g]]
    <3>2. ASSUME NEW q \in Receiver, q # r
          PROVE  Copies'[q] = Copies[q]
      BY <2>1, <3>1, <3>2 DEF Copies
    <3>3. Copies'[r] = row
      BY <2>1, <3>1 DEF Copies
    <3>4. row = [Copies[r] EXCEPT ![f] = w]
      BY DEF Copies
    <3>5. Copies' = [q \in Receiver |-> Copies'[q]]
      BY DEF Copies
    <3>6. Copies = [q \in Receiver |-> Copies[q]]
      BY DEF Copies
    <3> HIDE DEF w, row
    <3>7. Copies' = [Copies EXCEPT ![r] = row]
      BY <3>2, <3>3, <3>5, <3>6
    <3>8. Copies' = [Copies EXCEPT ![r][f] = w]
      BY <3>4, <3>7
    <3> QED
      BY <3>8 DEF w
  <2>2. ASSUME NEW r \in Receiver, HasBlock(r), Store(r)
        PROVE  /\ cur[r] \in Present /\ status[r][cur[r]] = "part"
               /\ \A q \in Receiver, g \in Present :
                    q # r \/ g # cur[r] => copy'[q][g] = copy[q][g]
    <3>1. pc[r] = "reading"
      BY <2>2 DEF HasBlock
    <3>2. cur[r] \in Present /\ status[r][cur[r]] = "part"
      BY <2>a, <3>1 DEF CallsOf
    <3> QED
      BY <2>2, <2>a, <3>2 DEF Store, TypeOK
  <2>3. ASSUME NEW r \in Receiver, FullBlock(r)
        PROVE  UNCHANGED <<Copies, Spent>>
    <3>1. HasBlock(r) /\ Store(r) /\ status' = status /\ leaked' = leaked
      BY <2>3 DEF FullBlock, sender
    <3>2. \A q \in Receiver, g \in Present :
            status[q][g] \in Said => copy'[q][g] = copy[q][g]
      BY <2>2, <3>1 DEF Said
    <3>3. Copies' = Copies
      BY <3>1, <3>2 DEF Copies
    <3> QED
      BY <3>1, <3>3 DEF Spent
  <2>4. ASSUME NEW r \in Receiver, Begin(r)
        PROVE  Copy!Next
    <3> DEFINE f == cur[r]
    <3>1. f \in Present
      BY <2>4, <2>a DEF Begin, CallsOf
    <3>2. /\ status' = [status EXCEPT ![r][f] = "part"]
          /\ copy' = [copy EXCEPT ![r][f] = <<>>]
          /\ leaked' = leaked
      BY <2>4 DEF Begin, sender
    <3>3. Copies' = [Copies EXCEPT ![r][f] = <<>>]
      <4>1. \A q \in Receiver, g \in Present :
              q # r \/ g # f => copy'[q][g] = copy[q][g]
        BY <2>a, <3>2 DEF TypeOK
      <4>2. "part" \notin Said
        BY DEF Said
      <4> HIDE DEF f
      <4> QED
        BY <2>1, <3>1, <3>2, <4>1, <4>2
    <3> QED
      BY <3>1, <3>2, <3>3 DEF Copy!Next, Copy!Overwrite, Spent
  <2>5. ASSUME NEW r \in Receiver, ShortBlock(r)
        PROVE  Copy!Next
    <3> DEFINE f == cur[r]
               v == IF disturbed[r] THEN "mixed" ELSE "whole"
    <3>1. HasBlock(r) /\ Store(r) /\ leaked' = leaked
      BY <2>5 DEF ShortBlock, sender
    <3>2. status' = [status EXCEPT ![r][f] = v]
      BY <2>5 DEF ShortBlock
    <3>3. f \in Present
      BY <2>2, <3>1
    <3>4. Copies' = [Copies EXCEPT ![r][f] =
                       IF copy'[r][f] \in Genuine[f] THEN copy'[r][f]
                       ELSE Garbage]
      <4>1. \A q \in Receiver, g \in Present :
              q # r \/ g # f => copy'[q][g] = copy[q][g]
        BY <2>2, <3>1
      <4> QED
        BY <2>1, <3>2, <3>3, <4>1 DEF Said
    <3>5. CASE copy'[r][f] \in Genuine[f]
      BY <3>1, <3>3, <3>4, <3>5 DEF Copy!Next, Copy!Deliver
    <3>6. CASE copy'[r][f] \notin Genuine[f]
      <4>1. Copies' = [Copies EXCEPT ![r][f] = Garbage]
        BY <3>4, <3>6
      <4>2. Copy!Shares(r) \/ Reaches[r] \in Spent
        <5> SUFFICES ASSUME ~ Copy!Shares(r), Reaches[r] \notin Spent
                     PROVE  FALSE
          OBVIOUS
        <5>1. Alone(r)
          BY DEF Copy!Shares, Alone
        <5>2. ~ disturbed[r]
          BY <5>1 DEF Debts, DebtOf
        <5>3. leaked'[Reaches[r]] < MaxOpen
          <6>1. Reaches[r] \in Sender /\ MaxOpen \in Nat
            OBVIOUS
          <6>2. leaked[Reaches[r]] \in Nat
            BY <2>a, <6>1 DEF TypeOK
          <6> QED
            BY <3>1, <6>1, <6>2 DEF Spent
        <5>4. status'[r][f] = "whole"
          BY <2>a, <3>2, <3>3, <5>2 DEF TypeOK
        <5>5. /\ Len(copy'[r][f]) = Blocks[f] + 1
              /\ \A i \in 1 .. Blocks[f] + 1 : Faithful(copy'[r][f][i], f, i)
          <6>1. \A g \in File :
                  status'[r][g] = "whole" =>
                    /\ Len(copy'[r][g]) = Blocks[g] + 1
                    /\ \A i \in 1 .. Blocks[g] + 1 :
                         Faithful(copy'[r][g][i], g, i)
            BY <2>a, <5>3 DEF FaithfulOf, CopiedUpTo
          <6>2. f \in File
            BY <3>3
          <6> QED
            BY <5>4, <6>1, <6>2
        <5>6. copy'[r][f] \in Genuine[f]
          <6>1. copy'[r][f] \in Seq(Piece)
            BY <2>a, <3>3 DEF TypeOK
          <6> HIDE DEF f
          <6> QED
            BY <3>3, <5>5, <6>1, CopiedIsGenuine
        <5> QED
          BY <3>6, <5>6
      <4> QED
        BY <3>1, <3>3, <4>1, <4>2
        DEF Copy!Next, Copy!DeliverMixed, Spent
    <3> QED
      BY <3>5, <3>6
  <2>6. ASSUME NEW r \in Receiver, Serve(r)
        PROVE  [Copy!Next]_<<Copies, Spent>>
    <3>1. UNCHANGED Copies
      BY <2>6 DEF Serve, ServeLate, ServeCheck, ServeRead, receiver, Copies
    <3>2. Spent' = Spent \/ Spent' = Spent \cup {Reaches[r]}
      BY <2>a, <2>6, ServeSpends
    <3>3. CASE Spent' = Spent \cup {Reaches[r]}
      BY <3>1, <3>3 DEF Copy!Next, Copy!RunOut, Spent
    <3> QED
      BY <3>1, <3>2, <3>3
  <2>7. ASSUME NEW r \in Receiver,
               Ask(r) \/ Leave(r) \/ Absent(r) \/ NoResult(r) \/ Killed(r)
        PROVE  UNCHANGED <<Copies, Spent>>
    BY <2>7
    DEF Ask, Leave, Absent, NoResult, Killed, receiver, sender, Copies, Spent
  <2>8. ASSUME NEW s \in Sender, SenderKilled(s)
        PROVE  UNCHANGED <<Copies, Spent>>
    BY <2>8 DEF SenderKilled, receiver, Copies, Spent
  <2>9. CASE UNCHANGED vars
    BY <2>9 DEF vars, Copies, Spent
  <2> QED
    BY <2>3, <2>4, <2>5, <2>6, <2>7, <2>8, <2>9 DEF Next, Receive
<1>3. Spec => Init /\ [][Next]_vars
  BY PTL DEF Spec
<1> QED
  BY <1>1, <1>2, <1>3, Invariance, PTL
  DEF ImplementsFileCopy, Copy!Spec, Spent
=============================================================================
