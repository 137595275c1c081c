------------------------------ MODULE Framing ------------------------------
(***************************************************************************)
(* One connection, by the numbers of bytes under way: how lines and        *)
(* answers are told apart on a byte stream by a client program             *)
(* (StudentClient.cpp, InstructorClient.cpp) and a session (handle.cpp).   *)
(*                                                                         *)
(* Nothing marks the end of a message.  The session takes what one read()  *)
(* returns for a line; the client takes an answer to be over at the first  *)
(* read() that returns less than its buffer holds; for that sendmessage()  *)
(* makes no text a multiple of that buffer.  The student's client encrypts *)
(* a line if what it read last was the prompt for a password.              *)
(*                                                                         *)
(* So there are ways to get out of step, and the module names them: turns  *)
(* records whether one of them has happened.                               *)
(*                                                                         *)
(* What a line says, and what the database makes of it, is in module       *)
(* Sessions: here any line may have any answer.                            *)
(***************************************************************************)
EXTENDS Naturals

CONSTANTS
  Buf,        \* what the clients read at once: BUFSIZE, 1024
  Cmd,        \* what a session reads at once: CMDSIZE, 128
  Greet,      \* the length of "STU" or "INS" with its NUL
  Prompt,     \* the length of the prompt for a password
  Line,       \* the lengths of lines, with the NUL
  Cipher,     \* the lengths of encrypted passwords
  Short,      \* of the texts that a session writes as they are
  Notice,     \* of the notifications
  Text,       \* of the texts that go through sendmessage()
  Room,       \* bound on the unread bytes when a line is sent or taken in
  MaxPartial  \* bound on the writes that are cut short

VARIABLES
  kind,     \* "STU" or "INS": which client program and which session it is
  client,   \* where the client program is
  ispwd,    \* whether it takes the next line for a password
  up,       \* bytes sent to the session and not read yet
  session,  \* where the session is
  out,      \* bytes of its answer not written yet
  mode,     \* how the answer is written
  down,     \* bytes sent to the client and not read yet
  asks,     \* whether these are the prompt and nothing else
  turns,    \* "kept", or "lost" by one of the ways to get out of step
  partials  \* how many writes were cut short

vars ==
  <<kind, client, ispwd, up, session, out, mode, down, asks, turns, partials>>

ASSUME FramingAssumption ==
  /\ Buf \in Nat \ {0, 1}
  /\ Cmd \in Nat \ {0}
  /\ Greet \in Nat \ {0}
  /\ Prompt \in 1 .. Buf - 1
  /\ Line \subseteq Nat \ {0}
  /\ Cipher \subseteq Nat
  /\ Short \subseteq Nat \ {0}
  /\ Notice \subseteq Nat
  /\ Text \subseteq Nat
  /\ Room \in Nat
  /\ MaxPartial \in Nat

Init ==
  /\ kind \in {"STU", "INS"}
  /\ client = "new"
  /\ ispwd = FALSE
  /\ up = 0
  /\ session = "greet"
  /\ out = 0
  /\ mode = "once"
  /\ down = 0
  /\ asks = FALSE
  /\ turns = "kept"
  /\ partials = 0

Least(m, n) == IF m < n THEN m ELSE n

(* A read() that waits until its buffer is full.                           *)
FullReads(there, size) == IF there = 0 THEN {} ELSE {size}

(* What a read() for so many bytes may return: what has arrived of what    *)
(* was written.                                                            *)
Reads(there, size) == 1 .. Least(there, size)

(* The two sides are out of step from here on if this is the case.         *)
Lose(case) == turns' = IF case THEN "lost" ELSE turns

-----------------------------------------------------------------------------
(* The client program.                                                     *)

Identify ==
  /\ client = "new"
  /\ up' = up + Greet
  /\ client' = "typing"
  /\ UNCHANGED <<kind, ispwd, session, out, mode, down, asks, turns, partials>>

(* A line may be typed before the session has read the greeting.  The file *)
(* sender of a student session has the socket open after it, so the        *)
(* student can go on writing to nobody.                                    *)
MaySend ==
  /\ client = "typing"
  /\ up <= Room
  /\ session # "ended" \/ kind = "STU"

SendLine ==
  /\ MaySend
  /\ ~ispwd
  /\ \E n \in Line : up' = up + n
  /\ client' = "reading"
  /\ UNCHANGED <<kind, ispwd, session, out, mode, down, asks, turns, partials>>

(* Every line from the first password on is encrypted.                     *)
KeepEncrypting ==
  /\ MaySend
  /\ ispwd
  /\ \E n \in Cipher : up' = up + n
  /\ Lose(up' = up)
  /\ client' = "reading"
  /\ UNCHANGED <<kind, ispwd, session, out, mode, down, asks, partials>>

(* A ciphertext is cut at its first NUL: of one that begins with it        *)
(* nothing is sent, and both sides wait (module Secure).                   *)
SendPassword ==
  /\ MaySend
  /\ ispwd
  /\ \E n \in Cipher : up' = up + n
  /\ Lose(up' = up)
  /\ ispwd' = FALSE
  /\ client' = "reading"
  /\ UNCHANGED <<kind, session, out, mode, down, asks, partials>>

(* The loop of an answer ends with the answer, whatever it reads.          *)
ReadAnswerOnce ==
  /\ client = "reading"
  /\ \E n \in Reads(down, Buf) :
       /\ down' = down - n
       /\ ispwd' = (ispwd \/ (kind = "STU" /\ asks /\ n = down))
       /\ Lose(n < Buf /\ n < down)
  /\ client' = "typing"
  /\ asks' = FALSE
  /\ UNCHANGED <<kind, up, session, out, mode, partials>>

(* Only the prompt, in one piece and alone, makes the next line a          *)
(* password; the instructor's client encrypts nothing.  Of an answer that  *)
(* arrives in pieces a short one is taken for the end.                     *)
ReadAnswer ==
  /\ client = "reading"
  /\ \E n \in Reads(down, Buf) :
       /\ down' = down - n
       /\ ispwd' = (ispwd \/ (kind = "STU" /\ asks /\ n = down))
       /\ client' = IF n < Buf THEN "typing" ELSE "reading"
       /\ Lose(n < Buf /\ n < down)
  /\ asks' = FALSE
  /\ UNCHANGED <<kind, up, session, out, mode, partials>>

(* read() returns 0 when the session's process has ended, unless the file  *)
(* sender that it forked keeps the socket open.                            *)
ReadEnd ==
  /\ client = "reading"
  /\ session = "ended" /\ kind = "INS"
  /\ down = 0
  /\ client' = "typing"
  /\ UNCHANGED
       <<kind, ispwd, up, session, out, mode, down, asks, turns, partials>>

(* END, end of input, or the death of the client program.                  *)
Quit ==
  /\ client \in {"typing", "reading"}
  /\ client' = "gone"
  /\ UNCHANGED
       <<kind, ispwd, up, session, out, mode, down, asks, turns, partials>>

-----------------------------------------------------------------------------
(* The session.                                                            *)

Waits == out = 0 /\ mode # "spin"

(* sendmessage() before it was made to look at multiples of 1024.          *)
NewlineOnly(n) == n + 1

(* sendmessage() adds one byte, or two where one would make a multiple.    *)
Padded(n) == IF n % Buf = Buf - 1 THEN n + 2 ELSE n + 1

Say(texts, how) ==
  /\ out' \in texts
  /\ mode' = how

(* Nothing tells the client that this answer is over: it fills the buffer  *)
(* of the last read(), or it is empty as the notification of an empty      *)
(* board.                                                                  *)
Endless ==
  session # "ended" /\ mode = "once" /\ out % Buf = 0

(* One read() takes what has arrived: a line that came with the greeting   *)
(* is lost, and overflows buf[4].                                          *)
ReadGreeting ==
  /\ session = "greet"
  /\ \E n \in Reads(up, up) :
       /\ up' = up - n
       /\ session' \in (IF n < Greet THEN {"ended"}
                        ELSE IF n = Greet THEN {"login"}
                        ELSE {"login", "ended"})
       /\ Lose(n # Greet)
  /\ UNCHANGED <<kind, client, ispwd, out, mode, down, asks, partials>>

(* What one read() returns is a line: the first part of one that is longer *)
(* or has not arrived yet.                                                 *)
ReadLine ==
  /\ Waits
  /\ down <= Room
  /\ \E n \in Reads(up, Cmd) :
       /\ up' = up - n
       /\ Lose(n < up \/ Endless')
  /\ UNCHANGED <<kind, client, ispwd, down, asks, partials>>

(* It is an ID.                                                            *)
ReadID ==
  /\ session = "login"
  /\ \/ Say(Short, "once") /\ UNCHANGED session
     \/ Say({Prompt}, "once") /\ session' = "password"
  /\ ReadLine

(* It is a password: a wrong one, the right one, or one that dencry()      *)
(* throws on.  A student is greeted with a notification, written as it is. *)
ReadPassword ==
  /\ session = "password"
  /\ \/ Say(Short, "once") /\ session' = "login"
     \/ /\ IF kind = "STU" THEN Say(Notice, "once")
           ELSE Say({Padded(n) : n \in Text}, "loop")
        /\ session' = "command"
     \/ kind = "STU" /\ session' = "ended" /\ UNCHANGED <<out, mode>>
  /\ ReadLine

(* It is a command.  "ID not found" is written as it is; an upload that    *)
(* reaches no file sender, or too few words, ends an instructor session.   *)
ReadCommand ==
  /\ session = "command"
  /\ \/ Say({Padded(n) : n \in Text}, "loop") /\ UNCHANGED session
     \/ kind = "INS" /\ Say(Short, "once") /\ UNCHANGED session
     \/ kind = "INS" /\ session' = "ended" /\ UNCHANGED <<out, mode>>
  /\ ReadLine

(* write() of all there is.  After a partial write the loop of             *)
(* sendmessage() compares with the length there was before it: it goes on  *)
(* writing no bytes for ever.                                              *)
Write ==
  /\ session # "ended" /\ out > 0
  /\ down' = down + out
  /\ out' = 0
  /\ asks' = (session = "password" /\ mode = "once" /\ down = 0)
  /\ mode' = IF mode = "rest" THEN "spin" ELSE mode
  /\ UNCHANGED <<kind, client, ispwd, up, session, turns, partials>>

(* A write() that a signal cuts short.  Outside sendmessage() the rest is  *)
(* dropped.                                                                *)
WritePart ==
  /\ session # "ended" /\ out > 0
  /\ partials < MaxPartial
  /\ partials' = partials + 1
  /\ \E n \in 1 .. out - 1 :
       /\ down' = down + n
       /\ out' = IF mode = "once" THEN 0 ELSE out - n
  /\ asks' = FALSE
  /\ mode' = IF mode = "once" THEN "once" ELSE "rest"
  /\ Lose(TRUE)
  /\ UNCHANGED <<kind, client, ispwd, up, session>>

(* It reads END or the end of the stream, or dies of a write().            *)
SessionEnds ==
  /\ client = "gone"
  /\ session # "ended" /\ mode # "spin"
  /\ session' = "ended"
  /\ UNCHANGED
       <<kind, client, ispwd, up, out, mode, down, asks, turns, partials>>

SessionReads == ReadGreeting \/ ReadID \/ ReadPassword \/ ReadCommand

Next ==
  \/ Identify \/ SendLine \/ SendPassword \/ ReadAnswer \/ ReadEnd \/ Quit
  \/ SessionReads \/ Write \/ WritePart \/ SessionEnds

(* A session goes on with what it can do, and a client reads what is there *)
(* to be read.                                                             *)
Fairness ==
  WF_vars(SessionReads) /\ WF_vars(Write) /\ WF_vars(ReadAnswer)

Spec == Init /\ [][Next]_vars /\ Fairness

-----------------------------------------------------------------------------
(* Properties.                                                             *)

(* Counts do not go below zero, and a file sender is the only reader that  *)
(* an ended student session leaves.                                        *)
TypeOK ==
  /\ kind \in {"STU", "INS"}
  /\ client \in {"new", "typing", "reading", "gone"}
  /\ ispwd \in BOOLEAN
  /\ kind = "INS" => ~ispwd
  /\ up \in Nat
  /\ session \in {"greet", "login", "password", "command", "ended"}
  /\ out \in Nat
  /\ mode \in {"once", "loop", "rest", "spin"}
  /\ down \in Nat
  /\ asks \in BOOLEAN
  /\ asks => down = Prompt
  /\ turns \in {"kept", "lost"}
  /\ partials \in 0 .. MaxPartial

(* Client and session take turns (StudentClient.cpp:107-131,               *)
(* handle.cpp:559-579): when the client asks for a line, every byte of the *)
(* answers has been read and the session waits for the line; while the     *)
(* client reads, there is something under way that will let it go on.      *)
(* What breaks it is one of these, and nothing else: a greeting, a line or *)
(* an answer that its reader gets in part, or a line together with the     *)
(* greeting; a line longer than the session's buffer; a ciphertext that    *)
(* begins with a NUL; a text written without sendmessage() that is empty   *)
(* or fills the client's buffer; a write() cut short.                      *)
InStep ==
  turns = "kept" /\ session # "ended" =>
    /\ client = "typing" /\ session # "greet" =>
         Waits /\ up = 0 /\ down = 0
    /\ client = "reading" => up > 0 \/ out > 0 \/ down > 0

(* A student's line is encrypted if and only if the session will decrypt   *)
(* it (StudentClient.cpp:91-96,122-124; handle.cpp:97-113), until one of   *)
(* these happens.                                                          *)
PromptUnderstood ==
  turns = "kept" /\ kind = "STU" /\ client = "typing" =>
    (session \notin {"greet", "ended"} => (ispwd <=> session = "password"))

(* Whoever has sent a line is asked for another one, unless the session    *)
(* ends or one of these happens.                                           *)
Answered ==
  client = "reading" ~>
    client # "reading" \/ session = "ended" \/ turns = "lost"

(* handle.cpp:634 has its loop because the message "might be splitted by   *)
(* system": when it was, the rest is written and the session waits for the *)
(* next line, unless it ends or the client goes.                           *)
SplitAnswerFinished ==
  mode = "rest" ~> Waits \/ session = "ended" \/ client = "gone"

(* What the bytes under way amount to.                                     *)
Message ==
  IF session = "ended" THEN "none"
  ELSE IF session = "greet" /\ up > Greet THEN "both"
  ELSE IF session = "greet" /\ up > 0 THEN "greeting"
  ELSE IF up > 0 THEN "line"
  ELSE IF out > 0 \/ down > 0 THEN "answer"
  ELSE "none"

D == INSTANCE Dialogue WITH message <- Message

(* The bytes amount to a dialogue of whole messages, each line answered    *)
(* once, before the next is sent (StudentClient.cpp:74-131,                *)
(* InstructorClient.cpp:71-106, handle.cpp:42-55,144,297): every step is   *)
(* one of the dialogue, or a part of one, until client and session get out *)
(* of step in one of the ways above.                                       *)
ImplementsDialogue ==
  D!Init /\ [][turns' = "kept" => [D!Next]_(D!dvars)]_vars
=============================================================================
