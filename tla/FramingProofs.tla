--------------------------- MODULE FramingProofs ---------------------------
(***************************************************************************)
(* What holds of a connection for every size of the buffers, whatever      *)
(* lines and texts are exchanged, and however reads and writes are cut.    *)
(***************************************************************************)
EXTENDS Framing, TLAPS

USE DEF vars

-----------------------------------------------------------------------------
(* Remainders by a divisor that is not known.                              *)

(* Division with a remainder.                                              *)
LEMMA Divide ==
  ASSUME NEW B \in Nat, B > 1, NEW n \in Nat
  PROVE  \E q \in Nat, r \in 0 .. B - 1 : n = B * q + r /\ r = n % B
OBVIOUS

(* The remainder is what is left of it.                                    *)
LEMMA Remainder ==
  ASSUME NEW B \in Nat, B > 1, NEW n \in Nat,
         NEW q \in Nat, NEW r \in 0 .. B - 1, n = B * q + r
  PROVE  r = n % B
OBVIOUS

(* A divisor taken away leaves the remainder as it was.                    *)
LEMMA Less ==
  ASSUME NEW B \in Nat, B > 1, NEW n \in Nat, n >= B
  PROVE  n - B \in Nat /\ (n - B) % B = n % B
<1>1. PICK q \in Nat, r \in 0 .. B - 1 : n = B * q + r /\ r = n % B
  BY Divide
<1>2. q >= 1
  BY <1>1
<1>3. n - B = B * (q - 1) + r
  BY <1>1, <1>2
<1>4. q - 1 \in Nat /\ n - B \in Nat
  BY <1>2
<1> QED
  BY <1>1, <1>3, <1>4, Remainder

(* Two more than the greatest remainder.                                   *)
LEMMA TwoMore ==
  ASSUME NEW B \in Nat, B > 1, NEW n \in Nat, n % B = B - 1
  PROVE  (n + 2) % B # 0
<1>1. PICK q \in Nat, r \in 0 .. B - 1 : n = B * q + r /\ r = n % B
  BY Divide
<1>2. n + 2 = B * (q + 1) + 1
  BY <1>1
<1> QED
  BY <1>2, Remainder

(* One more than any other.                                                *)
LEMMA OneMore ==
  ASSUME NEW B \in Nat, B > 1, NEW n \in Nat, n % B # B - 1
  PROVE  (n + 1) % B # 0
<1>1. PICK q \in Nat, r \in 0 .. B - 1 : n = B * q + r /\ r = n % B
  BY Divide
<1>2. n + 1 = B * q + (r + 1) /\ r + 1 \in 0 .. B - 1
  BY <1>1
<1> QED
  BY <1>2, Remainder

(* What sendmessage() (handle.cpp:618-626) sends is never a multiple of    *)
(* the client's buffer, and never nothing.                                 *)
LEMMA PaddedIsUneven ==
  ASSUME NEW n \in Nat
  PROVE  Padded(n) \in Nat \ {0} /\ Padded(n) % Buf # 0
<1>1. Buf \in Nat /\ Buf > 1
  BY FramingAssumption
<1>2. CASE n % Buf = Buf - 1
  <2>1. (n + 2) % Buf # 0
    BY <1>1, <1>2, TwoMore
  <2> QED
    BY <1>2, <2>1 DEF Padded
<1>3. CASE n % Buf # Buf - 1
  <2>1. (n + 1) % Buf # 0
    BY <1>1, <1>3, OneMore
  <2> QED
    BY <1>3, <2>1 DEF Padded
<1> QED
  BY <1>2, <1>3

(* Nothing is a multiple of the buffer.                                    *)
LEMMA UnevenIsSomething ==
  0 % Buf = 0 /\ Buf % Buf = 0
<1>1. 0 = Buf * 0 + 0 /\ Buf = Buf * 1 + 0
  BY FramingAssumption
<1> QED
  BY <1>1, FramingAssumption, Remainder

(* What is no multiple is something.                                       *)
LEMMA UnevenIsPositive ==
  \A n \in Nat : n % Buf # 0 => n > 0
<1> SUFFICES ASSUME NEW n \in Nat, n = 0 PROVE n % Buf = 0
  OBVIOUS
<1>1. 0 % Buf = 0
  BY UnevenIsSomething
<1> QED
  BY <1>1, Zenon

(* What read() returns is there, and fits.                                 *)
LEMMA ReadsThere ==
  ASSUME NEW there \in Nat, NEW size \in Nat, NEW n \in Reads(there, size)
  PROVE  /\ n \in Nat \ {0} /\ n <= there /\ n <= size
         /\ there > 0 /\ there - n \in Nat
BY DEF Reads, Least

-----------------------------------------------------------------------------
(* Types.                                                                  *)

(* A session that waits for a password has written the prompt in one       *)
(* piece, or is about to.                                                  *)
IInv ==
  /\ TypeOK
  /\ session = "password" => out \in {0, Prompt} /\ mode = "once"

(* Types hold of a new connection.                                         *)
LEMMA TypeInit ==
  ASSUME Init
  PROVE  IInv
<1> USE FramingAssumption
<1>1. /\ client = "new" /\ session = "greet" /\ mode = "once"
      /\ up = 0 /\ out = 0 /\ down = 0 /\ partials = 0 /\ turns = "kept"
      /\ kind \in {"STU", "INS"}
  BY DEF Init
<1>2. ispwd = FALSE /\ asks = FALSE
  BY DEF Init
<1>3. ispwd \in BOOLEAN /\ asks \in BOOLEAN
  BY <1>2, Zenon
<1> QED
  BY <1>1, <1>2, <1>3 DEF IInv, TypeOK

(* Who is out of step remains so; what a step loses the turns by is not    *)
(* the case as long as they are kept.                                      *)
LEMMA LostForGood ==
  ASSUME turns \in {"kept", "lost"}, [Next]_vars
  PROVE  turns' \in {"kept", "lost"} /\ (turns' = "kept" => turns = "kept")
BY DEF Next, Identify, SendLine, SendPassword, ReadAnswer, ReadEnd, Quit,
       SessionReads, ReadGreeting, ReadLine, ReadID, ReadPassword,
       ReadCommand, Write, WritePart, SessionEnds, Lose

(* Every step keeps them, whatever lengths texts have and however reads    *)
(* and writes are cut.                                                     *)
LEMMA TypeStep ==
  ASSUME IInv, [Next]_vars
  PROVE  IInv'
<1> USE FramingAssumption
<1>0. turns' \in {"kept", "lost"}
  BY LostForGood DEF IInv, TypeOK
<1> USE <1>0 DEF IInv, TypeOK
<1>1. CASE Identify
  BY <1>1 DEF Identify
<1>2. CASE SendLine
  BY <1>2 DEF SendLine
<1>3. CASE SendPassword
  <2>1. up' \in Nat
    BY <1>3 DEF SendPassword
  <2>2. /\ ispwd' = FALSE /\ client' = "reading"
        /\ UNCHANGED <<kind, session, out, mode, down, asks, partials>>
    BY <1>3 DEF SendPassword
  <2> QED
    BY <2>1, <2>2
<1>4. CASE ReadAnswer
  <2>1. PICK n \in Reads(down, Buf) :
          /\ down' = down - n
          /\ ispwd' = (ispwd \/ (kind = "STU" /\ asks /\ n = down))
          /\ client' = IF n < Buf THEN "typing" ELSE "reading"
    BY <1>4 DEF ReadAnswer
  <2>2. down' \in Nat
    BY <2>1, ReadsThere
  <2>3. ispwd' \in BOOLEAN /\ (kind = "INS" => ~ispwd')
    BY <2>1, Zenon
  <2>4. /\ client' \in {"typing", "reading"}
        /\ asks' = FALSE
        /\ UNCHANGED <<kind, up, session, out, mode, partials>>
    BY <1>4, <2>1 DEF ReadAnswer
  <2> QED
    BY <2>2, <2>3, <2>4
<1>5. CASE ReadEnd
  BY <1>5 DEF ReadEnd
<1>6. CASE Quit
  BY <1>6 DEF Quit
<1>7. CASE ReadGreeting
  BY <1>7, ReadsThere DEF ReadGreeting
<1>8. CASE ReadID
  <2>1. up' \in Nat
    BY <1>8, ReadsThere DEF ReadID, ReadLine
  <2>2. /\ session' \in {"login", "password"} /\ mode' = "once"
        /\ out' \in Short \cup {Prompt}
        /\ session' = "password" => out' = Prompt
        /\ UNCHANGED <<kind, client, ispwd, down, asks, partials>>
    BY <1>8 DEF ReadID, ReadLine, Say
  <2> QED
    BY <2>1, <2>2
<1>9. CASE ReadPassword
  <2>1. up' \in Nat
    BY <1>9, ReadsThere DEF ReadPassword, ReadLine
  <2>2. \A n \in Text : Padded(n) \in Nat
    BY PaddedIsUneven
  <2> HIDE DEF IInv, TypeOK
  <2>3. TypeOK /\ session = "password"
    BY <1>9 DEF ReadPassword, IInv
  <2>4. /\ session' \in {"login", "command", "ended"}
        /\ out' \in Nat /\ mode' \in {"once", "loop", "rest", "spin"}
        /\ UNCHANGED <<kind, client, ispwd, down, asks, partials>>
    BY <1>9, <2>2, <2>3 DEF ReadPassword, ReadLine, Say, TypeOK
  <2> QED
    BY <2>1, <2>3, <2>4 DEF IInv, TypeOK
<1>10. CASE ReadCommand
  <2>1. up' \in Nat
    BY <1>10, ReadsThere DEF ReadCommand, ReadLine
  <2>2. \A n \in Text : Padded(n) \in Nat
    BY PaddedIsUneven
  <2> QED
    BY <1>10, <2>1, <2>2 DEF ReadCommand, ReadLine, Say
<1>11. CASE Write
  <2>1. asks' \in BOOLEAN
    BY <1>11, Zenon DEF Write
  <2>2. asks' => session = "password" /\ mode = "once" /\ down = 0
    BY <1>11 DEF Write
  <2>3. /\ down' = down + out /\ out' = 0
        /\ mode' = IF mode = "rest" THEN "spin" ELSE mode
        /\ out > 0
        /\ UNCHANGED <<kind, client, ispwd, up, session, partials>>
    BY <1>11 DEF Write
  <2> QED
    BY <2>1, <2>2, <2>3
<1>12. CASE WritePart
  <2>1. /\ down' \in Nat /\ out' \in Nat /\ partials' \in 0 .. MaxPartial
        /\ session = "password" => out' = 0
    BY <1>12 DEF WritePart
  <2>2. /\ asks' = FALSE
        /\ mode' = IF mode = "once" THEN "once" ELSE "rest"
        /\ UNCHANGED <<kind, client, ispwd, up, session>>
    BY <1>12 DEF WritePart
  <2> QED
    BY <2>1, <2>2
<1>13. CASE SessionEnds
  BY <1>13 DEF SessionEnds
<1>14. CASE UNCHANGED vars
  BY <1>14
<1> QED
  BY <1>1, <1>2, <1>3, <1>4, <1>5, <1>6, <1>7, <1>8, <1>9, <1>10, <1>11,
     <1>12, <1>13, <1>14 DEF Next, SessionReads

(* So they hold of every connection.                                       *)
LEMMA TypeInductive == Spec => []IInv
BY TypeInit, TypeStep, PTL DEF Spec

(* Module Framing's TypeOK: no more is read than was written, and the      *)
(* prompt is recognised only where it is alone.                            *)
THEOREM TypeCorrect == Spec => []TypeOK
<1>1. IInv => TypeOK
  BY DEF IInv
<1> QED
  BY <1>1, TypeInductive, PTL

-----------------------------------------------------------------------------
(* Turns.                                                                  *)

(* Nothing is under way.                                                   *)
Idle == up = 0 /\ out = 0 /\ down = 0

(* A line, an answer to write, or an answer to read is: one of them, and   *)
(* an answer is of a length that the client can stand.                     *)
OneUnderWay ==
  \/ up > 0 /\ out = 0 /\ down = 0
  \/ up = 0 /\ out % Buf # 0 /\ down = 0
  \/ up = 0 /\ out = 0 /\ down % Buf # 0

Going == session \notin {"greet", "ended"}

Greeting ==
  session = "greet" =>
    /\ out = 0 /\ down = 0 /\ ispwd = FALSE /\ asks = FALSE
    /\ client = "new" => up = 0
    /\ client = "typing" => up = Greet
    /\ client = "reading" => up > Greet
    /\ client = "gone" => up >= Greet

Turns ==
  Going =>
    /\ client # "new"
    /\ client = "typing" => Idle
    /\ client = "reading" => OneUnderWay
    /\ client = "gone" => Idle \/ OneUnderWay

(* A prompt that is being read is one that the session has asked.          *)
Asked ==
  Going =>
    /\ client = "typing" /\ kind = "STU" =>
         (ispwd <=> session = "password")
    /\ client = "reading" =>
         /\ ~ispwd
         /\ asks => session = "password"
         /\ session = "password" /\ down > 0 => asks

TInv ==
  /\ IInv
  /\ client = "new" => session = "greet"
  /\ mode \in {"once", "loop"}
  /\ Greeting
  /\ Turns
  /\ Asked

(* The turns are kept until they are lost.                                 *)
WInv == IInv /\ (turns = "kept" => TInv)

(* The prompt is no multiple of the buffer.                                *)
LEMMA PromptIsUneven ==
  Prompt % Buf # 0
<1>1. Buf \in Nat /\ Buf > 1 /\ Prompt \in Nat /\ Prompt \in 1 .. Buf - 1
  BY FramingAssumption
<1>2. Prompt = Buf * 0 + Prompt
  BY <1>1
<1> QED
  BY <1>1, <1>2, Remainder

(* A new connection waits for the greeting.                                *)
LEMMA TurnsInit ==
  ASSUME Init
  PROVE  TInv
<1>1. IInv
  BY TypeInit
<1>2. /\ client = "new" /\ session = "greet" /\ mode = "once"
      /\ up = 0 /\ out = 0 /\ down = 0
  BY DEF Init
<1>3. ispwd = FALSE /\ asks = FALSE
  BY DEF Init
<1>4. Turns /\ Asked
  BY <1>2 DEF Turns, Asked, Going
<1>5. Greeting
  BY <1>2, <1>3 DEF Greeting
<1> QED
  BY <1>1, <1>2, <1>4, <1>5 DEF TInv

(* What would have lost the turns is not the case.                         *)
LEMMA LoseKept ==
  ASSUME NEW case, Lose(case), turns' = "kept"
  PROVE  ~case
BY DEF Lose

(* A line that keeps the turns is one of some bytes.                       *)
LEMMA SendsSomething ==
  ASSUME TypeOK, turns' = "kept", SendLine \/ SendPassword
  PROVE  /\ client = "typing" /\ client' = "reading"
         /\ up' > up
         /\ UNCHANGED <<kind, session, out, mode, down>>
         /\ asks' = asks
<1> USE FramingAssumption
<1>1. up' \in Nat /\ up' >= up /\ up' # up
  <2>1. CASE SendLine
    BY <2>1 DEF SendLine, TypeOK
  <2>2. CASE SendPassword
    <3>1. Lose(up' = up)
      BY <2>2 DEF SendPassword
    <3>2. up' # up
      BY <3>1, LoseKept
    <3> QED
      BY <2>2, <3>2 DEF SendPassword, TypeOK
  <2> QED
    BY <2>1, <2>2
<1> QED
  BY <1>1 DEF SendLine, SendPassword, MaySend, TypeOK

(* Every step of the client keeps its turn, as long as turns are kept.     *)
LEMMA ClientKeepsTurns ==
  ASSUME TInv,
         turns' = "kept",
         \/ Identify \/ SendLine \/ SendPassword \/ ReadAnswer \/ ReadEnd
         \/ Quit
  PROVE  /\ mode' \in {"once", "loop"}
         /\ client' = "new" => session' = "greet"
         /\ Greeting' /\ Turns' /\ Asked'
<1> USE FramingAssumption
<1>0. IInv /\ TypeOK /\ mode \in {"once", "loop"} /\ Greeting /\ Turns /\ Asked
  BY DEF TInv, IInv
<1>new. client' # "new"
  BY DEF Identify, SendLine, SendPassword, ReadAnswer, ReadEnd, Quit
<1>1. CASE Identify
  <2>1. /\ client = "new" /\ client' = "typing" /\ up' = up + Greet
        /\ UNCHANGED <<kind, session, out, mode, down>>
        /\ ispwd' = ispwd /\ asks' = asks
    BY <1>1 DEF Identify
  <2>2. ~Going
    BY <1>0, <2>1 DEF Turns
  <2>3. Greeting'
    BY <1>0, <2>1 DEF Greeting
  <2> QED
    BY <1>0, <2>1, <2>2, <2>3 DEF Going, Turns, Asked
<1>2. CASE SendLine \/ SendPassword
  <2>1. /\ client = "typing" /\ client' = "reading"
        /\ up' > up
        /\ UNCHANGED <<kind, session, out, mode, down>>
        /\ asks' = asks
    BY <1>0, <1>2, SendsSomething
  <2>2. ~ispwd'
    BY <1>2 DEF SendLine, SendPassword
  <2>3. Going => Idle /\ ~asks
    BY <1>0, <2>1 DEF Turns, Idle, TypeOK
  <2>4. Going => OneUnderWay'
    BY <2>1, <2>3 DEF Idle, OneUnderWay
  <2>5. Turns' /\ Greeting'
    <3>1. session = "greet" =>
            up' > Greet /\ out = 0 /\ down = 0 /\ ispwd = FALSE
      BY <1>0, <2>1 DEF Greeting
    <3>2. session = "greet" => ispwd' = FALSE /\ asks' = FALSE
      BY <1>0, <2>1, <2>2 DEF Greeting, TypeOK
    <3> QED
      BY <2>1, <2>4, <3>1, <3>2 DEF Turns, Going, Greeting
  <2>6. Asked'
    <3>1. Going => ~(down > 0)
      BY <2>3 DEF Idle
    <3> QED
      BY <2>1, <2>2, <2>3, <3>1 DEF Asked, Going
  <2> QED
    BY <1>0, <2>1, <2>5, <2>6
<1>3. CASE ReadAnswer
  <2>1. PICK n \in Reads(down, Buf) :
          /\ down' = down - n
          /\ ispwd' = (ispwd \/ (kind = "STU" /\ asks /\ n = down))
          /\ client' = IF n < Buf THEN "typing" ELSE "reading"
          /\ Lose(n < Buf /\ n < down)
    BY <1>3 DEF ReadAnswer
  <2>2. /\ client = "reading" /\ asks' = FALSE
        /\ UNCHANGED <<kind, up, session, out, mode>>
    BY <1>3 DEF ReadAnswer
  <2>3. session # "greet"
    <3>1. down > 0
      BY <1>0, ReadsThere DEF TypeOK
    <3> QED
      BY <1>0, <2>2, <3>1 DEF Greeting
  <2>4. CASE ~Going
    BY <1>0, <1>new, <2>2, <2>3, <2>4 DEF Greeting, Going, Turns, Asked
  <2>6. n < Buf => ~(n < down)
    BY <2>1, LoseKept
  <2>5. CASE Going
    <3>1. /\ n \in Nat \ {0} /\ n <= down /\ n <= Buf /\ down > 0
          /\ n < Buf => n = down
      BY <1>0, <2>6, ReadsThere DEF TypeOK
    <3>2. up = 0 /\ out = 0 /\ down % Buf # 0
      BY <1>0, <2>2, <2>5, <3>1 DEF Turns, OneUnderWay, TypeOK
    <3>3. ~ispwd /\ (asks <=> session = "password")
      BY <1>0, <2>2, <2>5, <3>1 DEF Asked
    <3>4. down # Buf
      BY <3>2, UnevenIsSomething
    <3>5. CASE n < Buf
      <4>1. n = down
        BY <3>1, <3>5
      <4>2. client' = "typing" /\ down' = 0
        BY <1>0, <2>1, <3>5, <4>1 DEF TypeOK
      <4>3. kind = "STU" => (ispwd' <=> session = "password")
        BY <2>1, <3>3, <4>1, Zenon
      <4> QED
        BY <1>0, <2>2, <2>3, <2>5, <3>2, <4>2, <4>3
           DEF Greeting, Turns, Asked, Going, Idle
    <3>6. CASE ~(n < Buf)
      <4>1. n = Buf /\ down >= Buf
        BY <1>0, <3>1, <3>4, <3>6 DEF TypeOK
      <4>2. client' = "reading"
        BY <2>1, <4>1
      <4>3. down' \in Nat /\ down' % Buf # 0
        BY <1>0, <2>1, <3>2, <4>1, Less DEF TypeOK
      <4>4. ~asks /\ session # "password"
        BY <1>0, <3>3, <4>1 DEF TypeOK
      <4>5. ~ispwd'
        BY <2>1, <3>3, <4>4, Zenon
      <4>6. OneUnderWay'
        BY <2>2, <3>2, <4>3 DEF OneUnderWay
      <4> QED
        BY <1>0, <2>2, <2>3, <2>5, <4>2, <4>4, <4>5, <4>6
           DEF Greeting, Turns, Asked, Going
    <3> QED
      BY <3>5, <3>6
  <2> QED
    BY <2>4, <2>5
<1>4. CASE ReadEnd \/ Quit
  <2>1. /\ client \in {"typing", "reading"} /\ client' \in {"typing", "gone"}
        /\ client' = "typing" => session = "ended"
        /\ UNCHANGED <<kind, up, session, out, mode, down>>
        /\ ispwd' = ispwd /\ asks' = asks
    BY <1>4 DEF ReadEnd, Quit
  <2>2. Greeting'
    <3>1. session = "greet" =>
            /\ client' = "gone" /\ up' \in Nat /\ up' >= Greet
            /\ out = 0 /\ down = 0 /\ ispwd = FALSE /\ asks = FALSE
      BY <1>0, <2>1 DEF Greeting, TypeOK
    <3> QED
      BY <2>1, <3>1 DEF Greeting
  <2>3. Idle' = Idle /\ OneUnderWay' = OneUnderWay
    BY <2>1 DEF Idle, OneUnderWay
  <2>4. Turns' /\ Asked'
    BY <1>0, <2>1, <2>3 DEF Going, Turns, Asked
  <2> QED
    BY <1>0, <2>1, <2>2, <2>4
<1> QED
  BY <1>1, <1>2, <1>3, <1>4

(* A session that reads while it waits reads one line, and all of it.      *)
LEMMA ReadsALine ==
  ASSUME TInv, Going, ReadLine, turns' = "kept"
  PROVE  /\ client \in {"reading", "gone"}
         /\ up > 0 /\ up' = 0 /\ out = 0 /\ down = 0 /\ ~asks
         /\ client = "reading" => ~ispwd
         /\ ~Endless'
<1> USE FramingAssumption
<1>1. IInv /\ TypeOK /\ Turns /\ Asked
  BY DEF TInv, IInv
<1>2. PICK n \in Reads(up, Cmd) : up' = up - n /\ Lose(n < up \/ Endless')
  BY DEF ReadLine
<1>3. ~(n < up) /\ ~Endless'
  BY <1>2, LoseKept
<1>4. up > 0 /\ up' = 0
  BY <1>1, <1>2, <1>3, ReadsThere DEF TypeOK
<1>5. client \in {"reading", "gone"} /\ OneUnderWay
  BY <1>1, <1>4 DEF TypeOK, Turns, Idle
<1>6. down = 0 /\ out = 0
  BY <1>1, <1>4, <1>5 DEF OneUnderWay
<1>7. ~asks
  BY <1>1, <1>6 DEF TypeOK
<1>8. client = "reading" => ~ispwd
  BY <1>1 DEF Asked
<1> QED
  BY <1>3, <1>4, <1>5, <1>6, <1>7, <1>8

(* An answer that is not endless is no multiple of the buffer.             *)
LEMMA AnswersUneven ==
  ASSUME ReadID \/ ReadPassword \/ ReadCommand, ~Endless'
  PROVE  out' % Buf # 0 \/ session' = "ended"
BY PaddedIsUneven, PromptIsUneven, FramingAssumption
   DEF ReadID, ReadPassword, ReadCommand, Say, Endless

(* What the session's answer must be for the turns to be kept.             *)
LEMMA AnswersALine ==
  ASSUME client \in {"reading", "gone"}, down = 0,
         client = "reading" => ~ispwd, ~asks,
         up' = 0, out' % Buf # 0 \/ session' = "ended",
         session' # "greet",
         UNCHANGED <<kind, client, ispwd, down, asks>>
  PROVE  Greeting' /\ Turns' /\ Asked'
<1>1. Greeting'
  BY DEF Greeting
<1>2. Turns'
  BY DEF Turns, Going, OneUnderWay
<1>3. (client' = "reading" => ~ispwd') /\ ~asks'
  OBVIOUS
<1>4. client' \in {"reading", "gone"} /\ ~(down' > 0)
  OBVIOUS
<1> QED
  BY <1>1, <1>2, <1>3, <1>4 DEF Asked

(* Nobody takes turns with a session that has ended.                       *)
LEMMA NoTurns ==
  ASSUME session' = "ended"
  PROVE  Greeting' /\ Turns' /\ Asked'
BY DEF Greeting, Turns, Asked, Going

(* Every step of the session keeps its turn, as long as turns are kept.    *)
LEMMA SessionKeepsTurns ==
  ASSUME TInv, turns' = "kept",
         SessionReads \/ Write \/ WritePart \/ SessionEnds
  PROVE  /\ mode' \in {"once", "loop"}
         /\ client' = "new" => session' = "greet"
         /\ Greeting' /\ Turns' /\ Asked'
<1> USE FramingAssumption
<1>0. IInv /\ TypeOK /\ mode \in {"once", "loop"} /\ Greeting /\ Turns /\ Asked
  BY DEF TInv, IInv
<1>new. client' = client /\ (client = "new" => session' = "greet")
  <2>1. client = "new" => up = 0 /\ out = 0 /\ session = "greet"
    BY <1>0 DEF TInv, Greeting
  <2>2. client' = client
    BY DEF SessionReads, ReadGreeting, ReadLine, ReadID, ReadPassword,
           ReadCommand, Write, WritePart, SessionEnds
  <2>3. CASE SessionReads
    <3>1. up > 0
      BY <1>0, <2>3, ReadsThere DEF TypeOK, SessionReads, ReadGreeting,
         ReadLine, ReadID, ReadPassword, ReadCommand
    <3> QED
      BY <2>1, <2>2, <3>1
  <2>4. CASE Write \/ WritePart \/ SessionEnds
    BY <2>1, <2>2, <2>4 DEF Write, WritePart, SessionEnds
  <2> QED
    BY <2>3, <2>4
<1>1. CASE ReadGreeting
  <2>1. PICK n \in Reads(up, up) :
          /\ up' = up - n
          /\ session' \in (IF n < Greet THEN {"ended"}
                           ELSE IF n = Greet THEN {"login"}
                           ELSE {"login", "ended"})
          /\ Lose(n # Greet)
    BY <1>1 DEF ReadGreeting
  <2>2. /\ session = "greet"
        /\ UNCHANGED <<kind, client, ispwd, out, mode, down, asks>>
    BY <1>1 DEF ReadGreeting
  <2>3. n = Greet /\ session' = "login"
    <3>1. n = Greet
      BY <2>1, LoseKept
    <3> QED
      BY <2>1, <3>1
  <2>4. up > 0 /\ up >= Greet
    BY <1>0, <2>1, <2>3, ReadsThere DEF TypeOK
  <2>5. /\ client \in {"typing", "reading", "gone"} /\ out = 0 /\ down = 0
        /\ ispwd = FALSE /\ asks = FALSE
        /\ client = "typing" => up = Greet
        /\ client = "reading" => up > Greet
    BY <1>0, <2>2, <2>4 DEF TypeOK, Greeting
  <2>6. /\ client' \in {"typing", "reading", "gone"} /\ out' = 0 /\ down' = 0
        /\ up' \in Nat
        /\ client' = "typing" => up' = 0
        /\ client' = "reading" => up' > 0
    BY <1>0, <2>1, <2>2, <2>3, <2>4, <2>5 DEF TypeOK
  <2>7. Greeting' /\ Turns'
    BY <2>3, <2>6 DEF Greeting, Turns, Going, Idle, OneUnderWay
  <2>8. ~ispwd' /\ ~asks' /\ session' = "login"
    BY <2>2, <2>3, <2>5
  <2>9. Asked'
    BY <2>6, <2>8 DEF Asked
  <2> QED
    BY <1>0, <1>new, <2>2, <2>7, <2>9
<1>2. CASE ReadID \/ ReadPassword \/ ReadCommand
  <2>1. Going /\ ReadLine
    BY <1>2 DEF ReadID, ReadPassword, ReadCommand, Going
  <2>2. UNCHANGED <<kind, client, ispwd, down, asks>>
    BY <2>1 DEF ReadLine
  <2>3. /\ session' \in {"login", "password", "command", "ended"}
        /\ mode' \in {"once", "loop"}
    BY <1>0, <1>2 DEF ReadID, ReadPassword, ReadCommand, Say
  <2>4. /\ client \in {"reading", "gone"}
        /\ up' = 0 /\ down = 0 /\ ~asks
        /\ client = "reading" => ~ispwd
        /\ ~Endless'
    BY <2>1, ReadsALine
  <2>5. out' % Buf # 0 \/ session' = "ended"
    BY <1>2, <2>4, AnswersUneven
  <2>6. session' # "greet"
    BY <2>3
  <2> QED
    BY <1>new, <2>2, <2>3, <2>4, <2>5, <2>6, AnswersALine
<1>3. CASE Write
  <2>1. /\ session # "ended" /\ out > 0
        /\ down' = down + out /\ out' = 0
        /\ mode' = IF mode = "rest" THEN "spin" ELSE mode
        /\ UNCHANGED <<kind, client, ispwd, up, session>>
    BY <1>3 DEF Write
  <2>2. asks' = (session = "password" /\ mode = "once" /\ down = 0)
    BY <1>3 DEF Write
  <2>3. mode' \in {"once", "loop"}
    BY <1>0, <2>1
  <2>4. Going
    BY <1>0, <2>1 DEF Greeting, Going
  <2>5. client \in {"reading", "gone"} /\ OneUnderWay
    BY <1>0, <2>1, <2>4 DEF Turns, Idle, TypeOK
  <2>6. up = 0 /\ down = 0 /\ out % Buf # 0
    BY <1>0, <2>1, <2>5 DEF OneUnderWay
  <2>7. OneUnderWay'
    BY <1>0, <2>1, <2>6 DEF OneUnderWay, TypeOK
  <2>8. Greeting' /\ Turns'
    BY <2>1, <2>4, <2>5, <2>7 DEF Greeting, Turns, Going
  <2>9. client = "reading" => ~ispwd'
    BY <1>0, <2>1, <2>4 DEF Asked
  <2>10. asks' <=> session = "password"
    BY <1>0, <2>2, <2>6 DEF IInv
  <2>11. Asked'
    BY <2>1, <2>5, <2>9, <2>10 DEF Asked
  <2> QED
    BY <1>new, <2>3, <2>8, <2>11
<1>4. CASE WritePart
  BY <1>4, LoseKept DEF WritePart
<1>5. CASE SessionEnds
  BY <1>0, <1>new, <1>5, NoTurns DEF SessionEnds
<1> QED
  BY <1>1, <1>2, <1>3, <1>4, <1>5 DEF SessionReads

(* So they are kept until they are lost.                                   *)
LEMMA TurnsInductive == Spec => []WInv
<1>1. WInv /\ [Next]_vars => WInv'
  <2> SUFFICES ASSUME WInv, [Next]_vars, turns' = "kept" PROVE TInv'
    BY TypeStep DEF WInv
  <2>1. IInv' /\ TInv
    BY TypeStep, LostForGood DEF WInv, IInv, TypeOK
  <2>2. CASE Next
    BY <2>1, <2>2, ClientKeepsTurns, SessionKeepsTurns DEF Next, TInv
  <2>3. CASE UNCHANGED vars
    <3>1. /\ UNCHANGED <<kind, client, up, session, out, mode, down>>
          /\ ispwd' = ispwd /\ asks' = asks
      BY <2>3
    <3>2. Greeting' /\ Turns'
      BY <2>1, <3>1 DEF TInv, Greeting, Turns, Going, Idle, OneUnderWay
    <3>3. Asked'
      BY <2>1, <3>1 DEF TInv, Asked, Going
    <3> QED
      BY <2>1, <3>1, <3>2, <3>3 DEF TInv
  <2> QED
    BY <2>2, <2>3
<1>2. Init => WInv
  BY TurnsInit, TypeInit DEF WInv
<1> QED
  BY <1>1, <1>2, PTL DEF Spec

-----------------------------------------------------------------------------
(* Bytes amount to messages.                                               *)

(* What is under way while a session goes on.                              *)
LEMMA MessageIs ==
  ASSUME TypeOK, Going
  PROVE  /\ Idle => Message = "none"
         /\ up > 0 => Message = "line"
         /\ up = 0 /\ (out > 0 \/ down > 0) => Message = "answer"
BY DEF TypeOK, Going, Idle, Message

(* Every step of the client is one of the dialogue, or a part of one.      *)
LEMMA ClientImplements ==
  ASSUME TInv,
         turns' = "kept",
         \/ Identify \/ SendLine \/ SendPassword \/ ReadAnswer \/ ReadEnd
         \/ Quit
  PROVE  D!Next \/ UNCHANGED D!dvars
<1> USE FramingAssumption
<1>0. /\ TypeOK /\ Greeting /\ Turns
      /\ client = "new" => session = "greet"
  BY DEF TInv, IInv
<1>1. CASE Identify
  <2>1. /\ client = "new" /\ client' = "typing" /\ up' = up + Greet
        /\ session' = session /\ session = "greet"
    BY <1>0, <1>1 DEF Identify
  <2>2. Message' = "greeting"
    <3>1. up' = Greet
      BY <1>0, <2>1 DEF Greeting
    <3> QED
      BY <2>1, <3>1 DEF Message
  <2>3. D!Identify
    BY <2>1, <2>2 DEF D!Identify
  <2> QED
    BY <2>3 DEF D!Next
<1>2. CASE SendLine \/ SendPassword
  <2>1. /\ client = "typing" /\ client' = "reading"
        /\ session' = session
        /\ up' > up
    BY <1>0, <1>2, SendsSomething
  <2>2. CASE session = "ended"
    <3>1. D!AskNobody
      BY <2>1, <2>2 DEF D!AskNobody, Message
    <3> QED
      BY <3>1 DEF D!Next
  <2>4. CASE session = "greet"
    <3>1. up = Greet
      BY <1>0, <2>1, <2>4 DEF Greeting
    <3>2. Message = "greeting" /\ Message' = "both"
      BY <2>1, <2>4, <3>1 DEF Message
    <3>3. D!AskEarly
      BY <2>1, <2>4, <3>2 DEF D!AskEarly
    <3> QED
      BY <3>3 DEF D!Next
  <2>3. CASE session \notin {"greet", "ended"}
    <3>1. Message = "none"
      BY <1>0, <2>1, <2>3, MessageIs DEF Turns, Going
    <3>2. Message' = "line"
      <4>1. up' > 0
        BY <1>0, <1>2, <2>1 DEF TypeOK, SendLine, SendPassword
      <4> QED
        BY <2>1, <2>3, <4>1 DEF Message
    <3>3. D!Ask
      BY <2>1, <2>3, <3>1, <3>2 DEF D!Ask
    <3> QED
      BY <3>3 DEF D!Next
  <2> QED
    BY <2>2, <2>3, <2>4
<1>3. CASE ReadAnswer
  <2>1. PICK n \in Reads(down, Buf) :
          /\ down' = down - n
          /\ client' = IF n < Buf THEN "typing" ELSE "reading"
          /\ Lose(n < Buf /\ n < down)
    BY <1>3 DEF ReadAnswer
  <2>2. client = "reading" /\ UNCHANGED <<up, session, out>>
    BY <1>3 DEF ReadAnswer
  <2>6. /\ n \in Nat \ {0} /\ n <= down /\ n <= Buf
        /\ n < Buf => n = down
    <3>1. n < Buf => ~(n < down)
      BY <2>1, LoseKept
    <3> QED
      BY <1>0, <3>1, ReadsThere DEF TypeOK
  <2>3. session # "greet"
    BY <1>0, <2>2, <2>6 DEF Greeting, TypeOK
  <2>4. CASE session = "ended"
    <3>1. D!AskNobody
      BY <2>1, <2>2, <2>4 DEF D!AskNobody, Message
    <3> QED
      BY <3>1 DEF D!Next
  <2>5. CASE session # "ended"
    <3>1. down > 0
      BY <1>0, <2>6 DEF TypeOK
    <3>2. up = 0 /\ out = 0 /\ down % Buf # 0
      BY <1>0, <2>2, <2>3, <2>5, <3>1 DEF Turns, OneUnderWay, Going
    <3>3. Message = "answer"
      BY <1>0, <2>3, <2>5, <3>1, <3>2 DEF Message, TypeOK
    <3>4. down # Buf
      BY <3>2, UnevenIsSomething
    <3>5. CASE n < Buf
      <4>1. n = down /\ client' = "typing" /\ down' = 0
        BY <1>0, <2>1, <2>6, <3>5 DEF TypeOK
      <4>2. Message' = "none"
        BY <2>2, <3>2, <4>1 DEF Message
      <4>3. D!Hear
        BY <2>2, <3>3, <4>1, <4>2 DEF D!Hear
      <4> QED
        BY <4>3 DEF D!Next
    <3>6. CASE ~(n < Buf)
      <4>1. n = Buf /\ down > Buf
        BY <1>0, <2>6, <3>4, <3>6 DEF TypeOK
      <4>2. client' = "reading" /\ down' \in Nat \ {0}
        BY <1>0, <2>1, <4>1 DEF TypeOK
      <4>3. Message' = "answer"
        <5>1. up' = 0 /\ out' = 0 /\ session' # "ended"
          BY <2>2, <2>5, <3>2
        <5>2. down' > 0
          BY <4>2
        <5> QED
          BY <5>1, <5>2 DEF Message
      <4> QED
        BY <2>2, <3>3, <4>2, <4>3 DEF D!dvars
    <3> QED
      BY <3>5, <3>6
  <2> QED
    BY <2>4, <2>5
<1>4. CASE ReadEnd
  <2>1. D!AskNobody
    BY <1>4 DEF ReadEnd, D!AskNobody, Message
  <2> QED
    BY <2>1 DEF D!Next
<1>5. CASE Quit
  <2>1. D!Quit
    BY <1>5 DEF Quit, D!Quit, Message
  <2> QED
    BY <2>1 DEF D!Next
<1> QED
  BY <1>1, <1>2, <1>3, <1>4, <1>5

(* So is every step of the session.                                        *)
LEMMA SessionImplements ==
  ASSUME TInv, turns' = "kept",
         SessionReads \/ Write \/ WritePart \/ SessionEnds
  PROVE  D!Next \/ UNCHANGED D!dvars
<1> USE FramingAssumption
<1>0. /\ TypeOK /\ Greeting /\ Turns
      /\ client = "new" => session = "greet"
  BY DEF TInv, IInv
<1>1. CASE ReadGreeting
  <2>1. PICK n \in Reads(up, up) :
          /\ up' = up - n
          /\ session' \in (IF n < Greet THEN {"ended"}
                           ELSE IF n = Greet THEN {"login"}
                           ELSE {"login", "ended"})
          /\ Lose(n # Greet)
    BY <1>1 DEF ReadGreeting
  <2>2. session = "greet" /\ UNCHANGED <<client, out, down>>
    BY <1>1 DEF ReadGreeting
  <2>3. n = Greet
    BY <2>1, LoseKept
  <2>4. up >= Greet /\ out = 0 /\ down = 0
    BY <1>0, <2>1, <2>2, <2>3, ReadsThere DEF TypeOK, Greeting
  <2>5. session' = "login" /\ up' = up - Greet
    BY <2>1, <2>3
  <2>6. /\ Message = IF up > Greet THEN "both" ELSE "greeting"
        /\ Message' = IF up > Greet THEN "line" ELSE "none"
    BY <1>0, <2>2, <2>4, <2>5 DEF Message, TypeOK
  <2>7. D!Identified
    BY <2>2, <2>5, <2>6 DEF D!Identified
  <2> QED
    BY <2>7 DEF D!Next
<1>2. CASE ReadID \/ ReadPassword \/ ReadCommand
  <2>1. Going /\ ReadLine
    BY <1>2 DEF ReadID, ReadPassword, ReadCommand, Going
  <2>2. client' = client /\ down' = down
    BY <2>1 DEF ReadLine
  <2>3. up > 0 /\ up' = 0 /\ out = 0 /\ down = 0 /\ ~Endless'
    BY <2>1, ReadsALine
  <2>4. Message = "line"
    BY <1>0, <2>1, <2>3, MessageIs
  <2>5. session' \in D!After \/ session' = "ended"
    BY <1>2 DEF ReadID, ReadPassword, ReadCommand, D!After
  <2>6. out' \in Nat /\ (session' # "ended" => out' > 0)
    <3>1. out' % Buf # 0 \/ session' = "ended"
      BY <1>2, <2>3, AnswersUneven
    <3>2. out' \in Nat
      BY TypeStep, <1>2 DEF TInv, IInv, TypeOK, Next, SessionReads
    <3> QED
      BY <3>1, <3>2, UnevenIsPositive
  <2>7. Message' = IF session' = "ended" THEN "none" ELSE "answer"
    <3>1. CASE session' = "ended"
      BY <3>1 DEF Message
    <3>2. CASE session' # "ended"
      BY <2>3, <2>6, <3>2 DEF Message
    <3> QED
      BY <3>1, <3>2
  <2>8. D!Answer
    BY <2>1, <2>2, <2>4, <2>5, <2>7 DEF D!Answer, Going
  <2> QED
    BY <2>8 DEF D!Next
<1>3. CASE Write
  <2>1. /\ session # "ended" /\ out > 0
        /\ down' = down + out /\ out' = 0
        /\ UNCHANGED <<client, up, session>>
    BY <1>3 DEF Write
  <2>2. Message' = Message
    BY <1>0, <2>1 DEF Message, TypeOK
  <2> QED
    BY <2>1, <2>2 DEF D!dvars
<1>4. CASE WritePart
  BY <1>4, LoseKept DEF WritePart
<1>5. CASE SessionEnds
  <2>1. D!End
    BY <1>5 DEF SessionEnds, D!End, Message
  <2> QED
    BY <2>1 DEF D!Next
<1> QED
  BY <1>1, <1>2, <1>3, <1>4, <1>5 DEF SessionReads

-----------------------------------------------------------------------------
(* What a reader of the two programs should know.                          *)

(* Module Framing's InStep: the ways to get out of step that the actions   *)
(* name are all there are, whatever the sizes of buffers, the lengths of   *)
(* lines and texts, and however reads and writes are cut.                  *)
THEOREM TakeTurns == Spec => []InStep
<1>1. WInv => InStep
  <2> SUFFICES ASSUME TInv, turns = "kept", session # "ended" PROVE InStep
    BY DEF InStep, WInv
  <2>1. TypeOK /\ mode \in {"once", "loop"} /\ Greeting /\ Turns
    BY DEF TInv, IInv
  <2>2. client = "typing" /\ session # "greet" => Waits /\ up = 0 /\ down = 0
    BY <2>1 DEF Turns, Going, Idle, Waits
  <2>3. client = "reading" => up > 0 \/ out > 0 \/ down > 0
    <3>1. out \in Nat /\ down \in Nat
      BY <2>1 DEF TypeOK
    <3>2. OneUnderWay => up > 0 \/ out > 0 \/ down > 0
      BY <3>1, UnevenIsPositive DEF OneUnderWay
    <3>3. client = "reading" /\ session = "greet" => up > 0
      BY <2>1, FramingAssumption DEF Greeting, TypeOK
    <3> QED
      BY <2>1, <3>2, <3>3 DEF Turns, Going
  <2> QED
    BY <2>2, <2>3 DEF InStep
<1> QED
  BY <1>1, TurnsInductive, PTL

(* Module Framing's PromptUnderstood: until one of them happens a          *)
(* student's line is encrypted exactly when the session will decrypt it.   *)
THEOREM PasswordsEncrypted == Spec => []PromptUnderstood
<1>1. WInv => PromptUnderstood
  BY DEF WInv, TInv, Asked, Going, PromptUnderstood
<1> QED
  BY <1>1, TurnsInductive, PTL

(* Module Framing's ImplementsDialogue: until then the bytes amount to     *)
(* whole messages in turn, as module Sessions takes for granted.           *)
THEOREM MessagesWhole == Spec => ImplementsDialogue
<1>1. Init => D!Init
  BY FramingAssumption DEF Init, D!Init, Message
<1>2. WInv /\ [Next]_vars => [turns' = "kept" => [D!Next]_(D!dvars)]_vars
  <2> SUFFICES ASSUME TInv, turns' = "kept", [Next]_vars
               PROVE  D!Next \/ UNCHANGED D!dvars
    BY LostForGood DEF WInv, IInv, TypeOK
  <2>1. CASE Next
    BY <2>1, ClientImplements, SessionImplements DEF Next
  <2>2. CASE UNCHANGED vars
    BY <2>2 DEF D!dvars, Message
  <2> QED
    BY <2>1, <2>2
<1> QED
  BY <1>1, <1>2, TurnsInductive, PTL DEF Spec, ImplementsDialogue
=============================================================================
