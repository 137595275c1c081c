------------------------------ MODULE Sessions ------------------------------
(***************************************************************************)
(* The sessions of the core server (handleStudent and handleInstructor in  *)
(* handle.cpp), all running at once against one database.                  *)
(*                                                                         *)
(* Each session is a process with a database connection of its own.  It    *)
(* reads a line from its client, runs SQL statements, and writes an        *)
(* answer.  The statements of a command are separate steps: between two of *)
(* them other sessions run theirs.  Reading a line is merged with the      *)
(* statement it leads to, and so is writing the answer: the socket belongs *)
(* to one session.  Only a session that ends in between shows the          *)
(* difference, and Crash has it.                                           *)
(*                                                                         *)
(* The words of a command go into its statement unchecked: OtherText       *)
(* stands for words that make it another statement, or no SQL.             *)
(*                                                                         *)
(* The client program is in step with the session: it sends a line, then   *)
(* reads until an answer has come.  One line is one message here; module   *)
(* Framing has how they are cut into read()s.  The three statements of     *)
(* "stat" are one read here.                                               *)
(***************************************************************************)
EXTENDS Naturals, FiniteSets

CONSTANTS
  StuHandler,  \* processes running handleStudent
  InsHandler,  \* processes running handleInstructor
  StudentID,
  OtherText,   \* words of a command that are not all plain
  InstructorID,
  Administrator, \* the instructor with ID 0
  Enlisted,    \* instructors the database knows
  Teacher,     \* instructors with a grade column, which has the same name
  Grade,
  NotEnrolled, \* the grade of a new row
  NoRow,
  DefaultPwd,
  OwnPwd,
  Empty,       \* no password fetched: the empty one
  Nobody,      \* no ID entered yet
  Pending,     \* no answer yet
  InitTables,  \* the tables of students the server may find
  InitBoard,   \* the states of the notice board the server may find
  MaxFaults    \* bound on failing statements and crashing sessions

Handler == StuHandler \cup InsHandler

VARIABLES
  students,  \* database: the row of each student ID
  board,     \* database: whether there is any notification
  pc,        \* where each session is
  who,       \* the ID entered, stuid or instructorid
  pwddb,     \* the ID whose password was fetched, or Empty
  ss,        \* whether the output buffer of the login attempt has any text
  arg,       \* the word of the command being carried out
  conn,      \* the client's side of the connection
  answer,    \* the answer to the line the client sent last
  faults

database == <<students, board>>
session == <<who, pwddb, ss, arg>>
vars == <<students, board, pc, who, pwddb, ss, arg, conn, answer, faults>>

Book == INSTANCE Gradebook WITH User <- Handler, Column <- Teacher

ASSUME SessionsAssumption ==
  /\ StuHandler \cap InsHandler = {}
  /\ IsFiniteSet(StudentID)
  /\ StudentID \cap InstructorID = {}
  /\ OtherText \notin StudentID
  /\ Administrator \in InstructorID
  /\ Enlisted \subseteq InstructorID
  /\ Teacher \subseteq InstructorID
  /\ NotEnrolled \in Grade
  /\ NoRow \notin Book!Row
  /\ Nobody \notin StudentID \cup InstructorID \cup {OtherText}
  /\ Empty \notin StudentID \cup InstructorID
  /\ InitTables \subseteq Book!Table
  /\ InitBoard \subseteq {"empty", "posted"}
  /\ MaxFaults \in Nat

(* At "id", "password" and "command" a session waits in read(); the others *)
(* are named for the statement it is about to execute.                     *)
Reading == {"id", "password", "command"}

Executing == {"fetch", "insert", "update", "delete", "listone"}

Init ==
  /\ students \in InitTables
  /\ board \in InitBoard
  /\ pc = [h \in Handler |-> "id"]
  /\ who = [h \in Handler |-> Nobody]
  /\ pwddb = [h \in Handler |-> Empty]
  /\ ss = [h \in Handler |-> FALSE]
  /\ arg = [h \in Handler |-> Nobody]
  /\ conn = [h \in Handler |-> "typing"]
  /\ answer = [h \in Handler |-> Book!Plain("none")]
  /\ faults = 0

-----------------------------------------------------------------------------
(* The client program.                                                     *)

(* "typing": in fgets(); "sent": in read(), its line unread by the server; *)
(* "taken": in read(), its line read; "gone": closed; "last": closed, its  *)
(* last line unread.                                                       *)
Send(h) ==
  /\ conn[h] = "typing"
  /\ pc[h] # "ended"
  /\ conn' = [conn EXCEPT ![h] = "sent"]
  /\ answer' = [answer EXCEPT ![h] = Pending]
  /\ UNCHANGED <<database, session, pc, faults>>

(* END, end of input, or the death of the client program at any moment.    *)
Quit(h) ==
  /\ conn[h] \in {"typing", "sent", "taken"}
  /\ conn' = [conn EXCEPT ![h] = IF @ = "sent" THEN "last" ELSE "gone"]
  /\ UNCHANGED <<database, session, pc, answer, faults>>

-----------------------------------------------------------------------------
(* What the actions of a session are made of.                              *)

(* read() returns the client's line.                                       *)
Line(h, place) == pc[h] = place /\ conn[h] \in {"sent", "last"}

(* The line is taken; the answer is still to come.                         *)
Take(h) ==
  /\ conn' = [conn EXCEPT ![h] = IF @ \in {"sent", "taken"} THEN "taken"
                                 ELSE "gone"]
  /\ UNCHANGED answer

(* write(fd, ...) of a text that is not empty.                             *)
Write(h, a) ==
  /\ conn' = [conn EXCEPT ![h] = IF @ \in {"sent", "taken"} THEN "typing"
                                 ELSE "gone"]
  /\ answer' = [answer EXCEPT ![h] = a]

Goto(h, place) == pc' = [pc EXCEPT ![h] = place]

(* exQuery() returns 0, or it catches an exception and returns -1.         *)
Succeeds == UNCHANGED faults

Fails == faults < MaxFaults /\ faults' = faults + 1

-----------------------------------------------------------------------------
(* Login: the first loop of both functions.                                *)

IDs(h) == IF h \in StuHandler THEN StudentID ELSE InstructorID

Exists(h, id) ==
  IF h \in StuHandler THEN students[id] # NoRow ELSE id \in Enlisted

(* The password of the ID, which the fetch of an ID without a row leaves   *)
(* at "".                                                                  *)
Stored(h, id) == IF Exists(h, id) THEN id ELSE Empty

(* Not a number: ask again.                                                *)
BadID(h) ==
  /\ Line(h, "id")
  /\ Write(h, Book!Plain("text"))
  /\ UNCHANGED <<database, session, pc, faults>>

(* SELECT EXISTS.  If it fails the login goes on as if the ID existed, and *)
(* the text of the error stays in ss.                                      *)
EnterID(h) ==
  /\ Line(h, "id")
  /\ \E id \in IDs(h) :
       /\ who' = [who EXCEPT ![h] = id]
       /\ \/ /\ Succeeds
             /\ ~Exists(h, id)
             /\ Write(h, Book!Plain("text"))
             /\ UNCHANGED <<pc, ss>>
          \/ /\ Succeeds
             /\ Exists(h, id)
             /\ Take(h)
             /\ Goto(h, "fetch")
             /\ ss' = [ss EXCEPT ![h] = FALSE]
          \/ /\ Fails
             /\ Take(h)
             /\ Goto(h, "fetch")
             /\ ss' = [ss EXCEPT ![h] = TRUE]
  /\ UNCHANGED <<database, pwddb, arg>>

(* pwddb outlives the attempt instead of being declared inside the loop.   *)
FetchIntoOld(h) ==
  /\ pc[h] = "fetch"
  /\ \/ /\ Succeeds
        /\ pwddb' = [pwddb EXCEPT ![h] = IF Exists(h, who[h])
                                         THEN Stored(h, who[h]) ELSE @]
        /\ UNCHANGED ss
     \/ /\ Fails
        /\ ss' = [ss EXCEPT ![h] = TRUE]
        /\ UNCHANGED pwddb
  /\ Write(h, Book!Plain("text"))
  /\ Goto(h, "password")
  /\ UNCHANGED <<database, who, arg>>

(* SELECT Password, into the fresh pwddb of this attempt; then the prompt. *)
FetchPassword(h) ==
  /\ pc[h] = "fetch"
  /\ \/ /\ Succeeds
        /\ pwddb' = [pwddb EXCEPT ![h] = Stored(h, who[h])]
        /\ UNCHANGED ss
     \/ /\ Fails
        /\ pwddb' = [pwddb EXCEPT ![h] = Empty]
        /\ ss' = [ss EXCEPT ![h] = TRUE]
  /\ Write(h, Book!Plain("text"))
  /\ Goto(h, "password")
  /\ UNCHANGED <<database, who, arg>>

(* The refusal is put into ss, but never written to the client.            *)
SilentRefusal(h) ==
  /\ Line(h, "password")
  /\ Take(h)
  /\ Goto(h, "id")
  /\ UNCHANGED <<database, session, faults>>

(* Any other line than pwddb.                                              *)
WrongPassword(h) ==
  /\ Line(h, "password")
  /\ Write(h, Book!Plain("text"))
  /\ Goto(h, "id")
  /\ UNCHANGED <<database, session, faults>>

(* The line is pwddb.  A student is greeted with the latest notification,  *)
(* an instructor with a fixed text.  Without any notification, and without *)
(* an error left in ss, the student's greeting has no byte.                *)
RightPassword(h) ==
  /\ Line(h, "password")
  /\ \/ /\ Succeeds
        /\ IF h \in StuHandler /\ board = "empty" /\ ~ss[h]
           THEN Take(h)
           ELSE Write(h, Book!Plain("text"))
        /\ Goto(h, "command")
     \/ /\ h \in StuHandler
        /\ Fails
        /\ Write(h, Book!Plain("text"))
        /\ Goto(h, "id")
  /\ UNCHANGED <<database, session>>

(* dencry() throws on a password that does not decrypt: nobody catches it. *)
DecryptThrows(h) ==
  /\ h \in StuHandler
  /\ Line(h, "password")
  /\ Take(h)
  /\ Goto(h, "ended")
  /\ UNCHANGED <<database, session, faults>>

-----------------------------------------------------------------------------
(* Commands: the second loop of both functions.                            *)

Command(h) == h \in InsHandler /\ Line(h, "command")

Finish(h, a) ==
  /\ Write(h, a)
  /\ Goto(h, "command")
  /\ arg' = [arg EXCEPT ![h] = Nobody]
  /\ UNCHANGED <<who, pwddb, ss>>

(* The command goes on without the word it was given.                      *)
ProceedWithoutID(h, place, word) ==
  /\ Take(h)
  /\ Goto(h, place)
  /\ UNCHANGED session

Proceed(h, place, word) ==
  /\ Take(h)
  /\ Goto(h, place)
  /\ arg' = [arg EXCEPT ![h] = word]
  /\ UNCHANGED <<who, pwddb, ss>>

(* What SELECT EXISTS may say of the word, if it does not fail.            *)
Found(word) == word \in StudentID => students[word] # NoRow

NotFound(word) == word \in StudentID => students[word] = NoRow

(* The tables that the statement the session is about to execute may make. *)
(* An instructor other than 0, 1 and 2 has no column to name: the UPDATE   *)
(* is not SQL.                                                             *)
Effects(h) ==
  CASE pc[h] = "insert" -> Book!AfterRegister(arg[h])
    [] pc[h] = "update" /\ who[h] \in Teacher ->
         Book!AfterChange(arg[h], who[h])
    [] pc[h] = "delete" -> Book!AfterDelete(arg[h])
    [] OTHER -> {}

(* The statement and the answer.  exQuery() returns -1 if the statement is *)
(* not SQL, if the database refuses it, or if it does not come back, and   *)
(* then it may have taken effect.                                          *)
Execute(h, what) ==
  /\ \/ /\ Succeeds
        /\ students' \in Effects(h)
        /\ Finish(h, Book!Says(what, arg[h]))
     \/ /\ Succeeds
        /\ Effects(h) = {} \/ arg[h] = OtherText
        /\ UNCHANGED students
        /\ Finish(h, Book!Says("err", arg[h]))
     \/ /\ Fails
        /\ students' \in {students} \cup Effects(h)
        /\ Finish(h, Book!Says("err", arg[h]))
  /\ UNCHANGED board

(* check, help, download and wrong commands of a student: all read only.   *)
StudentCommand(h) ==
  /\ h \in StuHandler
  /\ Line(h, "command")
  /\ Finish(h, Book!Plain("text"))
  /\ UNCHANGED <<database, faults>>

(* An instructor's list, stat, help and wrong commands only read, too.     *)
ListOrHelp(h) ==
  /\ Command(h)
  /\ Finish(h, Book!Plain("text"))
  /\ UNCHANGED <<database, faults>>

(* SELECT EXISTS; if it fails, or is not SQL, the INSERT is tried all the  *)
(* same.                                                                   *)
Register(h) ==
  /\ Command(h)
  /\ \E word \in Book!Word :
       \/ /\ Succeeds
          /\ Found(word)
          /\ Finish(h, Book!Says("already", word))
       \/ /\ Fails \/ (Succeeds /\ NotFound(word))
          /\ Proceed(h, "insert", word)
  /\ UNCHANGED database

(* The result of the INSERT is not looked at.                              *)
InsertUnchecked(h) ==
  /\ pc[h] = "insert"
  /\ IF Effects(h) # {}
     THEN /\ Succeeds \/ Fails
          /\ students' \in {students} \cup Effects(h)
     ELSE UNCHANGED <<students, faults>>
  /\ Finish(h, Book!Says("registered", arg[h]))
  /\ UNCHANGED board

(* INSERT.  StudentID is the key of the table: a row that appeared since   *)
(* the SELECT makes the statement fail, on the database's side.            *)
Insert(h) == pc[h] = "insert" /\ Execute(h, "registered")

Change(h) ==
  /\ Command(h)
  /\ \E word \in Book!Word :
       \/ /\ Succeeds
          /\ NotFound(word)
          /\ Finish(h, Book!Says("notfound", word))
       \/ /\ Fails \/ (Succeeds /\ Found(word))
          /\ Proceed(h, "update", word)
  /\ UNCHANGED database

(* UPDATE of the instructor's column, the grade being part of the command. *)
(* It succeeds on a row that is gone, too.                                 *)
Update(h) == pc[h] = "update" /\ Execute(h, "changed")

(* notice: one INSERT, of a text that may make it no SQL.                  *)
Notice(h) ==
  /\ Command(h)
  /\ \/ /\ Succeeds
        /\ board' = "posted"
        /\ Finish(h, Book!Plain("noticed"))
     \/ /\ Succeeds
        /\ UNCHANGED board
        /\ Finish(h, Book!Plain("err"))
     \/ /\ Fails
        /\ board' \in {board, "posted"}
        /\ Finish(h, Book!Plain("err"))
  /\ UNCHANGED students

(* list and del of one ID begin with a SELECT EXISTS that names the        *)
(* instructor's column; without a column it fails, and they go on.  Any    *)
(* other two words are a wrong command, or get the answer about the ID.    *)
TwoWords(h) ==
  /\ Command(h)
  /\ \E word \in Book!Word :
       \/ /\ Succeeds
          /\ who[h] \in Teacher
          /\ NotFound(word)
          /\ Finish(h, Book!Says("notfound", word))
       \/ /\ \/ Succeeds /\ (who[h] \in Teacher => Found(word))
             \/ Fails
          /\ \E place \in {"delete", "listone"} : Proceed(h, place, word)
  /\ UNCHANGED database

(* DELETE succeeds on a row that is gone, too.                             *)
Delete(h) == pc[h] = "delete" /\ Execute(h, "deleted")

ListOne(h) ==
  /\ pc[h] = "listone"
  /\ Finish(h, Book!Plain("text"))
  /\ UNCHANGED <<database, faults>>

(* upload: freceiver() fetches the files, or calls exit(1) when it cannot  *)
(* reach a file sender.                                                    *)
Upload(h) ==
  /\ Command(h)
  /\ \/ Finish(h, Book!Plain("text"))
     \/ /\ Take(h)
        /\ Goto(h, "ended")
        /\ UNCHANGED session
  /\ UNCHANGED <<database, faults>>

(* register or change with too few words reads past the end of cmd: the    *)
(* process dies, or some leftover text makes the statement fail, or makes  *)
(* it the one of another register or change, which those actions cover.    *)
TooFewWords(h) ==
  /\ Command(h)
  /\ \/ Finish(h, Book!Plain("err"))
     \/ /\ Take(h)
        /\ Goto(h, "ended")
        /\ UNCHANGED session
  /\ UNCHANGED <<database, faults>>

-----------------------------------------------------------------------------
(* read() returns 0, or the line is END: the function returns.             *)
HangUp(h) ==
  /\ pc[h] \in Reading
  /\ conn[h] = "gone"
  /\ Goto(h, "ended")
  /\ UNCHANGED <<database, session, conn, answer, faults>>

(* errexit() on a failing read or write, or an exception that is not an    *)
(* SQLException; also the first statement after a constructor of           *)
(* dbconnector that could not connect and left con unset.  A statement may *)
(* have taken effect by then, whose answer is lost.                        *)
Crash(h) ==
  /\ pc[h] # "ended"
  /\ Fails
  /\ Goto(h, "ended")
  /\ \/ UNCHANGED <<database, answer>>
     \/ /\ students' \in Effects(h)
        /\ answer' = [answer EXCEPT ![h] = Book!Says("lost", arg[h])]
        /\ UNCHANGED board
     \/ /\ Command(h)
        /\ board' = "posted"
        /\ answer' = [answer EXCEPT ![h] = Book!Plain("lost")]
        /\ UNCHANGED students
  /\ UNCHANGED <<session, conn>>

LoginStep(h) ==
  \/ BadID(h)
  \/ EnterID(h)
  \/ FetchPassword(h)
  \/ WrongPassword(h)
  \/ RightPassword(h)
  \/ DecryptThrows(h)

CommandStep(h) ==
  \/ StudentCommand(h)
  \/ ListOrHelp(h)
  \/ Register(h)
  \/ Insert(h)
  \/ Change(h)
  \/ Update(h)
  \/ Notice(h)
  \/ TwoWords(h)
  \/ Delete(h)
  \/ ListOne(h)
  \/ Upload(h)
  \/ TooFewWords(h)

Step(h) == LoginStep(h) \/ CommandStep(h) \/ HangUp(h)

Next == \E h \in Handler : Send(h) \/ Quit(h) \/ Step(h) \/ Crash(h)

(* Each session is a process that keeps being scheduled, and a statement   *)
(* sent to the database comes back.  What users do is not fair.            *)
Fairness == \A h \in Handler : WF_vars(Step(h))

Spec == Init /\ [][Next]_vars /\ Fairness

-----------------------------------------------------------------------------
(* Properties.                                                             *)

Answer ==
  {Pending}
    \cup {Book!Plain(t) : t \in {"none", "text", "noticed", "err", "lost"}}
    \cup {Book!Says(t, word) :
            t \in {"registered", "changed", "deleted", "already", "notfound",
                   "err", "lost"},
            word \in Book!Word}

(* Every variable has its type, a session works for an ID of its own kind, *)
(* and it knows the word that the statement it is about to execute names.  *)
TypeOK ==
  /\ students \in Book!Table
  /\ board \in {"empty", "posted"}
  /\ pc \in [Handler -> Reading \cup Executing \cup {"ended"}]
  /\ who \in [Handler -> StudentID \cup InstructorID \cup {Nobody}]
  /\ pwddb \in [Handler -> StudentID \cup InstructorID \cup {Empty}]
  /\ ss \in [Handler -> BOOLEAN]
  /\ arg \in [Handler -> Book!Word \cup {Nobody}]
  /\ conn \in [Handler -> {"typing", "sent", "taken", "gone", "last"}]
  /\ answer \in [Handler -> Answer]
  /\ faults \in 0 .. MaxFaults
  /\ \A h \in Handler :
       /\ who[h] \in IDs(h) \cup {Nobody}
       /\ pc[h] \notin {"id", "ended"} => who[h] # Nobody
       /\ pc[h] \in Executing \ {"fetch"} => arg[h] # Nobody

(* A session past its login was given the password of the very ID it works *)
(* for, whatever was tried before and whatever changed in the database     *)
(* meanwhile; or that ID had no password to fetch, or the fetch failed,    *)
(* and the line was empty (handle.cpp:85-115,240-260).                     *)
LoginSound ==
  \A h \in Handler :
    pc[h] \in {"command"} \cup (Executing \ {"fetch"}) =>
      pwddb[h] \in {who[h], Empty}

(* The instructor whose ID h works for gave that instructor's password;    *)
(* or the password could not be fetched, and the line was empty.           *)
Authorized(h) ==
  \/ who[h] \in Enlisted /\ pwddb[h] = who[h]
  \/ faults > 0 /\ pwddb[h] = Empty

(* Of a record that stays, an instructor's command writes the own column   *)
(* only: neither the other columns, which others are writing to at the     *)
(* same time, nor the password.                                            *)
OwnColumnOnly(h, id) ==
  students[id] # NoRow /\ students'[id] # NoRow =>
    /\ students'[id].pwd = students[id].pwd
    /\ \A k \in Teacher \ {who[h]} :
         students'[id].grade[k] = students[id].grade[k]

(* Nothing is written but by the statement of an instructor session past   *)
(* its login, whether it lives to answer or not: for the student whom the  *)
(* command has named, and of a record that stays in the own column only.   *)
(* The exceptions are the statements that are built of words that are not  *)
(* plain (handle.cpp:351-353,378-379,450-451): what they write in the      *)
(* table of students is anybody's guess.  Any instructor may delete, see   *)
(* OnlyAdministratorDeletes.                                               *)
WritesAuthorized ==
  [][/\ \A id \in StudentID : students'[id] # students[id] =>
          \E h \in InsHandler :
            /\ pc[h] \in {"insert", "update", "delete"}
            /\ pc'[h] \in {"command", "ended"}
            /\ Authorized(h)
            /\ arg[h] # OtherText => arg[h] = id /\ OwnColumnOnly(h, id)
     /\ board' # board =>
          \E h \in InsHandler :
            /\ pc[h] = "command" /\ answer[h] = Pending
            /\ answer'[h] \in {Book!Plain(t) : t \in {"noticed", "err", "lost"}}
            /\ Authorized(h)]_vars

(* README.md:180-187 gives "del" to the administrator, who is instructor   *)
(* 0, as the one command that the other instructors do not have.           *)
OnlyAdministratorDeletes ==
  [][\A id \in StudentID :
       students[id] # NoRow /\ students'[id] = NoRow =>
         \E h \in InsHandler : pc[h] = "delete" /\ who[h] = Administrator]_vars

(* The interleaved statements of all sessions amount to whole commands     *)
(* that take effect one at a time: rows are never overwritten by a         *)
(* registration, a change touches one column of one row, refusals are      *)
(* justified, and no line is answered, or takes effect, twice; all that of *)
(* commands in plain words.                                                *)
ImplementsGradebook == Book!Spec

(* Client and session both wait to read from each other.                   *)
BothWait(h) == pc[h] \in Reading /\ conn[h] = "taken"

(* The one way there: a student who logs in while there is no notification *)
(* is greeted by no byte (handle.cpp:118-127).                             *)
NoGreeting(h) ==
  /\ h \in StuHandler
  /\ pc[h] = "password" /\ pc'[h] = "command"
  /\ board = "empty" /\ ~ss[h]

(* There is no other: handleStudent or handleInstructor and its client     *)
(* never come to wait for each other by any path that writes an answer to  *)
(* every line it has read.                                                 *)
MutualWaitOnlyByNoGreeting ==
  [][\A h \in Handler : ~BothWait(h) /\ BothWait(h)' => NoGreeting(h)]_vars

(* Every line a client sends is answered, or the session or the client is  *)
(* gone; or the line is the password of a student who is let in without a  *)
(* greeting.                                                               *)
Answered ==
  \A h \in Handler :
    conn[h] = "sent" ~>
      \/ conn[h] \in {"typing", "gone", "last"}
      \/ pc[h] = "ended"
      \/ h \in StuHandler /\ pc[h] = "command" /\ BothWait(h)

(* A student who is logged in may ask "check" for the grade                *)
(* (README.md:153-155): the client asks for that line, as after every      *)
(* line, unless the session or the client has ended.                       *)
AskedForCommand ==
  \A h \in StuHandler :
    pc[h] = "command" ~>
      conn[h] \in {"typing", "gone", "last"} \/ pc[h] = "ended"
=============================================================================
