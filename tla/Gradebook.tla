----------------------------- MODULE Gradebook ------------------------------
(***************************************************************************)
(* What the core server promises of the records it keeps in the database:  *)
(* a table of students and a notice board that change only by whole        *)
(* commands.  A command takes effect in one step, the step that answers    *)
(* it, and is answered at most once; a refusal is justified by the table   *)
(* at the moment it is given.  Whoever gets an error, or no answer at all, *)
(* cannot tell whether the command took effect.                            *)
(*                                                                         *)
(* The words of a command are put into its statement unchecked.  A plain   *)
(* word names a student, or is a grade or a name; for any other the        *)
(* statement may have any effect that a statement of its kind can have.    *)
(*                                                                         *)
(* The sessions that carry the commands out, in several SQL statements     *)
(* each and all at the same time, are module Sessions.                     *)
(***************************************************************************)
EXTENDS FiniteSets

CONSTANTS
  User,        \* those who give commands, one per session
  StudentID,
  OtherText,   \* words of a command that are not all plain
  Column,      \* the grade columns of the table
  Grade,       \* grades, the default of a new row included
  NotEnrolled, \* that default
  NoRow,       \* an ID without a row
  DefaultPwd,  \* the password of a new row
  OwnPwd,      \* any other password
  Pending      \* no answer yet to the user's command

VARIABLES
  students,  \* the row of each student ID
  board,     \* whether the notice board is "empty" or something is "posted"
  answer     \* the answer to each user's last command

NewRow == [pwd |-> DefaultPwd, grade |-> [k \in Column |-> NotEnrolled]]

Row == [pwd : {OwnPwd, DefaultPwd}, grade : [Column -> Grade]]

Table == [StudentID -> Row \cup {NoRow}]

Rows(table) == {id \in StudentID : table[id] # NoRow}

Word == StudentID \cup {OtherText}

Says(what, word) == [what |-> what, word |-> word]

Plain(what) == [what |-> what]

Init ==
  /\ students \in Table
  /\ board \in {"empty", "posted"}
  /\ answer = [u \in User |-> Plain("none")]

Ask(u) ==
  /\ answer' = [answer EXCEPT ![u] = Pending]
  /\ UNCHANGED <<students, board>>

Answers(u, a) ==
  /\ answer[u] = Pending
  /\ answer' = [answer EXCEPT ![u] = a]

-----------------------------------------------------------------------------
(* Effects of the commands on the table.                                   *)

Registered(id) == [students EXCEPT ![id] = NewRow]

Changed(id, k, g) ==
  IF students[id] = NoRow THEN students
  ELSE [students EXCEPT ![id].grade[k] = g]

Deleted(id) == [students EXCEPT ![id] = NoRow]

(* The tables that one statement may make of this one: none if it is       *)
(* refused.  Nobody's row is ever overwritten by a registration: only a    *)
(* free ID can be registered.                                              *)
AfterRegister(word) ==
  IF word = OtherText
  THEN {table \in Table : Rows(students) \subseteq Rows(table)}
  ELSE {Registered(id) : id \in {word} \ Rows(students)}

(* One column of one row.  A row that is gone by now is left alone, and    *)
(* the command is acknowledged all the same.                               *)
AfterChange(word, k) ==
  IF word = OtherText
  THEN {table \in Table :
          Cardinality(Rows(table)) = Cardinality(Rows(students))}
  ELSE {Changed(word, k, g) : g \in Grade}

AfterDelete(word) ==
  IF word = OtherText
  THEN {table \in Table :
          \A id \in StudentID : table[id] \in {students[id], NoRow}}
  ELSE {Deleted(word)}

-----------------------------------------------------------------------------
Register(u, word) ==
  /\ Answers(u, Says("registered", word))
  /\ students' \in AfterRegister(word)
  /\ UNCHANGED board

Change(u, word) ==
  /\ Answers(u, Says("changed", word))
  /\ \E k \in Column : students' \in AfterChange(word, k)
  /\ UNCHANGED board

Delete(u, word) ==
  /\ Answers(u, Says("deleted", word))
  /\ students' \in AfterDelete(word)
  /\ UNCHANGED board

Notice(u) ==
  /\ Answers(u, Plain("noticed"))
  /\ board' = "posted"
  /\ UNCHANGED students

RefuseTaken(u, word) ==
  /\ word \in StudentID => students[word] # NoRow
  /\ Answers(u, Says("already", word))
  /\ UNCHANGED <<students, board>>

RefuseAbsent(u, word) ==
  /\ word \in StudentID => students[word] = NoRow
  /\ Answers(u, Says("notfound", word))
  /\ UNCHANGED <<students, board>>

(* Everything that reads only, and the dialogue of the login.              *)
Read(u) ==
  /\ Answers(u, Plain("text"))
  /\ UNCHANGED <<students, board>>

(* An error answer, or the loss of the answer, leaves it open whether the  *)
(* command took effect, but not what the effect may have been.             *)
Fail(u, word) ==
  /\ \E what \in {"err", "lost"} : Answers(u, Says(what, word))
  /\ \/ UNCHANGED students
     \/ students' \in AfterRegister(word) \cup AfterDelete(word)
     \/ \E k \in Column : students' \in AfterChange(word, k)
  /\ UNCHANGED board

FailNotice(u) ==
  /\ \E what \in {"err", "lost"} : Answers(u, Plain(what))
  /\ board' \in {board, "posted"}
  /\ UNCHANGED students

Next ==
  \E u \in User :
    \/ Ask(u)
    \/ Notice(u)
    \/ Read(u)
    \/ FailNotice(u)
    \/ \E word \in Word :
         \/ Register(u, word)
         \/ Change(u, word)
         \/ Delete(u, word)
         \/ RefuseTaken(u, word)
         \/ RefuseAbsent(u, word)
         \/ Fail(u, word)

Spec == Init /\ [][Next]_<<students, board, answer>>
=============================================================================
