--------------------------- MODULE SessionsProofs ---------------------------
(***************************************************************************)
(* Proofs about module Sessions, for any number of sessions, any IDs and   *)
(* any number of failing statements.                                       *)
(*                                                                         *)
(* Two facts carry the argument.  A session that executes a statement owes *)
(* its client an answer (InStep), so that each command is answered once.   *)
(* And from the fetch of a password on, pwddb belongs to the ID in who     *)
(* (Fetched), because who changes only together with a step back to "id"   *)
(* or to the fetch.                                                        *)
(***************************************************************************)
EXTENDS Sessions, TLAPS

(* While the session lives, an unread line, or a statement under way, has   *)
(* not been answered.                                                      *)
InStep ==
  \A h \in Handler :
    /\ pc[h] # "ended" /\ conn[h] \in {"sent", "last"} => answer[h] = Pending
    /\ pc[h] \in Executing => conn[h] \in {"taken", "gone"} /\ answer[h] = Pending

(* Past the fetch of the password.                                         *)
PastFetch == {"password", "command"} \cup (Executing \ {"fetch"})

(* Once it is fetched, the password is the one of the ID entered last.     *)
Fetched == \A h \in Handler : pc[h] \in PastFetch => pwddb[h] \in {who[h], Empty}

(* Likewise that instructor's ID is one the database knows.                *)
Vouched ==
  \A h \in InsHandler :
    /\ pc[h] = "fetch" => who[h] \in Enlisted \/ faults > 0
    /\ pc[h] \in PastFetch => Authorized(h)

(* A student's session has no statement of a command to execute.           *)
ReadOnly == \A h \in StuHandler : pc[h] \notin Executing \ {"fetch"}

IInv == TypeOK /\ InStep /\ Fetched /\ Vouched /\ ReadOnly

-----------------------------------------------------------------------------
(* A new row, a new grade and a removed row leave the table a table.       *)
LEMMA RowsTyped ==
  ASSUME students \in Book!Table,
         NEW id \in StudentID
  PROVE  /\ Book!Registered(id) \in Book!Table
         /\ Book!Deleted(id) \in Book!Table
         /\ \A k \in Teacher, g \in Grade : Book!Changed(id, k, g) \in Book!Table
<1> USE SessionsAssumption DEF Book!Table
<1>1. Book!NewRow \in Book!Row
  BY DEF Book!NewRow, Book!Row
<1>2. Book!Registered(id) \in Book!Table
  BY <1>1 DEF Book!Registered
<1>3. Book!Deleted(id) \in Book!Table
  BY DEF Book!Deleted
<1>4. ASSUME NEW k \in Teacher, NEW g \in Grade
      PROVE  Book!Changed(id, k, g) \in Book!Table
  <2>1. CASE students[id] = NoRow
    BY <2>1 DEF Book!Changed
  <2>2. CASE students[id] # NoRow
    <3> DEFINE row == [students[id] EXCEPT !.grade[k] = g]
    <3>1. students[id] \in Book!Row
      BY <2>2
    <3>2. row \in Book!Row
      BY <3>1 DEF Book!Row
    <3>3. Book!Changed(id, k, g) = [students EXCEPT ![id] = row]
      BY <2>2 DEF Book!Changed
    <3> HIDE DEF row
    <3> QED
      BY <3>2, <3>3
  <2>3. QED
    BY <2>1, <2>2
<1>5. QED
  BY <1>2, <1>3, <1>4

(* So does whatever statement a session is about to execute.               *)
LEMMA EffectsTyped ==
  ASSUME TypeOK, NEW h \in Handler
  PROVE  /\ Effects(h) \subseteq Book!Table
         /\ Effects(h) # {} =>
              pc[h] \in {"insert", "update", "delete"} /\ arg[h] \in Book!Word
<1>0. students \in Book!Table
  BY DEF TypeOK
<1>1. ASSUME NEW word \in Book!Word
      PROVE  /\ Book!AfterRegister(word) \subseteq Book!Table
             /\ Book!AfterDelete(word) \subseteq Book!Table
             /\ \A k \in Teacher : Book!AfterChange(word, k) \subseteq Book!Table
  <2>1. CASE word = OtherText
    BY <2>1 DEF Book!AfterRegister, Book!AfterDelete, Book!AfterChange
  <2>2. CASE word \in StudentID
    <3>1. word # OtherText
      BY <2>2, SessionsAssumption
    <3> QED
      BY <1>0, <2>2, <3>1, RowsTyped
         DEF Book!AfterRegister, Book!AfterDelete, Book!AfterChange
  <2> QED
    BY <2>1, <2>2 DEF Book!Word
<1>2. pc[h] \in {"insert", "update", "delete"} => arg[h] \in Book!Word
  BY DEF TypeOK, Executing
<1> QED
  BY <1>1, <1>2 DEF Effects

(* The answers of the sessions are answers.                                *)
LEMMA AnswersTyped ==
  /\ \A t \in {"none", "text", "noticed", "err", "lost"} : Book!Plain(t) \in Answer
  /\ \A t \in {"registered", "changed", "deleted", "already", "notfound",
                "err", "lost"} :
       \A word \in Book!Word : Book!Says(t, word) \in Answer
  /\ Pending \in Answer
BY DEF Answer

(* Every step keeps every variable in its type.                            *)
LEMMA TypeStep ==
  ASSUME TypeOK, [Next]_vars
  PROVE  TypeOK'
<1> USE SessionsAssumption, AnswersTyped DEF TypeOK, Reading, Executing, IDs
<1>1. ASSUME NEW h \in Handler, Send(h)
      PROVE  TypeOK'
  BY <1>1
     DEF Send, database, session
<1>2. ASSUME NEW h \in Handler, Quit(h)
      PROVE  TypeOK'
  BY <1>2
     DEF Quit, database, session
<1>3. ASSUME NEW h \in Handler, BadID(h)
      PROVE  TypeOK'
  BY <1>3
     DEF BadID, Line, Write, database, session
<1>4. ASSUME NEW h \in Handler, EnterID(h)
      PROVE  TypeOK'
  <2>1. faults' \in 0 .. MaxFaults
    BY <1>4 DEF EnterID, Succeeds, Fails
  <2>2. /\ who' \in [Handler -> StudentID \cup InstructorID \cup {Nobody}]
        /\ \A d \in Handler : who'[d] \in IDs(d) \cup {Nobody}
        /\ UNCHANGED <<pwddb, arg>>
    BY <1>4 DEF EnterID
  <2>3. ss' \in [Handler -> BOOLEAN]
    BY <1>4 DEF EnterID
  <2>4. /\ conn' \in [Handler -> {"typing", "sent", "taken", "gone", "last"}]
        /\ answer' \in [Handler -> Answer]
    BY <1>4 DEF EnterID, IDs, Exists, Line, Write, Take, Goto
  <2>5. pc' \in [Handler -> Reading \cup Executing \cup {"ended"}]
    BY <1>4 DEF EnterID, IDs, Exists, Line, Write, Take, Goto
  <2>6. UNCHANGED <<students, board>>
    BY <1>4 DEF EnterID, database
  <2>7. \A d \in Handler :
          /\ who'[d] \in IDs(d) \cup {Nobody}
          /\ pc'[d] \notin {"id", "ended"} => who'[d] # Nobody
          /\ pc'[d] \in Executing \ {"fetch"} => arg'[d] # Nobody
    BY <1>4
       DEF EnterID, IDs, Exists, Line, Write, Take, Goto, database, session
  <2>8. QED
    BY <2>1, <2>2, <2>3, <2>4, <2>5, <2>6, <2>7
<1>5. ASSUME NEW h \in Handler, FetchPassword(h)
      PROVE  TypeOK'
  <2>1. faults' \in 0 .. MaxFaults
    BY <1>5 DEF FetchPassword, Succeeds, Fails
  <2>2. Stored(h, who[h]) \in StudentID \cup InstructorID \cup {Empty}
    BY <1>5 DEF FetchPassword, Stored, Exists
  <2>3. /\ pwddb' \in [Handler -> StudentID \cup InstructorID \cup {Empty}]
        /\ UNCHANGED <<who, arg>>
    BY <1>5, <2>2 DEF FetchPassword
  <2>4. ss' \in [Handler -> BOOLEAN]
    BY <1>5 DEF FetchPassword
  <2>5. /\ conn' \in [Handler -> {"typing", "sent", "taken", "gone", "last"}]
        /\ answer' \in [Handler -> Answer]
    BY <1>5 DEF FetchPassword, Exists, Stored, Write, Goto
  <2>6. pc' \in [Handler -> Reading \cup Executing \cup {"ended"}]
    BY <1>5 DEF FetchPassword, Exists, Stored, Write, Goto
  <2>7. UNCHANGED <<students, board>>
    BY <1>5 DEF FetchPassword, database
  <2>8. \A d \in Handler :
          /\ who'[d] \in IDs(d) \cup {Nobody}
          /\ pc'[d] \notin {"id", "ended"} => who'[d] # Nobody
          /\ pc'[d] \in Executing \ {"fetch"} => arg'[d] # Nobody
    BY <1>5
       DEF FetchPassword, Exists, Stored, Write, Goto, database, session
  <2>9. QED
    BY <2>1, <2>3, <2>4, <2>5, <2>6, <2>7, <2>8
<1>6. ASSUME NEW h \in Handler, WrongPassword(h)
      PROVE  TypeOK'
  BY <1>6
     DEF WrongPassword, Line, Write, Goto, database, session
<1>7. ASSUME NEW h \in Handler, RightPassword(h)
      PROVE  TypeOK'
  BY <1>7
     DEF RightPassword, Line, Write, Take, Goto, Succeeds, Fails, database,
         session
<1>8. ASSUME NEW h \in Handler, DecryptThrows(h)
      PROVE  TypeOK'
  BY <1>8
     DEF DecryptThrows, Line, Take, Goto, database, session
<1>9. ASSUME NEW h \in Handler, StudentCommand(h)
      PROVE  TypeOK'
  BY <1>9
     DEF StudentCommand, Line, Finish, Write, Goto, database, session
<1>10. ASSUME NEW h \in Handler, ListOrHelp(h)
      PROVE  TypeOK'
  BY <1>10
     DEF ListOrHelp, Command, Line, Finish, Write, Goto, database, session
<1>11. ASSUME NEW h \in Handler, Register(h)
      PROVE  TypeOK'
  <2>1. faults' \in 0 .. MaxFaults
    BY <1>11 DEF Register, Succeeds, Fails
  <2>2. /\ arg' \in [Handler -> Book!Word \cup {Nobody}]
        /\ UNCHANGED <<who, pwddb, ss>>
    BY <1>11 DEF Register, Command, Line, Finish, Proceed, Take, Write, Goto
  <2>3. /\ conn' \in [Handler -> {"typing", "sent", "taken", "gone", "last"}]
        /\ answer' \in [Handler -> Answer]
    BY <1>11 DEF Register, Command, Line, Finish, Proceed, Take, Write, Goto
  <2>4. pc' \in [Handler -> Reading \cup Executing \cup {"ended"}]
    BY <1>11 DEF Register, Command, Line, Finish, Proceed, Take, Write, Goto
  <2>5. UNCHANGED <<students, board>>
    BY <1>11 DEF Register, database
  <2>6. \A d \in Handler :
          /\ who'[d] \in IDs(d) \cup {Nobody}
          /\ pc'[d] \notin {"id", "ended"} => who'[d] # Nobody
          /\ pc'[d] \in Executing \ {"fetch"} => arg'[d] # Nobody
    BY <1>11
       DEF Register, Command, Line, Finish, Proceed, Take, Write, Goto,
           database, session, Book!Word
  <2>7. QED
    BY <2>1, <2>2, <2>3, <2>4, <2>5, <2>6
<1>12. ASSUME NEW h \in Handler, Insert(h)
      PROVE  TypeOK'
  BY <1>12, EffectsTyped
     DEF Insert, Execute, Finish, Write, Goto, Succeeds, Fails, database, session
<1>13. ASSUME NEW h \in Handler, Change(h)
      PROVE  TypeOK'
  <2>1. faults' \in 0 .. MaxFaults
    BY <1>13 DEF Change, Succeeds, Fails
  <2>2. /\ arg' \in [Handler -> Book!Word \cup {Nobody}]
        /\ UNCHANGED <<who, pwddb, ss>>
    BY <1>13 DEF Change, Command, Line, Finish, Proceed, Take, Write, Goto
  <2>3. /\ conn' \in [Handler -> {"typing", "sent", "taken", "gone", "last"}]
        /\ answer' \in [Handler -> Answer]
    BY <1>13 DEF Change, Command, Line, Finish, Proceed, Take, Write, Goto
  <2>4. pc' \in [Handler -> Reading \cup Executing \cup {"ended"}]
    BY <1>13 DEF Change, Command, Line, Finish, Proceed, Take, Write, Goto
  <2>5. UNCHANGED <<students, board>>
    BY <1>13 DEF Change, database
  <2>6. \A d \in Handler :
          /\ who'[d] \in IDs(d) \cup {Nobody}
          /\ pc'[d] \notin {"id", "ended"} => who'[d] # Nobody
          /\ pc'[d] \in Executing \ {"fetch"} => arg'[d] # Nobody
    BY <1>13
       DEF Change, Command, Line, Finish, Proceed, Take, Write, Goto,
           database, session, Book!Word
  <2>7. QED
    BY <2>1, <2>2, <2>3, <2>4, <2>5, <2>6
<1>14. ASSUME NEW h \in Handler, Update(h)
      PROVE  TypeOK'
  BY <1>14, EffectsTyped
     DEF Update, Execute, Finish, Write, Goto, Succeeds, Fails, database, session
<1>15. ASSUME NEW h \in Handler, Notice(h)
      PROVE  TypeOK'
  BY <1>15
     DEF Notice, Command, Line, Finish, Write, Goto, Succeeds, Fails,
         database, session
<1>16. ASSUME NEW h \in Handler, TwoWords(h)
      PROVE  TypeOK'
  <2>1. faults' \in 0 .. MaxFaults
    BY <1>16 DEF TwoWords, Succeeds, Fails
  <2>2. /\ arg' \in [Handler -> Book!Word \cup {Nobody}]
        /\ UNCHANGED <<who, pwddb, ss>>
    BY <1>16 DEF TwoWords, Command, Line, Finish, Proceed, Take, Write, Goto
  <2>3. /\ conn' \in [Handler -> {"typing", "sent", "taken", "gone", "last"}]
        /\ answer' \in [Handler -> Answer]
    BY <1>16 DEF TwoWords, Command, Line, Finish, Proceed, Take, Write, Goto
  <2>4. pc' \in [Handler -> Reading \cup Executing \cup {"ended"}]
    BY <1>16 DEF TwoWords, Command, Line, Finish, Proceed, Take, Write, Goto
  <2>5. UNCHANGED <<students, board>>
    BY <1>16 DEF TwoWords, database
  <2>6. \A d \in Handler :
          /\ who'[d] \in IDs(d) \cup {Nobody}
          /\ pc'[d] \notin {"id", "ended"} => who'[d] # Nobody
          /\ pc'[d] \in Executing \ {"fetch"} => arg'[d] # Nobody
    BY <1>16
       DEF TwoWords, Command, Line, Finish, Proceed, Take, Write, Goto,
           database, session, Book!Word
  <2>7. QED
    BY <2>1, <2>2, <2>3, <2>4, <2>5, <2>6
<1>17. ASSUME NEW h \in Handler, Delete(h)
      PROVE  TypeOK'
  BY <1>17, EffectsTyped
     DEF Delete, Execute, Finish, Write, Goto, Succeeds, Fails, database, session
<1>18. ASSUME NEW h \in Handler, ListOne(h)
      PROVE  TypeOK'
  BY <1>18
     DEF ListOne, Finish, Write, Goto, database, session
<1>19. ASSUME NEW h \in Handler, Upload(h)
      PROVE  TypeOK'
  BY <1>19
     DEF Upload, Command, Line, Finish, Take, Write, Goto, database, session
<1>20. ASSUME NEW h \in Handler, TooFewWords(h)
      PROVE  TypeOK'
  BY <1>20
     DEF TooFewWords, Command, Line, Finish, Take, Write, Goto, database,
         session
<1>21. ASSUME NEW h \in Handler, HangUp(h)
      PROVE  TypeOK'
  BY <1>21
     DEF HangUp, Goto, database, session
<1>22. ASSUME NEW h \in Handler, Crash(h)
      PROVE  TypeOK'
  BY <1>22, EffectsTyped
     DEF Crash, Command, Line, Goto, Fails, database, session
<1>23. CASE UNCHANGED vars
  BY <1>23 DEF vars
<1>24. QED
  BY <1>1, <1>2, <1>3, <1>4, <1>5, <1>6, <1>7, <1>8, <1>9, <1>10, <1>11,
     <1>12, <1>13, <1>14, <1>15, <1>16, <1>17, <1>18, <1>19, <1>20, <1>21,
     <1>22, <1>23
     DEF Next, Step, LoginStep, CommandStep

(* A session answers only what it owes an answer to.                       *)
LEMMA InStepStep ==
  ASSUME TypeOK, TypeOK', InStep, [Next]_vars
  PROVE  InStep'
<1> USE DEF TypeOK, InStep, Reading, Executing
<1>1. ASSUME NEW h \in Handler, Send(h)
      PROVE  InStep'
  BY <1>1
     DEF Send, database, session
<1>2. ASSUME NEW h \in Handler, Quit(h)
      PROVE  InStep'
  BY <1>2
     DEF Quit, database, session
<1>3. ASSUME NEW h \in Handler, BadID(h)
      PROVE  InStep'
  BY <1>3
     DEF BadID, Line, Write, database, session
<1>4. ASSUME NEW h \in Handler, EnterID(h)
      PROVE  InStep'
  BY <1>4
     DEF EnterID, IDs, Exists, Line, Write, Take, Goto, Succeeds, Fails,
         database, session
<1>5. ASSUME NEW h \in Handler, FetchPassword(h)
      PROVE  InStep'
  BY <1>5
     DEF FetchPassword, Exists, Stored, Write, Goto, Succeeds, Fails,
         database, session
<1>6. ASSUME NEW h \in Handler, WrongPassword(h)
      PROVE  InStep'
  BY <1>6
     DEF WrongPassword, Line, Write, Goto, database, session
<1>7. ASSUME NEW h \in Handler, RightPassword(h)
      PROVE  InStep'
  BY <1>7
     DEF RightPassword, Line, Write, Take, Goto, Succeeds, Fails, database,
         session
<1>8. ASSUME NEW h \in Handler, DecryptThrows(h)
      PROVE  InStep'
  BY <1>8
     DEF DecryptThrows, Line, Take, Goto, database, session
<1>9. ASSUME NEW h \in Handler, StudentCommand(h)
      PROVE  InStep'
  BY <1>9
     DEF StudentCommand, Line, Finish, Write, Goto, database, session
<1>10. ASSUME NEW h \in Handler, ListOrHelp(h)
      PROVE  InStep'
  BY <1>10
     DEF ListOrHelp, Command, Line, Finish, Write, Goto, database, session
<1>11. ASSUME NEW h \in Handler, Register(h)
      PROVE  InStep'
  BY <1>11
     DEF Register, Command, Line, Finish, Proceed, Take, Write, Goto,
         Succeeds, Fails, database, session
<1>12. ASSUME NEW h \in Handler, Insert(h)
      PROVE  InStep'
  BY <1>12
     DEF Insert, Execute, Finish, Write, Goto, Succeeds, Fails, database, session
<1>13. ASSUME NEW h \in Handler, Change(h)
      PROVE  InStep'
  BY <1>13
     DEF Change, Command, Line, Finish, Proceed, Take, Write, Goto, Succeeds,
         Fails, database, session
<1>14. ASSUME NEW h \in Handler, Update(h)
      PROVE  InStep'
  BY <1>14
     DEF Update, Execute, Finish, Write, Goto, Succeeds, Fails, database, session
<1>15. ASSUME NEW h \in Handler, Notice(h)
      PROVE  InStep'
  BY <1>15
     DEF Notice, Command, Line, Finish, Write, Goto, Succeeds, Fails,
         database, session
<1>16. ASSUME NEW h \in Handler, TwoWords(h)
      PROVE  InStep'
  BY <1>16
     DEF TwoWords, Command, Line, Finish, Proceed, Take, Write, Goto,
         Succeeds, Fails, database, session
<1>17. ASSUME NEW h \in Handler, Delete(h)
      PROVE  InStep'
  BY <1>17
     DEF Delete, Execute, Finish, Write, Goto, Succeeds, Fails, database, session
<1>18. ASSUME NEW h \in Handler, ListOne(h)
      PROVE  InStep'
  BY <1>18
     DEF ListOne, Finish, Write, Goto, database, session
<1>19. ASSUME NEW h \in Handler, Upload(h)
      PROVE  InStep'
  BY <1>19
     DEF Upload, Command, Line, Finish, Take, Write, Goto, database, session
<1>20. ASSUME NEW h \in Handler, TooFewWords(h)
      PROVE  InStep'
  BY <1>20
     DEF TooFewWords, Command, Line, Finish, Take, Write, Goto, database,
         session
<1>21. ASSUME NEW h \in Handler, HangUp(h)
      PROVE  InStep'
  BY <1>21
     DEF HangUp, Goto, database, session
<1>22. ASSUME NEW h \in Handler, Crash(h)
      PROVE  InStep'
  BY <1>22
     DEF Crash, Command, Line, Goto, Fails, database, session
<1>23. CASE UNCHANGED vars
  BY <1>23 DEF vars
<1>24. QED
  BY <1>1, <1>2, <1>3, <1>4, <1>5, <1>6, <1>7, <1>8, <1>9, <1>10, <1>11,
     <1>12, <1>13, <1>14, <1>15, <1>16, <1>17, <1>18, <1>19, <1>20, <1>21,
     <1>22, <1>23
     DEF Next, Step, LoginStep, CommandStep

(* A session that does not touch ID and password gets past the login with  *)
(* the ones that it has.                                                   *)
LEMMA LoginKept ==
  ASSUME TypeOK, Fetched, Vouched, NEW h \in Handler,
         UNCHANGED <<who, pwddb>>, faults' \in {faults, faults + 1},
         NEW place, pc' = [pc EXCEPT ![h] = place],
         \/ place \in {"id", "ended", pc[h]}
         \/ pc[h] \in PastFetch /\ place # "fetch"
  PROVE  Fetched' /\ Vouched'
<1>1. faults \in Nat /\ (faults > 0 => faults' > 0)
  BY SessionsAssumption DEF TypeOK
<1>2. \A d \in InsHandler : Authorized(d) => Authorized(d)'
  BY <1>1 DEF Authorized
<1>3. \A d \in Handler : pc'[d] = IF d = h THEN place ELSE pc[d]
  BY DEF TypeOK
<1>4. \A d \in Handler :
        /\ pc'[d] \in PastFetch => pc[d] \in PastFetch
        /\ pc'[d] = "fetch" => pc[d] = "fetch"
  BY <1>3 DEF PastFetch, Executing
<1>5. Fetched'
  BY <1>4 DEF Fetched
<1>6. Vouched'
  BY <1>1, <1>2, <1>4 DEF Vouched, Handler
<1> QED
  BY <1>5, <1>6

(* The ID changes only where the password is about to be fetched again;    *)
(* without a failure only known IDs get as far as the fetch, and then the  *)
(* password fetched is theirs.                                             *)
LEMMA LoginStepKeeps ==
  ASSUME TypeOK, TypeOK', Fetched, Vouched, [Next]_vars
  PROVE  Fetched' /\ Vouched'
<1>0. faults \in Nat /\ InsHandler \subseteq Handler /\ StuHandler \cap InsHandler = {}
  BY SessionsAssumption DEF TypeOK, Handler
<1>1. ASSUME NEW h \in Handler, Send(h) \/ Quit(h)
      PROVE  Fetched' /\ Vouched'
  BY <1>1 DEF Send, Quit, session, Fetched, Vouched, Authorized
<1>2. ASSUME NEW h \in Handler, EnterID(h)
      PROVE  Fetched' /\ Vouched'
  <2>1. PICK id \in IDs(h) :
          /\ who' = [who EXCEPT ![h] = id]
          /\ \/ ~Exists(h, id) /\ UNCHANGED <<pc, faults>>
             \/ /\ pc' = [pc EXCEPT ![h] = "fetch"]
                /\ (Exists(h, id) /\ UNCHANGED faults) \/ faults' = faults + 1
    BY <1>2 DEF EnterID, Succeeds, Fails, Goto
  <2>2. pc[h] = "id" /\ UNCHANGED pwddb
    BY <1>2 DEF EnterID, Line
  <2>3. ASSUME NEW d \in Handler, d # h
        PROVE  /\ who'[d] = who[d] /\ pc'[d] = pc[d]
               /\ faults > 0 => faults' > 0
    BY <1>0, <2>1, <2>3 DEF TypeOK
  <2>4. pc'[h] \in {"id", "fetch"}
    BY <2>1, <2>2 DEF TypeOK
  <2>5. ASSUME h \in InsHandler
        PROVE  \/ pc'[h] = "id"
               \/ pc'[h] = "fetch" /\ (who'[h] \in Enlisted \/ faults' > 0)
    BY <1>0, <2>1, <2>2, <2>5 DEF TypeOK, Exists
  <2>6. Fetched'
    BY <2>2, <2>3, <2>4 DEF Fetched, PastFetch, Executing
  <2>7. Vouched'
    BY <1>0, <2>2, <2>3, <2>5 DEF Vouched, Authorized, PastFetch, Executing
  <2> QED
    BY <2>6, <2>7
<1>3. ASSUME NEW h \in Handler, FetchPassword(h)
      PROVE  Fetched' /\ Vouched'
  <2>1. /\ pc[h] = "fetch" /\ pc' = [pc EXCEPT ![h] = "password"]
        /\ UNCHANGED who
        /\ \/ /\ UNCHANGED faults
              /\ pwddb' = [pwddb EXCEPT ![h] = Stored(h, who[h])]
           \/ /\ faults' = faults + 1
              /\ pwddb' = [pwddb EXCEPT ![h] = Empty]
    BY <1>3 DEF FetchPassword, Succeeds, Fails, Goto
  <2>2. ASSUME NEW d \in Handler, d # h
        PROVE  /\ pwddb'[d] = pwddb[d] /\ pc'[d] = pc[d]
               /\ faults > 0 => faults' > 0
    BY <1>0, <2>1, <2>2 DEF TypeOK
  <2>3. pwddb'[h] \in {who'[h], Empty}
    BY <2>1 DEF Stored, TypeOK
  <2>4. ASSUME h \in InsHandler
        PROVE  pc'[h] = "password" /\ Authorized(h)'
    <3>1. pc'[h] = "password" /\ (who[h] \in Enlisted \/ faults > 0)
      BY <1>0, <2>1, <2>4 DEF TypeOK, Vouched
    <3>2. Stored(h, who[h]) = IF who[h] \in Enlisted THEN who[h] ELSE Empty
      BY <1>0, <2>4 DEF Stored, Exists
    <3> QED
      BY <1>0, <2>1, <3>1, <3>2 DEF TypeOK, Authorized
  <2>5. Fetched'
    BY <2>1, <2>2, <2>3 DEF Fetched
  <2>6. Vouched'
    BY <1>0, <2>1, <2>2, <2>4 DEF Vouched, Authorized, PastFetch, Executing
  <2> QED
    BY <2>5, <2>6
<1>4. ASSUME NEW h \in Handler,
             BadID(h) \/ WrongPassword(h) \/ RightPassword(h) \/ DecryptThrows(h)
      PROVE  Fetched' /\ Vouched'
  <2>1. UNCHANGED <<who, pwddb>> /\ faults' \in {faults, faults + 1}
    BY <1>4 DEF BadID, WrongPassword, RightPassword, DecryptThrows, session,
                Succeeds, Fails
  <2>2. \E place \in {"id", "command", "ended"} :
          /\ pc' = [pc EXCEPT ![h] = place]
          /\ place = "command" => pc[h] = "password"
    BY <1>4 DEF BadID, WrongPassword, RightPassword, DecryptThrows, Line, Goto,
                TypeOK
  <2> QED
    BY <2>1, <2>2, LoginKept DEF PastFetch
<1>5. ASSUME NEW h \in Handler, CommandStep(h)
      PROVE  Fetched' /\ Vouched'
  <2>1. UNCHANGED <<who, pwddb>> /\ faults' \in {faults, faults + 1}
    BY <1>5 DEF CommandStep, StudentCommand, ListOrHelp, Register, Insert,
                Change, Update, Execute, Notice, TwoWords, Delete, ListOne,
                Upload, TooFewWords, Finish, Proceed, session, Succeeds, Fails
  <2>2. pc[h] \in {"command"} \cup (Executing \ {"fetch"})
    BY <1>5 DEF CommandStep, StudentCommand, ListOrHelp, Register, Insert,
                Change, Update, Notice, TwoWords, Delete, ListOne, Upload,
                TooFewWords, Command, Line, Executing
  <2>3. \E place \in {"command", "ended"} \cup (Executing \ {"fetch"}) :
          pc' = [pc EXCEPT ![h] = place]
    BY <1>5 DEF CommandStep, StudentCommand, ListOrHelp, Register, Insert,
                Change, Update, Execute, Notice, TwoWords, Delete, ListOne,
                Upload, TooFewWords, Finish, Proceed, Goto, Executing
  <2> QED
    BY <2>1, <2>2, <2>3, LoginKept DEF PastFetch, Executing
<1>6. ASSUME NEW h \in Handler, HangUp(h) \/ Crash(h)
      PROVE  Fetched' /\ Vouched'
  <2>1. /\ UNCHANGED <<who, pwddb>> /\ faults' \in {faults, faults + 1}
        /\ pc' = [pc EXCEPT ![h] = "ended"]
    BY <1>6 DEF HangUp, Crash, Goto, Fails, session
  <2> QED
    BY <2>1, LoginKept
<1>7. CASE UNCHANGED vars
  BY <1>7 DEF vars, Fetched, Vouched, Authorized
<1> QED
  BY <1>1, <1>2, <1>3, <1>4, <1>5, <1>6, <1>7 DEF Next, Step, LoginStep

(* Only an instructor's command leads to one.                              *)
LEMMA ReadOnlyStep ==
  ASSUME TypeOK, ReadOnly, [Next]_vars
  PROVE  ReadOnly'
<1>1. \/ UNCHANGED pc
      \/ \E h \in InsHandler, place \in Executing : pc' = [pc EXCEPT ![h] = place]
      \/ \E h \in Handler, place \in Reading \cup {"fetch", "ended"} :
           pc' = [pc EXCEPT ![h] = place]
  <2>1. ASSUME NEW h \in Handler, Register(h) \/ Change(h) \/ TwoWords(h)
        PROVE  /\ h \in InsHandler
               /\ \E place \in Executing \cup {"command"} :
                    pc' = [pc EXCEPT ![h] = place]
    BY <2>1 DEF Register, Change, TwoWords, Command, Finish, Proceed, Goto,
                Executing
  <2>2. ASSUME NEW h \in Handler, LoginStep(h)
        PROVE  \/ UNCHANGED pc
               \/ \E place \in Reading \cup {"fetch", "ended"} :
                    pc' = [pc EXCEPT ![h] = place]
    BY <2>2 DEF LoginStep, BadID, EnterID, FetchPassword, WrongPassword,
                RightPassword, DecryptThrows, Goto, Reading
  <2>3. ASSUME NEW h \in Handler,
               \/ StudentCommand(h) \/ ListOrHelp(h) \/ Insert(h) \/ Update(h)
               \/ Notice(h) \/ Delete(h) \/ ListOne(h) \/ Upload(h)
               \/ TooFewWords(h) \/ HangUp(h) \/ Crash(h)
        PROVE  \E place \in Reading \cup {"fetch", "ended"} :
                 pc' = [pc EXCEPT ![h] = place]
    BY <2>3 DEF StudentCommand, ListOrHelp, Insert, Update, Execute, Notice,
                Delete, ListOne, Upload, TooFewWords, HangUp, Crash, Finish,
                Goto, Reading
  <2>4. ASSUME NEW h \in Handler, Send(h) \/ Quit(h)
        PROVE  UNCHANGED pc
    BY <2>4 DEF Send, Quit
  <2> QED
    BY <2>1, <2>2, <2>3, <2>4
       DEF Next, Step, CommandStep, vars, Reading
<1> QED
  BY <1>1, SessionsAssumption DEF ReadOnly, TypeOK, Handler, Reading, Executing

-----------------------------------------------------------------------------
(* The initial states satisfy the invariant.                               *)
LEMMA InitIInv == Init => IInv
BY SessionsAssumption, AnswersTyped
   DEF Init, IInv, TypeOK, InStep, Fetched, Vouched, ReadOnly, Handler,
       PastFetch, Reading, Executing, IDs

(* IInv is an inductive invariant of the specification.                    *)
THEOREM Invariance == Spec => []IInv
<1>1. IInv /\ [Next]_vars => IInv'
  <2> SUFFICES ASSUME IInv, [Next]_vars
               PROVE  IInv'
    OBVIOUS
  <2>1. TypeOK'
    BY TypeStep DEF IInv
  <2>2. QED
    BY <2>1, InStepStep, LoginStepKeeps, ReadOnlyStep DEF IInv
<1>2. QED
  BY InitIInv, <1>1, PTL DEF Spec

(* Every variable always has its type, and a session that is to execute a  *)
(* statement knows the word in it (the commands of handleInstructor).      *)
THEOREM TypeCorrect == Spec => []TypeOK
<1>1. IInv => TypeOK
  BY DEF IInv
<1>2. QED
  BY Invariance, <1>1, PTL

(* However many sessions change the table during a login, and whichever    *)
(* statements fail, a session is past its login only with the password of  *)
(* the ID it works for, or with the empty one that no statement has        *)
(* replaced (the login loops of both functions).                           *)
THEOREM LoginsSound == Spec => []LoginSound
<1>1. IInv => LoginSound
  BY DEF IInv, Fetched, PastFetch, LoginSound
<1>2. QED
  BY Invariance, <1>1, PTL

-----------------------------------------------------------------------------
(* What the statement makes of the table is what its command may.          *)
LEMMA EffectsOf ==
  ASSUME NEW h \in Handler, NEW table \in Effects(h)
  PROVE  \/ pc[h] = "insert" /\ table \in Book!AfterRegister(arg[h])
         \/ /\ pc[h] = "update" /\ who[h] \in Teacher
            /\ table \in Book!AfterChange(arg[h], who[h])
         \/ pc[h] = "delete" /\ table \in Book!AfterDelete(arg[h])
BY DEF Effects

(* A statement whose answer is an error, or is lost, is a failure of its   *)
(* command, whether it has taken effect or not.                            *)
LEMMA FailsCommand ==
  ASSUME NEW h \in Handler, answer[h] = Pending,
         students' \in {students} \cup Effects(h), UNCHANGED board,
         NEW what \in {"err", "lost"},
         answer' = [answer EXCEPT ![h] = Book!Says(what, arg[h])]
  PROVE  Book!Fail(h, arg[h])
<1>1. \E w \in {"err", "lost"} : Book!Answers(h, Book!Says(w, arg[h]))
  BY DEF Book!Answers
<1>2. \/ UNCHANGED students
      \/ students' \in Book!AfterRegister(arg[h]) \cup Book!AfterDelete(arg[h])
      \/ \E k \in Teacher : students' \in Book!AfterChange(arg[h], k)
  BY EffectsOf
<1> QED
  BY <1>1, <1>2 DEF Book!Fail

(* A step of the sessions is a step of the gradebook, or changes nothing   *)
(* that the gradebook shows.                                               *)
LEMMA StepImplements ==
  ASSUME TypeOK, InStep, [Next]_vars
  PROVE  [Book!Next]_<<students, board, answer>>
<1> DEFINE Goal == Book!Next \/ UNCHANGED <<students, board, answer>>
<1> USE DEF TypeOK, InStep, Reading, Executing
<1>1. ASSUME NEW h \in Handler, Send(h)
      PROVE  Goal
  <2>1. Book!Ask(h)
    BY <1>1 DEF Send, Book!Ask, database
  <2>2. QED
    BY <2>1 DEF Book!Next
<1>2. ASSUME NEW h \in Handler, Quit(h) \/ DecryptThrows(h) \/ HangUp(h)
      PROVE  Goal
  BY <1>2 DEF Quit, DecryptThrows, HangUp, Take, database
<1>3. ASSUME NEW h \in Handler,
             \/ BadID(h) \/ EnterID(h) \/ FetchPassword(h) \/ WrongPassword(h)
             \/ RightPassword(h) \/ StudentCommand(h) \/ ListOrHelp(h) \/ ListOne(h)
      PROVE  Goal
  <2>1. UNCHANGED <<students, board>>
    BY <1>3 DEF BadID, EnterID, FetchPassword, WrongPassword, RightPassword,
                StudentCommand, ListOrHelp, ListOne, database
  <2>2. answer[h] = Pending
    BY <1>3 DEF BadID, EnterID, FetchPassword, WrongPassword, RightPassword,
                StudentCommand, ListOrHelp, ListOne, Line, Command
  <2>3. Write(h, Book!Plain("text")) \/ UNCHANGED answer
    BY <1>3 DEF BadID, EnterID, FetchPassword, WrongPassword, RightPassword,
                StudentCommand, ListOrHelp, ListOne, Take, Finish
  <2>4. Book!Read(h) \/ UNCHANGED answer
    BY <2>1, <2>2, <2>3 DEF Write, Book!Read, Book!Answers
  <2>5. QED
    BY <2>1, <2>4 DEF Book!Next
<1>4. ASSUME NEW h \in Handler, Register(h) \/ Change(h) \/ TwoWords(h)
      PROVE  Goal
  <2>1. UNCHANGED <<students, board>> /\ answer[h] = Pending
    BY <1>4 DEF Register, Change, TwoWords, Command, Line, database
  <2>2. \/ UNCHANGED answer
        \/ \E word \in Book!Word :
             \/ Found(word) /\ Write(h, Book!Says("already", word))
             \/ NotFound(word) /\ Write(h, Book!Says("notfound", word))
    BY <1>4 DEF Register, Change, TwoWords, Finish, Proceed, Take
  <2>3. \/ UNCHANGED answer
        \/ \E word \in Book!Word :
             Book!RefuseTaken(h, word) \/ Book!RefuseAbsent(h, word)
    BY <2>1, <2>2 DEF Write, Found, NotFound, Book!RefuseTaken,
                      Book!RefuseAbsent, Book!Answers
  <2>4. QED
    BY <2>1, <2>3 DEF Book!Next
<1>5. ASSUME NEW h \in Handler,
             \/ Insert(h)
             \/ Update(h)
             \/ Delete(h)
      PROVE  Goal
  <2>1. arg[h] \in Book!Word /\ answer[h] = Pending
    BY <1>5 DEF Insert, Update, Delete
  <2>2. PICK what \in {"registered", "changed", "deleted"} :
          /\ Execute(h, what)
          /\ what = "registered" => pc[h] = "insert"
          /\ what = "changed" => pc[h] = "update"
          /\ what = "deleted" => pc[h] = "delete"
    BY <1>5 DEF Insert, Update, Delete
  <2>3. UNCHANGED board
    BY <2>2 DEF Execute
  <2>4. CASE students' \in Effects(h) /\ Write(h, Book!Says(what, arg[h]))
    <3>1. Book!Answers(h, Book!Says(what, arg[h]))
      BY <2>1, <2>4 DEF Write, Book!Answers
    <3>2. \/ Book!Register(h, arg[h])
          \/ Book!Change(h, arg[h])
          \/ Book!Delete(h, arg[h])
      BY <2>2, <2>3, <2>4, <3>1, EffectsOf
         DEF Book!Register, Book!Change, Book!Delete
    <3> QED
      BY <2>1, <3>2 DEF Book!Next
  <2>5. CASE /\ students' \in {students} \cup Effects(h)
             /\ Write(h, Book!Says("err", arg[h]))
    <3>1. Book!Fail(h, arg[h])
      BY <2>1, <2>3, <2>5, FailsCommand DEF Write
    <3> QED
      BY <2>1, <3>1 DEF Book!Next
  <2> QED
    BY <2>2, <2>4, <2>5 DEF Execute, Finish
<1>6. ASSUME NEW h \in Handler, Notice(h)
      PROVE  Goal
  <2>1. answer[h] = Pending /\ UNCHANGED students
    BY <1>6 DEF Notice, Command, Line
  <2>2. \/ board' = "posted" /\ Write(h, Book!Plain("noticed"))
        \/ board' \in {board, "posted"} /\ Write(h, Book!Plain("err"))
    BY <1>6 DEF Notice, Finish
  <2>3. Book!Notice(h) \/ Book!FailNotice(h)
    BY <2>1, <2>2 DEF Write, Book!Notice, Book!FailNotice, Book!Answers
  <2>4. QED
    BY <2>3 DEF Book!Next
<1>7. ASSUME NEW h \in Handler, Upload(h) \/ TooFewWords(h)
      PROVE  Goal
  <2>1. UNCHANGED <<students, board>> /\ answer[h] = Pending
    BY <1>7 DEF Upload, TooFewWords, Command, Line, database
  <2>2. \/ UNCHANGED answer
        \/ Write(h, Book!Plain("text"))
        \/ Write(h, Book!Plain("err"))
    BY <1>7 DEF Upload, TooFewWords, Finish, Take
  <2>3. Book!Read(h) \/ Book!FailNotice(h) \/ UNCHANGED answer
    BY <2>1, <2>2 DEF Write, Book!Read, Book!FailNotice, Book!Answers
  <2>4. QED
    BY <2>1, <2>3 DEF Book!Next
<1>8. ASSUME NEW h \in Handler, Crash(h)
      PROVE  Goal
  <2>1. CASE /\ students' \in Effects(h)
             /\ answer' = [answer EXCEPT ![h] = Book!Says("lost", arg[h])]
             /\ UNCHANGED board
    <3>1. pc[h] \in {"insert", "update", "delete"} /\ arg[h] \in Book!Word
      BY <2>1, EffectsTyped
    <3>2. answer[h] = Pending
      BY <3>1
    <3>3. Book!Fail(h, arg[h])
      BY <2>1, <3>2, FailsCommand
    <3> QED
      BY <3>1, <3>3 DEF Book!Next
  <2>2. CASE /\ Command(h)
             /\ board' = "posted"
             /\ answer' = [answer EXCEPT ![h] = Book!Plain("lost")]
             /\ UNCHANGED students
    <3>1. answer[h] = Pending
      BY <2>2 DEF Command, Line
    <3>2. Book!FailNotice(h)
      BY <2>2, <3>1 DEF Book!FailNotice, Book!Answers
    <3> QED
      BY <3>2 DEF Book!Next
  <2> QED
    BY <1>8, <2>1, <2>2 DEF Crash, database
<1>9. CASE UNCHANGED vars
  BY <1>9 DEF vars
<1>10. QED
  BY <1>1, <1>2, <1>3, <1>4, <1>5, <1>6, <1>7, <1>8, <1>9
     DEF Next, Step, LoginStep, CommandStep

(* Whatever the number of sessions, however their SQL statements           *)
(* interleave and fail, and wherever a session ends, before the answer to  *)
(* a statement that has taken effect, too: the table and the answers       *)
(* change as if every command were carried out at once, and what was not   *)
(* acknowledged may have been (handleInstructor and handleStudent).        *)
THEOREM SessionsImplementGradebook == Spec => ImplementsGradebook
<1>1. Init => Book!Init
  BY SessionsAssumption DEF Init, Book!Init
<1>2. IInv /\ [Next]_vars => [Book!Next]_<<students, board, answer>>
  BY StepImplements DEF IInv
<1>3. QED
  BY Invariance, <1>1, <1>2, PTL DEF Spec, Book!Spec, ImplementsGradebook

-----------------------------------------------------------------------------
(* No other step of a session leaves a line taken when it goes back to     *)
(* read().                                                                 *)
LEMMA WaitStep ==
  ASSUME TypeOK, InStep, [Next]_vars, NEW h \in Handler, ~BothWait(h), BothWait(h)'
  PROVE  NoGreeting(h)
<1> USE DEF TypeOK, InStep, Reading, Executing, BothWait
<1>1. ASSUME NEW d \in Handler, LoginStep(d)
      PROVE  NoGreeting(h)
  <2>1. CASE RightPassword(d)
    BY <1>1, <2>1 DEF RightPassword, Line, Take, Write, Goto, NoGreeting
  <2>2. CASE ~RightPassword(d)
    BY <1>1, <2>2 DEF LoginStep, BadID, EnterID, FetchPassword,
              WrongPassword, DecryptThrows, Line, Take, Write, Goto
  <2> QED
    BY <2>1, <2>2
<1>2. ASSUME NEW d \in Handler, CommandStep(d)
      PROVE  FALSE
  BY <1>2 DEF CommandStep, StudentCommand, ListOrHelp, Register, Insert,
              Change, Update, Execute, Notice, TwoWords, Delete, ListOne,
              Upload, TooFewWords, Command, Line, Finish, Proceed, Take,
              Write, Goto
<1>3. ASSUME NEW d \in Handler, Send(d) \/ Quit(d) \/ HangUp(d) \/ Crash(d)
      PROVE  FALSE
  BY <1>3 DEF Send, Quit, HangUp, Crash, Goto
<1> QED
  <2>1. ~UNCHANGED vars
    BY DEF vars
  <2> QED
    BY <1>1, <1>2, <1>3, <2>1 DEF Next, Step

(* Every path of a session from a line read back to read() writes at least *)
(* a byte, so that client and session never come to wait for each other,   *)
(* except for one: the greeting of a student who logs in while nobody has  *)
(* posted a notification (handle.cpp:118-127).                             *)
THEOREM OnlyNoGreetingHangs == Spec => MutualWaitOnlyByNoGreeting
<1>1. IInv /\ [Next]_vars =>
        [\A h \in Handler : ~BothWait(h) /\ BothWait(h)' => NoGreeting(h)]_vars
  BY WaitStep DEF IInv
<1>2. QED
  BY Invariance, <1>1, PTL DEF Spec, MutualWaitOnlyByNoGreeting

-----------------------------------------------------------------------------
(* What a statement makes of the records, for the session that runs it.    *)
Writes(h) ==
  /\ h \in InsHandler
  /\ pc[h] \in {"insert", "update", "delete"} /\ pc'[h] \in {"command", "ended"}
  /\ arg[h] # OtherText =>
       \A id \in StudentID : students'[id] # students[id] =>
         arg[h] = id /\ OwnColumnOnly(h, id)

(* The effect of a plain command is on one record, of a change in one      *)
(* column.                                                                 *)
LEMMA EffectsLocal ==
  ASSUME students \in Book!Table, NEW id \in StudentID, NEW k, NEW g,
         NEW other \in StudentID
  PROVE  /\ other # id => /\ Book!Registered(id)[other] = students[other]
                          /\ Book!Deleted(id)[other] = students[other]
                          /\ Book!Changed(id, k, g)[other] = students[other]
         /\ Book!Deleted(id)[id] = NoRow
         /\ students[id] # NoRow =>
              /\ Book!Changed(id, k, g)[id].pwd = students[id].pwd
              /\ \A c \in Teacher \ {k} :
                   Book!Changed(id, k, g)[id].grade[c] = students[id].grade[c]
<1>1. students \in [StudentID -> Book!Row \cup {NoRow}]
  BY DEF Book!Table
<1>2. other # id => /\ Book!Registered(id)[other] = students[other]
                    /\ Book!Deleted(id)[other] = students[other]
                    /\ Book!Changed(id, k, g)[other] = students[other]
  BY <1>1 DEF Book!Registered, Book!Deleted, Book!Changed
<1>3. Book!Deleted(id)[id] = NoRow
  BY <1>1 DEF Book!Deleted
<1>4. ASSUME students[id] # NoRow
      PROVE  /\ Book!Changed(id, k, g)[id].pwd = students[id].pwd
             /\ \A c \in Teacher \ {k} :
                  Book!Changed(id, k, g)[id].grade[c] = students[id].grade[c]
  <2>1. students[id] \in [pwd : {OwnPwd, DefaultPwd}, grade : [Teacher -> Grade]]
    BY <1>1, <1>4 DEF Book!Row
  <2>2. Book!Changed(id, k, g)[id] = [students[id] EXCEPT !.grade[k] = g]
    BY <1>1, <1>4 DEF Book!Changed
  <2> QED
    BY <2>1, <2>2
<1> QED
  BY <1>2, <1>3, <1>4

(* Only three statements change a record, and in no other way.             *)
LEMMA RecordWrites ==
  ASSUME TypeOK, ReadOnly, [Next]_vars, students' # students
  PROVE  \E h \in Handler : Writes(h)
<1>1. PICK h \in Handler : Insert(h) \/ Update(h) \/ Delete(h) \/ Crash(h)
  BY DEF Next, Step, LoginStep, CommandStep, vars, database, Send, Quit, BadID,
         EnterID, FetchPassword, WrongPassword, RightPassword, DecryptThrows,
         StudentCommand, ListOrHelp, Register, Change, Notice, TwoWords,
         ListOne, Upload, TooFewWords, HangUp
<1>2. students' \in Effects(h)
  BY <1>1 DEF Insert, Update, Delete, Execute, Crash, database
<1>3. /\ h \in InsHandler /\ arg[h] \in Book!Word
      /\ pc[h] \in {"insert", "update", "delete"}
  BY <1>2, EffectsTyped DEF TypeOK, ReadOnly, Handler, Executing
<1>4. pc'[h] \in {"command", "ended"}
  BY <1>1 DEF TypeOK, Insert, Update, Delete, Execute, Crash, Finish, Goto
<1>5. ASSUME arg[h] # OtherText, NEW id \in StudentID, students'[id] # students[id]
      PROVE  arg[h] = id /\ OwnColumnOnly(h, id)
  <2>1. arg[h] \in StudentID
    BY <1>3, <1>5 DEF Book!Word
  <2>2. \/ students[arg[h]] = NoRow /\ students' = Book!Registered(arg[h])
        \/ \E g \in Grade : students' = Book!Changed(arg[h], who[h], g)
        \/ students' = Book!Deleted(arg[h])
    BY <1>2, <1>5, <2>1, EffectsOf
       DEF Book!AfterRegister, Book!AfterChange, Book!AfterDelete, Book!Rows
  <2>3. arg[h] = id
    <3>1. students \in Book!Table
      BY DEF TypeOK
    <3>2. id # arg[h] =>
            /\ Book!Registered(arg[h])[id] = students[id]
            /\ Book!Deleted(arg[h])[id] = students[id]
            /\ \A g \in Grade : Book!Changed(arg[h], who[h], g)[id] = students[id]
      BY <2>1, <3>1, EffectsLocal
    <3> QED
      BY <1>5, <2>2, <3>2
  <2>4. ASSUME students[id] # NoRow, students'[id] # NoRow
        PROVE  /\ students'[id].pwd = students[id].pwd
               /\ \A k \in Teacher \ {who[h]} :
                    students'[id].grade[k] = students[id].grade[k]
    <3>1. PICK g \in Grade : students' = Book!Changed(id, who[h], g)
      BY <2>2, <2>3, <2>4, EffectsLocal DEF TypeOK
    <3> QED
      BY <2>4, <3>1, EffectsLocal DEF TypeOK
  <2> QED
    BY <2>3, <2>4 DEF OwnColumnOnly
<1> QED
  BY <1>3, <1>4, <1>5 DEF Writes

(* Whatever the sessions do at the same time, and wherever they end: every *)
(* write to the records and to the board is one that its instructor was    *)
(* let in for, and, of a command in plain words, leaves other records and  *)
(* other instructors' grades alone (the commands of handleInstructor).     *)
THEOREM OnlyAuthorizedWrites == Spec => WritesAuthorized
<1> DEFINE
      ToStudent(id) ==
        \E h \in InsHandler :
          /\ pc[h] \in {"insert", "update", "delete"}
          /\ pc'[h] \in {"command", "ended"}
          /\ Authorized(h)
          /\ arg[h] # OtherText => arg[h] = id /\ OwnColumnOnly(h, id)
      ToBoard ==
        \E h \in InsHandler :
          /\ pc[h] = "command" /\ answer[h] = Pending
          /\ answer'[h] \in {Book!Plain(t) : t \in {"noticed", "err", "lost"}}
          /\ Authorized(h)
<1>1. ASSUME IInv, [Next]_vars, NEW id \in StudentID, students'[id] # students[id]
      PROVE  ToStudent(id)
  <2>1. PICK h \in Handler : Writes(h)
    BY <1>1, RecordWrites DEF IInv
  <2>2. Authorized(h)
    BY <1>1, <2>1 DEF Writes, IInv, Vouched, PastFetch, Executing
  <2> QED
    BY <1>1, <2>1, <2>2 DEF Writes
<1>2. ASSUME IInv, [Next]_vars, board' # board
      PROVE  ToBoard
  <2>1. PICK h \in Handler : Notice(h) \/ Crash(h)
    BY <1>2
       DEF Next, Step, LoginStep, CommandStep, vars, database, Send, Quit,
           BadID, EnterID, FetchPassword, WrongPassword, RightPassword,
           DecryptThrows, StudentCommand, ListOrHelp, Register, Insert,
           Change, Update, Delete, Execute, TwoWords, ListOne, Upload,
           TooFewWords, HangUp
  <2>2. Command(h)
    BY <1>2, <2>1 DEF Notice, Crash, database
  <2>3. h \in InsHandler /\ pc[h] = "command" /\ answer[h] = Pending
    BY <1>2, <2>2 DEF Command, Line, IInv, InStep
  <2>4. answer'[h] \in {Book!Plain(t) : t \in {"noticed", "err", "lost"}}
    BY <1>2, <2>1 DEF Notice, Crash, Finish, Write, database, IInv, TypeOK
  <2>5. Authorized(h)
    BY <1>2, <2>3 DEF IInv, Vouched, PastFetch
  <2> QED
    BY <2>3, <2>4, <2>5
<1>3. IInv /\ [Next]_vars =>
        [/\ \A id \in StudentID : students'[id] # students[id] => ToStudent(id)
         /\ board' # board => ToBoard]_vars
  BY <1>1, <1>2
<1>4. QED
  BY Invariance, <1>3, PTL DEF Spec, WritesAuthorized
=============================================================================
