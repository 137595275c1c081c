---------------------------- MODULE ServerProofs ----------------------------
(***************************************************************************)
(* Proofs about module Server, for any set of connections, any queue       *)
(* length and any number of failures.                                      *)
(*                                                                         *)
(* The safety properties are not inductive one by one.  Which sockets a    *)
(* child gets depends on what main has open at the fork, so Isolation      *)
(* needs main's descriptors at each place of its loop; and that main forks *)
(* once per connection needs the connections that wait in the kernel's     *)
(* queue to be distinct and to have no handler yet.                        *)
(***************************************************************************)
EXTENDS Server, TLAPS

(* What main has open, and what ssock holds, at each place of its loop.    *)
MainHolds ==
  /\ pc = "accept" => ssock = NoClient /\ mainFds = {Listener}
  /\ pc \in {"fork", "close"} => ssock \in Client /\ mainFds = {Listener, ssock}
  /\ pc = "exited" => ssock = NoClient /\ mainFds = {} /\ ~reaping

(* What the processes forked for a connection have open.                   *)
ChildrenHold ==
  \A c \in Client :
    /\ handlerFds[c] \subseteq {c, Listener}
    /\ handler[c] # "start" => handlerFds[c] \subseteq {c}
    /\ handler[c] \in Running => c \in handlerFds[c]
    /\ handler[c] \notin Running => handlerFds[c] = {}
    /\ senderFds[c] =
         IF sender[c] \in {"starting", "serving"} THEN {c} ELSE {}

(* Connections that have not been forked for are distinct and untouched.   *)
NotYetForked ==
  /\ \A i, j \in 1 .. Len(backlog) : backlog[i] = backlog[j] => i = j
  /\ \A i \in 1 .. Len(backlog) :
       /\ handler[backlog[i]] = "none"
       /\ client[backlog[i]] # "idle"
       /\ pc = "fork" => backlog[i] # ssock
  /\ pc = "fork" => handler[ssock] = "none" /\ client[ssock] # "idle"
  /\ \A c \in Client : client[c] = "idle" => handler[c] = "none"

(* While main runs it knows of its zombies; after that there are none.     *)
ZombiesKnown ==
  \A c \in Client :
    handler[c] = "zombie" => pc # "exited" /\ (sigchld \/ reaping)

IInv == TypeOK /\ MainHolds /\ ChildrenHold /\ NotYetForked /\ ZombiesKnown

-----------------------------------------------------------------------------
(* The initial states satisfy the invariant.                               *)
LEMMA InitIInv == Init => IInv
<1> SUFFICES ASSUME Init
             PROVE  IInv
    OBVIOUS
<1> USE ServerAssumption DEF Init
<1>1. backlog \in Seq(Client) /\ Len(backlog) = 0
  OBVIOUS
<1>2. Len(backlog) <= QLen /\ faults \in 0 .. MaxFaults
  BY <1>1
<1>3. TypeOK
  BY <1>1, <1>2 DEF TypeOK, HandlerState
<1>4. MainHolds /\ ChildrenHold /\ ZombiesKnown
  BY DEF MainHolds, ChildrenHold, ZombiesKnown, Running
<1>5. NotYetForked
  BY <1>1 DEF NotYetForked
<1>6. QED
  BY <1>3, <1>4, <1>5 DEF IInv

(* Every step keeps every variable in its type.                            *)
LEMMA TypeStep ==
  ASSUME IInv, [Next]_vars
  PROVE  TypeOK'
<1> USE ServerAssumption DEF HandlerState, Running
<1> TypeOK
  BY DEF IInv
<1>a. pc \in {"fork", "close"} => ssock \in Client
  BY DEF IInv, MainHolds
<1>1. CASE Accept
  BY <1>1 DEF TypeOK, Accept, mainVars, procVars
<1>2. CASE Fork
  BY <1>2 DEF TypeOK, Fork, mainVars, procVars
<1>3. CASE CloseSlave
  BY <1>3, <1>a DEF TypeOK, Linger, CloseSlave, mainVars, procVars
<1>4. CASE MainFails
  <2>1. backlog' \in Seq(Client) /\ Len(backlog') <= QLen
    BY <1>4 DEF MainFails
  <2>2. faults' \in 0 .. MaxFaults
    BY <1>4 DEF TypeOK, MainFails
  <2>3. client' \in [Client -> {"idle", "open", "closed"}]
    BY <1>4 DEF TypeOK, MainFails
  <2>4. handler' \in [Client -> HandlerState]
    BY <1>4 DEF TypeOK, MainFails
  <2>5. /\ pc' = "exited" /\ ssock' = NoClient /\ mainFds' = {}
        /\ reaping' = reaping /\ sigchld' = FALSE
        /\ UNCHANGED <<sender, handlerFds, senderFds>>
    BY <1>4 DEF MainFails
  <2>6. lingering' \subseteq Client
    BY <1>4, <1>a DEF TypeOK, MainFails, Linger
  <2>7. QED
    BY <2>1, <2>2, <2>3, <2>4, <2>5, <2>6 DEF TypeOK
<1>5. CASE Restart
  BY <1>5 DEF TypeOK, Restart, BindFree, HeldSockets, mainVars, procVars
<1>6. CASE Signal
  BY <1>6 DEF TypeOK, Signal, mainVars, procVars
<1>7. CASE ReaperReturns
  BY <1>7 DEF TypeOK, ReaperReturns, NoChildLeft, mainVars, procVars
<1>8. ASSUME NEW c \in Client, Connect(c)
      PROVE  TypeOK'
  BY <1>8 DEF TypeOK, Connect, mainVars, procVars
<1>9. ASSUME NEW c \in Client, Leave(c)
      PROVE  TypeOK'
  BY <1>9 DEF TypeOK, Leave, mainVars, procVars
<1>10. ASSUME NEW c \in Client, Reap(c)
      PROVE  TypeOK'
  BY <1>10 DEF TypeOK, Reap, mainVars, procVars
<1>11. ASSUME NEW c \in Client, CloseListener(c)
      PROVE  TypeOK'
  BY <1>11 DEF TypeOK, CloseListener, mainVars, procVars
<1>12. ASSUME NEW c \in Client, BecomeStudent(c)
      PROVE  TypeOK'
  <2>1. handler' \in [Client -> HandlerState] /\ faults' \in 0 .. MaxFaults
    BY <1>12 DEF TypeOK, BecomeStudent
  <2>2. /\ sender' \in [Client -> {"none", "starting", "serving", "refused"}]
        /\ senderFds' \in [Client -> SUBSET (Client \cup {Listener})]
    BY <1>12 DEF TypeOK, BecomeStudent
  <2>3. UNCHANGED <<mainVars, handlerFds, sigchld, client, lingering>>
    BY <1>12 DEF BecomeStudent
  <2>4. QED
    BY <2>1, <2>2, <2>3 DEF TypeOK, mainVars
<1>13. ASSUME NEW c \in Client, BecomeInstructor(c)
      PROVE  TypeOK'
  BY <1>13 DEF TypeOK, BecomeInstructor, mainVars, procVars
<1>14. ASSUME NEW c \in Client, RejectStranger(c)
      PROVE  TypeOK'
  BY <1>14 DEF TypeOK, Linger, RejectStranger, Exit, mainVars, procVars
<1>15. ASSUME NEW c \in Client, SessionEnds(c)
      PROVE  TypeOK'
  BY <1>15 DEF TypeOK, Linger, SessionEnds, Exit, mainVars, procVars
<1>16. ASSUME NEW c \in Client, HandlerFails(c)
      PROVE  TypeOK'
  BY <1>16 DEF TypeOK, Linger, HandlerFails, Exit, mainVars, procVars
<1>17. ASSUME NEW c \in Client, SenderServes(c)
      PROVE  TypeOK'
  BY <1>17 DEF TypeOK, SenderServes, mainVars, procVars
<1>18. ASSUME NEW c \in Client, SenderGivesUp(c)
      PROVE  TypeOK'
  BY <1>18 DEF TypeOK, Linger, SenderGivesUp, mainVars, procVars
<1>19. ASSUME NEW c \in Client, Expire(c)
      PROVE  TypeOK'
  BY <1>19 DEF TypeOK, Expire, mainVars, procVars
<1>20. CASE UNCHANGED vars
  BY <1>20 DEF TypeOK, vars, mainVars, procVars
<1>21. QED
  BY <1>1, <1>2, <1>3, <1>4, <1>5, <1>6, <1>7, <1>8, <1>9, <1>10, <1>11,
     <1>12, <1>13, <1>14, <1>15, <1>16, <1>17, <1>18, <1>19, <1>20
     DEF Next, HandlerStep

(* What main and its children have open stays as the invariant says.       *)
LEMMA HoldsStep ==
  ASSUME IInv, TypeOK', [Next]_vars
  PROVE  (MainHolds /\ ChildrenHold)'
<1> USE ServerAssumption
    DEF IInv, TypeOK, MainHolds, ChildrenHold, NotYetForked, HandlerState,
        Running
<1>1. CASE Accept
  BY <1>1 DEF Accept, mainVars, procVars
<1>2. CASE Fork
  BY <1>2 DEF Fork, mainVars, procVars
<1>3. CASE CloseSlave
  BY <1>3 DEF CloseSlave, mainVars, procVars
<1>4. CASE MainFails
  BY <1>4 DEF MainFails, mainVars, procVars
<1>5. CASE Restart
  BY <1>5 DEF Restart, mainVars, procVars
<1>6. CASE Signal
  BY <1>6 DEF Signal, mainVars, procVars
<1>7. CASE ReaperReturns
  BY <1>7 DEF ReaperReturns, NoChildLeft, mainVars, procVars
<1>8. ASSUME NEW d \in Client, Connect(d)
      PROVE  (MainHolds /\ ChildrenHold)'
  BY <1>8 DEF Connect, mainVars, procVars
<1>9. ASSUME NEW d \in Client, Leave(d)
      PROVE  (MainHolds /\ ChildrenHold)'
  BY <1>9 DEF Leave, mainVars, procVars
<1>10. ASSUME NEW d \in Client, Reap(d)
      PROVE  (MainHolds /\ ChildrenHold)'
  BY <1>10 DEF Reap, mainVars, procVars
<1>11. ASSUME NEW d \in Client, CloseListener(d)
      PROVE  (MainHolds /\ ChildrenHold)'
  BY <1>11 DEF CloseListener, mainVars, procVars
<1>12. ASSUME NEW d \in Client, BecomeStudent(d)
      PROVE  (MainHolds /\ ChildrenHold)'
  BY <1>12 DEF BecomeStudent, mainVars, procVars
<1>13. ASSUME NEW d \in Client, BecomeInstructor(d)
      PROVE  (MainHolds /\ ChildrenHold)'
  BY <1>13 DEF BecomeInstructor, mainVars, procVars
<1>14. ASSUME NEW d \in Client, RejectStranger(d)
      PROVE  (MainHolds /\ ChildrenHold)'
  BY <1>14 DEF RejectStranger, Exit, mainVars, procVars
<1>15. ASSUME NEW d \in Client, SessionEnds(d)
      PROVE  (MainHolds /\ ChildrenHold)'
  BY <1>15 DEF SessionEnds, Exit, mainVars, procVars
<1>16. ASSUME NEW d \in Client, HandlerFails(d)
      PROVE  (MainHolds /\ ChildrenHold)'
  BY <1>16 DEF HandlerFails, Exit, mainVars, procVars
<1>17. ASSUME NEW d \in Client, SenderServes(d)
      PROVE  (MainHolds /\ ChildrenHold)'
  BY <1>17 DEF SenderServes, mainVars, procVars
<1>18. ASSUME NEW d \in Client, SenderGivesUp(d)
      PROVE  (MainHolds /\ ChildrenHold)'
  <2>1. sender' = [sender EXCEPT ![d] = "refused"]
    BY <1>18 DEF SenderGivesUp
  <2>2. senderFds' = [senderFds EXCEPT ![d] = {}]
    BY <1>18 DEF SenderGivesUp
  <2>3. UNCHANGED <<mainVars, handler, handlerFds>>
    BY <1>18 DEF SenderGivesUp
  <2>4. MainHolds'
    BY <2>3 DEF mainVars
  <2>5. ASSUME NEW c \in Client
        PROVE  senderFds'[c] = IF sender'[c] \in {"starting", "serving"}
                               THEN {c} ELSE {}
    <3>1. CASE c = d
      BY <2>1, <2>2, <3>1
    <3>2. CASE c # d
      <4>1. sender'[c] = sender[c] /\ senderFds'[c] = senderFds[c]
        BY <2>1, <2>2, <3>2
      <4> QED
        BY <4>1
    <3> QED
      BY <3>1, <3>2
  <2>6. ChildrenHold'
    BY <2>3, <2>5
  <2> QED
    BY <2>4, <2>6
<1>19. ASSUME NEW d \in Client, Expire(d)
      PROVE  (MainHolds /\ ChildrenHold)'
  BY <1>19 DEF Expire, mainVars, procVars
<1>20. CASE UNCHANGED vars
  BY <1>20 DEF vars, mainVars, procVars
<1>21. QED
  BY <1>1, <1>2, <1>3, <1>4, <1>5, <1>6, <1>7, <1>8, <1>9, <1>10,
     <1>11, <1>12, <1>13, <1>14, <1>15, <1>16, <1>17, <1>18, <1>19, <1>20
     DEF Next, HandlerStep

(* Only accept() takes a connection out of the queue, and only once.       *)
LEMMA NotYetForkedStep ==
  ASSUME IInv, TypeOK', [Next]_vars
  PROVE  NotYetForked'
<1> USE ServerAssumption
    DEF IInv, TypeOK, NotYetForked, MainHolds, HandlerState, Running
<1>1. CASE Accept
  BY <1>1 DEF Accept, mainVars, procVars
<1>2. CASE Fork
  BY <1>2 DEF Fork, mainVars, procVars
<1>3. CASE CloseSlave
  BY <1>3 DEF CloseSlave, mainVars, procVars
<1>4. CASE MainFails
  BY <1>4 DEF MainFails, mainVars, procVars
<1>5. CASE Restart
  BY <1>5 DEF Restart, mainVars, procVars
<1>6. CASE Signal
  BY <1>6 DEF Signal, mainVars, procVars
<1>7. CASE ReaperReturns
  BY <1>7 DEF ReaperReturns, NoChildLeft, mainVars, procVars
<1>8. ASSUME NEW d \in Client, Connect(d)
      PROVE  NotYetForked'
  BY <1>8 DEF Connect, mainVars, procVars
<1>9. ASSUME NEW d \in Client, Leave(d)
      PROVE  NotYetForked'
  BY <1>9 DEF Leave, mainVars, procVars
<1>10. ASSUME NEW d \in Client, Reap(d)
      PROVE  NotYetForked'
  BY <1>10 DEF Reap, mainVars, procVars
<1>11. ASSUME NEW d \in Client, CloseListener(d)
      PROVE  NotYetForked'
  BY <1>11 DEF CloseListener, mainVars, procVars
<1>12. ASSUME NEW d \in Client, BecomeStudent(d)
      PROVE  NotYetForked'
  BY <1>12 DEF BecomeStudent, mainVars, procVars
<1>13. ASSUME NEW d \in Client, BecomeInstructor(d)
      PROVE  NotYetForked'
  BY <1>13 DEF BecomeInstructor, mainVars, procVars
<1>14. ASSUME NEW d \in Client, RejectStranger(d)
      PROVE  NotYetForked'
  BY <1>14 DEF RejectStranger, Exit, mainVars, procVars
<1>15. ASSUME NEW d \in Client, SessionEnds(d)
      PROVE  NotYetForked'
  BY <1>15 DEF SessionEnds, Exit, mainVars, procVars
<1>16. ASSUME NEW d \in Client, HandlerFails(d)
      PROVE  NotYetForked'
  BY <1>16 DEF HandlerFails, Exit, mainVars, procVars
<1>17. ASSUME NEW d \in Client, SenderServes(d)
      PROVE  NotYetForked'
  BY <1>17 DEF SenderServes, mainVars, procVars
<1>18. ASSUME NEW d \in Client, SenderGivesUp(d)
      PROVE  NotYetForked'
  BY <1>18 DEF SenderGivesUp, mainVars, procVars
<1>19. ASSUME NEW d \in Client, Expire(d)
      PROVE  NotYetForked'
  BY <1>19 DEF Expire, mainVars, procVars
<1>20. CASE UNCHANGED vars
  BY <1>20 DEF vars, mainVars, procVars
<1>21. QED
  BY <1>1, <1>2, <1>3, <1>4, <1>5, <1>6, <1>7, <1>8, <1>9, <1>10,
     <1>11, <1>12, <1>13, <1>14, <1>15, <1>16, <1>17, <1>18, <1>19, <1>20
     DEF Next, HandlerStep

(* Every exit of a child is announced to main, or happens after main.      *)
LEMMA ZombiesStep ==
  ASSUME IInv, TypeOK', [Next]_vars
  PROVE  ZombiesKnown'
<1> USE ServerAssumption
    DEF IInv, TypeOK, ZombiesKnown, MainHolds, HandlerState, Running
<1>1. CASE Accept
  BY <1>1 DEF Accept, mainVars, procVars
<1>2. CASE Fork
  BY <1>2 DEF Fork, mainVars, procVars
<1>3. CASE CloseSlave
  BY <1>3 DEF CloseSlave, mainVars, procVars
<1>4. CASE MainFails
  BY <1>4 DEF MainFails, mainVars, procVars
<1>5. CASE Restart
  BY <1>5 DEF Restart, mainVars, procVars
<1>6. CASE Signal
  BY <1>6 DEF Signal, mainVars, procVars
<1>7. CASE ReaperReturns
  BY <1>7 DEF ReaperReturns, NoChildLeft, mainVars, procVars
<1>8. ASSUME NEW d \in Client, Connect(d)
      PROVE  ZombiesKnown'
  BY <1>8 DEF Connect, mainVars, procVars
<1>9. ASSUME NEW d \in Client, Leave(d)
      PROVE  ZombiesKnown'
  BY <1>9 DEF Leave, mainVars, procVars
<1>10. ASSUME NEW d \in Client, Reap(d)
      PROVE  ZombiesKnown'
  BY <1>10 DEF Reap, mainVars, procVars
<1>11. ASSUME NEW d \in Client, CloseListener(d)
      PROVE  ZombiesKnown'
  BY <1>11 DEF CloseListener, mainVars, procVars
<1>12. ASSUME NEW d \in Client, BecomeStudent(d)
      PROVE  ZombiesKnown'
  BY <1>12 DEF BecomeStudent, mainVars, procVars
<1>13. ASSUME NEW d \in Client, BecomeInstructor(d)
      PROVE  ZombiesKnown'
  BY <1>13 DEF BecomeInstructor, mainVars, procVars
<1>14. ASSUME NEW d \in Client, RejectStranger(d)
      PROVE  ZombiesKnown'
  BY <1>14 DEF RejectStranger, Exit, mainVars, procVars
<1>15. ASSUME NEW d \in Client, SessionEnds(d)
      PROVE  ZombiesKnown'
  BY <1>15 DEF SessionEnds, Exit, mainVars, procVars
<1>16. ASSUME NEW d \in Client, HandlerFails(d)
      PROVE  ZombiesKnown'
  BY <1>16 DEF HandlerFails, Exit, mainVars, procVars
<1>17. ASSUME NEW d \in Client, SenderServes(d)
      PROVE  ZombiesKnown'
  BY <1>17 DEF SenderServes, mainVars, procVars
<1>18. ASSUME NEW d \in Client, SenderGivesUp(d)
      PROVE  ZombiesKnown'
  BY <1>18 DEF SenderGivesUp, mainVars, procVars
<1>19. ASSUME NEW d \in Client, Expire(d)
      PROVE  ZombiesKnown'
  BY <1>19 DEF Expire, mainVars, procVars
<1>20. CASE UNCHANGED vars
  BY <1>20 DEF vars, mainVars, procVars
<1>21. QED
  BY <1>1, <1>2, <1>3, <1>4, <1>5, <1>6, <1>7, <1>8, <1>9, <1>10,
     <1>11, <1>12, <1>13, <1>14, <1>15, <1>16, <1>17, <1>18, <1>19, <1>20
     DEF Next, HandlerStep

-----------------------------------------------------------------------------
(* IInv is an inductive invariant of the specification.                    *)
THEOREM Invariance == Spec => []IInv
<1>1. IInv /\ [Next]_vars => IInv'
  <2> SUFFICES ASSUME IInv, [Next]_vars
               PROVE  IInv'
    OBVIOUS
  <2>1. TypeOK'
    BY TypeStep DEF IInv
  <2>2. QED
    BY <2>1, HoldsStep, NotYetForkedStep, ZombiesStep DEF IInv
<1>2. QED
  BY InitIInv, <1>1, PTL DEF Spec

(* Every variable always has its type, and the kernel's queue never holds  *)
(* more connections than its length (the listen() of main).                *)
THEOREM TypeCorrect == Spec => []TypeOK
<1>1. IInv => TypeOK
  BY DEF IInv
<1>2. QED
  BY Invariance, <1>1, PTL

(* Whatever the number of connections and the order of forks and exits, no *)
(* session's process holds a socket of another one (the close() calls of   *)
(* main's fork/close step).                                                *)
THEOREM SessionsIsolated == Spec => []Isolation
<1>1. IInv => Isolation
  BY DEF IInv, MainHolds, ChildrenHold, Isolation
<1>2. QED
  BY Invariance, <1>1, PTL

(* Coalescing SIGCHLDs never strand an exited handler (the loop in         *)
(* reaper()).                                                              *)
THEOREM ZombiesCollected == Spec => []NoLostZombie
<1>1. IInv => NoLostZombie
  BY DEF IInv, ZombiesKnown, NoLostZombie
<1>2. QED
  BY Invariance, <1>1, PTL

(* A connection is forked for at most once, and the process forked for it  *)
(* has it open for as long as it runs (main's accept/fork/close loop).     *)
THEOREM ConnectionsHandedOverOnce == Spec => []HandedOverOnce
<1>1. IInv => HandedOverOnce
  BY DEF IInv, NotYetForked, ChildrenHold, HandedOverOnce
<1>2. QED
  BY Invariance, <1>1, PTL

(* The port is free when no process has a socket and the kernel keeps no   *)
(* closed connection.                                                      *)
LEMMA NobodyHolds ==
  BindFree <=>
    /\ lingering = {}
    /\ mainFds = {}
    /\ \A c \in Client : handlerFds[c] = {} /\ senderFds[c] = {}
BY DEF BindFree, HeldSockets

(* A new server can be started exactly when nobody of the last is left and *)
(* the kernel keeps none of its connections (passivesock.cpp, without      *)
(* SO_REUSEADDR, and the close() calls on every way a process can end).    *)
THEOREM RestartableExactly == Spec => []RestartableOnceAlone
<1>1. IInv => RestartableOnceAlone
  <2> SUFFICES ASSUME IInv, pc = "exited"
               PROVE  BindFree <=> \A c \in Client :
                                     /\ handler[c] \notin Running
                                     /\ sender[c] \notin {"starting", "serving"}
                                     /\ c \notin lingering
    BY DEF RestartableOnceAlone
  <2>1. BindFree <=> /\ lingering = {}
                     /\ \A c \in Client : handlerFds[c] = {} /\ senderFds[c] = {}
    BY NobodyHolds DEF IInv, MainHolds
  <2>2. \A c \in Client :
          /\ handlerFds[c] = {} <=> handler[c] \notin Running
          /\ senderFds[c] = {} <=> sender[c] \notin {"starting", "serving"}
    BY DEF IInv, ChildrenHold
  <2>3. lingering = {} <=> \A c \in Client : c \notin lingering
    BY DEF IInv, TypeOK
  <2> QED
    BY <2>1, <2>2, <2>3
<1>2. QED
  BY Invariance, <1>1, PTL

-----------------------------------------------------------------------------
(* The abstract specification.                                             *)

(* What the substitution for waiting, seen and serving means.              *)
Seen == {c \in Client : client[c] # "idle"}

Unserved == IF pc = "fork" THEN <<ssock>> \o backlog ELSE backlog

InSession == {c \in Client : handler[c] \in Running}

(* The server opens with nobody in it.                                     *)
LEMMA InitReception == Init => Desk!Init
BY DEF Init, Desk!Init, Running

(* A step that leaves these alone is no step of the reception.             *)
LEMMA Unnoticed ==
  ASSUME UNCHANGED <<Seen, Unserved, InSession>>,
         (pc # "exited") <=> (pc' # "exited"),
         IInv, IInv'
  PROVE  UNCHANGED Desk!vars
BY DEF Desk!vars, Seen, Unserved, InSession

(* The end of a process is the end of a session.                           *)
LEMMA ExitEnds ==
  ASSUME IInv, NEW c \in Client, handler[c] \in Running, Exit(c),
         UNCHANGED <<mainVars, client>>
  PROVE  Desk!End(c)
<1> USE DEF IInv, TypeOK, Running
<1>1. InSession' = InSession \ {c}
  BY DEF Exit, InSession
<1>2. UNCHANGED <<Seen, Unserved, pc>>
  BY DEF mainVars, Seen, Unserved
<1>3. c \in InSession
  BY DEF InSession
<1> QED
  BY <1>1, <1>2, <1>3 DEF Desk!End, Seen, Unserved, InSession

(* Main's hand and the kernel's queue are one queue.                       *)
LEMMA QueueWithHand ==
  ASSUME NEW x \in Client, NEW q \in Seq(Client)
  PROVE  /\ <<x>> \o q # << >>
         /\ Head(<<x>> \o q) = x
         /\ Tail(<<x>> \o q) = q
         /\ Len(<<x>> \o q) = Len(q) + 1
         /\ \A y \in Client : Append(<<x>> \o q, y) = <<x>> \o Append(q, y)
         /\ q # << >> => <<Head(q)>> \o Tail(q) = q
<1>1. <<x>> \o q \in Seq(Client) /\ Len(<<x>> \o q) = Len(q) + 1
  OBVIOUS
<1>2. \A i \in 1 .. Len(q) + 1 :
        (<<x>> \o q)[i] = IF i = 1 THEN x ELSE q[i - 1]
  OBVIOUS
<1>3. Tail(<<x>> \o q) = q
  BY <1>1, <1>2
<1>4. \A y \in Client : Append(<<x>> \o q, y) = <<x>> \o Append(q, y)
  BY <1>1, <1>2
<1>5. q # << >> => <<Head(q)>> \o Tail(q) = q
  OBVIOUS
<1> QED
  BY <1>1, <1>2, <1>3, <1>4, <1>5

(* Every step of the server is one of the reception, or unnoticed.         *)
LEMMA StepReception ==
  ASSUME IInv, IInv', [Next]_vars
  PROVE  [Desk!Next]_(Desk!vars)
<1> USE DEF IInv, TypeOK, Running
<1>1. CASE Accept
  <2>1. Unserved' = Unserved
    <3>1. backlog \in Seq(Client) /\ backlog # << >> /\ Head(backlog) \in Client
      BY <1>1 DEF Accept
    <3>2. Unserved = backlog /\ Unserved' = <<Head(backlog)>> \o Tail(backlog)
      BY <1>1 DEF Accept, Unserved
    <3> QED
      BY <3>1, <3>2, QueueWithHand
  <2> QED
    BY <1>1, <2>1, Unnoticed DEF Accept, procVars, Seen, InSession
<1>2. CASE Fork
  <2>1. /\ pc = "fork" /\ pc' = "close" /\ ssock \in Client
        /\ UNCHANGED <<backlog, client>>
        /\ handler' = [handler EXCEPT ![ssock] = "start"]
    BY <1>2 DEF Fork, MainHolds
  <2>2. /\ Unserved # << >> /\ Head(Unserved) = ssock
        /\ Unserved' = Tail(Unserved)
    BY <2>1, QueueWithHand DEF Unserved
  <2>3. InSession' = InSession \cup {ssock} /\ ssock \notin InSession
    BY <2>1 DEF InSession, NotYetForked
  <2>4. UNCHANGED Seen
    BY <2>1 DEF Seen
  <2>5. Desk!Serve
    BY <2>1, <2>2, <2>3, <2>4 DEF Desk!Serve, Unserved, InSession, Seen
  <2> QED
    BY <2>5 DEF Desk!Next
<1>3. CASE CloseSlave
  BY <1>3, Unnoticed DEF CloseSlave, procVars, Seen, Unserved, InSession
<1>4. CASE MainFails
  <2>1. UNCHANGED <<Seen, InSession>>
    BY <1>4 DEF MainFails, Seen, InSession, NotYetForked
  <2>2. pc # "exited" /\ pc' = "exited" /\ Unserved' = << >>
    BY <1>4 DEF MainFails, Unserved
  <2>3. Desk!Close
    BY <2>1, <2>2 DEF Desk!Close, Seen, InSession, Unserved
  <2> QED
    BY <2>3 DEF Desk!Next
<1>5. CASE Restart
  <2>1. \A c \in Client : handlerFds[c] = {}
    BY <1>5, NobodyHolds DEF Restart
  <2>2. InSession = {}
    BY <2>1 DEF InSession, ChildrenHold
  <2>3. /\ pc = "exited" /\ pc' = "accept"
        /\ UNCHANGED <<Seen, Unserved, InSession>>
    BY <1>5 DEF Restart, procVars, Seen, Unserved, InSession
  <2>4. Desk!Reopen
    BY <2>2, <2>3 DEF Desk!Reopen, Seen, InSession, Unserved
  <2> QED
    BY <2>4 DEF Desk!Next
<1>6. CASE Signal
  BY <1>6, Unnoticed DEF Signal, procVars, Seen, Unserved, InSession
<1>7. CASE ReaperReturns
  BY <1>7, Unnoticed DEF ReaperReturns, procVars, Seen, Unserved, InSession
<1>8. ASSUME NEW c \in Client, Connect(c)
      PROVE  Desk!Arrive(c)
  <2>1. pc # "exited"
    BY <1>8 DEF Connect, MainHolds
  <2>2. c \notin Seen /\ Seen' = Seen \cup {c}
    BY <1>8 DEF Connect, Seen
  <2>3. Unserved' = Append(Unserved, c) /\ Len(Unserved) < QLen + 1
    <3>1. /\ backlog' = Append(backlog, c) /\ Len(backlog) < QLen
          /\ UNCHANGED <<pc, ssock>>
      BY <1>8 DEF Connect
    <3>2. CASE pc = "fork"
      <4>1. /\ Unserved = <<ssock>> \o backlog
            /\ Unserved' = <<ssock>> \o Append(backlog, c)
        BY <3>1, <3>2 DEF Unserved
      <4>2. ssock \in Client /\ backlog \in Seq(Client)
        BY <3>2 DEF MainHolds
      <4>3. /\ Append(<<ssock>> \o backlog, c) = <<ssock>> \o Append(backlog, c)
            /\ Len(<<ssock>> \o backlog) = Len(backlog) + 1
        BY <4>2, QueueWithHand
      <4>4. Len(backlog) \in Nat /\ QLen \in Nat
        BY <4>2, ServerAssumption
      <4> QED
        BY <3>1, <4>1, <4>3, <4>4
    <3>3. CASE pc # "fork"
      BY <3>1, <3>3, ServerAssumption DEF Unserved
    <3> QED
      BY <3>2, <3>3
  <2>4. UNCHANGED <<pc, InSession>>
    BY <1>8 DEF Connect, procVars, InSession
  <2> QED
    BY <2>1, <2>2, <2>3, <2>4 DEF Desk!Arrive, Seen, Unserved, InSession
<1>9. ASSUME NEW c \in Client, Leave(c)
      PROVE  UNCHANGED Desk!vars
  BY <1>9, Unnoticed DEF Leave, mainVars, procVars, Seen, Unserved, InSession
<1>10. ASSUME NEW c \in Client, Reap(c)
       PROVE  UNCHANGED Desk!vars
  BY <1>10, Unnoticed DEF Reap, mainVars, Seen, Unserved, InSession
<1>11. ASSUME NEW c \in Client,
              CloseListener(c) \/ BecomeStudent(c) \/ BecomeInstructor(c)
       PROVE  UNCHANGED Desk!vars
  <2>1. UNCHANGED <<mainVars, client>>
    BY <1>11 DEF CloseListener, BecomeStudent, BecomeInstructor
  <2>2. /\ handler[c] \in Running
        /\ \E place \in Running : handler' = [handler EXCEPT ![c] = place]
    BY <1>11 DEF CloseListener, BecomeStudent, BecomeInstructor
  <2> QED
    BY <2>1, <2>2, Unnoticed DEF mainVars, Seen, Unserved, InSession
<1>12. ASSUME NEW c \in Client,
              RejectStranger(c) \/ SessionEnds(c) \/ HandlerFails(c)
       PROVE  Desk!End(c)
  BY <1>12, ExitEnds DEF RejectStranger, SessionEnds, HandlerFails
<1>13. ASSUME NEW c \in Client, SenderServes(c) \/ SenderGivesUp(c)
       PROVE  UNCHANGED Desk!vars
  BY <1>13, Unnoticed
     DEF SenderServes, SenderGivesUp, mainVars, Seen, Unserved, InSession
<1>14. ASSUME NEW c \in Client, Expire(c)
       PROVE  UNCHANGED Desk!vars
  BY <1>14, Unnoticed DEF Expire, mainVars, procVars, Seen, Unserved, InSession
<1>15. CASE UNCHANGED vars
  BY <1>15, Unnoticed DEF vars, mainVars, procVars, Seen, Unserved, InSession
<1> QED
  BY <1>1, <1>2, <1>3, <1>4, <1>5, <1>6, <1>7, <1>8, <1>9, <1>10, <1>11,
     <1>12, <1>13, <1>14, <1>15
     DEF Next, HandlerStep, Desk!Next

(* Processes, descriptors and signals implement module Reception: nobody   *)
(* is served twice or out of turn, or turned away but by errexit() of main *)
(* (main's accept/fork/close loop).                                        *)
THEOREM ServerImplementsReception == Spec => ImplementsReception
<1>1. Spec => Init /\ [][Next]_vars
  BY PTL DEF Spec
<1>2. IInv /\ IInv' /\ [Next]_vars => [Desk!Next]_(Desk!vars)
  BY StepReception
<1> QED
  BY <1>1, <1>2, InitReception, Invariance, PTL
     DEF ImplementsReception, Desk!Spec
=============================================================================
