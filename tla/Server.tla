------------------------------- MODULE Server -------------------------------
(***************************************************************************)
(* The process structure of the server (Server.cpp, and the fork at the    *)
(* head of handleStudent): main's accept/fork/close loop, the SIGCHLD      *)
(* handler `reaper' that interrupts it, one handler process per connection *)
(* and one file sender process per student connection.                     *)
(*                                                                         *)
(* What a session says to its client is abstracted to when it ends (module *)
(* Sessions has the dialogue).  What is kept is every fork, exit, accept   *)
(* and close, because a descriptor open at a fork is open in the child     *)
(* too, and a connection or a port is released only when no process has    *)
(* it open.                                                                *)
(***************************************************************************)
EXTENDS Naturals, Sequences

CONSTANTS
  Student,     \* connections whose client program sends "STU"
  Instructor,  \* connections whose client program sends "INS"
  Stranger,    \* connections of any other program
  Listener,    \* the listening socket, msock
  NoClient,    \* ssock when it holds no connection
  QLen,        \* length of the kernel's queue of unaccepted connections
  MaxFaults    \* bound on failing system calls and crashing handlers

Client == Student \cup Instructor \cup Stranger

ASSUME ServerAssumption ==
  /\ Listener \notin Client
  /\ NoClient \notin Client \cup {Listener}
  /\ Student \cap Instructor = {}
  /\ Student \cap Stranger = {}
  /\ Instructor \cap Stranger = {}
  /\ QLen \in Nat \ {0}
  /\ MaxFaults \in Nat

VARIABLES
  pc,          \* where main is: "accept", "fork", "close" or "exited"
  ssock,       \* main's local variable of that name
  reaping,     \* main is inside reaper(), on top of wherever pc points
  sigchld,     \* SIGCHLD is pending for main (one bit: signals coalesce)
  backlog,     \* connections waiting to be accepted
  client,      \* state of each client's end of its connection
  handler,     \* state of the process forked for each connection
  sender,      \* state of the file sender forked by that process
  mainFds,     \* sockets main has open
  handlerFds,  \* sockets each handler process has open
  senderFds,   \* sockets each file sender has open
  lingering,   \* connections only the kernel still keeps
  faults       \* failures injected so far

mainVars == <<pc, ssock, reaping, backlog, mainFds>>
procVars == <<handler, sender, handlerFds, senderFds>>
vars == <<mainVars, procVars, sigchld, client, lingering, faults>>

Running == {"start", "identify", "student", "instructor"}

HandlerState == Running \cup {"none", "zombie", "reaped"}

Init ==
  /\ pc = "accept"
  /\ ssock = NoClient
  /\ reaping = FALSE
  /\ sigchld = FALSE
  /\ backlog = << >>
  /\ client = [c \in Client |-> "idle"]
  /\ handler = [c \in Client |-> "none"]
  /\ sender = [c \in Client |-> "none"]
  /\ mainFds = {Listener}
  /\ handlerFds = [c \in Client |-> {}]
  /\ senderFds = [c \in Client |-> {}]
  /\ lingering = {}
  /\ faults = 0

-----------------------------------------------------------------------------
(* Clients.                                                                *)

(* connect() succeeds as soon as the kernel queues the connection, before  *)
(* accept(); both client programs then send their greeting at once.        *)
ConnectToFullQueue(c) ==
  /\ client[c] = "idle"
  /\ Listener \in mainFds
  /\ Len(backlog) <= QLen
  /\ client' = [client EXCEPT ![c] = "open"]
  /\ backlog' = Append(backlog, c)
  /\ UNCHANGED <<procVars, pc, ssock, reaping, mainFds, sigchld, faults,
                 lingering>>

Connect(c) ==
  /\ client[c] = "idle"
  /\ Listener \in mainFds
  /\ Len(backlog) < QLen
  /\ client' = [client EXCEPT ![c] = "open"]
  /\ backlog' = Append(backlog, c)
  /\ UNCHANGED <<procVars, pc, ssock, reaping, mainFds, sigchld, faults,
                 lingering>>

(* The user types END, closes standard input, or the client program dies.  *)
Leave(c) ==
  /\ client[c] = "open"
  /\ client' = [client EXCEPT ![c] = "closed"]
  /\ UNCHANGED <<mainVars, procVars, sigchld, faults, lingering>>

-----------------------------------------------------------------------------
(* The kernel.                                                             *)

HeldSockets ==
  mainFds \cup UNION {handlerFds[c] \cup senderFds[c] : c \in Client}

(* Whoever closes a connection last leaves it with the kernel for a while  *)
(* (TIME_WAIT and the states before it), unless the client closed its end  *)
(* before: who was first is a race even for a session that reads END.      *)
Linger(c) ==
  lingering' \in {lingering,
                  IF c \in HeldSockets' THEN lingering
                                        ELSE lingering \cup {c}}

(* The kernel's timer runs out.                                            *)
Expire(c) ==
  /\ c \in lingering
  /\ lingering' = lingering \ {c}
  /\ UNCHANGED <<mainVars, procVars, sigchld, client, faults>>

-----------------------------------------------------------------------------
(* main's loop.  Its own code runs only while reaper() does not.           *)

Accept ==
  /\ pc = "accept"
  /\ ~reaping
  /\ backlog # << >>
  /\ ssock' = Head(backlog)
  /\ backlog' = Tail(backlog)
  /\ mainFds' = mainFds \cup {Head(backlog)}
  /\ pc' = "fork"
  /\ UNCHANGED <<procVars, reaping, sigchld, client, faults, lingering>>

(* fork() gives the child a copy of every descriptor main has open.        *)
Fork ==
  /\ pc = "fork"
  /\ ~reaping
  /\ handler' = [handler EXCEPT ![ssock] = "start"]
  /\ handlerFds' = [handlerFds EXCEPT ![ssock] = mainFds]
  /\ pc' = "close"
  /\ UNCHANGED <<ssock, reaping, backlog, mainFds, sender, senderFds, sigchld,
                 client, faults, lingering>>

(* The parent forgets close(ssock).                                        *)
KeepSlave ==
  /\ pc = "close"
  /\ ~reaping
  /\ mainFds' = mainFds
  /\ ssock' = NoClient
  /\ pc' = "accept"
  /\ UNCHANGED <<procVars, reaping, backlog, sigchld, client, faults,
                 lingering>>

CloseSlave ==
  /\ pc = "close"
  /\ ~reaping
  /\ mainFds' = mainFds \ {ssock}
  /\ ssock' = NoClient
  /\ pc' = "accept"
  /\ UNCHANGED <<procVars, reaping, backlog, sigchld, client, faults>>
  /\ Linger(ssock)

(* accept() failing with anything but EINTR, and fork() failing, both end  *)
(* in errexit(): the server is gone.  The kernel resets what was queued,   *)
(* and init adopts and reaps main's children.                              *)
MainFails ==
  /\ pc \in {"accept", "fork"}
  /\ ~reaping
  /\ faults < MaxFaults
  /\ faults' = faults + 1
  /\ pc' = "exited"
  /\ ssock' = NoClient
  /\ mainFds' = {}
  /\ sigchld' = FALSE
  /\ backlog' = << >>
  /\ client' = [c \in Client |->
                  IF \E i \in 1 .. Len(backlog) : backlog[i] = c
                  THEN "closed" ELSE client[c]]
  /\ handler' = [c \in Client |->
                   IF handler[c] = "zombie" THEN "reaped" ELSE handler[c]]
  /\ UNCHANGED <<reaping, sender, handlerFds, senderFds>>
  /\ IF pc = "fork" THEN Linger(ssock) ELSE UNCHANGED lingering

(* With SO_REUSEADDR only a listening socket would be in the way.          *)
BindReusing == Listener \notin HeldSockets

(* passivesock() does not set SO_REUSEADDR, so bind() succeeds only when   *)
(* no process has a socket of the port open and the kernel keeps none.     *)
BindFree == HeldSockets = {} /\ lingering = {}

Restart ==
  /\ pc = "exited"
  /\ BindFree
  /\ pc' = "accept"
  /\ mainFds' = {Listener}
  /\ UNCHANGED <<procVars, ssock, reaping, backlog, sigchld, client, faults,
                 lingering>>

-----------------------------------------------------------------------------
(* The signal handler of main.                                             *)

Signal ==
  /\ sigchld
  /\ ~reaping
  /\ pc # "exited"
  /\ reaping' = TRUE
  /\ sigchld' = FALSE
  /\ UNCHANGED <<procVars, pc, ssock, backlog, mainFds, client, faults,
                 lingering>>

(* wait3() returns the pid of a child that has exited.                     *)
Reap(c) ==
  /\ reaping
  /\ handler[c] = "zombie"
  /\ handler' = [handler EXCEPT ![c] = "reaped"]
  /\ UNCHANGED <<mainVars, sender, handlerFds, senderFds, sigchld, client,
                 faults, lingering>>

(* A handler that waits once instead of looping.                           *)
WaitOnce == \E c \in Client : handler[c] = "reaped"

(* A handler whose loop also continues on an error.                        *)
WaitForever == FALSE

(* wait3() < 0: main has no child left, dead or alive.  With WNOHANG it    *)
(* returns 0 while every remaining child is alive; 0 >= 0 keeps the loop   *)
(* turning, which changes no variable of this module.                      *)
NoChildLeft == \A c \in Client : handler[c] \in {"none", "reaped"}

ReaperReturns ==
  /\ reaping
  /\ NoChildLeft
  /\ reaping' = FALSE
  /\ UNCHANGED <<procVars, pc, ssock, backlog, mainFds, sigchld, client,
                 faults, lingering>>

-----------------------------------------------------------------------------
(* The process forked for connection c.                                    *)

(* Any exit closes the process's descriptors and raises SIGCHLD in main,   *)
(* or, once main is gone, is collected by init.                            *)
Exit(c) ==
  /\ handler' = [handler EXCEPT
                   ![c] = IF pc = "exited" THEN "reaped" ELSE "zombie"]
  /\ handlerFds' = [handlerFds EXCEPT ![c] = {}]
  /\ sigchld' = (pc # "exited")

(* The child closes the other of the two sockets it inherits.              *)
CloseWrongSocket(c) ==
  /\ handler[c] = "start"
  /\ handler' = [handler EXCEPT ![c] = "identify"]
  /\ handlerFds' = [handlerFds EXCEPT ![c] = @ \ {c}]
  /\ UNCHANGED <<mainVars, sender, senderFds, sigchld, client, faults,
                 lingering>>

CloseListener(c) ==
  /\ handler[c] = "start"
  /\ handler' = [handler EXCEPT ![c] = "identify"]
  /\ handlerFds' = [handlerFds EXCEPT ![c] = @ \ {Listener}]
  /\ UNCHANGED <<mainVars, sender, senderFds, sigchld, client, faults,
                 lingering>>

(* What the comparisons of handleClient may find in buf.  When a stranger  *)
(* hangs up without a word, read() returns 0 and buf is never written.     *)
Greeting(c) ==
  CASE c \in Student    -> {"STU"}
    [] c \in Instructor -> {"INS"}
    [] OTHER            -> IF client[c] = "closed"
                           THEN {"STU", "INS", "other"} ELSE {"other"}

(* handleStudent first forks the file sender; a failed fork() is ignored.  *)
BecomeStudent(c) ==
  /\ handler[c] = "identify"
  /\ "STU" \in Greeting(c)
  /\ handler' = [handler EXCEPT ![c] = "student"]
  /\ \/ /\ sender' = [sender EXCEPT ![c] = "starting"]
        /\ senderFds' = [senderFds EXCEPT ![c] = handlerFds[c]]
        /\ UNCHANGED faults
     \/ /\ faults < MaxFaults
        /\ faults' = faults + 1
        /\ UNCHANGED <<sender, senderFds>>
  /\ UNCHANGED <<mainVars, handlerFds, sigchld, client, lingering>>

BecomeInstructor(c) ==
  /\ handler[c] = "identify"
  /\ "INS" \in Greeting(c)
  /\ handler' = [handler EXCEPT ![c] = "instructor"]
  /\ UNCHANGED <<mainVars, sender, handlerFds, senderFds, sigchld, client,
                 faults, lingering>>

RejectStranger(c) ==
  /\ handler[c] = "identify"
  /\ "other" \in Greeting(c)
  /\ Exit(c)
  /\ UNCHANGED <<mainVars, sender, senderFds, client, faults>>
  /\ Linger(c)

(* The session reads END or end of file.                                   *)
SessionEnds(c) ==
  /\ handler[c] \in {"student", "instructor"}
  /\ client[c] = "closed"
  /\ Exit(c)
  /\ UNCHANGED <<mainVars, sender, senderFds, client, faults>>
  /\ Linger(c)

(* errexit() on a failing read or write, an uncaught exception, exit(1) in *)
(* freceiver: the process goes while its client stays connected.           *)
HandlerFails(c) ==
  /\ handler[c] \in {"identify", "student", "instructor"}
  /\ faults < MaxFaults
  /\ faults' = faults + 1
  /\ Exit(c)
  /\ UNCHANGED <<mainVars, sender, senderFds, client>>
  /\ Linger(c)

-----------------------------------------------------------------------------
(* The file sender of connection c; module SenderRegistry has its start.   *)

SenderServes(c) ==
  /\ sender[c] = "starting"
  /\ sender' = [sender EXCEPT ![c] = "serving"]
  /\ UNCHANGED <<mainVars, handler, handlerFds, senderFds, sigchld, client,
                 faults, lingering>>

(* The refusal is printed, but the exit(1) after it is missing.            *)
SenderStays(c) ==
  /\ sender[c] = "starting"
  /\ sender' = [sender EXCEPT ![c] = "refused"]
  /\ UNCHANGED <<mainVars, handler, handlerFds, senderFds, sigchld, client,
                 faults, lingering>>

(* Registration is refused: exit(1).  The signal goes to the handler, for  *)
(* which reaper() finds no other child and returns.                        *)
SenderGivesUp(c) ==
  /\ sender[c] = "starting"
  /\ sender' = [sender EXCEPT ![c] = "refused"]
  /\ senderFds' = [senderFds EXCEPT ![c] = {}]
  /\ UNCHANGED <<mainVars, handler, handlerFds, sigchld, client, faults>>
  /\ Linger(c)

-----------------------------------------------------------------------------
HandlerStep(c) ==
  \/ CloseListener(c)
  \/ BecomeStudent(c)
  \/ BecomeInstructor(c)
  \/ RejectStranger(c)
  \/ SessionEnds(c)

Next ==
  \/ Accept
  \/ Fork
  \/ CloseSlave
  \/ MainFails
  \/ Restart
  \/ Signal
  \/ ReaperReturns
  \/ \E c \in Client :
       \/ Connect(c)
       \/ Leave(c)
       \/ Expire(c)
       \/ Reap(c)
       \/ HandlerStep(c)
       \/ HandlerFails(c)
       \/ SenderServes(c)
       \/ SenderGivesUp(c)

(* A stranger may stay connected without ever sending a greeting.          *)
Silent(c) ==
  c \in Stranger /\ handler[c] = "identify" /\ client[c] = "open"

(* Only the program's own steps and the kernel's timers are fair: every    *)
(* process keeps being scheduled.  Clients, failures and a restart by the  *)
(* operator are not.                                                       *)
Fairness ==
  /\ WF_vars(Accept)
  /\ WF_vars(Fork)
  /\ WF_vars(CloseSlave)
  /\ WF_vars(Signal)
  /\ WF_vars(ReaperReturns)
  /\ \A c \in Client :
       /\ WF_vars(Expire(c))
       /\ WF_vars(Reap(c))
       /\ WF_vars(HandlerStep(c) /\ ~Silent(c))
       /\ WF_vars(SenderServes(c) \/ SenderGivesUp(c))

Spec == Init /\ [][Next]_vars /\ Fairness

-----------------------------------------------------------------------------
(* Properties.                                                             *)

(* Every variable has its type.                                            *)
TypeOK ==
  /\ pc \in {"accept", "fork", "close", "exited"}
  /\ ssock \in Client \cup {NoClient}
  /\ reaping \in BOOLEAN
  /\ sigchld \in BOOLEAN
  /\ backlog \in Seq(Client)
  /\ Len(backlog) <= QLen
  /\ client \in [Client -> {"idle", "open", "closed"}]
  /\ handler \in [Client -> HandlerState]
  /\ sender \in [Client -> {"none", "starting", "serving", "refused"}]
  /\ mainFds \subseteq Client \cup {Listener}
  /\ handlerFds \in [Client -> SUBSET (Client \cup {Listener})]
  /\ senderFds \in [Client -> SUBSET (Client \cup {Listener})]
  /\ lingering \subseteq Client
  /\ faults \in 0 .. MaxFaults

(* Descriptor inheritance never mixes sessions: whatever main had open at  *)
(* the fork, a handler past its first close has no socket but its own      *)
(* client's, a file sender likewise, and main waits in accept() with the   *)
(* listening socket only (the close(ssock) and close(msock) of main).      *)
Isolation ==
  /\ pc = "accept" => mainFds = {Listener}
  /\ \A c \in Client :
       /\ handler[c] # "start" => handlerFds[c] \subseteq {c}
       /\ senderFds[c] \subseteq {c}

(* No exited handler is forgotten: although pending SIGCHLDs coalesce, a   *)
(* zombie always has a pending signal or a running reaper() to collect it. *)
NoLostZombie ==
  (\E c \in Client : handler[c] = "zombie") => sigchld \/ reaping

(* A connection is given to one handler: while it waits in the kernel's    *)
(* queue or in ssock before the fork, no process has been forked for it,   *)
(* and a running handler has its own connection open.                      *)
HandedOverOnce ==
  /\ \A i \in 1 .. Len(backlog) : handler[backlog[i]] = "none"
  /\ pc = "fork" => handler[ssock] = "none"
  /\ \A c \in Client : handler[c] \in Running => c \in handlerFds[c]

(* errexit() of main can be made good, by starting the server again, as    *)
(* soon as no session and no file sender of before is left and the kernel  *)
(* has forgotten the connections that were closed from this end first, and *)
(* not any earlier: whoever lives still has a socket of the port, whoever  *)
(* exited has none, in whatever order they were forked and main failed.    *)
RestartableOnceAlone ==
  pc = "exited" =>
    (BindFree <=> \A c \in Client :
                    /\ handler[c] \notin Running
                    /\ sender[c] \notin {"starting", "serving"}
                    /\ c \notin lingering)

Desk == INSTANCE Reception WITH
          Capacity <- QLen + 1,
          open <- pc # "exited",
          seen <- {c \in Client : client[c] # "idle"},
          waiting <- IF pc = "fork" THEN <<ssock>> \o backlog ELSE backlog,
          serving <- {c \in Client : handler[c] \in Running}

(* Processes, descriptors and signals amount to a reception: connections   *)
(* are served in the order of connect(), each by one process and once,     *)
(* errexit() turns away those that wait and nobody else, and the sessions  *)
(* of a server that is started again never overlap with earlier ones.      *)
ImplementsReception == Desk!Spec

Waiting(c) == \E i \in 1 .. Len(backlog) : backlog[i] = c

(* Every client stops being connected to a live handler again and again.   *)
EverySessionEnds == \A c \in Client : []<>(handler[c] \notin Running)

(* The accept loop serves every queued connection, if the sessions of the  *)
(* other clients end: accept(), fork() and reaper() never lose one.        *)
ServedIfOthersLeave ==
  EverySessionEnds => \A c \in Client : Waiting(c) ~> ~Waiting(c)

(* Server.cpp:34 calls main a concurrent server and README.md:202 says the *)
(* parent goes on to wait for the next connection: a queued connection is  *)
(* accepted even while other clients stay connected.                       *)
ServedWhileOthersStay ==
  \A c \in Client : Waiting(c) ~> ~Waiting(c)

(* After errexit() of main the port can be bound again once the sessions   *)
(* have ended and the kernel's timers have run out, unless a file sender   *)
(* still has an old connection open.                                       *)
PortFreedUnlessSender ==
  EverySessionEnds =>
    (pc = "exited" ~>
       \/ BindFree
       \/ pc # "exited"
       \/ \E c \in Client : sender[c] = "serving")
=============================================================================
