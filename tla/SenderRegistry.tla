--------------------------- MODULE SenderRegistry ---------------------------
(***************************************************************************)
(* How file senders make themselves known and how receivers find them      *)
(* (fsender.cpp, and the head of freceiver.cpp).                           *)
(*                                                                         *)
(* Every sender of one program number (RFILEPROGA for the senders that     *)
(* handleStudent forks, RFILEPROGB for those of the instructor clients)    *)
(* runs the same start-up against one portmapper: remove whatever is       *)
(* registered, register for UDP, register for TCP, serve.  Nothing orders  *)
(* the start-ups of two senders, and a registration outlives its process.  *)
(***************************************************************************)
EXTENDS Naturals

CONSTANTS
  Sender,    \* file sender processes
  Receiver,  \* calls of freceiver
  NoOne,     \* no mapping in the portmapper
  Dead,      \* a mapping left by a process of an earlier run of the program
  MaxFaults  \* bound on senders that fail

ASSUME RegistryAssumption ==
  /\ NoOne \notin Sender
  /\ Dead \notin Sender \cup {NoOne}
  /\ MaxFaults \in Nat

VARIABLES
  udp,     \* the portmapper's mapping of the program for UDP
  tcp,     \* and for TCP
  st,      \* where each sender is
  recv,    \* where each receiver is
  faults

vars == <<udp, tcp, st, recv, faults>>

(* "unset", "udp" and "tcp" name the call a sender is about to make.       *)
Starting == {"unset", "udp", "tcp"}

Init ==
  /\ udp \in {NoOne, Dead}
  /\ tcp \in {NoOne, Dead}
  /\ st = [s \in Sender |-> "off"]
  /\ recv = [r \in Receiver |-> "idle"]
  /\ faults = 0

-----------------------------------------------------------------------------
(* A student logs in, or an instructor starts the client: fork().          *)
Start(s) ==
  /\ st[s] = "off"
  /\ st' = [st EXCEPT ![s] = "unset"]
  /\ UNCHANGED <<udp, tcp, recv, faults>>

(* The call of pmap_unset() is missing.                                    *)
SkipUnset(s) ==
  /\ st[s] = "unset"
  /\ st' = [st EXCEPT ![s] = "udp"]
  /\ UNCHANGED <<udp, tcp, recv, faults>>

(* pmap_unset() removes the mappings of the program for both protocols,    *)
(* whoever made them.                                                      *)
Unset(s) ==
  /\ st[s] = "unset"
  /\ udp' = NoOne
  /\ tcp' = NoOne
  /\ st' = [st EXCEPT ![s] = "udp"]
  /\ UNCHANGED <<recv, faults>>

(* svc_register() asks the portmapper, which refuses a second mapping; a   *)
(* refused sender calls exit(1) and leaves its other mapping behind.       *)
RegisterUdp(s) ==
  /\ st[s] = "udp"
  /\ \/ /\ udp = NoOne
        /\ udp' = s
        /\ st' = [st EXCEPT ![s] = "tcp"]
     \/ /\ udp # NoOne
        /\ st' = [st EXCEPT ![s] = "exit"]
        /\ UNCHANGED udp
  /\ UNCHANGED <<tcp, recv, faults>>

(* A refused sender removes the mappings of the program before it exits.   *)
RefusedCleansUp(s) ==
  /\ st[s] = "tcp"
  /\ \/ /\ tcp = NoOne
        /\ tcp' = s
        /\ st' = [st EXCEPT ![s] = "run"]
        /\ UNCHANGED udp
     \/ /\ tcp # NoOne
        /\ st' = [st EXCEPT ![s] = "exit"]
        /\ udp' = NoOne
        /\ tcp' = NoOne
  /\ UNCHANGED <<recv, faults>>

RegisterTcp(s) ==
  /\ st[s] = "tcp"
  /\ \/ /\ tcp = NoOne
        /\ tcp' = s
        /\ st' = [st EXCEPT ![s] = "run"]
     \/ /\ tcp # NoOne
        /\ st' = [st EXCEPT ![s] = "exit"]
        /\ UNCHANGED tcp
  /\ UNCHANGED <<udp, recv, faults>>

(* svcudp_create(), svctcp_create() or the portmapper fails: exit(1).  A   *)
(* serving sender may be killed.  Neither unregisters.                     *)
SenderFails(s) ==
  /\ st[s] \in Starting \cup {"run"}
  /\ faults < MaxFaults
  /\ faults' = faults + 1
  /\ st' = [st EXCEPT ![s] = "exit"]
  /\ UNCHANGED <<udp, tcp, recv>>

Live(m) == m \in Sender /\ st[m] = "run"

(* The test for a NULL handle is missing: the receiver goes on without it. *)
ConnectAnyway(r) ==
  /\ recv[r] = "idle"
  /\ recv' = [recv EXCEPT ![r] = IF Live(tcp) THEN "connected" ELSE "null"]
  /\ UNCHANGED <<udp, tcp, st, faults>>

(* clnt_create(..., "tcp") asks the portmapper for the port and connects;  *)
(* when it returns NULL the receiver calls exit(1).                        *)
CreateClient(r) ==
  /\ recv[r] = "idle"
  /\ recv' = [recv EXCEPT ![r] = IF Live(tcp) THEN "connected" ELSE "exit"]
  /\ UNCHANGED <<udp, tcp, st, faults>>

SenderStep(s) == Unset(s) \/ RegisterUdp(s) \/ RegisterTcp(s)

Next ==
  \/ \E s \in Sender : Start(s) \/ SenderStep(s) \/ SenderFails(s)
  \/ \E r \in Receiver : CreateClient(r)

(* A forked sender is scheduled until it serves or exits.                  *)
Fairness == \A s \in Sender : WF_vars(SenderStep(s))

Spec == Init /\ [][Next]_vars /\ Fairness

-----------------------------------------------------------------------------
(* Properties.                                                             *)

(* Every variable has its type.                                            *)
TypeOK ==
  /\ udp \in Sender \cup {NoOne, Dead}
  /\ tcp \in Sender \cup {NoOne, Dead}
  /\ st \in [Sender -> Starting \cup {"off", "run", "exit"}]
  /\ recv \in [Receiver -> {"idle", "connected", "exit"}]
  /\ faults \in 0 .. MaxFaults

Quiet == \A s \in Sender : st[s] \notin Starting

(* Whatever the interleaving of the start-ups, the senders never knock     *)
(* each other out: once one has been forked and no start-up is under way,  *)
(* a receiver that asks for the TCP port reaches a serving sender.         *)
LookupFindsSender ==
  (Quiet /\ faults = 0 /\ \E s \in Sender : st[s] # "off") => Live(tcp)

(* The TCP mapping is never left on a process that gave up: even when      *)
(* senders fail, a mapping of an earlier run does not survive the first    *)
(* pmap_unset(), and a refused sender does not hold the TCP mapping.       *)
NoStaleMapping ==
  /\ (\E s \in Sender : st[s] \in {"udp", "tcp", "run"}) => tcp # Dead
  /\ (tcp \in Sender /\ faults = 0) => st[tcp] = "run"

(* A forked sender leads to a reachable file service, its own or another   *)
(* sender's: no order of start-ups refuses every one of them.              *)
StartedLeadsToService ==
  \A s \in Sender : (st[s] = "unset" /\ faults = 0) ~> (Live(tcp) \/ faults > 0)
=============================================================================
