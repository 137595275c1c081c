------------------------ MODULE SenderRegistryProofs ------------------------
(***************************************************************************)
(* Proofs about module SenderRegistry, for any number of senders.          *)
(*                                                                         *)
(* The argument: at every moment somebody is on the way to serve.  A       *)
(* sender that has not yet asked for UDP will get it, unless another one   *)
(* holds it; the holder of UDP has still to ask for TCP, or TCP is already *)
(* served; and the holder of TCP serves.  So the last start-up to end      *)
(* leaves the TCP mapping on a serving sender.                             *)
(***************************************************************************)
EXTENDS SenderRegistry, TLAPS

(* After a pmap_unset() no mapping of an earlier run is left.              *)
OldGone ==
  (\E s \in Sender : st[s] \in {"udp", "tcp", "run"}) => Dead \notin {udp, tcp}

(* Without failures, a mapping of this run promises a serving sender.      *)
MappingsPromise ==
  faults = 0 =>
    /\ udp \in Sender => st[udp] = "tcp" \/ Live(tcp)
    /\ tcp \in Sender => st[tcp] = "run"

(* Without failures, once a sender is forked somebody is on the way.       *)
OnTheWay ==
  faults = 0 =>
    \/ \A s \in Sender : st[s] = "off"
    \/ \E s \in Sender : st[s] \in {"unset", "udp"}
    \/ udp \in Sender /\ st[udp] = "tcp"
    \/ Live(tcp)

IInv == TypeOK /\ OldGone /\ MappingsPromise /\ OnTheWay

(* The initial states satisfy the invariant.                               *)
LEMMA InitIInv == Init => IInv
BY RegistryAssumption
   DEF Init, IInv, TypeOK, OldGone, MappingsPromise, OnTheWay, Live, Starting

(* Every step preserves the invariant.                                     *)
LEMMA StepIInv ==
  ASSUME IInv, [Next]_vars
  PROVE  IInv'
<1> USE RegistryAssumption
    DEF IInv, TypeOK, OldGone, MappingsPromise, OnTheWay, Live, Starting
<1>1. ASSUME NEW s \in Sender, Start(s)
      PROVE  IInv'
  BY <1>1 DEF Start
<1>2. ASSUME NEW s \in Sender, Unset(s)
      PROVE  IInv'
  BY <1>2 DEF Unset
<1>3. ASSUME NEW s \in Sender, RegisterUdp(s)
      PROVE  IInv'
  BY <1>3 DEF RegisterUdp
<1>4. ASSUME NEW s \in Sender, RegisterTcp(s)
      PROVE  IInv'
  BY <1>4 DEF RegisterTcp
<1>5. ASSUME NEW s \in Sender, SenderFails(s)
      PROVE  IInv'
  BY <1>5 DEF SenderFails
<1>6. ASSUME NEW r \in Receiver, CreateClient(r)
      PROVE  IInv'
  BY <1>6 DEF CreateClient
<1>7. CASE UNCHANGED vars
  BY <1>7 DEF vars
<1>8. QED
  BY <1>1, <1>2, <1>3, <1>4, <1>5, <1>6, <1>7 DEF Next, SenderStep

(* IInv is an inductive invariant of the specification.                    *)
THEOREM Invariance == Spec => []IInv
BY InitIInv, StepIInv, PTL DEF Spec

(* Every variable always has its type.                                     *)
THEOREM TypeCorrect == Spec => []TypeOK
<1>1. IInv => TypeOK
  BY DEF IInv
<1>2. QED
  BY Invariance, <1>1, PTL

(* However many senders start and however their four calls interleave      *)
(* (fsender.cpp), the last start-up to end leaves a file service behind.   *)
THEOREM ServiceRegistered == Spec => []LookupFindsSender
<1>1. IInv => LookupFindsSender
  BY DEF IInv, TypeOK, MappingsPromise, OnTheWay, Live, Quiet, Starting,
         LookupFindsSender
<1>2. QED
  BY Invariance, <1>1, PTL

(* A TCP mapping never names a process of an earlier run once a start-up   *)
(* has passed its pmap_unset(), nor a sender that was refused.             *)
THEOREM MappingsFresh == Spec => []NoStaleMapping
<1>1. IInv => NoStaleMapping
  BY DEF IInv, OldGone, MappingsPromise, NoStaleMapping
<1>2. QED
  BY Invariance, <1>1, PTL

=============================================================================
