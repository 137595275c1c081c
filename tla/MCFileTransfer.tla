--------------------------- MODULE MCFileTransfer ---------------------------
(***************************************************************************)
(* Small instances of module FileTransfer.                                 *)
(***************************************************************************)
EXTENDS FileTransfer, TLC

CONSTANTS r1, r2, r3, f1, f2, big

(* Two receivers found the same sender, the third has one of its own.      *)
SomeShare == (r1 :> f1) @@ (r2 :> f1) @@ (r3 :> f2)

(* A file of one full block and a short one, and files of a short block.   *)
SmallBlocks == [f \in File |-> IF f = big THEN 1 ELSE 0]

(* Three names for those who share a sender; one of them and the third     *)
(* receiver with a name each; three names for the third alone.             *)
UpToThreeNames ==
  {n \in [Receiver -> 0 .. 3] :
     <<n[r1], n[r2], n[r3]>> \in {<<2, 1, 0>>, <<1, 0, 1>>, <<0, 0, 3>>}}
=============================================================================
