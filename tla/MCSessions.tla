----------------------------- MODULE MCSessions -----------------------------
(***************************************************************************)
(* Small instances of module Sessions.                                     *)
(***************************************************************************)
EXTENDS Sessions, TLC

FreshRow == [pwd |-> OwnPwd, grade |-> [k \in Teacher |-> NotEnrolled]]

(* Every ID has a row, with a password its owner chose.                    *)
AllEnrolled == {[id \in StudentID |-> FreshRow]}

(* One ID has a row, the others are free.                                  *)
OneEnrolled ==
  {[id \in StudentID |-> IF id = only THEN FreshRow ELSE NoRow] :
     only \in {CHOOSE id \in StudentID : TRUE}}

BoardPosted == {"posted"}

BoardEmpty == {"empty"}

AnyBoard == {"empty", "posted"}
=============================================================================
