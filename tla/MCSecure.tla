------------------------------ MODULE MCSecure ------------------------------
(***************************************************************************)
(* A small instance of module Secure: three bytes, blocks of two, sessions *)
(* that read four bytes.                                                   *)
(***************************************************************************)
EXTENDS Secure

(* Of one block and of two; with a NUL within a block, at the very start   *)
(* and at the start of the second block, where what is left begins like    *)
(* another ciphertext; and longer than a session reads.                    *)
MCCipher ==
  [t \in Text |->
     CASE t = "plain" -> <<1, 2>>
       [] t = "two"   -> <<1, 1, 2, 1>>
       [] t = "in"    -> <<2, 0>>
       [] t = "start" -> <<0, 1>>
       [] t = "edge"  -> <<1, 1, 0, 2>>
       [] t = "long"  -> <<2, 1, 1, 1, 2, 2>>]
=============================================================================
