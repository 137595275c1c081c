---------------------------- MODULE SecureProofs ----------------------------
(***************************************************************************)
(* What holds of a password on its way for every cipher, and every set of  *)
(* passwords, within the assumptions of module Secure.                     *)
(***************************************************************************)
EXTENDS Secure, SequenceTheorems, WellFoundedInduction, TLAPS

USE DEF vars

-----------------------------------------------------------------------------
(* What is cut off.                                                        *)

(* Natural numbers have a least one.                                       *)
LEMMA LeastNatural ==
  ASSUME NEW T \in SUBSET Nat, T # {}
  PROVE  \E x \in T : \A y \in T : x <= y
<1> DEFINE R == {ss \in Nat \X Nat : ss[1] < ss[2]}
<1>1. IsWellFoundedOn(R, Nat)
  BY NatLessThanWellFounded DEF OpToRel
<1>2. PICK x \in T : \A y \in T : <<y, x>> \notin R
  BY <1>1, WFMin, Zenon
<1>3. ASSUME NEW y \in T, y < x PROVE FALSE
  <2>1. y \in Nat /\ x \in Nat
    OBVIOUS
  <2>2. <<y, x>> \in R
    BY <2>1, <1>3
  <2> QED
    BY <2>2, <1>2
<1> QED
  BY <1>3

(* The beginning of a beginning.                                           *)
LEMMA BeginningOfBeginning ==
  ASSUME NEW S, NEW s \in Seq(S), NEW m \in 0 .. Len(s), NEW n \in 0 .. m
  PROVE  /\ SubSeq(s, 1, m) \in Seq(S)
         /\ Len(SubSeq(s, 1, m)) = m
         /\ \A i \in 1 .. m : SubSeq(s, 1, m)[i] = s[i]
         /\ SubSeq(SubSeq(s, 1, m), 1, n) = SubSeq(s, 1, n)
<1> DEFINE a == SubSeq(s, 1, m)
<1>1. /\ a \in Seq(S) /\ Len(a) = m
      /\ \A i \in 1 .. m : a[i] = s[i]
  BY SubSeqProperties
<1>2. CASE n = 0
  BY <1>2, SubSeqEmpty
<1>3. CASE n # 0
  BY <1>1, <1>3, SubSeqOfSubSeq
<1> QED
  BY <1>1, <1>2, <1>3

(* c_str() gives the beginning up to the first NUL, or all there is.       *)
LEMMA UpToNulBegins ==
  ASSUME NEW s \in Seq(Byte)
  PROVE  \E n \in 0 .. Len(s) :
           /\ UpToNul(s) = SubSeq(s, 1, n)
           /\ \A i \in 1 .. n : s[i] # NUL
           /\ n < Len(s) => s[n + 1] = NUL
<1> DEFINE First(n) == /\ \A i \in 1 .. n : s[i] # NUL
                       /\ n < Len(s) => s[n + 1] = NUL
           T == {i \in 1 .. Len(s) : s[i] = NUL}
<1>1. Len(s) \in Nat
  OBVIOUS
<1>2. \E n \in 0 .. Len(s) : First(n)
  <2>1. CASE T = {}
    <3>1. First(Len(s))
      BY <1>1, <2>1
    <3> QED
      BY <1>1, <3>1
  <2>2. CASE T # {}
    <3>1. T \in SUBSET Nat
      BY <1>1
    <3>2. PICK x \in T : \A y \in T : x <= y
      BY <2>2, <3>1, LeastNatural
    <3>3. x - 1 \in 0 .. Len(s) /\ (x - 1) + 1 = x
      BY <1>1
    <3>4. First(x - 1)
      BY <1>1, <3>2, <3>3
    <3> QED
      BY <3>3, <3>4
  <2> QED
    BY <2>1, <2>2
<1>3. UpToNul(s) = SubSeq(s, 1, CHOOSE n \in 0 .. Len(s) : First(n))
  BY DEF UpToNul
<1> QED
  BY <1>2, <1>3, Zenon

(* A string without a NUL stays as it is.                                  *)
LEMMA NothingCutOff ==
  ASSUME NEW s \in Seq(Byte), \A i \in 1 .. Len(s) : s[i] # NUL
  PROVE  UpToNul(s) = s
<1>1. PICK n \in 0 .. Len(s) :
        /\ UpToNul(s) = SubSeq(s, 1, n)
        /\ n < Len(s) => s[n + 1] = NUL
  BY UpToNulBegins
<1>2. n = Len(s)
  BY <1>1
<1> QED
  BY <1>1, <1>2, SubSeqFull

(* What is sent has no NUL.                                                *)
LEMMA NoNulLeft ==
  ASSUME NEW s \in Seq(Byte)
  PROVE  UpToNul(s) \in Seq(Byte \ {NUL})
<1>1. PICK n \in 0 .. Len(s) :
        /\ UpToNul(s) = SubSeq(s, 1, n)
        /\ \A i \in 1 .. n : s[i] # NUL
  BY UpToNulBegins
<1>2. \A i \in 1 .. n : s[i] \in Byte \ {NUL}
  BY <1>1
<1> QED
  BY <1>1, <1>2, SubSeqProperties

-----------------------------------------------------------------------------
(* What decrypts.                                                          *)

(* A ciphertext decrypts to its text, and nothing else decrypts.           *)
LEMMA Decrypts ==
  ASSUME NEW c
  PROVE  /\ aes_decrypt(c) \in Text \cup {NoText}
         /\ aes_decrypt(c) # NoText => Cipher[aes_decrypt(c)] = c
BY CipherAssumption DEF aes_decrypt

(* The beginning of a ciphertext decrypts to nothing but its own text, and *)
(* only if it is the whole of it.                                          *)
LEMMA BeginningDecrypts ==
  ASSUME NEW t \in Text, NEW m \in 0 .. Len(Cipher[t])
  PROVE  LET c == SubSeq(Cipher[t], 1, m)
         IN  /\ dencry(c) \in {t, NoText}
             /\ dencry(c) = t => m = Len(Cipher[t])
<1> DEFINE s == Cipher[t]
           c == SubSeq(s, 1, m)
<1>1. s \in Seq(Byte)
  BY CipherAssumption
<1>2. c \in Seq(Byte) /\ Len(c) = m
  BY <1>1, BeginningOfBeginning
<1>3. PICK n \in 0 .. m : UpToNul(c) = SubSeq(c, 1, n)
  BY <1>2, UpToNulBegins
<1>4. UpToNul(c) = SubSeq(s, 1, n) /\ Len(SubSeq(s, 1, n)) = n
  <2>1. n \in 0 .. Len(s)
    BY <1>1
  <2> QED
    BY <1>1, <1>3, <2>1, BeginningOfBeginning
<1>5. ASSUME dencry(c) # NoText
      PROVE  dencry(c) = t /\ m = Len(s)
  <2> DEFINE u == dencry(c)
  <2>1. u \in Text /\ Cipher[u] = SubSeq(s, 1, n)
    BY <1>4, <1>5, Decrypts DEF dencry
  <2>2. n \in 0 .. Len(s)
    BY <1>1
  <2>3. u = t
    BY <2>1, <2>2, CipherAssumption
  <2>4. n = Len(s)
    BY <1>4, <2>1, <2>3
  <2> QED
    BY <1>1, <2>3, <2>4
<1>6. t # NoText
  BY CipherAssumption
<1> QED
  BY <1>5, <1>6

(* A ciphertext that can be sent is sent whole, and decrypts.              *)
LEMMA SendableDecrypts ==
  ASSUME NEW t \in Text, Sendable(t)
  PROVE  encry(t) = Cipher[t] /\ dencry(Cipher[t]) = t
<1>1. Cipher[t] \in Seq(Byte)
  BY CipherAssumption
<1>2. UpToNul(Cipher[t]) = Cipher[t]
  BY <1>1, NothingCutOff DEF Sendable
<1>3. aes_decrypt(Cipher[t]) # NoText
  BY CipherAssumption DEF aes_decrypt
<1>4. \A u \in Text : Cipher[u] = Cipher[t] => u = t
  <2> SUFFICES ASSUME NEW u \in Text, Cipher[u] = Cipher[t]
               PROVE  u = t
    OBVIOUS
  <2>1. SubSeq(Cipher[t], 1, Len(Cipher[t])) = Cipher[u]
    BY <1>1, SubSeqFull
  <2> QED
    BY <1>1, <2>1, CipherAssumption
<1>5. aes_decrypt(Cipher[t]) = t
  BY <1>3, <1>4, Decrypts
<1> QED
  BY <1>2, <1>5 DEF encry, dencry, aes_encrypt

-----------------------------------------------------------------------------
(* Where the password typed last is.                                       *)

OnTheWay ==
  /\ client = "reading" => typed \in Text
  /\ session = "password" =>
       \/ wire = <<>> /\ client # "reading"
       \/ typed \in Text /\ client # "typing" /\ wire = encry(typed)
  /\ session = "login" => wire = <<>>
  /\ session = "in" => typed = stored
  /\ session = "ended" /\ client # "gone" =>
       typed \in Text /\ ~Sendable(typed)

IInv == TypeOK /\ OnTheWay

(* The wire has the beginning of the ciphertext; an empty wire has it too, *)
(* of any.                                                                 *)
LEMMA ReadDecrypts ==
  ASSUME IInv, session = "password",
         NEW n \in Nat, n = IF Len(wire) < Cmd THEN Len(wire) ELSE Cmd,
         NEW pwd, pwd = dencry(SubSeq(wire, 1, n)),
         wire # <<>> \/ client = "gone"
  PROVE  /\ pwd # NoText =>
              pwd = typed /\ SubSeq(wire, n + 1, Len(wire)) = <<>>
         /\ pwd = NoText /\ client # "gone" =>
              typed \in Text /\ ~Sendable(typed)
<1>1. wire \in Seq(Byte) /\ Len(wire) \in Nat /\ Cmd \in Nat \ {0}
  BY CipherAssumption DEF IInv, TypeOK
<1>2. CASE wire = <<>>
  <2>1. SubSeq(wire, 1, n) = <<>> /\ client = "gone"
    BY <1>1, <1>2, SubSeqEmpty DEF IInv, OnTheWay
  <2>2. stored \in Text /\ Cipher[stored] \in Seq(Byte)
    BY CipherAssumption DEF IInv, TypeOK
  <2>3. SubSeq(Cipher[stored], 1, 0) = <<>> /\ Len(Cipher[stored]) > 0
    BY <2>2, CipherAssumption, SubSeqEmpty
  <2>4. dencry(<<>>) \in {stored, NoText} /\ dencry(<<>>) # stored
    <3>1. 0 \in 0 .. Len(Cipher[stored])
      BY <2>2
    <3>2. /\ dencry(SubSeq(Cipher[stored], 1, 0)) \in {stored, NoText}
          /\ dencry(SubSeq(Cipher[stored], 1, 0)) = stored =>
               0 = Len(Cipher[stored])
      BY <2>2, <3>1, BeginningDecrypts
    <3>3. SubSeq(Cipher[stored], 1, 0) = <<>> /\ 0 # Len(Cipher[stored])
      BY <2>2, <2>3
    <3> QED
      BY <3>2, <3>3, Zenon
  <2> QED
    BY <2>1, <2>4
<1>3. CASE wire # <<>>
  <2> DEFINE s == Cipher[typed]
  <2>1. typed \in Text /\ wire = UpToNul(s) /\ s \in Seq(Byte)
    BY <1>3, CipherAssumption DEF IInv, OnTheWay, encry, aes_encrypt
  <2>2. PICK k \in 0 .. Len(s) : wire = SubSeq(s, 1, k)
    BY <2>1, UpToNulBegins
  <2>3. Len(wire) = k
    BY <2>1, <2>2, BeginningOfBeginning
  <2>4. n \in 0 .. k /\ n \in 0 .. Len(s)
    BY <1>1, <2>1, <2>3
  <2>5. SubSeq(wire, 1, n) = SubSeq(s, 1, n)
    BY <2>1, <2>2, <2>4, BeginningOfBeginning
  <2>6. pwd \in {typed, NoText} /\ (pwd = typed => n = Len(s))
    BY <2>1, <2>4, <2>5, BeginningDecrypts
  <2>7. pwd # NoText => SubSeq(wire, n + 1, Len(wire)) = <<>>
    BY <1>1, <2>1, <2>3, <2>4, <2>6, SubSeqEmpty
  <2>8. ASSUME Sendable(typed) PROVE pwd # NoText
    <3>1. wire = s /\ dencry(s) = typed
      BY <2>1, <2>8, SendableDecrypts DEF encry, aes_encrypt
    <3>2. n = Len(s)
      BY <1>1, <2>8, <3>1 DEF Sendable
    <3>3. SubSeq(wire, 1, n) = s
      BY <2>1, <3>1, <3>2, SubSeqFull
    <3> QED
      BY <2>1, <3>1, <3>3, CipherAssumption
  <2> QED
    BY <2>1, <2>6, <2>7, <2>8
<1> QED
  BY <1>2, <1>3

(* It is there in every state.                                             *)
LEMMA Inductive == Spec => []IInv
<1> USE CipherAssumption
<1>1. Init => IInv
  BY DEF Init, IInv, TypeOK, OnTheWay
<1>2. IInv /\ [Next]_vars => IInv'
  <2> SUFFICES ASSUME IInv, [Next]_vars PROVE IInv'
    OBVIOUS
  <2>0. TypeOK /\ OnTheWay
    BY DEF IInv
  <2>1. CASE SendPassword
    <3>1. PICK t \in Text : typed' = t /\ wire' = wire \o encry(t)
      BY <2>1 DEF SendPassword
    <3>2. /\ client = "typing" /\ session = "password"
          /\ client' = "reading"
          /\ UNCHANGED <<stored, session>>
      BY <2>1 DEF SendPassword
    <3>3. encry(t) \in Seq(Byte \ {NUL})
      BY NoNulLeft DEF encry, aes_encrypt
    <3>4. wire = <<>>
      BY <2>0, <3>2 DEF OnTheWay
    <3>5. wire' = encry(t)
      BY <3>1, <3>3, <3>4
    <3> QED
      BY <2>0, <3>1, <3>2, <3>3, <3>5 DEF IInv, TypeOK, OnTheWay
  <2>2. CASE ReadPassword
    <3> DEFINE n == IF Len(wire) < Cmd THEN Len(wire) ELSE Cmd
               pwd == dencry(SubSeq(wire, 1, n))
    <3>1. /\ session = "password"
          /\ wire # <<>> \/ client = "gone"
          /\ UNCHANGED <<stored, typed>>
      BY <2>2 DEF ReadPassword
    <3>2. /\ wire' = SubSeq(wire, n + 1, Len(wire))
          /\ \/ pwd = NoText /\ session' = "ended" /\ UNCHANGED client
             \/ pwd = stored /\ session' = "in" /\ Answer
             \/ pwd \notin {stored, NoText} /\ session' = "login" /\ Answer
      BY <2>2 DEF ReadPassword
    <3>3. n \in Nat /\ n <= Len(wire)
      BY <2>0 DEF TypeOK
    <3>4. wire' \in Seq(Byte \ {NUL})
      <4>1. \A i \in n + 1 .. Len(wire) : wire[i] \in Byte \ {NUL}
        BY <2>0, <3>3 DEF TypeOK
      <4> QED
        BY <3>2, <3>3, <4>1, SubSeqProperties
    <3>5. /\ pwd # NoText => pwd = typed /\ wire' = <<>>
          /\ pwd = NoText /\ client # "gone" =>
               typed \in Text /\ ~Sendable(typed)
      <4>1. \A nn \in Nat : \A p :
              /\ nn = IF Len(wire) < Cmd THEN Len(wire) ELSE Cmd
              /\ p = dencry(SubSeq(wire, 1, nn))
              => /\ p # NoText =>
                      p = typed /\ SubSeq(wire, nn + 1, Len(wire)) = <<>>
                 /\ p = NoText /\ client # "gone" =>
                      typed \in Text /\ ~Sendable(typed)
        BY <3>1, ReadDecrypts
      <4> QED
        BY <3>2, <3>3, <4>1
    <3>6. Sendable(typed)' <=> Sendable(typed)
      BY <3>1 DEF Sendable
    <3>7. stored \in Text /\ stored # NoText
      BY <2>0 DEF TypeOK
    <3>8. session' \in {"ended", "in", "login"}
      BY <3>2
    <3>9. client' \in {"typing", "reading", "gone"}
          /\ (client' = "reading" => client = "reading")
      BY <2>0, <3>2 DEF TypeOK, Answer
    <3> HIDE DEF n, pwd
    <3>10. TypeOK'
      BY <2>0, <3>1, <3>4, <3>8, <3>9 DEF TypeOK
    <3>11. OnTheWay'
      BY <2>0, <3>1, <3>2, <3>5, <3>6, <3>7, <3>9 DEF OnTheWay, Answer
    <3> QED
      BY <3>10, <3>11 DEF IInv
  <2>3. CASE AskAgain
    BY <2>0, <2>3 DEF AskAgain, IInv, TypeOK, OnTheWay
  <2>4. CASE Quit
    BY <2>0, <2>4 DEF Quit, IInv, TypeOK, OnTheWay
  <2>5. CASE UNCHANGED vars
    BY <2>0, <2>5 DEF IInv, TypeOK, OnTheWay, Sendable
  <2> QED
    BY <2>1, <2>2, <2>3, <2>4, <2>5 DEF Next
<1> QED
  BY <1>1, <1>2, PTL DEF Spec

-----------------------------------------------------------------------------
(* What a reader of the two functions should know.                         *)

(* Module Secure's TypeOK: no NUL is ever sent.                            *)
THEOREM TypeCorrect == Spec => []TypeOK
<1>1. IInv => TypeOK
  BY DEF IInv
<1> QED
  BY <1>1, Inductive, PTL

(* Module Secure's NoOtherPassword: whatever is cut off a ciphertext, it   *)
(* does not become that of another password.                               *)
THEOREM OnlyThePassword == Spec => []NoOtherPassword
<1>1. IInv => NoOtherPassword
  BY DEF IInv, OnTheWay, NoOtherPassword
<1> QED
  BY <1>1, Inductive, PTL

(* Module Secure's LostOnlyInTransit: a password is lost only if its       *)
(* ciphertext has a NUL or is longer than what the session reads.          *)
THEOREM LossesExplained == Spec => []LostOnlyInTransit
<1>1. IInv => LostOnlyInTransit
  <2> SUFFICES ASSUME IInv PROVE LostOnlyInTransit
    OBVIOUS
  <2>1. TypeOK /\ OnTheWay
    BY DEF IInv
  <2>2. ASSUME client = "reading", session = "password", wire = <<>>,
               Sendable(typed)
        PROVE  FALSE
    <3>1. typed \in Text /\ encry(typed) = <<>>
      BY <2>1, <2>2 DEF OnTheWay
    <3>2. Cipher[typed] = <<>>
      BY <2>2, <3>1, SendableDecrypts
    <3> QED
      BY <3>1, <3>2, CipherAssumption
  <2> QED
    BY <2>1, <2>2 DEF OnTheWay, LostOnlyInTransit
<1> QED
  BY <1>1, Inductive, PTL
=============================================================================
