------------------------------- MODULE Secure -------------------------------
(***************************************************************************)
(* The password of a student on its way to the session that compares it:   *)
(* encry() and dencry() (secure.cpp) around one write() of the client and  *)
(* one read() of the session.                                              *)
(*                                                                         *)
(* AES itself is OpenSSL's: an injection of texts into strings of bytes.   *)
(* It chains blocks and pads the last one, so that the beginning of a      *)
(* ciphertext decrypts to the beginning of its text, whose bytes are no    *)
(* padding: EVP_DecryptFinal_ex refuses it, as it does what is no number   *)
(* of whole blocks.  (Texts of control characters that look like padding   *)
(* are left out.)                                                          *)
(***************************************************************************)
EXTENDS Integers, Sequences

CONSTANTS
  Text,    \* passwords
  Byte,
  NUL,     \* the byte 0
  Block,   \* BLOCK_SIZE
  Cmd,     \* CMDSIZE, what a session reads at once
  Cipher,  \* the ciphertext of a text under the key and IV of secure.cpp
  NoText   \* what decrypts to nothing

ASSUME CipherAssumption ==
  /\ NUL \in Byte
  /\ Block \in Nat \ {0}
  /\ Cmd \in Nat \ {0}
  /\ NoText \notin Text
  /\ Cipher \in [Text -> Seq(Byte)]
  /\ \A t \in Text : Len(Cipher[t]) > 0 /\ Len(Cipher[t]) % Block = 0
  /\ \A t, u \in Text : \A n \in 0 .. Len(Cipher[t]) :
       SubSeq(Cipher[t], 1, n) = Cipher[u] => t = u

VARIABLES
  stored,   \* the password in the student's row
  typed,    \* the password typed last
  wire,     \* bytes sent to the session and not read yet
  client,   \* "typing", "reading" or "gone"
  session   \* "login", "password", "in" or "ended"

vars == <<stored, typed, wire, client, session>>

(* What c_str() makes of a string with any bytes: it ends before its first *)
(* NUL.                                                                    *)
UpToNul(s) ==
  SubSeq(s, 1, CHOOSE n \in 0 .. Len(s) :
                 /\ \A i \in 1 .. n : s[i] # NUL
                 /\ n < Len(s) => s[n + 1] = NUL)

aes_encrypt(t) == Cipher[t]

(* Without the block that EVP_EncryptFinal_ex adds.                        *)
encryNotFinal(t) ==
  UpToNul(SubSeq(aes_encrypt(t), 1, Len(aes_encrypt(t)) - Block))

(* The ciphertext as it is, NULs and all.                                  *)
encryWhole(t) == aes_encrypt(t)

encry(t) == UpToNul(aes_encrypt(t))

(* A text that was decrypted so far, whatever EVP_DecryptFinal_ex says.    *)
Begins(c, t) == Len(c) <= Len(Cipher[t]) /\ SubSeq(Cipher[t], 1, Len(c)) = c

aes_decryptNotFinal(c) ==
  IF \E t \in Text : Begins(c, t)
  THEN CHOOSE t \in Text : Begins(c, t)
  ELSE NoText

(* A string that is no ciphertext raises an exception.                     *)
aes_decrypt(c) ==
  IF \E t \in Text : Cipher[t] = c
  THEN CHOOSE t \in Text : Cipher[t] = c
  ELSE NoText

dencry(c) == aes_decrypt(UpToNul(c))

-----------------------------------------------------------------------------
(* The prompt has been written and read.                                   *)
Init ==
  /\ stored \in Text
  /\ typed = NoText
  /\ wire = <<>>
  /\ client = "typing"
  /\ session = "password"

(* A write() of no bytes sends nothing, and the client waits for the       *)
(* answer to it.                                                           *)
SendPassword ==
  /\ client = "typing" /\ session = "password"
  /\ \E t \in Text :
       /\ typed' = t
       /\ wire' = wire \o encry(t)
  /\ client' = "reading"
  /\ UNCHANGED <<stored, session>>

Answer == client' = IF client = "reading" THEN "typing" ELSE client

(* What the session's read() returns, when the client has gone perhaps     *)
(* nothing, goes to dencry(); nobody catches the exception.  The client is *)
(* not told: the file sender that the session forked has the socket open.  *)
ReadPassword ==
  /\ session = "password"
  /\ wire # <<>> \/ client = "gone"
  /\ LET n == IF Len(wire) < Cmd THEN Len(wire) ELSE Cmd
         pwd == dencry(SubSeq(wire, 1, n))
     IN /\ wire' = SubSeq(wire, n + 1, Len(wire))
        /\ \/ pwd = NoText /\ session' = "ended" /\ UNCHANGED client
           \/ pwd = stored /\ session' = "in" /\ Answer
           \/ pwd \notin {stored, NoText} /\ session' = "login" /\ Answer
  /\ UNCHANGED <<stored, typed>>

(* "Enter your ID again", which the student does.                          *)
AskAgain ==
  /\ session = "login" /\ client = "typing"
  /\ session' = "password"
  /\ UNCHANGED <<stored, typed, wire, client>>

(* The client program is killed.                                           *)
Quit ==
  /\ client # "gone"
  /\ client' = "gone"
  /\ UNCHANGED <<stored, typed, wire, session>>

Next == SendPassword \/ ReadPassword \/ AskAgain \/ Quit

(* A session that can read does.                                           *)
Spec == Init /\ [][Next]_vars /\ WF_vars(ReadPassword)

-----------------------------------------------------------------------------
(* Properties.                                                             *)

(* Whose ciphertext arrives as it is.                                      *)
Sendable(t) ==
  /\ \A i \in 1 .. Len(Cipher[t]) : Cipher[t][i] # NUL
  /\ Len(Cipher[t]) <= Cmd

(* No NUL is ever sent: what arrives is what encry() returned.             *)
TypeOK ==
  /\ stored \in Text
  /\ typed \in Text \cup {NoText}
  /\ wire \in Seq(Byte \ {NUL})
  /\ client \in {"typing", "reading", "gone"}
  /\ session \in {"login", "password", "in", "ended"}

(* Whatever is cut off on the way, nobody is admitted but with the         *)
(* password of the row (handle.cpp:113-115).                               *)
NoOtherPassword == session = "in" => typed = stored

(* Only a ciphertext with a NUL, or too long for the session's buffer,     *)
(* ends a session whose client is there (secure.cpp:29,                    *)
(* handle.cpp:102-113), or leaves the two waiting for each other.          *)
LostOnlyInTransit ==
  /\ session = "ended" /\ client # "gone" => ~Sendable(typed)
  /\ client = "reading" /\ session = "password" /\ wire = <<>> =>
       ~Sendable(typed)

(* Every other password is answered.                                       *)
SendableAnswered ==
  client = "reading" /\ Sendable(typed) ~> client # "reading"
=============================================================================
