----------------------------- MODULE MCFraming -----------------------------
(***************************************************************************)
(* Small instances of module Framing: buffers of 4 and 6 bytes.            *)
(***************************************************************************)
EXTENDS Framing

MCBuf == 4
MCCmd == 6
=============================================================================
