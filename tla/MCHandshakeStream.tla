-------------------------- MODULE MCHandshakeStream --------------------------
(***************************************************************************)
(* HandshakeStream with fields of one to two bytes.  The sender's ring is  *)
(* as large as a handshake, as in the program, or smaller and no divisor   *)
(* of its length, so that encode must resume and the message wraps; the    *)
(* receiver's ring begins at each of its cells.                            *)
(***************************************************************************)
EXTENDS HandshakeStream

Everywhere == 0 .. Length - 1
==============================================================================
