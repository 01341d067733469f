---------------------------- MODULE MCHTTPHandler ----------------------------
(* HTTPHandler with two requests, of which one may have two sockets at the *)
(* same time.                                                              *)
EXTENDS HTTPHandler

CONSTANTS r1, r2, s1, s2

TwoForOne == r1 :> {s1, s2} @@ r2 :> {s1}
==============================================================================
