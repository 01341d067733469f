---------------------------- MODULE HandshakeStream ----------------------------
(***************************************************************************)
(* The handshake of one peer on its way to another: encoded into a ring    *)
(* buffer, sent and received in pieces of any length, decoded when it is   *)
(* complete, and begun anew when an attempt fails.  The other direction is *)
(* the same code with the roles exchanged.                                 *)
(*                                                                         *)
(* The lengths of the fields are parameters (19, 8, 20 and 20 after the    *)
(* length byte).  A byte is known by its field and place, so that one that *)
(* is lost, repeated or moved shows.  The sender may be any client.        *)
(* PeerConnectionManager's two rings have the size of a handshake and are  *)
(* at cell 0 when they are empty; encode and decode are written for every  *)
(* other size and rotation too, so both are parameters.                    *)
(***************************************************************************)
EXTENDS IoRingBuffer, Integers, FiniteSets

CONSTANTS
  Pstr, Reserved, InfoHash, PeerId,  \* lengths of the fields
  SendSizes,    \* sizes of the sender's ring: encode is a template over it
  RecvStart,    \* where the receiver's empty ring may begin: decode allows any cell
  Ids,          \* peer ids
  NoId,         \* no peer id known
  MaxAttempts   \* bound on attempts

ASSUME LengthsAssumption ==
  Pstr \in Nat \ {0} /\ Reserved \in Nat \ {0} /\ InfoHash \in Nat \ {0} /\ PeerId \in Nat \ {0}
ASSUME SendSizesAssumption == SendSizes \subseteq Nat \ {0} /\ MaxAttempts \in Nat \ {0}

\* length::handshake, the size of the receiver's ring.
Length == 1 + Pstr + Reserved + InfoHash + PeerId

ASSUME RecvStartAssumption == RecvStart \subseteq 0 .. Length - 1

VARIABLES
  frame,            \* the handshake of this attempt, before it is laid out
  cursor,           \* the sender's frame_cursor
  send_buffer, wire, recv_buffer,
  decoded,          \* what decode said, <<>> before
  attempt

vars == <<frame, cursor, send_buffer, wire, recv_buffer, decoded, attempt>>

\* length: the first byte is 19; differs: the place at which info_hash is not ours, 0 if none.
Frame == [length : BOOLEAN, differs : 0 .. InfoHash, id : Ids]

Field(name, len) == [i \in 1 .. len |-> <<name, i>>]

info_hash == Field("hash", InfoHash)

\* compute_handshake.
Laid == [f \in Frame |->
  << <<"length", IF f.length THEN 19 ELSE 0>> >>
  \o Field("pstr", Pstr) \o Field("reserved", Reserved)
  \o [i \in 1 .. InfoHash |-> IF i = f.differs THEN <<"other", i>> ELSE info_hash[i]]
  \o Field(f.id, PeerId)]

Unused(n) == [c \in 0 .. n - 1 |-> <<"unused", 0>>]

Init ==
  /\ frame \in Frame
  /\ cursor = 0
  /\ \E n \in SendSizes : send_buffer = EmptyRing(n, Unused(n))
  /\ wire = << >>
  /\ \E start \in RecvStart :
       recv_buffer = [EmptyRing(Length, Unused(Length)) EXCEPT !.read = start, !.write = start]
  /\ decoded = << >>
  /\ attempt = 1
------------------------------------------------------------------------------
\* As much of the rest as the pieces of the ring take; the cursor says where to go on.
encode ==
  LET room == prepared_bytes(prepare_write(send_buffer))
      n    == IF Length - cursor < room THEN Length - cursor ELSE room
  IN
  /\ decoded = << >> /\ cursor < Length /\ room > 0
  /\ send_buffer' = Written(send_buffer, SubSeq(Laid[frame], cursor + 1, cursor + n))
  /\ cursor' = cursor + n
  /\ UNCHANGED <<frame, wire, recv_buffer, decoded, attempt>>

\* sendmsg takes the first k bytes of both pieces.
send(k) ==
  /\ k <= r_available(send_buffer)
  /\ wire' = wire \o FirstBytes(send_buffer, k)
  /\ send_buffer' = commit_read(send_buffer, k)
  /\ UNCHANGED <<frame, cursor, recv_buffer, decoded, attempt>>
------------------------------------------------------------------------------
(* decode.                                                                 *)

\* Slip: the fields after a cut one are looked for at the second piece's beginning.
SlipTake(first, second, from, need) ==
  LET left == Len(first) - from IN
  CASE left >= need -> SubSeq(first, from + 1, from + need)
    [] left \in 0 .. need - 1 ->
         SubSeq(first, from + 1, Len(first)) \o SubSeq(second, 1, need - left)
    [] left < 0 -> SubSeq(second, 1, need)

\* The field of need bytes after the first from ones: from the first piece; or what is
\* left of it and, with wraparound_steal, the beginning of the second; or from the
\* second, behind what was stolen.
Take(first, second, from, need) ==
  LET left == Len(first) - from IN
  CASE left >= need -> SubSeq(first, from + 1, from + need)
    [] left \in 0 .. need - 1 ->
         SubSeq(first, from + 1, Len(first)) \o SubSeq(second, 1, need - left)
    [] left < 0 -> SubSeq(second, 1 - left, need - left)

\* Slip: one byte more is waited for.
SlipComplete(r) == prepared_bytes(prepare_read(r)) > Length

Complete(r) == prepared_bytes(prepare_read(r)) >= Length

\* The fields in order; pstr and reserved are skipped, the peer id is read only if the
\* fields before it are right (peer_id_ref keeps what it held otherwise).
decode(r) ==
  LET iovecs == prepare_read(r)
      first  == Bytes(r, Piece(iovecs[1]))
      second == IF Len(iovecs) = 2 THEN Bytes(r, Piece(iovecs[2])) ELSE << >>
      hashAt == 1 + Pstr + Reserved
      valid  == /\ Take(first, second, 0, 1) = << <<"length", 19>> >>
                /\ Take(first, second, hashAt, InfoHash) = info_hash
  IN [valid   |-> valid,
      peer_id |-> IF valid THEN Take(first, second, hashAt + InfoHash, PeerId) ELSE NoId]

\* A readable socket: recvmsg puts k bytes into the pieces, then decode looks at them.
recv(k) ==
  /\ decoded = << >>
  /\ k <= Len(wire) /\ k <= w_available(recv_buffer)
  /\ wire' = SubSeq(wire, k + 1, Len(wire))
  /\ LET r == Written(recv_buffer, SubSeq(wire, 1, k)) IN
       \/ /\ ~Complete(r)
          /\ recv_buffer' = r
          /\ UNCHANGED decoded
       \/ /\ Complete(r)
          /\ recv_buffer' = commit_read(r, Length)
          /\ decoded' = << decode(r) >>
  /\ UNCHANGED <<frame, cursor, send_buffer, attempt>>
------------------------------------------------------------------------------
\* Slip: what was received so far is kept.
SlipFail ==
  /\ decoded = << >> /\ attempt < MaxAttempts
  /\ attempt' = attempt + 1
  /\ frame' \in Frame
  /\ cursor' = 0
  /\ send_buffer' = reset(send_buffer)
  /\ wire' = << >>
  /\ UNCHANGED <<recv_buffer, decoded>>

\* The attempt fails at any point: both ends reset their buffers and the cursor, and
\* the next attempt has a new connection.
fail ==
  /\ decoded = << >> /\ attempt < MaxAttempts
  /\ attempt' = attempt + 1
  /\ frame' \in Frame
  /\ cursor' = 0
  /\ send_buffer' = reset(send_buffer)
  /\ recv_buffer' = reset(recv_buffer)
  /\ wire' = << >>
  /\ UNCHANGED decoded

Next == \/ encode
        \/ \E k \in 1 .. Length : send(k)
        \/ \E k \in 1 .. Length : recv(k)
        \/ fail

Spec == Init /\ [][Next]_vars

------------------------------------------------------------------------------
RingOK(r) ==
  /\ r.read \in 0 .. r.n - 1 /\ r.write \in 0 .. r.n - 1 /\ r.readable \in 0 .. r.n
  /\ r.write = mask(r, r.read + r.readable)
  \* prepare_read offers the readable cells in their order, prepare_write the others.
  /\ Cells(prepare_read(r)) = [i \in 1 .. r.readable |-> CellAfter(r, i - 1)]
  /\ Cells(prepare_write(r)) =
       [i \in 1 .. r.n - r.readable |-> CellAfter(r, r.readable + i - 1)]

\* The two indices and the count of a ring agree, and at every rotation the iovecs of
\* prepare_read are the readable cells in order and those of prepare_write the rest, so
\* no send repeats a byte and no recv or encode overwrites one that is unread.
RingsSound == RingOK(send_buffer) /\ RingOK(recv_buffer)

\* However encode, send and recv cut it, the stream is intact: what the receiver holds,
\* the socket carries and the sender holds is what encode has taken from the handshake,
\* with nothing of an earlier attempt.
StreamIntact ==
  decoded = << >> =>
    Contents(recv_buffer) \o wire \o Contents(send_buffer) = SubSeq(Laid[frame], 1, cursor)

\* decode accepts a handshake exactly when it begins with 19 and is for our torrent, and
\* reports its peer id, wherever the ring wraps inside it; and nothing is left over.
DecodeCorrect ==
  decoded # << >> =>
    LET valid == frame.length /\ frame.differs = 0 IN
    /\ decoded[1] = [valid |-> valid, peer_id |-> IF valid THEN Field(frame.id, PeerId) ELSE NoId]
    /\ empty(recv_buffer)

\* Until the handshake is decoded one of the two ends can go on: encode has room, or
\* there is something to send, or the receiver has room for what was sent.  Each of these
\* steps moves bytes towards decode, so no size of the rings leaves an attempt stuck.
NeverStuck ==
  decoded = << >> =>
    \/ cursor < Length /\ ~full(send_buffer)
    \/ ~empty(send_buffer)
    \/ wire # << >> /\ ~full(recv_buffer)
==============================================================================
