----------------------------- MODULE IoRingBuffer -----------------------------
(***************************************************************************)
(* io_ring_buffer<N>: the ring of bytes between a socket and the encoders  *)
(* and decoders, as operators on a record.  prepare_read and prepare_write *)
(* offer at most two contiguous pieces (iovecs) that the caller copies     *)
(* from or to, and commit_read and commit_write move the indices by what   *)
(* was really copied.                                                      *)
(***************************************************************************)
EXTENDS Naturals, Sequences

\* A ring of n cells without readable bytes; what its cells hold does not matter.
EmptyRing(n, cells) == [n |-> n, read |-> 0, write |-> 0, readable |-> 0, buffer |-> cells]

\* Both ways of computing it in the code are the remainder.
mask(r, idx) == idx % r.n

empty(r) == r.readable = 0
full(r)  == r.readable = r.n

r_available(r) == r.readable
w_available(r) == r.n - r.readable

Iovec(base, len) == [base |-> base, len |-> len]

prepare_read(r) ==
  CASE empty(r) -> << >>
    [] ~empty(r) /\ (r.read < r.write \/ (full(r) /\ r.read = 0)) ->
         << Iovec(r.read, r.readable) >>
    [] OTHER -> << Iovec(r.read, r.n - r.read), Iovec(0, r.write) >>

prepare_write(r) ==
  CASE full(r) -> << >>
    [] ~full(r) /\ (r.write < r.read \/ (empty(r) /\ r.write = 0)) ->
         << Iovec(r.write, w_available(r)) >>
    [] OTHER -> << Iovec(r.write, r.n - r.write), Iovec(0, r.read) >>

\* Slip: the index is not taken around the ring.
SlipCommitRead(r, bytes) == [r EXCEPT !.read = @ + bytes, !.readable = @ - bytes]

commit_read(r, bytes) ==
  [r EXCEPT !.read = mask(r, r.read + bytes), !.readable = @ - bytes]

commit_write(r, bytes) ==
  [r EXCEPT !.write = mask(r, r.write + bytes), !.readable = @ + bytes]

reset(r) == [r EXCEPT !.read = 0, !.write = 0, !.readable = 0]
------------------------------------------------------------------------------
(* Copying through iovecs.                                                 *)

\* The cells an iovec covers, in order.
Piece(v) == [i \in 1 .. v.len |-> v.base + i - 1]

Cells(iovecs) ==
  CASE Len(iovecs) = 0 -> << >>
    [] Len(iovecs) = 1 -> Piece(iovecs[1])
    [] Len(iovecs) = 2 -> Piece(iovecs[1]) \o Piece(iovecs[2])

prepared_bytes(iovecs) ==
  CASE Len(iovecs) = 0 -> 0
    [] Len(iovecs) = 1 -> iovecs[1].len
    [] Len(iovecs) = 2 -> iovecs[1].len + iovecs[2].len

Bytes(r, cells) == [i \in DOMAIN cells |-> r.buffer[cells[i]]]

\* The place of cell c in what iovecs covers, 0 if it is not covered.
Place(iovecs, c) ==
  LET Covers(v) == v.base <= c /\ c < v.base + v.len IN
  CASE Len(iovecs) >= 1 /\ Covers(iovecs[1]) -> c - iovecs[1].base + 1
    [] Len(iovecs) = 2 /\ ~Covers(iovecs[1]) /\ Covers(iovecs[2]) ->
         iovecs[1].len + c - iovecs[2].base + 1
    [] OTHER -> 0

\* bytes copied to the front of what iovecs covers.
CopiedTo(r, iovecs, bytes) ==
  [r EXCEPT !.buffer = [c \in DOMAIN r.buffer |->
     LET i == Place(iovecs, c) IN IF i \in 1 .. Len(bytes) THEN bytes[i] ELSE r.buffer[c]]]

\* prepare_write, copy, commit_write; and prepare_read, copy the first k, commit_read.
Written(r, bytes) == commit_write(CopiedTo(r, prepare_write(r), bytes), Len(bytes))
FirstBytes(r, k) == Bytes(r, SubSeq(Cells(prepare_read(r)), 1, k))
------------------------------------------------------------------------------
(* What the ring stands for.                                               *)

\* The i-th cell after the read index, around the ring.
CellAfter(r, i) == IF r.read + i < r.n THEN r.read + i ELSE r.read + i - r.n

Contents(r) == [i \in 1 .. r.readable |-> r.buffer[CellAfter(r, i - 1)]]
==============================================================================
