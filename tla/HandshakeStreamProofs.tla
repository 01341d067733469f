------------------------ MODULE HandshakeStreamProofs ------------------------
(***************************************************************************)
(* The rings of HandshakeStream are sound at every size and rotation, the  *)
(* handshake goes through them unharmed however it is cut, decode says of  *)
(* it what is true, and an attempt never gets stuck.                       *)
(***************************************************************************)
EXTENDS HandshakeStream, SequenceTheorems, TLAPS

\* A ring by its fields.
Ring(n, rd, wr, k, buf) == [n |-> n, read |-> rd, write |-> wr, readable |-> k, buffer |-> buf]

\* The write index is k cells after the read index, around the ring.
Laps(n, rd, wr, k) == (rd + k < n => wr = rd + k) /\ (~(rd + k < n) => wr = rd + k - n)

\* A byte is known by its field and place.
Name == {"unused", "length", "pstr", "reserved", "hash", "other"} \cup Ids
Byte == Name \X Nat

\* n cells of them.
CellsIn(buf, n) == buf \in [0 .. n - 1 -> Byte]

\* r is a ring of n cells with these fields, whose two indices and count agree.
Fields(r, n, rd, wr, k, buf) ==
  /\ n \in Nat \ {0} /\ rd \in 0 .. n - 1 /\ wr \in 0 .. n - 1 /\ k \in 0 .. n
  /\ CellsIn(buf, n) /\ Laps(n, rd, wr, k) /\ r = Ring(n, rd, wr, k, buf)

IsRing(r) == Fields(r, r.n, r.read, r.write, r.readable, r.buffer)

\* The remainder in mask takes an index around the ring at most once.
LEMMA MaskWraps ==
  ASSUME NEW n \in Nat \ {0}, NEW a \in 0 .. n - 1, NEW b \in 0 .. n
  PROVE  (a + b) % n = IF a + b < n THEN a + b ELSE a + b - n
OBVIOUS

\* The indices keep within the ring, and both ways of writing it agree.
LEMMA RingIndices ==
  ASSUME NEW r, IsRing(r)
  PROVE  /\ r.n \in Nat \ {0} /\ r.read \in 0 .. r.n - 1 /\ r.write \in 0 .. r.n - 1
         /\ r.readable \in 0 .. r.n /\ r.buffer \in [0 .. r.n - 1 -> Byte]
         /\ r.write = IF r.read + r.readable < r.n THEN r.read + r.readable
                      ELSE r.read + r.readable - r.n
         /\ r.write = mask(r, r.read + r.readable)
         /\ \A i \in 0 .. r.n : CellAfter(r, i) \in 0 .. r.n - 1
<1>1. /\ r.n \in Nat \ {0} /\ r.read \in 0 .. r.n - 1 /\ r.write \in 0 .. r.n - 1
      /\ r.readable \in 0 .. r.n /\ r.buffer \in [0 .. r.n - 1 -> Byte]
      /\ r.write = CellAfter(r, r.readable)
  BY DEF IsRing, Fields, Laps, CellAfter, CellsIn
<1>2. mask(r, r.read + r.readable) =
        IF r.read + r.readable < r.n THEN r.read + r.readable
        ELSE r.read + r.readable - r.n
  BY <1>1, MaskWraps DEF mask
<1>3. QED
  BY <1>1, <1>2, SMTT(30) DEF CellAfter

\* The cells of a piece.
LEMMA PieceCells ==
  ASSUME NEW b \in Nat, NEW n \in Nat
  PROVE  /\ Piece(Iovec(b, n)) \in Seq(Nat) /\ Len(Piece(Iovec(b, n))) = n
         /\ \A i \in 1 .. n : Piece(Iovec(b, n))[i] = b + i - 1
BY DEF Piece, Iovec

\* The cells of two pieces, the second at the beginning of the ring.
Around(a, m, n) == Piece(Iovec(a, m)) \o Piece(Iovec(0, n))

\* They go on from the first piece to the second.
LEMMA TwoPieces ==
  ASSUME NEW a \in Nat, NEW m \in Nat, NEW n \in Nat
  PROVE  /\ Around(a, m, n) \in Seq(Nat) /\ Len(Around(a, m, n)) = m + n
         /\ \A i \in 1 .. m : Around(a, m, n)[i] = a + i - 1
         /\ \A i \in m + 1 .. m + n : Around(a, m, n)[i] = i - m - 1
<1> DEFINE p == Piece(Iovec(a, m))
           q == Piece(Iovec(0, n))
<1>1. /\ p \in Seq(Nat) /\ Len(p) = m /\ \A i \in 1 .. m : p[i] = a + i - 1
      /\ q \in Seq(Nat) /\ Len(q) = n /\ \A i \in 1 .. n : q[i] = 0 + i - 1
  BY PieceCells
<1> HIDE DEF p, q
<1>2. /\ p \o q \in Seq(Nat) /\ Len(p \o q) = m + n
      /\ \A i \in 1 .. m + n : (p \o q)[i] = IF i <= m THEN p[i] ELSE q[i - m]
  BY <1>1, ConcatProperties
<1>3. ASSUME NEW i \in 1 .. m
      PROVE  (p \o q)[i] = a + i - 1
  BY <1>1, <1>2
<1>4. ASSUME NEW i \in m + 1 .. m + n
      PROVE  (p \o q)[i] = i - m - 1
  <2>1. i - m \in 1 .. n /\ i \in 1 .. m + n /\ ~(i <= m)
    OBVIOUS
  <2>2. (p \o q)[i] = q[i - m] /\ q[i - m] = 0 + (i - m) - 1
    BY <1>1, <1>2, <2>1
  <2>3. QED
    BY <2>2
<1>5. Around(a, m, n) = p \o q
  BY DEF Around, p, q
<1>6. QED
  BY <1>2, <1>3, <1>4, <1>5

\* A sequence is known by its elements.
LEMMA SameCells ==
  ASSUME NEW n \in Nat, NEW s \in Seq(Nat), Len(s) = n, NEW f,
         f = [i \in 1 .. n |-> f[i]], \A i \in 1 .. n : s[i] = f[i]
  PROVE  s = f
<1>1. s = [i \in 1 .. n |-> s[i]]
  BY LenProperties
<1>2. QED
  BY <1>1

\* One piece is a stretch of the ring that does not wrap.
LEMMA PieceIs ==
  ASSUME NEW a \in Nat, NEW m \in Nat, NEW f, f = [i \in 1 .. m |-> f[i]],
         \A i \in 1 .. m : f[i] = a + (i - 1)
  PROVE  Piece(Iovec(a, m)) = f
<1> DEFINE p == Piece(Iovec(a, m))
<1>1. p \in Seq(Nat) /\ Len(p) = m /\ \A i \in 1 .. m : p[i] = a + i - 1
  BY PieceCells
<1> HIDE DEF p
<1>2. \A i \in 1 .. m : p[i] = f[i]
  BY <1>1
<1>3. p = f
  BY <1>1, <1>2, SameCells
<1>4. QED
  BY <1>3 DEF p

\* Two pieces are one that wraps.
LEMMA AroundIs ==
  ASSUME NEW n \in Nat, NEW a \in 0 .. n, NEW b \in Nat, NEW k \in Nat, NEW f
  PROVE  (/\ k = n - a + b
          /\ f = [i \in 1 .. k |-> f[i]]
          /\ \A i \in 1 .. k : a + (i - 1) < n => f[i] = a + (i - 1)
          /\ \A i \in 1 .. k : ~(a + (i - 1) < n) => f[i] = a + (i - 1) - n)
         => Around(a, n - a, b) = f
<1>1. SUFFICES
        ASSUME k = n - a + b, f = [i \in 1 .. k |-> f[i]],
               \A i \in 1 .. k : a + (i - 1) < n => f[i] = a + (i - 1),
               \A i \in 1 .. k : ~(a + (i - 1) < n) => f[i] = a + (i - 1) - n
        PROVE  Around(a, n - a, b) = f
  OBVIOUS
<1>2. PICK m \in Nat : m = n - a
  OBVIOUS
<1> DEFINE p == Around(a, m, b)
<1>3. a \in Nat
  OBVIOUS
<1>4. /\ p \in Seq(Nat) /\ Len(p) = m + b
      /\ \A i \in 1 .. m : p[i] = a + i - 1
      /\ \A i \in m + 1 .. m + b : p[i] = i - m - 1
  BY <1>3, TwoPieces, ZenonT(30)
<1>5. Around(a, n - a, b) = p
  BY <1>2
<1> HIDE DEF p
<1>6. ASSUME NEW i \in 1 .. k
      PROVE  p[i] = f[i]
  <2>1. CASE i <= m
    <3>1. p[i] = a + i - 1
      BY <1>4, <2>1
    <3>2. QED
      BY <1>1, <1>2, <2>1, <3>1
  <2>2. CASE i > m
    <3>1. i \in m + 1 .. m + b
      BY <1>1, <1>2, <2>2
    <3>2. p[i] = i - m - 1
      BY <1>4, <3>1
    <3>3. QED
      BY <1>1, <1>2, <2>2, <3>2
  <2>3. QED
    BY <2>1, <2>2
<1>7. Len(p) = k
  BY <1>1, <1>2, <1>4
<1>8. p = f
  BY <1>1, <1>4, <1>6, <1>7, SameCells
<1>9. QED
  BY <1>5, <1>8

\* There is one sequence without elements.
LEMMA NoCells ==
  ASSUME NEW f, f = [i \in 1 .. 0 |-> f[i]]
  PROVE  f = << >>
OBVIOUS

\* prepare_read offers the readable cells in their order.
LEMMA ReadPiecesOf ==
  ASSUME NEW r, NEW n \in Nat \ {0}, NEW rd \in 0 .. n - 1, NEW wr \in 0 .. n - 1,
         NEW k \in 0 .. n
  PROVE  (/\ r.n = n /\ r.read = rd /\ r.write = wr /\ r.readable = k
          /\ rd + k < n => wr = rd + k
          /\ ~(rd + k < n) => wr = rd + k - n) =>
           /\ Cells(prepare_read(r)) = [i \in 1 .. k |-> CellAfter(r, i - 1)]
           /\ prepared_bytes(prepare_read(r)) = k
<1>0. SUFFICES ASSUME r.n = n, r.read = rd, r.write = wr, r.readable = k,
                       rd + k < n => wr = rd + k, ~(rd + k < n) => wr = rd + k - n
                PROVE  /\ Cells(prepare_read(r)) = [i \in 1 .. k |-> CellAfter(r, i - 1)]
                       /\ prepared_bytes(prepare_read(r)) = k
  OBVIOUS
<1> DEFINE want == [i \in 1 .. k |-> CellAfter(r, i - 1)]
<1>1. /\ want = [i \in 1 .. k |-> want[i]]
      /\ \A i \in 1 .. k : rd + (i - 1) < n => want[i] = rd + (i - 1)
      /\ \A i \in 1 .. k : ~(rd + (i - 1) < n) => want[i] = rd + (i - 1) - n
  BY <1>0 DEF CellAfter
<1>2. k \in Nat /\ rd \in Nat /\ wr \in Nat
  OBVIOUS
<1> HIDE DEF want
<1>3. CASE k = 0
  <2>1. prepare_read(r) = << >>
    BY <1>0, <1>3 DEF prepare_read, empty
  <2>2. Cells(<< >>) = << >> /\ prepared_bytes(<< >>) = 0
    BY DEF Cells, prepared_bytes
  <2>3. want = << >>
    BY <1>1, <1>3, NoCells
  <2>4. QED
    BY <1>3, <2>1, <2>2, <2>3 DEF want
<1>4. CASE k # 0 /\ (rd < wr \/ (k = n /\ rd = 0))
  <2>1. prepare_read(r) = << Iovec(rd, k) >>
    BY <1>0, <1>4 DEF prepare_read, empty, full
  <2>2. Cells(prepare_read(r)) = Piece(Iovec(rd, k)) /\ prepared_bytes(prepare_read(r)) = k
    BY <2>1 DEF Cells, prepared_bytes, Iovec
  <2>3. \A i \in 1 .. k : want[i] = rd + (i - 1)
    BY <1>0, <1>1, <1>4
  <2>4. Piece(Iovec(rd, k)) = want
    BY <1>1, <1>2, <2>3, PieceIs
  <2>5. QED
    BY <2>2, <2>4 DEF want
<1>5. CASE k # 0 /\ ~(rd < wr \/ (k = n /\ rd = 0))
  <2>1. prepare_read(r) = << Iovec(rd, n - rd), Iovec(0, wr) >>
    BY <1>0, <1>5 DEF prepare_read, empty, full
  <2>2. Cells(prepare_read(r)) = Around(rd, n - rd, wr) /\ prepared_bytes(prepare_read(r)) = n - rd + wr
    BY <2>1 DEF Cells, prepared_bytes, Iovec, Around
  <2>3. k = n - rd + wr
    BY <1>0, <1>5
  <2>4. Around(rd, n - rd, wr) = want
    <3>1. rd \in 0 .. n /\ n \in Nat
      OBVIOUS
    <3>2. (/\ k = n - rd + wr
           /\ want = [i \in 1 .. k |-> want[i]]
           /\ \A i \in 1 .. k : rd + (i - 1) < n => want[i] = rd + (i - 1)
           /\ \A i \in 1 .. k : ~(rd + (i - 1) < n) => want[i] = rd + (i - 1) - n)
          => Around(rd, n - rd, wr) = want
      BY <1>2, <3>1, AroundIs
    <3>3. QED
      BY <1>1, <1>2, <2>3, <3>2
  <2>5. QED
    BY <2>2, <2>3, <2>4 DEF want
<1>6. QED
  BY <1>3, <1>4, <1>5

\* prepare_write offers the other cells, in the order in which they will be read.
LEMMA WritePiecesOf ==
  ASSUME NEW r, NEW n \in Nat \ {0}, NEW rd \in 0 .. n - 1, NEW wr \in 0 .. n - 1,
         NEW k \in 0 .. n
  PROVE  (/\ r.n = n /\ r.read = rd /\ r.write = wr /\ r.readable = k
          /\ rd + k < n => wr = rd + k
          /\ ~(rd + k < n) => wr = rd + k - n) =>
           /\ Cells(prepare_write(r)) = [i \in 1 .. n - k |-> CellAfter(r, k + i - 1)]
           /\ prepared_bytes(prepare_write(r)) = n - k
<1>0. SUFFICES ASSUME r.n = n, r.read = rd, r.write = wr, r.readable = k,
                       rd + k < n => wr = rd + k, ~(rd + k < n) => wr = rd + k - n
                PROVE  /\ Cells(prepare_write(r)) = [i \in 1 .. n - k |-> CellAfter(r, k + i - 1)]
                       /\ prepared_bytes(prepare_write(r)) = n - k
  OBVIOUS
<1>a. PICK room \in Nat : room = n - k
  OBVIOUS
<1> DEFINE want == [i \in 1 .. room |-> CellAfter(r, k + i - 1)]
<1>1. /\ want = [i \in 1 .. room |-> want[i]]
      /\ \A i \in 1 .. room :
           want[i] = IF rd + (k + i - 1) < n THEN rd + (k + i - 1) ELSE rd + (k + i - 1) - n
  BY <1>0 DEF CellAfter
<1>2. k \in Nat /\ rd \in Nat /\ wr \in Nat /\ room = n - k
  BY <1>a
<1> HIDE DEF want
<1>3. CASE k = n
  <2>1. prepare_write(r) = << >>
    BY <1>0, <1>3 DEF prepare_write, full
  <2>2. Cells(<< >>) = << >> /\ prepared_bytes(<< >>) = 0
    BY DEF Cells, prepared_bytes
  <2>3. room = 0
    BY <1>2, <1>3
  <2>4. want = << >>
    BY <1>1, <2>3, NoCells
  <2>5. QED
    BY <1>2, <2>1, <2>2, <2>3, <2>4 DEF want
<1>4. CASE k # n /\ (wr < rd \/ (k = 0 /\ wr = 0))
  <2>1. prepare_write(r) = << Iovec(wr, room) >>
    BY <1>0, <1>2, <1>4 DEF prepare_write, empty, full, w_available
  <2>2. Cells(prepare_write(r)) = Piece(Iovec(wr, room)) /\ prepared_bytes(prepare_write(r)) = room
    BY <2>1 DEF Cells, prepared_bytes, Iovec
  <2>3. ASSUME NEW i \in 1 .. room
        PROVE  want[i] = wr + (i - 1)
    <3>1. want[i] = IF rd + (k + i - 1) < n THEN rd + (k + i - 1) ELSE rd + (k + i - 1) - n
      BY <1>1
    <3>2. QED
      BY <1>0, <1>2, <1>4, <3>1
  <2>4. Piece(Iovec(wr, room)) = want
    BY <1>1, <1>2, <2>3, PieceIs
  <2>5. QED
    BY <1>2, <2>2, <2>4 DEF want
<1>5. CASE k # n /\ ~(wr < rd \/ (k = 0 /\ wr = 0))
  <2>1. prepare_write(r) = << Iovec(wr, n - wr), Iovec(0, rd) >>
    BY <1>0, <1>5 DEF prepare_write, empty, full
  <2>2. Cells(prepare_write(r)) = Around(wr, n - wr, rd) /\ prepared_bytes(prepare_write(r)) = n - wr + rd
    BY <2>1 DEF Cells, prepared_bytes, Iovec, Around
  <2>3. room = n - wr + rd
    BY <1>0, <1>2, <1>5
  <2>4. ASSUME NEW i \in 1 .. room
        PROVE  /\ wr + (i - 1) < n => want[i] = wr + (i - 1)
               /\ ~(wr + (i - 1) < n) => want[i] = wr + (i - 1) - n
    <3>1. want[i] = IF rd + (k + i - 1) < n THEN rd + (k + i - 1) ELSE rd + (k + i - 1) - n
      BY <1>1
    <3>2. QED
      BY <1>0, <1>2, <1>5, <3>1
  <2>5. Around(wr, n - wr, rd) = want
    <3>1. wr \in 0 .. n /\ n \in Nat /\ rd \in Nat /\ room \in Nat
      BY <1>a, <1>2
    <3>2. (/\ room = n - wr + rd
           /\ want = [i \in 1 .. room |-> want[i]]
           /\ \A i \in 1 .. room : wr + (i - 1) < n => want[i] = wr + (i - 1)
           /\ \A i \in 1 .. room : ~(wr + (i - 1) < n) => want[i] = wr + (i - 1) - n)
          => Around(wr, n - wr, rd) = want
      <4>1. \A b, c \in Nat : \A f :
              (/\ c = n - wr + b
               /\ f = [i \in 1 .. c |-> f[i]]
               /\ \A i \in 1 .. c : wr + (i - 1) < n => f[i] = wr + (i - 1)
               /\ \A i \in 1 .. c : ~(wr + (i - 1) < n) => f[i] = wr + (i - 1) - n)
              => Around(wr, n - wr, b) = f
        BY <3>1, AroundIs, Zenon
      <4>2. QED
        BY <3>1, <4>1
    <3>3. QED
      BY <1>1, <1>2, <2>3, <2>4, <3>2
  <2>6. QED
    BY <1>2, <2>2, <2>3, <2>5 DEF want
<1>6. QED
  BY <1>3, <1>4, <1>5

\* Both, for a ring.
LEMMA PiecesOfRing ==
  ASSUME NEW r, IsRing(r)
  PROVE  /\ Cells(prepare_read(r)) = [i \in 1 .. r.readable |-> CellAfter(r, i - 1)]
         /\ prepared_bytes(prepare_read(r)) = r.readable
         /\ Cells(prepare_write(r)) =
              [i \in 1 .. r.n - r.readable |-> CellAfter(r, r.readable + i - 1)]
         /\ prepared_bytes(prepare_write(r)) = r.n - r.readable
<1>1. /\ r.n \in Nat \ {0} /\ r.read \in 0 .. r.n - 1 /\ r.write \in 0 .. r.n - 1
      /\ r.readable \in 0 .. r.n
      /\ r.read + r.readable < r.n => r.write = r.read + r.readable
      /\ ~(r.read + r.readable < r.n) => r.write = r.read + r.readable - r.n
  BY RingIndices
<1>2. /\ Cells(prepare_read(r)) = [i \in 1 .. r.readable |-> CellAfter(r, i - 1)]
      /\ prepared_bytes(prepare_read(r)) = r.readable
  BY <1>1, ReadPiecesOf
<1>3. /\ Cells(prepare_write(r)) =
              [i \in 1 .. r.n - r.readable |-> CellAfter(r, r.readable + i - 1)]
      /\ prepared_bytes(prepare_write(r)) = r.n - r.readable
  BY <1>1, WritePiecesOf, SMTT(30)
<1>4. QED
  BY <1>2, <1>3

\* So a ring whose indices agree satisfies RingOK.
LEMMA RingIsOK ==
  ASSUME NEW r, IsRing(r)
  PROVE  RingOK(r)
BY RingIndices, PiecesOfRing DEF RingOK
------------------------------------------------------------------------------
(* What the operations do to the contents of a ring.                       *)

\* Where a copy into the pieces of prepare_write puts a byte: the cell at offset j from
\* the read index takes the byte after the readable ones, and a readable cell none.
LEMMA PlaceOfCell ==
  ASSUME NEW r, NEW n \in Nat \ {0}, NEW rd \in 0 .. n - 1, NEW wr \in 0 .. n - 1,
         NEW k \in 0 .. n, NEW j \in 0 .. n - 1
  PROVE  (/\ r.n = n /\ r.read = rd /\ r.write = wr /\ r.readable = k
          /\ rd + k < n => wr = rd + k
          /\ ~(rd + k < n) => wr = rd + k - n) =>
           /\ j >= k => Place(prepare_write(r), CellAfter(r, j)) = j - k + 1
           /\ j < k => Place(prepare_write(r), CellAfter(r, j)) = 0
<1>1. SUFFICES ASSUME r.n = n, r.read = rd, r.write = wr, r.readable = k,
                      rd + k < n => wr = rd + k, ~(rd + k < n) => wr = rd + k - n
               PROVE  /\ j >= k => Place(prepare_write(r), CellAfter(r, j)) = j - k + 1
                      /\ j < k => Place(prepare_write(r), CellAfter(r, j)) = 0
  OBVIOUS
<1> DEFINE c == IF rd + j < n THEN rd + j ELSE rd + j - n
<1>2. c \in 0 .. n - 1 /\ c = IF rd + j < n THEN rd + j ELSE rd + j - n
  OBVIOUS
<1> HIDE DEF c
<1>3. CellAfter(r, j) = c
  BY <1>1, <1>2 DEF CellAfter
<1>4. CASE k = n
  <2>1. prepare_write(r) = << >>
    BY <1>1, <1>4 DEF prepare_write, full
  <2>2. Place(<< >>, c) = 0
    BY DEF Place
  <2>3. QED
    BY <1>3, <1>4, <2>1, <2>2
<1>5. CASE k # n /\ (wr < rd \/ (k = 0 /\ wr = 0))
  <2>1. prepare_write(r) = << [base |-> wr, len |-> n - k] >>
    BY <1>1, <1>5 DEF prepare_write, empty, full, w_available, Iovec
  <2>2. Place(<< [base |-> wr, len |-> n - k] >>, c) =
          IF wr <= c /\ c < wr + (n - k) THEN c - wr + 1 ELSE 0
    BY DEF Place
  <2>3. /\ j >= k => wr <= c /\ c < wr + (n - k) /\ c - wr + 1 = j - k + 1
        /\ j < k => ~(wr <= c /\ c < wr + (n - k))
    BY <1>1, <1>2, <1>5
  <2>4. QED
    BY <1>3, <2>1, <2>2, <2>3
<1>6. CASE k # n /\ ~(wr < rd \/ (k = 0 /\ wr = 0))
  <2>1. prepare_write(r) = << [base |-> wr, len |-> n - wr], [base |-> 0, len |-> rd] >>
    BY <1>1, <1>6 DEF prepare_write, empty, full, Iovec
  <2>2. Place(<< [base |-> wr, len |-> n - wr], [base |-> 0, len |-> rd] >>, c) =
          IF wr <= c /\ c < wr + (n - wr) THEN c - wr + 1
          ELSE IF 0 <= c /\ c < 0 + rd THEN n - wr + c - 0 + 1 ELSE 0
    BY DEF Place
  <2>3. CASE wr <= c
    <3>1. Place(prepare_write(r), c) = c - wr + 1
      BY <1>2, <2>1, <2>2, <2>3
    <3>2. j >= k /\ c - wr + 1 = j - k + 1
      BY <1>1, <1>2, <1>6, <2>3
    <3>3. QED
      BY <1>3, <3>1, <3>2
  <2>4. CASE c < wr /\ c < rd
    <3>1. Place(prepare_write(r), c) = n - wr + c + 1
      BY <1>2, <2>1, <2>2, <2>4
    <3>2. j >= k /\ n - wr + c + 1 = j - k + 1
      BY <1>1, <1>2, <1>6, <2>4
    <3>3. QED
      BY <1>3, <3>1, <3>2
  <2>5. CASE c < wr /\ c >= rd
    <3>1. Place(prepare_write(r), c) = 0
      BY <1>2, <2>1, <2>2, <2>5
    <3>2. j < k
      BY <1>1, <1>2, <1>6, <2>5
    <3>3. QED
      BY <1>3, <3>1, <3>2
  <2>6. QED
    BY <1>2, <2>3, <2>4, <2>5
<1>7. QED
  BY <1>4, <1>5, <1>6

\* The contents, byte for byte.
LEMMA ContentsOf ==
  ASSUME NEW r, IsRing(r)
  PROVE  /\ Contents(r) \in Seq(Byte) /\ Len(Contents(r)) = r.readable
         /\ \A i \in 1 .. r.readable : Contents(r)[i] = r.buffer[CellAfter(r, i - 1)]
<1>1. /\ r.n \in Nat \ {0} /\ r.readable \in 0 .. r.n /\ r.buffer \in [0 .. r.n - 1 -> Byte]
      /\ \A i \in 0 .. r.n : CellAfter(r, i) \in 0 .. r.n - 1
  BY RingIndices
<1>2. \A i \in 1 .. r.readable : r.buffer[CellAfter(r, i - 1)] \in Byte
  BY <1>1
<1>3. r.readable \in Nat
  BY <1>1
<1> DEFINE size == r.readable
           byte == [i \in 1 .. size |-> r.buffer[CellAfter(r, i - 1)]]
<1>4. Contents(r) = byte
  BY DEF Contents
<1>5. size \in Nat /\ byte \in [1 .. size -> Byte]
  BY <1>2, <1>3
<1>6. \A i \in 1 .. size : byte[i] = r.buffer[CellAfter(r, i - 1)]
  OBVIOUS
<1> HIDE DEF byte, size
<1>7. byte \in Seq(Byte) /\ Len(byte) = size
  BY <1>5
<1>8. QED
  BY <1>4, <1>6, <1>7 DEF size

\* Every place is one of the whole ring.
LEMMA PlaceOfRing ==
  ASSUME NEW n \in Nat \ {0}, NEW rd \in 0 .. n - 1, NEW wr \in 0 .. n - 1,
         NEW k \in 0 .. n, NEW buf, NEW j \in 0 .. n - 1, Laps(n, rd, wr, k)
  PROVE  LET r == Ring(n, rd, wr, k, buf) IN
         /\ j >= k => Place(prepare_write(r), CellAfter(r, j)) = j - k + 1
         /\ j < k => Place(prepare_write(r), CellAfter(r, j)) = 0
<1> DEFINE r == Ring(n, rd, wr, k, buf)
<1>1. r.n = n /\ r.read = rd /\ r.write = wr /\ r.readable = k
  BY DEF Ring
<1> HIDE DEF r
<1>2. QED
  BY <1>1, PlaceOfCell DEF Laps, r

\* What a commit does to the fields.
LEMMA CommitsAre ==
  ASSUME NEW n \in Nat \ {0}, NEW rd \in Nat, NEW wr \in Nat, NEW k \in Nat, NEW buf,
         NEW l \in Nat
  PROVE  /\ commit_write(Ring(n, rd, wr, k, buf), l) = Ring(n, rd, (wr + l) % n, k + l, buf)
         /\ commit_read(Ring(n, rd, wr, k, buf), l) = Ring(n, (rd + l) % n, wr, k - l, buf)
<1> DEFINE r == Ring(n, rd, wr, k, buf)
           w == (wr + l) % n
           more == k + l
           d == (rd + l) % n
           less == k - l
<1>1. r.n = n /\ r.read = rd /\ r.write = wr /\ r.readable = k /\ r.buffer = buf
  BY DEF Ring
<1>2. mask(r, r.write + l) = w /\ mask(r, r.read + l) = d
  BY <1>1 DEF mask
<1>3. commit_write(r, l) = [r EXCEPT !.write = w, !.readable = more]
  BY <1>1, <1>2 DEF commit_write
<1>4. commit_read(r, l) = [r EXCEPT !.read = d, !.readable = less]
  BY <1>1, <1>2 DEF commit_read
<1> HIDE DEF w, d, more, less
<1>5. [r EXCEPT !.write = w, !.readable = more] = Ring(n, rd, w, more, buf)
  <2>1. [r EXCEPT !.write = w] = Ring(n, rd, w, k, buf)
    BY DEF Ring
  <2>2. [Ring(n, rd, w, k, buf) EXCEPT !.readable = more] = Ring(n, rd, w, more, buf)
    BY DEF Ring
  <2>3. [r EXCEPT !.write = w, !.readable = more] = [[r EXCEPT !.write = w] EXCEPT !.readable = more]
    BY DEF Ring
  <2>4. QED
    BY <2>1, <2>2, <2>3
<1>6. [r EXCEPT !.read = d, !.readable = less] = Ring(n, d, wr, less, buf)
  <2>1. [r EXCEPT !.read = d] = Ring(n, d, wr, k, buf)
    BY DEF Ring
  <2>2. [Ring(n, d, wr, k, buf) EXCEPT !.readable = less] = Ring(n, d, wr, less, buf)
    BY DEF Ring
  <2>3. [r EXCEPT !.read = d, !.readable = less] = [[r EXCEPT !.read = d] EXCEPT !.readable = less]
    BY DEF Ring
  <2>4. QED
    BY <2>1, <2>2, <2>3
<1>7. QED
  BY <1>3, <1>4, <1>5, <1>6 DEF w, d, more, less

\* The cells of r after a copy into the pieces that prepare_write offers.
Filled(r, n, buf, bytes) ==
  [c \in 0 .. n - 1 |-> IF Place(prepare_write(r), c) \in 1 .. Len(bytes)
                        THEN bytes[Place(prepare_write(r), c)] ELSE buf[c]]

\* prepare_write, a copy and commit_write: the count grows by what was copied.
LEMMA WrittenIs ==
  ASSUME NEW n \in Nat \ {0}, NEW rd \in 0 .. n - 1, NEW wr \in 0 .. n - 1,
         NEW k \in 0 .. n, NEW buf \in [0 .. n - 1 -> Byte], NEW bytes \in Seq(Byte),
         NEW r, r = Ring(n, rd, wr, k, buf)
  PROVE  Written(r, bytes) =
           Ring(n, rd, (wr + Len(bytes)) % n, k + Len(bytes), Filled(r, n, buf, bytes))
<1> DEFINE l == Len(bytes)
           v == prepare_write(r)
           filled == [c \in 0 .. n - 1 |-> IF Place(v, c) \in 1 .. l THEN bytes[Place(v, c)] ELSE buf[c]]
<1>1. r.buffer = buf /\ DOMAIN r.buffer = 0 .. n - 1
  BY DEF Ring
<1> HIDE DEF v
<1>2. CopiedTo(r, v, bytes) = [r EXCEPT !.buffer = filled]
  <2> DEFINE inner == [c \in DOMAIN r.buffer |->
                         IF Place(v, c) \in 1 .. l THEN bytes[Place(v, c)] ELSE r.buffer[c]]
  <2>1. CopiedTo(r, v, bytes) = [r EXCEPT !.buffer = inner]
    BY Zenon DEF CopiedTo
  <2>2. inner = filled
    BY <1>1, Zenon
  <2>3. QED
    BY <2>1, <2>2, Zenon
<1> HIDE DEF filled
<1>3. [r EXCEPT !.buffer = filled] = Ring(n, rd, wr, k, filled)
  BY DEF Ring
<1>4. commit_write(Ring(n, rd, wr, k, filled), l) = Ring(n, rd, (wr + l) % n, k + l, filled)
  <2>1. l \in Nat /\ rd \in Nat /\ wr \in Nat /\ k \in Nat
    OBVIOUS
  <2> HIDE DEF l
  <2>2. QED
    BY <2>1, CommitsAre
<1>5. Written(r, bytes) = commit_write(CopiedTo(r, v, bytes), l)
  BY DEF Written, v
<1>6. Written(r, bytes) = Ring(n, rd, (wr + l) % n, k + l, filled)
  BY <1>2, <1>3, <1>4, <1>5
<1>7. QED
  BY <1>6 DEF filled, v, Filled

\* The i-th cell after cell rd of n.
CellAt(n, rd, i) == IF rd + i < n THEN rd + i ELSE rd + i - n

\* The contents of a ring given by its fields.
LEMMA RingContents ==
  ASSUME NEW n \in Nat \ {0}, NEW rd \in 0 .. n - 1, NEW wr, NEW k \in 0 .. n,
         NEW buf \in [0 .. n - 1 -> Byte]
  PROVE  /\ Contents(Ring(n, rd, wr, k, buf)) \in Seq(Byte)
         /\ Len(Contents(Ring(n, rd, wr, k, buf))) = k
         /\ \A i \in 1 .. k : Contents(Ring(n, rd, wr, k, buf))[i] = buf[CellAt(n, rd, i - 1)]
<1> DEFINE cs == [i \in 1 .. k |-> buf[CellAt(n, rd, i - 1)]]
<1>1. Contents(Ring(n, rd, wr, k, buf)) = cs
  BY DEF Contents, CellAfter, CellAt, Ring
<1>2. \A i \in 1 .. k : CellAt(n, rd, i - 1) \in 0 .. n - 1
  BY DEF CellAt
<1>3. cs \in [1 .. k -> Byte] /\ k \in Nat
  BY <1>2
<1>4. \A i \in 1 .. k : cs[i] = buf[CellAt(n, rd, i - 1)]
  OBVIOUS
<1> HIDE DEF cs
<1>5. cs \in Seq(Byte) /\ Len(cs) = k
  BY <1>3
<1>6. QED
  BY <1>1, <1>4, <1>5

\* One byte of them.
LEMMA RingByte ==
  ASSUME NEW n \in Nat \ {0}, NEW rd \in 0 .. n - 1, NEW wr, NEW k \in 0 .. n, NEW buf,
         NEW i \in 1 .. k
  PROVE  Contents(Ring(n, rd, wr, k, buf))[i] = buf[CellAt(n, rd, i - 1)]
BY DEF Contents, CellAfter, CellAt, Ring

\* The cells that a copy does not reach keep their bytes, the others take theirs.
LEMMA FilledCell ==
  ASSUME NEW n \in Nat \ {0}, NEW rd \in 0 .. n - 1, NEW wr \in 0 .. n - 1,
         NEW k \in 0 .. n, NEW buf \in [0 .. n - 1 -> Byte], NEW bytes \in Seq(Byte),
         Laps(n, rd, wr, k), NEW j \in 0 .. n - 1
  PROVE  LET filled == Filled(Ring(n, rd, wr, k, buf), n, buf, bytes)
             c == CellAt(n, rd, j)
         IN /\ j < k => filled[c] = buf[c]
            /\ j >= k /\ j - k + 1 <= Len(bytes) => filled[c] = bytes[j - k + 1]
<1> DEFINE r == Ring(n, rd, wr, k, buf)
           to(x) == Place(prepare_write(r), x)
           filled == Filled(r, n, buf, bytes)
           c == CellAt(n, rd, j)
           place == j - k + 1
<1>1. filled = [x \in 0 .. n - 1 |-> IF to(x) \in 1 .. Len(bytes) THEN bytes[to(x)] ELSE buf[x]]
  BY DEF Filled
<1>2. /\ j >= k => to(CellAfter(r, j)) = place
      /\ j < k => to(CellAfter(r, j)) = 0
  BY PlaceOfRing
<1>3. CellAfter(r, j) = c
  BY DEF CellAfter, CellAt, Ring
<1>4. c \in 0 .. n - 1
  BY DEF CellAt
<1> HIDE DEF r, to, filled, c
<1>5. CASE j < k
  <2>1. to(c) \notin 1 .. Len(bytes)
    BY <1>2, <1>3, <1>5
  <2>2. filled[c] = buf[c]
    BY <1>1, <1>4, <2>1, Zenon
  <2>3. QED
    BY <1>5, <2>2 DEF filled, c, r
<1>6. CASE j >= k /\ place <= Len(bytes)
  <2>1. to(c) = place /\ place \in 1 .. Len(bytes)
    BY <1>2, <1>3, <1>6
  <2> HIDE DEF place
  <2>2. filled[c] = bytes[place]
    BY <1>1, <1>4, <2>1, Zenon
  <2>3. QED
    BY <1>6, <2>2 DEF filled, c, r, place
<1>7. QED
  BY <1>5, <1>6 DEF filled, c, r

\* And every cell holds a byte.
LEMMA FilledType ==
  ASSUME NEW n \in Nat \ {0}, NEW r, NEW buf \in [0 .. n - 1 -> Byte], NEW bytes \in Seq(Byte)
  PROVE  Filled(r, n, buf, bytes) \in [0 .. n - 1 -> Byte]
<1> DEFINE to(x) == Place(prepare_write(r), x)
<1>1. Filled(r, n, buf, bytes) =
        [x \in 0 .. n - 1 |-> IF to(x) \in 1 .. Len(bytes) THEN bytes[to(x)] ELSE buf[x]]
  BY DEF Filled
<1> HIDE DEF to
<1>2. \A x \in 1 .. Len(bytes) : bytes[x] \in Byte
  BY ElementOfSeq
<1>3. \A x \in 0 .. n - 1 : (IF to(x) \in 1 .. Len(bytes) THEN bytes[to(x)] ELSE buf[x]) \in Byte
  BY <1>2
<1>4. QED
  BY <1>1, <1>3, Zenon

\* A copy that fits is appended to the contents.
LEMMA WrittenOf ==
  ASSUME NEW r, NEW n, NEW rd, NEW wr, NEW k, NEW buf, Fields(r, n, rd, wr, k, buf),
         NEW bytes \in Seq(Byte), Len(bytes) <= n - k
  PROVE  \E wr2, buf2 :
           /\ Fields(Written(r, bytes), n, rd, wr2, k + Len(bytes), buf2)
           /\ Contents(Written(r, bytes)) = Contents(r) \o bytes
<1>0. /\ n \in Nat \ {0} /\ rd \in 0 .. n - 1 /\ wr \in 0 .. n - 1 /\ k \in 0 .. n
      /\ buf \in [0 .. n - 1 -> Byte] /\ Laps(n, rd, wr, k) /\ r = Ring(n, rd, wr, k, buf)
  BY DEF Fields, CellsIn
<1>a. k \in Nat /\ n \in Nat
  BY <1>0
<1> DEFINE buf2 == Filled(r, n, buf, bytes)
           wr2 == (wr + Len(bytes)) % n
           w == Ring(n, rd, wr2, k + Len(bytes), buf2)
<1>1. Written(r, bytes) = w
  BY <1>0, WrittenIs
<1>2. /\ buf2 \in [0 .. n - 1 -> Byte]
      /\ \A j \in 0 .. n - 1 : j < k => buf2[CellAt(n, rd, j)] = buf[CellAt(n, rd, j)]
      /\ \A j \in 0 .. n - 1 : j >= k /\ j - k + 1 <= Len(bytes) =>
           buf2[CellAt(n, rd, j)] = bytes[j - k + 1]
  <2>1. buf2 \in [0 .. n - 1 -> Byte]
    BY <1>0, FilledType
  <2>2. ASSUME NEW j \in 0 .. n - 1
        PROVE  /\ j < k => buf2[CellAt(n, rd, j)] = buf[CellAt(n, rd, j)]
               /\ j >= k /\ j - k + 1 <= Len(bytes) => buf2[CellAt(n, rd, j)] = bytes[j - k + 1]
    BY <1>0, FilledCell, SMTT(30)
  <2>3. QED
    BY <2>1, <2>2
<1>3. Len(bytes) \in 0 .. n /\ k + Len(bytes) \in 0 .. n
  BY <1>0
<1>4. wr2 = IF wr + Len(bytes) < n THEN wr + Len(bytes) ELSE wr + Len(bytes) - n
  BY <1>0, <1>3, MaskWraps
<1> HIDE DEF buf2, wr2
<1>5. wr2 \in 0 .. n - 1 /\ Laps(n, rd, wr2, k + Len(bytes))
  BY <1>0, <1>3, <1>4, SMTT(30) DEF Laps
<1>6. /\ Contents(r) \in Seq(Byte) /\ Len(Contents(r)) = k
      /\ \A i \in 1 .. k : Contents(r)[i] = buf[CellAt(n, rd, i - 1)]
  BY <1>0, RingContents
<1>7. /\ Contents(w) \in Seq(Byte) /\ Len(Contents(w)) = k + Len(bytes)
      /\ \A i \in 1 .. k + Len(bytes) : Contents(w)[i] = buf2[CellAt(n, rd, i - 1)]
  BY <1>0, <1>2, <1>3, RingContents
<1> HIDE DEF w
<1>8. /\ Contents(r) \o bytes \in Seq(Byte)
      /\ Len(Contents(r) \o bytes) = k + Len(bytes)
      /\ \A i \in 1 .. k + Len(bytes) : (Contents(r) \o bytes)[i] =
           IF i <= k THEN Contents(r)[i] ELSE bytes[i - k]
  BY <1>a, <1>6, ConcatProperties
<1>9. ASSUME NEW i \in 1 .. k + Len(bytes)
      PROVE  Contents(w)[i] = (Contents(r) \o bytes)[i]
  <2>1. i - 1 \in 0 .. n - 1
    BY <1>0, <1>3
  <2>2. Contents(w)[i] = buf2[CellAt(n, rd, i - 1)]
    BY <1>7
  <2>3. CASE i <= k
    <3>1. buf2[CellAt(n, rd, i - 1)] = buf[CellAt(n, rd, i - 1)]
      BY <1>a, <1>2, <2>1, <2>3
    <3>2. Contents(r)[i] = buf[CellAt(n, rd, i - 1)]
      BY <1>a, <1>6, <2>3
    <3>3. QED
      BY <1>8, <2>2, <2>3, <3>1, <3>2
  <2>4. CASE i > k
    <3>1. (i - 1) - k + 1 = i - k /\ i - 1 >= k /\ (i - 1) - k + 1 <= Len(bytes)
      BY <1>0, <2>4
    <3>2. buf2[CellAt(n, rd, i - 1)] = bytes[(i - 1) - k + 1]
      BY <1>2, <2>1, <3>1
    <3>3. (Contents(r) \o bytes)[i] = bytes[i - k]
      BY <1>a, <1>8, <2>4
    <3>4. QED
      BY <2>2, <3>1, <3>2, <3>3
  <2>5. i <= k \/ i > k
    BY <1>0
  <2>6. QED
    BY <2>3, <2>4, <2>5, Zenon
<1>10. Contents(w) = Contents(r) \o bytes
  BY <1>7, <1>8, <1>9, SeqEqual
<1>11. QED
  BY <1>0, <1>1, <1>2, <1>3, <1>5, <1>10 DEF w, Fields, CellsIn

\* commit_read takes what was copied from the front of the contents.
LEMMA CommitReadOf ==
  ASSUME NEW r, NEW n, NEW rd, NEW wr, NEW k, NEW buf, Fields(r, n, rd, wr, k, buf),
         NEW l \in Nat, l <= k
  PROVE  \E rd2 :
           /\ Fields(commit_read(r, l), n, rd2, wr, k - l, buf)
           /\ Contents(commit_read(r, l)) = SubSeq(Contents(r), l + 1, k)
<1>0. /\ n \in Nat \ {0} /\ rd \in 0 .. n - 1 /\ wr \in 0 .. n - 1 /\ k \in 0 .. n
      /\ buf \in [0 .. n - 1 -> Byte] /\ Laps(n, rd, wr, k) /\ r = Ring(n, rd, wr, k, buf)
  BY DEF Fields, CellsIn
<1>a. k \in Nat /\ n \in Nat
  BY <1>0
<1> DEFINE rd2 == (rd + l) % n
           left == k - l
           w == Ring(n, rd2, wr, left, buf)
<1>1. commit_read(r, l) = w
  <2>1. n \in Nat \ {0} /\ rd \in Nat /\ wr \in Nat /\ k \in Nat /\ l \in Nat
    BY <1>0
  <2>2. QED
    BY <1>0, <2>1, CommitsAre
<1>2. rd2 = IF rd + l < n THEN rd + l ELSE rd + l - n
  <2>1. l \in 0 .. n
    BY <1>0
  <2>2. QED
    BY <1>0, <2>1, MaskWraps
<1> HIDE DEF rd2
<1>3. rd2 \in 0 .. n - 1 /\ Laps(n, rd2, wr, left) /\ left \in 0 .. n
  BY <1>0, <1>2 DEF Laps
<1>4. ASSUME NEW i \in 1 .. left
      PROVE  CellAt(n, rd2, i - 1) = CellAt(n, rd, l + i - 1)
  <2>1. i \in 1 .. k - l
    OBVIOUS
  <2>2. QED
    BY <1>0, <1>2, <2>1 DEF CellAt
<1>5. /\ Contents(r) \in Seq(Byte) /\ Len(Contents(r)) = k
      /\ \A i \in 1 .. k : Contents(r)[i] = buf[CellAt(n, rd, i - 1)]
  <2>1. Contents(r) \in Seq(Byte) /\ Len(Contents(r)) = k
    BY <1>0, RingContents
  <2>2. ASSUME NEW i \in 1 .. k
        PROVE  Contents(r)[i] = buf[CellAt(n, rd, i - 1)]
    BY <1>0, RingByte
  <2>3. QED
    BY <2>1, <2>2
<1>6. left = k - l
  OBVIOUS
<1> HIDE DEF left
<1>7. /\ Contents(w) \in Seq(Byte) /\ Len(Contents(w)) = left
      /\ \A i \in 1 .. left : Contents(w)[i] = buf[CellAt(n, rd2, i - 1)]
  <2>1. Contents(w) \in Seq(Byte) /\ Len(Contents(w)) = left
    BY <1>0, <1>3, RingContents
  <2>2. ASSUME NEW i \in 1 .. left
        PROVE  Contents(w)[i] = buf[CellAt(n, rd2, i - 1)]
    BY <1>0, <1>3, RingByte
  <2>3. QED
    BY <2>1, <2>2
<1> HIDE DEF w
<1> DEFINE rest == SubSeq(Contents(r), l + 1, k)
<1>8. /\ rest \in Seq(Byte) /\ Len(rest) = left
      /\ \A i \in 1 .. left : rest[i] = Contents(r)[l + i]
  <2>1. \A i \in l + 1 .. k : Contents(r)[i] \in Byte
    BY <1>a, <1>5, ElementOfSeq
  <2>2. /\ rest \in Seq(Byte) /\ Len(rest) = IF l + 1 <= k THEN k - (l + 1) + 1 ELSE 0
        /\ \A i \in 1 .. k - (l + 1) + 1 : rest[i] = Contents(r)[(l + 1) + i - 1]
    BY <1>a, <2>1, SubSeqProperties
  <2>3. QED
    BY <1>a, <1>6, <2>2
<1> HIDE DEF rest
<1>9. ASSUME NEW i \in 1 .. left
      PROVE  Contents(w)[i] = rest[i]
  <2>1. l + i \in 1 .. k
    BY <1>a, <1>6
  <2>2. Contents(r)[l + i] = buf[CellAt(n, rd, l + i - 1)]
    BY <1>5, <2>1
  <2>3. QED
    BY <1>4, <1>7, <1>8, <2>2
<1>10. Contents(w) = rest
  BY <1>7, <1>8, <1>9, SeqEqual
<1>11. QED
  BY <1>0, <1>1, <1>3, <1>10 DEF w, rest, left, Fields, CellsIn

\* And the copy is that front.
LEMMA FirstBytesOf ==
  ASSUME NEW r, IsRing(r), NEW l \in 0 .. r.readable
  PROVE  FirstBytes(r, l) = SubSeq(Contents(r), 1, l)
<1> DEFINE cells == [i \in 1 .. r.readable |-> CellAfter(r, i - 1)]
           front == SubSeq(cells, 1, l)
<1>1. r.n \in Nat /\ r.readable \in 0 .. r.n /\ l \in Nat /\ l <= r.readable
  BY RingIndices
<1>2. Cells(prepare_read(r)) = cells
  BY PiecesOfRing
<1>3. FirstBytes(r, l) = [i \in DOMAIN front |-> r.buffer[front[i]]]
  BY <1>2 DEF FirstBytes, Bytes
<1>4. front = [i \in 1 .. l |-> CellAfter(r, i - 1)]
  BY <1>1
<1>5. FirstBytes(r, l) = [i \in 1 .. l |-> r.buffer[CellAfter(r, i - 1)]]
  BY <1>3, <1>4
<1>6. SubSeq(Contents(r), 1, l) = [i \in 1 .. l |-> r.buffer[CellAfter(r, i - 1)]]
  BY <1>1 DEF Contents
<1>7. QED
  BY <1>5, <1>6

\* Its fields are what it was described by.
LEMMA RingIsRing ==
  ASSUME NEW r, NEW n, NEW rd, NEW wr, NEW k, NEW buf, Fields(r, n, rd, wr, k, buf)
  PROVE  IsRing(r) /\ r.n = n /\ r.readable = k
<1>1. r.n = n /\ r.read = rd /\ r.write = wr /\ r.readable = k /\ r.buffer = buf
  BY DEF Fields, Ring
<1>2. QED
  BY <1>1 DEF IsRing

\* What is written to a ring that has room for it comes after its contents.
LEMMA WriteRing ==
  ASSUME NEW r, IsRing(r), NEW bytes \in Seq(Byte), Len(bytes) <= r.n - r.readable
  PROVE  /\ IsRing(Written(r, bytes))
         /\ Written(r, bytes).n = r.n
         /\ Written(r, bytes).readable = r.readable + Len(bytes)
         /\ Contents(Written(r, bytes)) = Contents(r) \o bytes
<1>1. PICK wr, buf :
        /\ Fields(Written(r, bytes), r.n, r.read, wr, r.readable + Len(bytes), buf)
        /\ Contents(Written(r, bytes)) = Contents(r) \o bytes
  BY WrittenOf DEF IsRing
<1>2. QED
  BY <1>1, RingIsRing

\* What is read from a ring is the front of its contents, and the rest stays.
LEMMA ReadRing ==
  ASSUME NEW r, IsRing(r), NEW l \in Nat, l <= r.readable
  PROVE  /\ IsRing(commit_read(r, l))
         /\ commit_read(r, l).n = r.n
         /\ commit_read(r, l).readable = r.readable - l
         /\ Contents(commit_read(r, l)) = SubSeq(Contents(r), l + 1, r.readable)
         /\ FirstBytes(r, l) = SubSeq(Contents(r), 1, l)
<1>1. PICK rd :
        /\ Fields(commit_read(r, l), r.n, rd, r.write, r.readable - l, r.buffer)
        /\ Contents(commit_read(r, l)) = SubSeq(Contents(r), l + 1, r.readable)
  BY CommitReadOf DEF IsRing
<1>2. l \in 0 .. r.readable
  BY RingIndices
<1>3. FirstBytes(r, l) = SubSeq(Contents(r), 1, l)
  BY <1>2, FirstBytesOf
<1>4. QED
  BY <1>1, <1>3, RingIsRing

\* reset empties a ring.
LEMMA ResetRing ==
  ASSUME NEW r, IsRing(r)
  PROVE  IsRing(reset(r)) /\ reset(r).n = r.n /\ reset(r).readable = 0
         /\ Contents(reset(r)) = << >>
<1> DEFINE n == r.n
           buf == r.buffer
<1>1. n \in Nat \ {0} /\ CellsIn(buf, n)
      /\ r = Ring(n, r.read, r.write, r.readable, buf)
  BY DEF IsRing, Fields
<1> HIDE DEF n, buf
<1> DEFINE r1 == [r EXCEPT !.read = 0]
           r2 == [r1 EXCEPT !.write = 0]
           r3 == [r2 EXCEPT !.readable = 0]
<1>2. reset(r) = r3
  BY <1>1 DEF reset, Ring
<1>a. /\ reset(r).n = n /\ reset(r).read = 0 /\ reset(r).write = 0 /\ reset(r).readable = 0
      /\ reset(r).buffer = buf
      /\ reset(r) = Ring(n, 0, 0, 0, buf)
  <2>1. r1 = Ring(n, 0, r.write, r.readable, buf)
    BY <1>1 DEF Ring
  <2> HIDE DEF r1
  <2>2. r2 = Ring(n, 0, 0, r.readable, buf)
    BY <2>1 DEF Ring
  <2> HIDE DEF r2
  <2>3. r3 = Ring(n, 0, 0, 0, buf)
    BY <2>2 DEF Ring
  <2>4. QED
    BY <1>2, <2>3 DEF Ring
<1>3. IsRing(reset(r))
  BY <1>1, <1>a DEF IsRing, Fields, Laps
<1>4. Contents(reset(r)) \in Seq(Byte) /\ Len(Contents(reset(r))) = 0
  BY <1>a, <1>3, ContentsOf
<1>5. QED
  BY <1>a, <1>3, <1>4, EmptySeq DEF n

------------------------------------------------------------------------------
(* Bytes in a row.                                                         *)

\* The first c bytes, and the next ones up to m.
LEMMA NextBytes ==
  ASSUME NEW s \in Seq(Byte), NEW c \in Nat, NEW m \in Nat, c <= m, m <= Len(s)
  PROVE  /\ SubSeq(s, c + 1, m) \in Seq(Byte) /\ Len(SubSeq(s, c + 1, m)) = m - c
         /\ SubSeq(s, 1, c) \in Seq(Byte) /\ Len(SubSeq(s, 1, c)) = c
         /\ SubSeq(s, 1, c) \o SubSeq(s, c + 1, m) = SubSeq(s, 1, m)
<1>1. Len(s) \in Nat /\ \A i \in 1 .. Len(s) : s[i] \in Byte
  BY LenProperties, ElementOfSeq
<1>2. /\ SubSeq(s, c + 1, m) \in Seq(Byte) /\ Len(SubSeq(s, c + 1, m)) = m - c
      /\ SubSeq(s, 1, c) \in Seq(Byte) /\ Len(SubSeq(s, 1, c)) = c
  BY <1>1, SubSeqProperties
<1>3. SubSeq(s, 1, c) \o SubSeq(s, c + 1, m) = SubSeq(s, 1, m)
  BY <1>1, ConcatAdjacentSubSeq
<1>4. QED
  BY <1>2, <1>3

\* Cut in two, and put together again.
LEMMA CutInTwo ==
  ASSUME NEW s \in Seq(Byte), NEW l \in Nat, l <= Len(s)
  PROVE  /\ SubSeq(s, 1, l) \in Seq(Byte) /\ Len(SubSeq(s, 1, l)) = l
         /\ SubSeq(s, l + 1, Len(s)) \in Seq(Byte)
         /\ Len(SubSeq(s, l + 1, Len(s))) = Len(s) - l
         /\ SubSeq(s, 1, l) \o SubSeq(s, l + 1, Len(s)) = s
<1>1. Len(s) \in Nat /\ Len(s) <= Len(s)
  BY LenProperties
<1>2. SubSeq(s, 1, Len(s)) = s
  BY SubSeqFull
<1>3. QED
  BY <1>1, <1>2, NextBytes

\* The three places of the stream.
Join(a, b, c) == a \o b \o c

\* What goes over from the last place to the second, and from the second to the first.
LEMMA JoinSecond ==
  ASSUME NEW a \in Seq(Byte), NEW b \in Seq(Byte), NEW c \in Seq(Byte), NEW d \in Seq(Byte)
  PROVE  Join(a, b \o c, d) = Join(a, b, c \o d)
<1> DEFINE x == a \o b
<1>1. x \in Seq(Byte) /\ a \o (b \o c) = x \o c
  BY ConcatProperties, SMTT(30)
<1> HIDE DEF x
<1>2. (x \o c) \o d = x \o (c \o d)
  BY <1>1
<1>3. QED
  BY <1>1, <1>2 DEF Join, x

LEMMA JoinFirst ==
  ASSUME NEW a \in Seq(Byte), NEW b \in Seq(Byte), NEW c \in Seq(Byte), NEW d
  PROVE  Join(a \o b, c, d) = Join(a, b \o c, d)
<1>1. (a \o b) \o c = a \o (b \o c)
  OBVIOUS
<1>2. QED
  BY <1>1 DEF Join

\* Take reads across the cut as if there were none.
LEMMA TakeIs ==
  ASSUME NEW a \in Seq(Byte), NEW b \in Seq(Byte), NEW from \in Nat, NEW need \in Nat \ {0},
         from + need <= Len(a) + Len(b)
  PROVE  Take(a, b, from, need) = SubSeq(a \o b, from + 1, from + need)
<1> DEFINE left == Len(a) - from
           ab == a \o b
<1>1. Len(a) \in Nat /\ Len(b) \in Nat
  BY LenProperties
<1>2. ab \in Seq(Byte) /\ Len(ab) = Len(a) + Len(b)
  BY ConcatProperties
<1>3. CASE left >= need
  <2>1. Take(a, b, from, need) = SubSeq(a, from + 1, from + need)
    <3>1. ~(left \in 0 .. need - 1) /\ ~(left < 0)
      BY <1>1, <1>3
    <3>2. QED
      BY <1>3, <3>1, Zenon DEF Take
  <2>2. from + 1 \in 1 .. Len(a) /\ from + need \in 1 .. Len(a)
    BY <1>1, <1>3
  <2>3. SubSeq(ab, from + 1, from + need) = SubSeq(a, from + 1, from + need)
    BY <2>2, SubSeqOfConcat1, Zenon
  <2>4. QED
    BY <2>1, <2>3
<1>4. CASE left < 0
  <2>1. Take(a, b, from, need) = SubSeq(b, 1 - left, need - left)
    <3>1. ~(left \in 0 .. need - 1) /\ ~(left >= need)
      BY <1>1, <1>4
    <3>2. QED
      BY <1>4, <3>1, Zenon DEF Take
  <2>2. /\ from + 1 \in Len(a) + 1 .. Len(a) + Len(b)
        /\ from + need \in Len(a) + 1 .. Len(a) + Len(b)
        /\ 1 - left = (from + 1) - Len(a) /\ need - left = (from + need) - Len(a)
    BY <1>1, <1>4
  <2>3. SubSeq(ab, from + 1, from + need) =
          SubSeq(b, (from + 1) - Len(a), (from + need) - Len(a))
    BY <2>2, SubSeqOfConcat2, Zenon
  <2>4. QED
    BY <2>1, <2>2, <2>3
<1>5. CASE left \in 0 .. need - 1
  <2> DEFINE s == SubSeq(a, from + 1, Len(a))
             t == SubSeq(b, 1, need - left)
             u == SubSeq(ab, from + 1, from + need)
  <2>1. Take(a, b, from, need) = s \o t
    <3>1. ~(left < 0) /\ ~(left >= need)
      BY <1>1, <1>5
    <3>2. QED
      BY <1>5, <3>1, Zenon DEF Take
  <2>2. \A i \in from + 1 .. Len(a) : a[i] \in Byte
    BY <1>1, ElementOfSeq
  <2>3. /\ s \in Seq(Byte) /\ Len(s) = left
        /\ \A i \in 1 .. left : s[i] = a[from + i]
    <3>1. /\ s \in Seq(Byte)
          /\ Len(s) = IF from + 1 <= Len(a) THEN Len(a) - (from + 1) + 1 ELSE 0
          /\ \A i \in 1 .. Len(a) - (from + 1) + 1 : s[i] = a[(from + 1) + i - 1]
      BY <1>1, <2>2, SubSeqProperties
    <3>2. QED
      BY <1>1, <1>5, <3>1
  <2>4. \A i \in 1 .. need - left : b[i] \in Byte
    BY <1>1, <1>5, ElementOfSeq
  <2>5. /\ t \in Seq(Byte) /\ Len(t) = need - left
        /\ \A i \in 1 .. need - left : t[i] = b[i]
    <3>1. /\ t \in Seq(Byte)
          /\ Len(t) = IF 1 <= need - left THEN (need - left) - 1 + 1 ELSE 0
          /\ \A i \in 1 .. (need - left) - 1 + 1 : t[i] = b[1 + i - 1]
      BY <1>1, <1>5, <2>4, SubSeqProperties
    <3>2. QED
      BY <1>1, <1>5, <3>1
  <2>6. \A i \in from + 1 .. from + need : ab[i] \in Byte
    BY <1>1, <1>2, ElementOfSeq
  <2>7. /\ u \in Seq(Byte) /\ Len(u) = need
        /\ \A i \in 1 .. need : u[i] = ab[from + i]
    <3>1. /\ u \in Seq(Byte)
          /\ Len(u) = IF from + 1 <= from + need THEN (from + need) - (from + 1) + 1 ELSE 0
          /\ \A i \in 1 .. (from + need) - (from + 1) + 1 : u[i] = ab[(from + 1) + i - 1]
      BY <2>6, SubSeqProperties
    <3>2. QED
      BY <3>1
  <2>8. \A i \in 1 .. Len(a) + Len(b) :
          ab[i] = IF i <= Len(a) THEN a[i] ELSE b[i - Len(a)]
    BY ConcatProperties
  <2> HIDE DEF s, t, u, ab
  <2>9. /\ s \o t \in Seq(Byte) /\ Len(s \o t) = need
        /\ \A i \in 1 .. need : (s \o t)[i] = IF i <= left THEN s[i] ELSE t[i - left]
    <3>1. Len(s) + Len(t) = need /\ Len(s) = left
      BY <1>1, <1>5, <2>3, <2>5
    <3>2. /\ s \o t \in Seq(Byte) /\ Len(s \o t) = Len(s) + Len(t)
          /\ \A i \in 1 .. Len(s) + Len(t) :
               (s \o t)[i] = IF i <= Len(s) THEN s[i] ELSE t[i - Len(s)]
      BY <2>3, <2>5, ConcatProperties
    <3>3. QED
      BY <3>1, <3>2
  <2>10. ASSUME NEW i \in 1 .. need PROVE (s \o t)[i] = u[i]
    <3>1. from + i \in 1 .. Len(a) + Len(b)
      BY <1>1
    <3>2. CASE i <= left
      <4>1. i \in 1 .. left /\ from + i <= Len(a)
        BY <1>1, <1>5, <3>2
      <4>2. QED
        BY <2>3, <2>7, <2>8, <2>9, <3>1, <3>2, <4>1
    <3>3. CASE ~(i <= left)
      <4>1. i - left \in 1 .. need - left /\ ~(from + i <= Len(a)) /\ from + i - Len(a) = i - left
        BY <1>1, <1>5, <3>3
      <4>2. (s \o t)[i] = t[i - left]
        BY <2>9, <3>3
      <4>3. t[i - left] = b[i - left]
        BY <2>5, <4>1
      <4>4. u[i] = b[i - left]
        <5>1. u[i] = ab[from + i]
          BY <2>7
        <5>2. PICK j \in 1 .. Len(a) + Len(b) : j = from + i
          BY <3>1
        <5>3. ab[j] = b[j - Len(a)]
          BY <2>8, <4>1, <5>2
        <5>4. QED
          BY <4>1, <5>1, <5>2, <5>3
      <4>5. QED
        BY <4>2, <4>3, <4>4
    <3>4. QED
      BY <3>2, <3>3
  <2>11. s \o t = u
    BY <2>7, <2>9, <2>10, SeqEqual
  <2>12. QED
    BY <2>1, <2>11 DEF s, t, u, ab
<1>6. left >= need \/ left < 0 \/ left \in 0 .. need - 1
  BY <1>1
<1>7. QED
  BY <1>3, <1>4, <1>5, <1>6

\* The two parts of a row of bytes, and a stretch of the first one.
LEMMA FrontOf ==
  ASSUME NEW s \in Seq(Byte), NEW t \in Seq(Byte), NEW l \in Nat, l = Len(s)
  PROVE  SubSeq(s \o t, 1, l) = s
OBVIOUS

LEMMA BackOf ==
  ASSUME NEW s \in Seq(Byte), NEW t \in Seq(Byte), NEW l \in Nat, l = Len(s),
         NEW m \in Nat, m = Len(t)
  PROVE  SubSeq(s \o t, l + 1, l + m) = t
OBVIOUS

LEMMA FrontKept ==
  ASSUME NEW s \in Seq(Byte), NEW t \in Seq(Byte), NEW m \in Nat \ {0}, NEW n \in Nat, n <= Len(s)
  PROVE  SubSeq(s \o t, m, n) = SubSeq(s, m, n)
OBVIOUS

\* A row that is as long as it can be has nothing after it.
LEMMA OnlyFront ==
  ASSUME NEW s \in Seq(Byte), NEW t \in Seq(Byte), NEW l \in Seq(Byte), NEW c \in Nat,
         c <= Len(l), Len(s) = Len(l), s \o t = SubSeq(l, 1, c)
  PROVE  s = l
<1>1. Len(s) \in Nat /\ Len(t) \in Nat /\ Len(l) \in Nat
  BY LenProperties
<1>2. Len(s \o t) = Len(s) + Len(t)
  BY ConcatProperties
<1>3. Len(SubSeq(l, 1, c)) = c
  BY CutInTwo
<1>4. c = Len(l)
  BY <1>1, <1>2, <1>3
<1>5. SubSeq(l, 1, Len(l)) = l
  BY SubSeqFull
<1>6. SubSeq(s \o t, 1, Len(s)) = s
  BY <1>1, FrontOf
<1>7. QED
  BY <1>4, <1>5, <1>6

------------------------------------------------------------------------------
(* A handshake's bytes.                                                    *)

\* Where the torrent's hash begins, and where the peer's id.
HashAt == 1 + Pstr + Reserved
IdAt == HashAt + InfoHash

LEMMA LengthsAre ==
  /\ Length \in Nat \ {0} /\ HashAt \in Nat /\ IdAt \in Nat
  /\ Pstr \in Nat \ {0} /\ Reserved \in Nat \ {0} /\ InfoHash \in Nat \ {0} /\ PeerId \in Nat \ {0}
  /\ HashAt = 1 + Pstr + Reserved /\ IdAt = HashAt + InfoHash /\ Length = IdAt + PeerId
BY LengthsAssumption DEF Length, HashAt, IdAt

\* A field's bytes.
LEMMA FieldIs ==
  ASSUME NEW name \in Name, NEW len \in Nat
  PROVE  /\ Field(name, len) \in Seq(Byte) /\ Len(Field(name, len)) = len
         /\ \A i \in 1 .. len : Field(name, len)[i] = <<name, i>>
<1>1. \A i \in 1 .. len : i \in Nat
  OBVIOUS
<1>2. \A i \in 1 .. len : <<name, i>> \in Byte
  BY <1>1, Zenon DEF Byte
<1> HIDE DEF Field
<1>3. Field(name, len) = [i \in 1 .. len |-> <<name, i>>]
  BY DEF Field
<1> DEFINE g == [i \in 1 .. len |-> <<name, i>>]
<1>4. g \in [1 .. len -> Byte] /\ \A i \in 1 .. len : g[i] = <<name, i>>
  BY <1>2, Zenon
<1> HIDE DEF g
<1>5. g \in Seq(Byte) /\ Len(g) = len
  BY <1>4
<1>6. QED
  BY <1>3, <1>4, <1>5 DEF g

\* The hash as the frame has it.
HashOf(f) == [i \in 1 .. InfoHash |-> IF i = f.differs THEN <<"other", i>> ELSE info_hash[i]]

LEMMA HashIs ==
  ASSUME NEW f \in Frame
  PROVE  /\ HashOf(f) \in Seq(Byte) /\ Len(HashOf(f)) = InfoHash
         /\ HashOf(f) = info_hash <=> f.differs = 0
<1>1. "hash" \in Name /\ "other" \in Name /\ InfoHash \in Nat \ {0}
  BY LengthsAre DEF Name
<1>2. /\ info_hash \in Seq(Byte) /\ Len(info_hash) = InfoHash
      /\ \A i \in 1 .. InfoHash : info_hash[i] = <<"hash", i>>
  BY <1>1, FieldIs DEF info_hash
<1>3. \A i \in 1 .. InfoHash : <<"other", i>> \in Byte /\ <<"other", i>> # <<"hash", i>>
  BY <1>1 DEF Byte
<1>4. \A i \in 1 .. InfoHash : info_hash[i] \in Byte
  BY <1>2, ElementOfSeq
<1>5. HashOf(f) \in [1 .. InfoHash -> Byte]
  BY <1>3, <1>4 DEF HashOf
<1>6. HashOf(f) \in Seq(Byte) /\ Len(HashOf(f)) = InfoHash
  BY <1>1, <1>5
<1>7. f.differs \in 0 .. InfoHash
  BY DEF Frame
<1>8. ASSUME f.differs = 0 PROVE HashOf(f) = info_hash
  <2>1. \A i \in 1 .. InfoHash : HashOf(f)[i] = info_hash[i]
    BY <1>8 DEF HashOf
  <2>2. QED
    BY <1>2, <1>6, <2>1, SeqEqual
<1>9. ASSUME f.differs # 0 PROVE HashOf(f) # info_hash
  <2>1. f.differs \in 1 .. InfoHash
    BY <1>1, <1>7, <1>9
  <2>2. HashOf(f)[f.differs] = <<"other", f.differs>> /\ info_hash[f.differs] = <<"hash", f.differs>>
    BY <1>2, <2>1 DEF HashOf
  <2>3. QED
    BY <1>3, <2>1, <2>2
<1>10. QED
  BY <1>6, <1>8, <1>9

\* The fields of a handshake that decode looks at.
LEMMA LaidIs ==
  ASSUME NEW f \in Frame
  PROVE  /\ Laid[f] \in Seq(Byte) /\ Len(Laid[f]) = Length
         /\ SubSeq(Laid[f], 1, 1) = << <<"length", IF f.length THEN 19 ELSE 0>> >>
         /\ SubSeq(Laid[f], HashAt + 1, HashAt + InfoHash) = HashOf(f)
         /\ SubSeq(Laid[f], IdAt + 1, IdAt + PeerId) = Field(f.id, PeerId)
<1> DEFINE b == <<"length", IF f.length THEN 19 ELSE 0>>
           l == <<b>>
           p == Field("pstr", Pstr)
           r == Field("reserved", Reserved)
           h == HashOf(f)
           d == Field(f.id, PeerId)
<1>1. Laid[f] = l \o p \o r \o h \o d
  BY DEF Laid, HashOf
<1>2. /\ Pstr \in Nat /\ Reserved \in Nat /\ PeerId \in Nat \ {0} /\ InfoHash \in Nat \ {0}
      /\ "pstr" \in Name /\ "reserved" \in Name /\ f.id \in Name
  BY LengthsAre DEF Frame, Name
<1>3. b \in Byte
  <2>1. "length" \in Name /\ (IF f.length THEN 19 ELSE 0) \in Nat
    BY DEF Name
  <2>2. QED
    BY <2>1, Zenon DEF Byte
<1> HIDE DEF b
<1>4. l \in Seq(Byte) /\ Len(l) = 1
  BY <1>3
<1>5. p \in Seq(Byte) /\ Len(p) = Pstr
  BY <1>2, FieldIs
<1>6. r \in Seq(Byte) /\ Len(r) = Reserved
  BY <1>2, FieldIs
<1>7. h \in Seq(Byte) /\ Len(h) = InfoHash
  BY HashIs
<1>8. d \in Seq(Byte) /\ Len(d) = PeerId
  BY <1>2, FieldIs
<1> DEFINE x == l \o p
<1>9. x \in Seq(Byte) /\ Len(x) = 1 + Pstr /\ SubSeq(x, 1, 1) = l
  <2> HIDE DEF l, p
  <2>1. x \in Seq(Byte) /\ Len(x) = 1 + Pstr
    <3>1. x \in Seq(Byte) /\ Len(x) = Len(l) + Len(p)
      BY <1>4, <1>5, ConcatProperties
    <3>2. QED
      BY <1>4, <1>5, <3>1
  <2>2. SubSeq(x, 1, 1) = l
    BY <1>4, <1>5, FrontOf
  <2>3. QED
    BY <2>1, <2>2
<1> DEFINE y == x \o r
<1>10. y \in Seq(Byte) /\ Len(y) = HashAt /\ SubSeq(y, 1, 1) = l
  <2> HIDE DEF x, r, l
  <2>1. y \in Seq(Byte) /\ Len(y) = HashAt
    BY <1>2, <1>6, <1>9, ConcatProperties, LengthsAre
  <2>2. SubSeq(y, 1, 1) = SubSeq(x, 1, 1)
    BY <1>2, <1>6, <1>9, FrontKept
  <2>3. QED
    BY <1>9, <2>1, <2>2
<1> DEFINE z == y \o h
<1>11. /\ z \in Seq(Byte) /\ Len(z) = IdAt /\ SubSeq(z, 1, 1) = l
       /\ SubSeq(z, HashAt + 1, HashAt + InfoHash) = h
  <2> HIDE DEF y, h, l
  <2>1. z \in Seq(Byte) /\ Len(z) = IdAt
    BY <1>2, <1>7, <1>10, ConcatProperties, LengthsAre
  <2>2. SubSeq(z, 1, 1) = SubSeq(y, 1, 1) /\ Len(y) >= 1
    BY <1>7, <1>10, FrontKept, LengthsAre
  <2>3. SubSeq(z, HashAt + 1, HashAt + InfoHash) = h
    BY <1>7, <1>10, BackOf
  <2>4. QED
    BY <1>10, <2>1, <2>2, <2>3
<1> DEFINE w == z \o d
<1>12. /\ w \in Seq(Byte) /\ Len(w) = Length /\ SubSeq(w, 1, 1) = l
       /\ SubSeq(w, HashAt + 1, HashAt + InfoHash) = h
       /\ SubSeq(w, IdAt + 1, IdAt + PeerId) = d
  <2> HIDE DEF z, d, h, l
  <2>1. w \in Seq(Byte) /\ Len(w) = Length
    BY <1>2, <1>8, <1>11, ConcatProperties, LengthsAre
  <2>2. SubSeq(w, 1, 1) = SubSeq(z, 1, 1) /\ SubSeq(w, HashAt + 1, HashAt + InfoHash) = SubSeq(z, HashAt + 1, HashAt + InfoHash)
    BY <1>8, <1>11, FrontKept, LengthsAre
  <2>3. SubSeq(w, IdAt + 1, IdAt + PeerId) = d
    BY <1>8, <1>11, BackOf
  <2>4. QED
    BY <1>11, <2>1, <2>2, <2>3
<1>13. QED
  BY <1>1, <1>12 DEF b

------------------------------------------------------------------------------
(* decode.                                                                 *)

\* What is copied from some cells of a ring.
LEMMA BytesIs ==
  ASSUME NEW r, IsRing(r), NEW p \in Seq(Nat), \A i \in 1 .. Len(p) : p[i] \in 0 .. r.n - 1
  PROVE  /\ Bytes(r, p) \in Seq(Byte) /\ Len(Bytes(r, p)) = Len(p)
         /\ \A i \in 1 .. Len(p) : Bytes(r, p)[i] = r.buffer[p[i]]
<1> DEFINE n == Len(p)
           g == [i \in 1 .. n |-> r.buffer[p[i]]]
<1>1. r.buffer \in [0 .. r.n - 1 -> Byte]
  BY RingIndices
<1>2. n \in Nat /\ DOMAIN p = 1 .. n
  BY LenProperties
<1>3. Bytes(r, p) = g
  BY <1>2, Zenon DEF Bytes
<1>4. \A i \in 1 .. n : r.buffer[p[i]] \in Byte
  BY <1>1, Zenon
<1>5. g \in [1 .. n -> Byte] /\ \A i \in 1 .. n : g[i] = r.buffer[p[i]]
  BY <1>4, Zenon
<1> HIDE DEF g, n
<1>6. g \in Seq(Byte) /\ Len(g) = n
  BY <1>2, <1>5
<1>7. QED
  BY <1>3, <1>5, <1>6 DEF n

\* What is copied from two rows of cells is copied from one and from the other.
LEMMA BytesOfBoth ==
  ASSUME NEW r, IsRing(r), NEW p \in Seq(Nat), NEW q \in Seq(Nat),
         \A i \in 1 .. Len(p) : p[i] \in 0 .. r.n - 1,
         \A i \in 1 .. Len(q) : q[i] \in 0 .. r.n - 1
  PROVE  Bytes(r, p \o q) = Bytes(r, p) \o Bytes(r, q)
<1> DEFINE pq == p \o q
           a == Bytes(r, p)
           b == Bytes(r, q)
           c == Bytes(r, pq)
<1>1. Len(p) \in Nat /\ Len(q) \in Nat
  BY LenProperties
<1>2. /\ pq \in Seq(Nat) /\ Len(pq) = Len(p) + Len(q)
      /\ \A i \in 1 .. Len(p) + Len(q) : pq[i] = IF i <= Len(p) THEN p[i] ELSE q[i - Len(p)]
  BY ConcatProperties
<1> HIDE DEF pq
<1>3. ASSUME NEW i \in 1 .. Len(pq) PROVE pq[i] \in 0 .. r.n - 1
  <2>1. CASE i <= Len(p)
    BY <1>1, <1>2, <2>1, SMTT(30)
  <2>2. CASE ~(i <= Len(p))
    <3>1. i - Len(p) \in 1 .. Len(q) /\ pq[i] = q[i - Len(p)]
      BY <1>1, <1>2, <2>2
    <3>2. QED
      BY <3>1
  <2>3. QED
    BY <2>1, <2>2
<1>4. /\ a \in Seq(Byte) /\ Len(a) = Len(p)
      /\ \A i \in 1 .. Len(p) : a[i] = r.buffer[p[i]]
  BY BytesIs
<1>5. /\ b \in Seq(Byte) /\ Len(b) = Len(q)
      /\ \A i \in 1 .. Len(q) : b[i] = r.buffer[q[i]]
  BY BytesIs
<1>6. /\ c \in Seq(Byte) /\ Len(c) = Len(pq)
      /\ \A i \in 1 .. Len(pq) : c[i] = r.buffer[pq[i]]
  BY <1>2, <1>3, BytesIs
<1> HIDE DEF a, b, c
<1>7. /\ a \o b \in Seq(Byte) /\ Len(a \o b) = Len(p) + Len(q)
      /\ \A i \in 1 .. Len(p) + Len(q) : (a \o b)[i] = IF i <= Len(p) THEN a[i] ELSE b[i - Len(p)]
  <2>1. /\ a \o b \in Seq(Byte) /\ Len(a \o b) = Len(a) + Len(b)
        /\ \A i \in 1 .. Len(a) + Len(b) : (a \o b)[i] = IF i <= Len(a) THEN a[i] ELSE b[i - Len(a)]
    BY <1>4, <1>5, ConcatProperties
  <2>2. QED
    BY <1>4, <1>5, <2>1
<1>8. ASSUME NEW i \in 1 .. Len(p) + Len(q) PROVE c[i] = (a \o b)[i]
  <2>1. c[i] = r.buffer[pq[i]]
    BY <1>2, <1>6
  <2>2. CASE i <= Len(p)
    <3>1. i \in 1 .. Len(p)
      BY <1>1, <2>2
    <3>2. pq[i] = p[i] /\ (a \o b)[i] = a[i] /\ a[i] = r.buffer[p[i]]
      BY <1>2, <1>4, <1>7, <2>2, <3>1
    <3>3. QED
      BY <2>1, <3>2
  <2>3. CASE ~(i <= Len(p))
    <3>1. i - Len(p) \in 1 .. Len(q)
      BY <1>1, <2>3
    <3>2. pq[i] = q[i - Len(p)] /\ (a \o b)[i] = b[i - Len(p)]
      BY <1>2, <1>7, <2>3
    <3>3. b[i - Len(p)] = r.buffer[q[i - Len(p)]]
      BY <1>5, <3>1
    <3>4. QED
      BY <2>1, <3>2, <3>3
  <2>4. QED
    BY <2>2, <2>3
<1>9. c = a \o b
  BY <1>1, <1>2, <1>6, <1>7, <1>8, SeqEqual
<1>10. QED
  BY <1>9 DEF a, b, c, pq

\* The two pieces that decode looks at, the second one empty if there is only one.
First(r) == Bytes(r, Piece(prepare_read(r)[1]))
Second(r) == IF Len(prepare_read(r)) = 2 THEN Bytes(r, Piece(prepare_read(r)[2])) ELSE << >>

\* The cells of prepare_read's pieces are cells of the ring.
LEMMA PiecesOfRead ==
  ASSUME NEW r, IsRing(r), r.readable # 0
  PROVE  \/ /\ Len(prepare_read(r)) = 1
            /\ Cells(prepare_read(r)) = Piece(prepare_read(r)[1])
         \/ /\ Len(prepare_read(r)) = 2
            /\ Cells(prepare_read(r)) = Piece(prepare_read(r)[1]) \o Piece(prepare_read(r)[2])
            /\ Piece(prepare_read(r)[1]) \in Seq(Nat) /\ Piece(prepare_read(r)[2]) \in Seq(Nat)
            /\ \A i \in 1 .. Len(Piece(prepare_read(r)[1])) : Piece(prepare_read(r)[1])[i] \in 0 .. r.n - 1
            /\ \A i \in 1 .. Len(Piece(prepare_read(r)[2])) : Piece(prepare_read(r)[2])[i] \in 0 .. r.n - 1
<1>1. /\ r.n \in Nat \ {0} /\ r.read \in 0 .. r.n - 1 /\ r.write \in 0 .. r.n - 1
      /\ r.readable \in 0 .. r.n
  BY RingIndices
<1>2. CASE r.read < r.write \/ (full(r) /\ r.read = 0)
  <2>1. prepare_read(r) = << Iovec(r.read, r.readable) >>
    BY <1>2 DEF prepare_read, empty
  <2> DEFINE v == Iovec(r.read, r.readable)
  <2> HIDE DEF v
  <2>2. Len(prepare_read(r)) = 1 /\ Cells(prepare_read(r)) = Piece(prepare_read(r)[1])
    BY <2>1 DEF Cells, v
  <2>3. QED
    BY <2>2
<1>3. CASE ~(r.read < r.write \/ (full(r) /\ r.read = 0))
  <2> DEFINE left == r.n - r.read
             wr == r.write
             rd == r.read
             v == Iovec(rd, left)
             u == Iovec(0, wr)
  <2>1. prepare_read(r) = << v, u >>
    BY <1>3 DEF prepare_read, empty
  <2>2. left \in Nat /\ wr \in Nat /\ rd \in Nat /\ 0 \in Nat
    BY <1>1
  <2>3. /\ Piece(v) \in Seq(Nat) /\ Len(Piece(v)) = left
        /\ \A i \in 1 .. left : Piece(v)[i] = rd + i - 1
    <3> HIDE DEF left, rd
    <3>1. QED
      BY <2>2, PieceCells
  <2>4. /\ Piece(u) \in Seq(Nat) /\ Len(Piece(u)) = wr
        /\ \A i \in 1 .. wr : Piece(u)[i] = 0 + i - 1
    <3> HIDE DEF wr
    <3>1. QED
      BY <2>2, PieceCells
  <2> HIDE DEF v, u
  <2>5. \A i \in 1 .. Len(Piece(v)) : Piece(v)[i] \in 0 .. r.n - 1
    BY <1>1, <2>3, SMTT(30)
  <2>6. \A i \in 1 .. Len(Piece(u)) : Piece(u)[i] \in 0 .. r.n - 1
    BY <1>1, <2>4, SMTT(30)
  <2>7. prepare_read(r)[1] = v /\ prepare_read(r)[2] = u /\ Len(prepare_read(r)) = 2
    BY <2>1
  <2>8. Cells(prepare_read(r)) = Piece(v) \o Piece(u)
    BY <2>7 DEF Cells
  <2>9. QED
    BY <2>3, <2>4, <2>5, <2>6, <2>7, <2>8
<1>4. QED
  BY <1>2, <1>3

\* Together they are the contents.
LEMMA TwoParts ==
  ASSUME NEW r, IsRing(r), r.readable # 0
  PROVE  /\ First(r) \in Seq(Byte) /\ Second(r) \in Seq(Byte)
         /\ First(r) \o Second(r) = Contents(r)
<1> DEFINE iovecs == prepare_read(r)
           p == Piece(iovecs[1])
           q == Piece(iovecs[2])
<1>1. /\ Contents(r) \in Seq(Byte) /\ r.readable \in Nat
  BY ContentsOf, RingIndices
<1>2. Bytes(r, Cells(iovecs)) = Contents(r)
  <2>1. Cells(iovecs) = [i \in 1 .. r.readable |-> CellAfter(r, i - 1)]
    BY PiecesOfRing
  <2>2. QED
    BY <2>1 DEF Bytes, Contents
<1>3. CASE Len(iovecs) = 1 /\ Cells(iovecs) = p
  <2>1. First(r) = Contents(r)
    BY <1>2, <1>3 DEF First
  <2>2. Second(r) = << >>
    BY <1>3 DEF Second
  <2>3. << >> \in Seq(Byte) /\ Contents(r) \o << >> = Contents(r)
    BY <1>1, ConcatEmptySeq, EmptySeq
  <2>4. QED
    BY <1>1, <2>1, <2>2, <2>3
<1>4. CASE /\ Len(iovecs) = 2 /\ Cells(iovecs) = p \o q
           /\ p \in Seq(Nat) /\ q \in Seq(Nat)
           /\ \A i \in 1 .. Len(p) : p[i] \in 0 .. r.n - 1
           /\ \A i \in 1 .. Len(q) : q[i] \in 0 .. r.n - 1
  <2> HIDE DEF p, q
  <2>1. Bytes(r, p \o q) = Bytes(r, p) \o Bytes(r, q)
    BY <1>4, BytesOfBoth
  <2>2. Bytes(r, p) \in Seq(Byte)
    BY <1>4, BytesIs
  <2>3. Bytes(r, q) \in Seq(Byte)
    BY <1>4, BytesIs
  <2>4. First(r) = Bytes(r, p) /\ Second(r) = Bytes(r, q)
    BY <1>4 DEF First, Second, p, q
  <2>5. QED
    BY <1>2, <1>4, <2>1, <2>2, <2>3, <2>4
<1>5. QED
  BY <1>3, <1>4, PiecesOfRead

\* What decode should say of a handshake.
Verdict(f) ==
  LET valid == f.length /\ f.differs = 0 IN
  [valid |-> valid, peer_id |-> IF valid THEN Field(f.id, PeerId) ELSE NoId]

\* It says so when the ring holds the whole of it.
LEMMA DecodeIs ==
  ASSUME NEW r, IsRing(r), r.readable # 0, NEW f \in Frame, Contents(r) = Laid[f]
  PROVE  decode(r) = Verdict(f)
<1> DEFINE a == First(r)
           b == Second(r)
           one == Take(a, b, 0, 1)
           hash == Take(a, b, HashAt, InfoHash)
           id == Take(a, b, IdAt, PeerId)
<1>1. a \in Seq(Byte) /\ b \in Seq(Byte) /\ a \o b = Laid[f]
  BY TwoParts
<1>2. decode(r) = [valid |-> one = << <<"length", 19>> >> /\ hash = info_hash,
                   peer_id |-> IF one = << <<"length", 19>> >> /\ hash = info_hash THEN id ELSE NoId]
  BY Zenon DEF decode, First, Second, HashAt, IdAt
<1> HIDE DEF a, b
<1>3. Len(a) + Len(b) = Length
  BY <1>1, LaidIs, ConcatProperties
<1>4. one = SubSeq(Laid[f], 0 + 1, 0 + 1)
  <2>1. 0 \in Nat /\ 1 \in Nat \ {0} /\ 0 + 1 <= Len(a) + Len(b)
    BY <1>3, LengthsAre
  <2>2. Take(a, b, 0, 1) = SubSeq(a \o b, 0 + 1, 0 + 1)
    BY <1>1, <2>1, TakeIs
  <2>3. QED
    BY <1>1, <2>2
<1>5. hash = SubSeq(Laid[f], HashAt + 1, HashAt + InfoHash)
  <2>1. HashAt \in Nat /\ InfoHash \in Nat \ {0} /\ HashAt + InfoHash <= Len(a) + Len(b)
    BY <1>3, LengthsAre
  <2>2. Take(a, b, HashAt, InfoHash) = SubSeq(a \o b, HashAt + 1, HashAt + InfoHash)
    BY <1>1, <2>1, TakeIs
  <2>3. QED
    BY <1>1, <2>2
<1>6. id = SubSeq(Laid[f], IdAt + 1, IdAt + PeerId)
  <2>1. IdAt \in Nat /\ PeerId \in Nat \ {0} /\ IdAt + PeerId <= Len(a) + Len(b)
    BY <1>3, LengthsAre
  <2>2. Take(a, b, IdAt, PeerId) = SubSeq(a \o b, IdAt + 1, IdAt + PeerId)
    BY <1>1, <2>1, TakeIs
  <2>3. QED
    BY <1>1, <2>2
<1> HIDE DEF one, hash, id
<1>7. one = << <<"length", IF f.length THEN 19 ELSE 0>> >> /\ hash = HashOf(f) /\ id = Field(f.id, PeerId)
  BY <1>4, <1>5, <1>6, LaidIs
<1>8. f.length \in BOOLEAN
  BY DEF Frame
<1>9. one = << <<"length", 19>> >> <=> f.length
  BY <1>7, <1>8
<1>10. hash = info_hash <=> f.differs = 0
  BY <1>7, HashIs
<1>11. QED
  BY <1>2, <1>7, <1>9, <1>10 DEF Verdict

------------------------------------------------------------------------------
(* The stream.                                                             *)

\* What the receiver holds, the socket carries and the sender holds.
Stream == Join(Contents(recv_buffer), wire, Contents(send_buffer))

TypeInv ==
  /\ frame \in Frame /\ cursor \in 0 .. Length /\ wire \in Seq(Byte)
  /\ IsRing(send_buffer) /\ IsRing(recv_buffer) /\ recv_buffer.n = Length

\* A handshake that is complete has been decoded, because recv looks every time.
StreamInv ==
  decoded = << >> => Stream = SubSeq(Laid[frame], 1, cursor) /\ recv_buffer.readable < Length

DecodedInv == decoded # << >> => decoded[1] = Verdict(frame) /\ recv_buffer.readable = 0

Inv == TypeInv /\ StreamInv /\ DecodedInv

\* An empty ring.
LEMMA EmptyIsRing ==
  ASSUME NEW n \in Nat \ {0}, NEW start \in 0 .. n - 1, NEW r,
         r = Ring(n, start, start, 0, Unused(n))
  PROVE  IsRing(r) /\ r.n = n /\ r.readable = 0 /\ Contents(r) = << >>
<1>1. <<"unused", 0>> \in Byte
  <2>1. "unused" \in Name /\ 0 \in Nat
    BY DEF Name
  <2>2. QED
    BY <2>1, Zenon DEF Byte
<1>2. CellsIn(Unused(n), n)
  BY <1>1, Zenon DEF CellsIn, Unused
<1>3. Fields(r, n, start, start, 0, Unused(n))
  BY <1>2 DEF Fields, Laps
<1>4. IsRing(r) /\ r.n = n /\ r.readable = 0
  BY <1>3, RingIsRing
<1>5. Contents(r) \in Seq(Byte) /\ Len(Contents(r)) = 0
  BY <1>4, ContentsOf
<1>6. QED
  BY <1>4, <1>5, EmptySeq

LEMMA InitInv == Init => Inv
<1> SUFFICES ASSUME Init PROVE Inv
  OBVIOUS
<1>1. PICK n \in SendSizes : send_buffer = EmptyRing(n, Unused(n))
  BY DEF Init
<1>2. PICK start \in RecvStart :
        recv_buffer = [EmptyRing(Length, Unused(Length)) EXCEPT !.read = start, !.write = start]
  BY DEF Init
<1>3. n \in Nat \ {0} /\ 0 \in 0 .. n - 1 /\ Length \in Nat \ {0} /\ start \in 0 .. Length - 1
  BY SendSizesAssumption, RecvStartAssumption, LengthsAre
<1>4. /\ IsRing(send_buffer) /\ Contents(send_buffer) = << >>
  <2>1. send_buffer = Ring(n, 0, 0, 0, Unused(n))
    BY <1>1 DEF EmptyRing, Ring
  <2>2. QED
    BY <1>3, <2>1, EmptyIsRing
<1>5. /\ IsRing(recv_buffer) /\ recv_buffer.n = Length /\ recv_buffer.readable = 0
      /\ Contents(recv_buffer) = << >>
  <2>1. recv_buffer = Ring(Length, start, start, 0, Unused(Length))
    BY <1>2 DEF EmptyRing, Ring
  <2>2. QED
    BY <1>3, <2>1, EmptyIsRing
<1>6. frame \in Frame /\ cursor = 0 /\ wire = << >> /\ decoded = << >>
  BY DEF Init
<1>7. Laid[frame] \in Seq(Byte) /\ Len(Laid[frame]) = Length
  BY <1>6, LaidIs
<1>8. Stream = << >> /\ SubSeq(Laid[frame], 1, 0) = << >> /\ << >> \in Seq(Byte)
  <2>1. << >> \o << >> \o << >> = << >> /\ << >> \in Seq(Byte)
    OBVIOUS
  <2>2. SubSeq(Laid[frame], 1, 0) = << >>
    BY SubSeqEmpty
  <2>3. QED
    BY <1>4, <1>5, <1>6, <2>1, <2>2 DEF Stream, Join
<1>9. QED
  BY <1>3, <1>4, <1>5, <1>6, <1>8 DEF Inv, TypeInv, StreamInv, DecodedInv

\* The rows of bytes in a state.
LEMMA Rows ==
  ASSUME Inv
  PROVE  /\ Contents(recv_buffer) \in Seq(Byte) /\ Len(Contents(recv_buffer)) = recv_buffer.readable
         /\ Contents(send_buffer) \in Seq(Byte) /\ Len(Contents(send_buffer)) = send_buffer.readable
         /\ recv_buffer.readable \in Nat /\ send_buffer.readable \in Nat
         /\ send_buffer.n \in Nat \ {0} /\ send_buffer.readable <= send_buffer.n
         /\ recv_buffer.readable <= Length
         /\ Laid[frame] \in Seq(Byte) /\ Len(Laid[frame]) = Length
         /\ Length \in Nat \ {0} /\ cursor \in Nat /\ cursor <= Length
<1>1. IsRing(send_buffer) /\ IsRing(recv_buffer) /\ recv_buffer.n = Length
      /\ frame \in Frame /\ cursor \in 0 .. Length
  BY DEF Inv, TypeInv
<1>2. Contents(recv_buffer) \in Seq(Byte) /\ Len(Contents(recv_buffer)) = recv_buffer.readable
  BY <1>1, ContentsOf
<1>3. Contents(send_buffer) \in Seq(Byte) /\ Len(Contents(send_buffer)) = send_buffer.readable
  BY <1>1, ContentsOf
<1>4. send_buffer.n \in Nat \ {0} /\ send_buffer.readable \in 0 .. send_buffer.n
  BY <1>1, RingIndices
<1>5. recv_buffer.n \in Nat \ {0} /\ recv_buffer.readable \in 0 .. recv_buffer.n
  BY <1>1, RingIndices
<1>6. QED
  BY <1>1, <1>2, <1>3, <1>4, <1>5, LaidIs, LengthsAre

LEMMA EncodeInv == Inv /\ encode => Inv'
<1> SUFFICES ASSUME Inv, encode PROVE Inv'
  OBVIOUS
<1> DEFINE room == prepared_bytes(prepare_write(send_buffer))
           n == IF Length - cursor < room THEN Length - cursor ELSE room
           bytes == SubSeq(Laid[frame], cursor + 1, cursor + n)
           R == Contents(recv_buffer)
           S == Contents(send_buffer)
<1>1. /\ decoded = << >> /\ cursor < Length /\ send_buffer' = Written(send_buffer, bytes)
      /\ cursor' = cursor + n /\ frame' = frame /\ wire' = wire
      /\ recv_buffer' = recv_buffer /\ decoded' = decoded
  BY DEF encode
<1>2. IsRing(send_buffer) /\ IsRing(recv_buffer) /\ wire \in Seq(Byte)
  BY DEF Inv, TypeInv
<1>3. room = send_buffer.n - send_buffer.readable
  BY <1>2, PiecesOfRing
<1>4. n \in Nat /\ n <= send_buffer.n - send_buffer.readable /\ cursor + n \in Nat
      /\ cursor <= cursor + n /\ cursor + n <= Length /\ (cursor + n) - cursor = n
  <2>1. room \in Nat /\ cursor \in Nat /\ Length \in Nat /\ cursor <= Length
    BY <1>3, Rows
  <2> HIDE DEF room
  <2>2. QED
    BY <1>3, <2>1
<1> HIDE DEF room, n
<1>5. /\ bytes \in Seq(Byte) /\ Len(bytes) = (cursor + n) - cursor
      /\ SubSeq(Laid[frame], 1, cursor) \o bytes = SubSeq(Laid[frame], 1, cursor + n)
  <2>1. Laid[frame] \in Seq(Byte) /\ cursor \in Nat /\ cursor + n <= Len(Laid[frame])
    BY <1>4, Rows
  <2>2. QED
    BY <1>4, <2>1, NextBytes
<1> HIDE DEF bytes
<1>6. IsRing(send_buffer') /\ Contents(send_buffer') = S \o bytes
  BY <1>1, <1>2, <1>4, <1>5, WriteRing
<1>7. Stream' = SubSeq(Laid[frame], 1, cursor) \o bytes
  <2>1. Stream = SubSeq(Laid[frame], 1, cursor)
    BY <1>1 DEF Inv, StreamInv
  <2>2. Stream' = Join(R, wire, S \o bytes)
    BY <1>1, <1>6 DEF Stream
  <2>3. Stream = Join(R, wire, S)
    BY DEF Stream
  <2>4. R \in Seq(Byte) /\ S \in Seq(Byte)
    BY Rows
  <2> HIDE DEF R, S
  <2>5. Join(R, wire, S) \o bytes = Join(R, wire, S \o bytes)
    <3>1. R \in Seq(Byte) /\ wire \in Seq(Byte) /\ S \in Seq(Byte) /\ bytes \in Seq(Byte)
      BY <1>2, <1>5, <2>4
    <3>2. QED
      BY <3>1 DEF Join
  <2>6. QED
    BY <2>1, <2>2, <2>3, <2>5
<1>8. TypeInv'
  BY <1>1, <1>2, <1>4, <1>6, LengthsAre DEF Inv, TypeInv
<1>9. StreamInv'
  BY <1>1, <1>5, <1>7 DEF Inv, StreamInv
<1>10. DecodedInv'
  BY <1>1 DEF DecodedInv
<1>11. QED
  BY <1>8, <1>9, <1>10 DEF Inv

LEMMA SendInv == ASSUME NEW k \in 1 .. Length, Inv, send(k) PROVE Inv'
<1> DEFINE R == Contents(recv_buffer)
           S == Contents(send_buffer)
           S1 == SubSeq(S, 1, k)
           S2 == SubSeq(S, k + 1, Len(S))
<1>1. /\ k <= send_buffer.readable /\ wire' = wire \o FirstBytes(send_buffer, k)
      /\ send_buffer' = commit_read(send_buffer, k) /\ cursor' = cursor /\ frame' = frame
      /\ recv_buffer' = recv_buffer /\ decoded' = decoded
  BY DEF send, r_available
<1>2. IsRing(send_buffer) /\ wire \in Seq(Byte)
  BY DEF Inv, TypeInv
<1>3. k \in Nat /\ R \in Seq(Byte) /\ S \in Seq(Byte) /\ Len(S) = send_buffer.readable
  BY Rows
<1>4. IsRing(send_buffer') /\ Contents(send_buffer') = S2 /\ wire' = wire \o S1
  BY <1>1, <1>2, <1>3, ReadRing
<1>5. S1 \in Seq(Byte) /\ S2 \in Seq(Byte) /\ S1 \o S2 = S
  <2> HIDE DEF S
  <2>1. QED
    BY <1>1, <1>3, CutInTwo
<1> HIDE DEF S1, S2
<1>6. wire' \in Seq(Byte)
  BY <1>2, <1>4, <1>5, ConcatProperties
<1>7. Stream' = Stream
  <2>1. Stream' = Join(R, wire \o S1, S2)
    BY <1>1, <1>4 DEF Stream
  <2>2. Stream = Join(R, wire, S)
    BY DEF Stream
  <2> HIDE DEF R, S
  <2>3. Join(R, wire \o S1, S2) = Join(R, wire, S1 \o S2)
    <3>1. S1 \in Seq(Byte) /\ S2 \in Seq(Byte) /\ R \in Seq(Byte) /\ wire \in Seq(Byte)
      BY <1>2, <1>3, <1>5
    <3>2. QED
      BY <3>1, JoinSecond
  <2>4. QED
    BY <1>5, <2>1, <2>2, <2>3
<1>8. QED
  BY <1>1, <1>4, <1>6, <1>7 DEF Inv, TypeInv, StreamInv, DecodedInv

LEMMA RecvInv == ASSUME NEW k \in 1 .. Length, Inv, recv(k) PROVE Inv'
<1> DEFINE R == Contents(recv_buffer)
           S == Contents(send_buffer)
           W1 == SubSeq(wire, 1, k)
           W2 == SubSeq(wire, k + 1, Len(wire))
           r == Written(recv_buffer, W1)
           L == Laid[frame]
<1>1. /\ decoded = << >> /\ k <= Len(wire) /\ k <= recv_buffer.n - recv_buffer.readable
      /\ wire' = W2 /\ cursor' = cursor /\ frame' = frame /\ send_buffer' = send_buffer
      /\ \/ ~Complete(r) /\ recv_buffer' = r /\ decoded' = decoded
         \/ Complete(r) /\ recv_buffer' = commit_read(r, Length) /\ decoded' = << decode(r) >>
  BY DEF recv, w_available
<1>2. /\ IsRing(recv_buffer) /\ wire \in Seq(Byte) /\ recv_buffer.n = Length
      /\ Stream = SubSeq(L, 1, cursor) /\ frame \in Frame
  BY <1>1 DEF Inv, TypeInv, StreamInv
<1>3. k \in Nat /\ R \in Seq(Byte) /\ S \in Seq(Byte)
  BY Rows
<1>4. W1 \in Seq(Byte) /\ Len(W1) = k /\ W2 \in Seq(Byte) /\ W1 \o W2 = wire
  BY <1>1, <1>2, <1>3, CutInTwo
<1> HIDE DEF W1, W2
<1>5. IsRing(r) /\ r.n = Length /\ Contents(r) = R \o W1
  BY <1>1, <1>2, <1>4, WriteRing
<1>6. prepared_bytes(prepare_read(r)) = r.readable /\ r.readable \in 0 .. Length
      /\ Contents(r) \in Seq(Byte) /\ Len(Contents(r)) = r.readable
  <2>1. r.readable \in 0 .. r.n
    BY <1>5, RingIndices
  <2>2. QED
    BY <1>5, <2>1, PiecesOfRing, ContentsOf
<1> HIDE DEF r
<1>7. Join(Contents(r), W2, S) = SubSeq(L, 1, cursor)
  <2>1. Stream = Join(R, wire, S)
    BY DEF Stream
  <2> HIDE DEF R, S
  <2>2. Join(R \o W1, W2, S) = Join(R, W1 \o W2, S)
    <3>1. R \in Seq(Byte) /\ W1 \in Seq(Byte) /\ W2 \in Seq(Byte) /\ S \in Seq(Byte)
      BY <1>3, <1>4
    <3>2. QED
      BY <3>1, JoinFirst
  <2>3. QED
    BY <1>2, <1>4, <1>5, <2>1, <2>2
<1>8. CASE ~Complete(r) /\ recv_buffer' = r /\ decoded' = decoded
  <2>1. r.readable < Length
    BY <1>6, <1>8, LengthsAre DEF Complete
  <2>2. Stream' = SubSeq(L, 1, cursor)
    BY <1>1, <1>7, <1>8 DEF Stream
  <2>3. TypeInv'
    BY <1>1, <1>4, <1>5, <1>8 DEF Inv, TypeInv
  <2>4. StreamInv'
    BY <1>1, <1>8, <2>1, <2>2 DEF StreamInv
  <2>5. DecodedInv'
    BY <1>1, <1>8 DEF DecodedInv
  <2>6. QED
    BY <2>3, <2>4, <2>5 DEF Inv
<1>9. CASE Complete(r) /\ recv_buffer' = commit_read(r, Length) /\ decoded' = << decode(r) >>
  <2>1. r.readable = Length /\ Length \in Nat \ {0}
    BY <1>6, <1>9, LengthsAre DEF Complete
  <2>2. Contents(r) = L
    <3> DEFINE C == Contents(r)
    <3>1. L \in Seq(Byte) /\ Len(L) = Length /\ cursor \in Nat /\ cursor <= Length
      BY Rows
    <3>2. C \in Seq(Byte) /\ Len(C) = Length
      BY <1>6, <2>1
    <3> HIDE DEF L, C, S
    <3>3. C \o (W2 \o S) = SubSeq(L, 1, cursor)
      <4>1. (C \o W2) \o S = C \o (W2 \o S)
        BY <1>3, <1>4, <3>2, SMTT(30)
      <4>2. QED
        BY <1>7, <4>1 DEF C, Join
    <3>4. QED
      BY <1>3, <1>4, <2>1, <3>1, <3>2, <3>3, OnlyFront DEF C
  <2>3. decode(r) = Verdict(frame)
    BY <1>2, <1>5, <2>1, <2>2, DecodeIs
  <2>4. /\ IsRing(recv_buffer') /\ (recv_buffer').n = Length /\ (recv_buffer').readable = 0
    <3>1. Length \in Nat /\ Length <= r.readable
      BY <2>1
    <3>2. /\ IsRing(commit_read(r, Length)) /\ commit_read(r, Length).n = r.n
          /\ commit_read(r, Length).readable = r.readable - Length
      BY <1>5, <3>1, ReadRing
    <3>3. QED
      BY <1>5, <1>9, <2>1, <3>2
  <2>5. decoded' # << >> /\ (decoded')[1] = Verdict(frame')
    BY <1>1, <1>9, <2>3
  <2>6. TypeInv'
    BY <1>1, <1>4, <2>4 DEF Inv, TypeInv
  <2>7. QED
    BY <2>4, <2>5, <2>6 DEF Inv, StreamInv, DecodedInv
<1>10. QED
  BY <1>1, <1>8, <1>9

LEMMA FailInv == Inv /\ fail => Inv'
<1> SUFFICES ASSUME Inv, fail PROVE Inv'
  OBVIOUS
<1>1. /\ decoded = << >> /\ decoded' = decoded /\ frame' \in Frame /\ cursor' = 0
      /\ send_buffer' = reset(send_buffer) /\ recv_buffer' = reset(recv_buffer) /\ wire' = << >>
  BY DEF fail
<1>2. IsRing(send_buffer) /\ IsRing(recv_buffer) /\ recv_buffer.n = Length
  BY DEF Inv, TypeInv
<1>3. IsRing(send_buffer') /\ Contents(send_buffer') = << >>
  BY <1>1, <1>2, ResetRing
<1>4. IsRing(recv_buffer') /\ (recv_buffer').n = Length /\ (recv_buffer').readable = 0
      /\ Contents(recv_buffer') = << >>
  BY <1>1, <1>2, ResetRing
<1>5. Stream' = << >> /\ SubSeq(Laid[frame'], 1, 0) = << >> /\ << >> \in Seq(Byte)
  <2>1. << >> \o << >> \o << >> = << >> /\ << >> \in Seq(Byte)
    OBVIOUS
  <2>2. SubSeq(Laid[frame'], 1, 0) = << >>
    BY SubSeqEmpty
  <2>3. QED
    BY <1>1, <1>3, <1>4, <2>1, <2>2 DEF Stream, Join
<1>6. QED
  BY <1>1, <1>3, <1>4, <1>5, LengthsAre DEF Inv, TypeInv, StreamInv, DecodedInv

LEMMA Invariance == Spec => []Inv
<1>1. Inv /\ [Next]_vars => Inv'
  <2> SUFFICES ASSUME Inv, [Next]_vars PROVE Inv'
    OBVIOUS
  <2>1. CASE encode
    BY <2>1, EncodeInv
  <2>2. ASSUME NEW k \in 1 .. Length, send(k) PROVE Inv'
    BY <2>2, SendInv
  <2>3. ASSUME NEW k \in 1 .. Length, recv(k) PROVE Inv'
    BY <2>3, RecvInv
  <2>4. CASE fail
    BY <2>4, FailInv
  <2>5. CASE UNCHANGED vars
    BY <2>5 DEF vars, Inv, TypeInv, StreamInv, DecodedInv, Stream
  <2>6. QED
    BY <2>1, <2>2, <2>3, <2>4, <2>5 DEF Next
<1>2. QED
  BY <1>1, InitInv, PTL DEF Spec

------------------------------------------------------------------------------
(* The theorems.                                                           *)

\* At every size of the sender's ring and every rotation of both, the iovecs of
\* prepare_read are the readable cells in order and those of prepare_write the others:
\* RingsSound.
THEOREM RingsAreSound == Spec => []RingsSound
<1>1. Inv => RingsSound
  BY RingIsOK DEF Inv, TypeInv, RingsSound
<1>2. QED
  BY <1>1, Invariance, PTL

\* However encode, sendmsg and recvmsg cut the handshake, and whatever an attempt before
\* left behind, no byte is lost, repeated or moved: StreamIntact.
THEOREM StreamIsIntact == Spec => []StreamIntact
<1>1. Inv => StreamIntact
  BY DEF Inv, StreamInv, Stream, Join, StreamIntact
<1>2. QED
  BY <1>1, Invariance, PTL

\* decode accepts exactly the handshakes for our torrent, reports the peer id that was
\* sent, wherever the ring is cut, and leaves nothing in the ring: DecodeCorrect.
THEOREM DecodeIsCorrect == Spec => []DecodeCorrect
<1>1. Inv => DecodeCorrect
  BY DEF Inv, DecodedInv, Verdict, DecodeCorrect, empty
<1>2. QED
  BY <1>1, Invariance, PTL

\* Until the handshake is decoded one end can go on, whatever the size of the rings:
\* NeverStuck.
THEOREM StreamNeverStuck == Spec => []NeverStuck
<1>1. Inv => NeverStuck
  <2> SUFFICES ASSUME Inv, decoded = << >>, cursor = Length \/ full(send_buffer),
                      empty(send_buffer)
               PROVE  wire # << >> /\ ~full(recv_buffer)
    BY Rows DEF NeverStuck
  <2>1. cursor = Length /\ send_buffer.readable = 0 /\ recv_buffer.n = Length
    BY Rows DEF full, empty, Inv, TypeInv
  <2>2. Stream = SubSeq(Laid[frame], 1, Length) /\ recv_buffer.readable < Length
    BY <2>1 DEF Inv, StreamInv
  <2>3. Len(SubSeq(Laid[frame], 1, Length)) = Length
    <3>1. SubSeq(Laid[frame], 1, Len(Laid[frame])) = Laid[frame]
      BY Rows, SubSeqFull
    <3>2. QED
      BY <3>1, Rows
  <2>4. Len(Stream) = recv_buffer.readable + Len(wire) + send_buffer.readable
    <3> DEFINE R == Contents(recv_buffer)
               S == Contents(send_buffer)
    <3>1. R \in Seq(Byte) /\ S \in Seq(Byte) /\ wire \in Seq(Byte)
      BY Rows DEF Inv, TypeInv
    <3>2. Stream = Join(R, wire, S)
      BY DEF Stream
    <3>3. Len(R) = recv_buffer.readable /\ Len(S) = send_buffer.readable
      BY Rows
    <3> HIDE DEF R, S
    <3>4. Len(Join(R, wire, S)) = Len(R) + Len(wire) + Len(S)
      BY <3>1 DEF Join
    <3>5. QED
      BY <3>2, <3>3, <3>4
  <2>5. Len(wire) # 0
    BY <2>1, <2>2, <2>3, <2>4, Rows
  <2>6. Len(<< >>) = 0
    OBVIOUS
  <2>7. QED
    BY <2>1, <2>2, <2>5, <2>6, Rows DEF full
<1>2. QED
  BY <1>1, Invariance, PTL
==============================================================================
